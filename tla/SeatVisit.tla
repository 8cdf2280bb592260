------------------------------- MODULE SeatVisit -------------------------------
(***************************************************************************)
(* Who sits where: staff and phones open the visit of a seat, staff close  *)
(* it, managers take seats out of service and back, and guests ring the    *)
(* bell of the seat (VisitService, TableSeatService, TableAdminService).   *)
(*                                                                         *)
(* A transaction is taken statement by statement, at READ COMMITTED: it    *)
(* holds its row locks to the end, other requests see a row it wrote after *)
(* the commit only, and an insert waits for an uncommitted row that would  *)
(* conflict with it in the unique index of live visits.                    *)
(***************************************************************************)
EXTENDS FiniteSets, Naturals

CONSTANTS
    Seats, Visits,
    Procs,           \* requests at a time; one that is answered carries another
    NoSeat, NoVisit, Nobody

ASSUME NullsAssumption ==
    NoSeat \notin Seats /\ NoVisit \notin Visits /\ Nobody \notin Procs

VARIABLES
    active,      \* table_seat.is_active
    bell,        \* "none", or the visit whose phone rang (NoVisit: a phone without one)
    visit,       \* visit.state ("none": no committed row)
    seatOf,      \* visit.table_seat_id
    pc,          \* the next statement of a request
    at, mine,    \* the seat and the visit a request works on
    shared,      \* requests that hold the seat row FOR SHARE
    locked,      \* the request that holds the seat row FOR UPDATE
    claimed      \* the request that holds the visit row FOR UPDATE

rows   == <<active, bell, visit, seatOf>>
locks  == <<shared, locked, claimed>>
vars   == <<rows, pc, at, mine, locks>>

Places == {"idle", "insert", "find", "attach", "claim", "order", "answer", "closing", "closed",
           "clear bell", "check", "dark", "ring"}

TypeOK ==
    /\ active \in [Seats -> BOOLEAN]
    /\ bell \in [Seats -> Visits \cup {NoVisit, "none"}]
    /\ visit \in [Visits -> {"none", "open", "active", "closed"}]
    /\ seatOf \in [Visits -> Seats \cup {NoSeat}]
    /\ pc \in [Procs -> Places]
    /\ at \in [Procs -> Seats \cup {NoSeat}]
    /\ mine \in [Procs -> Visits \cup {NoVisit}]
    /\ shared \in [Seats -> SUBSET Procs]
    /\ locked \in [Seats -> Procs \cup {Nobody}]
    /\ claimed \in [Visits -> Procs \cup {Nobody}]

Init ==
    /\ active = [s \in Seats |-> TRUE]
    /\ bell = [s \in Seats |-> "none"]
    /\ visit = [v \in Visits |-> "none"]
    /\ seatOf = [v \in Visits |-> NoSeat]
    /\ pc = [p \in Procs |-> "idle"]
    /\ at = [p \in Procs |-> NoSeat]
    /\ mine = [p \in Procs |-> NoVisit]
    /\ shared = [s \in Seats |-> {}]
    /\ locked = [s \in Seats |-> Nobody]
    /\ claimed = [v \in Visits |-> Nobody]

IsLive(v) == visit[v] \in {"open", "active"}
LiveOn(s) == {v \in Visits : IsLive(v) /\ seatOf[v] = s}

-------------------------------------------------------------------------------
(* Control.                                                                *)

Goto(p, place) == pc' = [pc EXCEPT ![p] = place]
On(p, s, v) == at' = [at EXCEPT ![p] = s] /\ mine' = [mine EXCEPT ![p] = v]

(* Commit or abort: the request is answered and its locks are gone.        *)
Release(p) ==
    /\ shared' = [s \in Seats |-> shared[s] \ {p}]
    /\ locked' = [s \in Seats |-> IF locked[s] = p THEN Nobody ELSE locked[s]]
    /\ claimed' = [v \in Visits |-> IF claimed[v] = p THEN Nobody ELSE claimed[v]]

End(p) == Goto(p, "idle") /\ On(p, NoSeat, NoVisit) /\ Release(p)
Abort(p) == End(p) /\ UNCHANGED rows

-------------------------------------------------------------------------------
(* Opening a visit.                                                        *)

(* A visit row p inserted and has not committed.                           *)
Inserted(p) == pc[p] \in {"claim", "order", "answer"} /\ mine[p] # NoVisit /\ visit[mine[p]] = "none"

Fresh(v) == visit[v] = "none" /\ \A q \in Procs : mine[q] # v

(* The index holds an insert back while a transaction that wrote a live    *)
(* row of the seat, or closed one, is undecided.                           *)
IndexBusy(s) ==
    \E q \in Procs : /\ at[q] = s
                     /\ Inserted(q) \/ pc[q] = "closed"

(* Seeded fault (InsertVisit): a look at the live visits, then the insert. *)
InsertVisitUnindexed(p, s, created, taken) ==
    IF LiveOn(s) = {}
    THEN \E v \in Visits : Fresh(v) /\ Goto(p, created) /\ On(p, s, v)
    ELSE Goto(p, taken) /\ On(p, s, NoVisit)

(* INSERT ... ON CONFLICT DO NOTHING.                                      *)
InsertVisit(p, s, created, taken) ==
    /\ ~IndexBusy(s)
    /\ IF LiveOn(s) = {}
       THEN \E v \in Visits : Fresh(v) /\ Goto(p, created) /\ On(p, s, v)
       ELSE Goto(p, taken) /\ On(p, s, NoVisit)

(* Bound of the model: a request opens only while a row id is left for it. *)
RowLeft ==
    Cardinality({q \in Procs : Inserted(q) \/ pc[q] = "insert"})
        < Cardinality({v \in Visits : visit[v] = "none"})

(* Staff: POST /visits locks the seat row before it inserts.               *)
ShareSeat(p, s) ==
    /\ pc[p] = "idle"
    /\ RowLeft
    /\ locked[s] = Nobody
    /\ active[s]
    /\ Goto(p, "insert") /\ On(p, s, NoVisit)
    /\ shared' = [shared EXCEPT ![s] = @ \cup {p}]
    /\ UNCHANGED <<rows, locked, claimed>>

Insert(p) ==
    /\ pc[p] = "insert"
    /\ InsertVisit(p, at[p], "answer", "attach")
    /\ UNCHANGED <<rows, locks>>

(* The seat was taken: answer with its visit, or 409 when it just closed.  *)
Attach(p) ==
    /\ pc[p] = "attach"
    /\ \/ \E v \in LiveOn(at[p]) : Goto(p, "answer") /\ On(p, at[p], v) /\ UNCHANGED <<rows, locks>>
       \/ LiveOn(at[p]) = {} /\ Abort(p)

(* Seeded fault (GuestInsert): the seat is read without FOR SHARE.         *)
GuestInsertUnshared(p, s) ==
    /\ pc[p] = "idle"
    /\ RowLeft
    /\ IF active[s] THEN InsertVisit(p, s, "claim", "find") ELSE Goto(p, "find") /\ On(p, s, NoVisit)
    /\ UNCHANGED <<rows, locks>>

(* A phone's first order: one statement looks at the seat and inserts.     *)
GuestInsert(p, s) ==
    /\ pc[p] = "idle"
    /\ RowLeft
    /\ locked[s] = Nobody
    /\ IF active[s]
       THEN /\ InsertVisit(p, s, "claim", "find")
            /\ shared' = [shared EXCEPT ![s] = @ \cup {p}]
       ELSE Goto(p, "find") /\ On(p, s, NoVisit) /\ UNCHANGED shared
    /\ UNCHANGED <<rows, locked, claimed>>

GuestFind(p) ==
    /\ pc[p] = "find"
    /\ \/ \E v \in LiveOn(at[p]) :
             active[at[p]] /\ Goto(p, "claim") /\ On(p, at[p], v) /\ UNCHANGED <<rows, locks>>
       \/ (LiveOn(at[p]) = {} \/ ~active[at[p]]) /\ Abort(p)

(* Orders of staff and of phones that belong to a visit start here.        *)
OrderOn(p, v) ==
    /\ pc[p] = "idle"
    /\ visit[v] # "none"
    /\ Goto(p, "claim") /\ On(p, seatOf[v], v)
    /\ UNCHANGED <<rows, locks>>

(* Seeded faults (Claim): the visit is read without its row lock; an order *)
(* on a closed visit is retried, not refused.                              *)
ClaimUnlocked(p) ==
    /\ pc[p] = "claim"
    /\ IF Inserted(p) \/ IsLive(mine[p]) THEN Goto(p, "order") /\ UNCHANGED <<rows, at, mine, locks>>
       ELSE Abort(p)
ClaimRetried(p) ==
    /\ pc[p] = "claim"
    /\ claimed[mine[p]] = Nobody
    /\ IF Inserted(p) \/ IsLive(mine[p])
       THEN /\ Goto(p, "order")
            /\ claimed' = [claimed EXCEPT ![mine[p]] = p]
            /\ UNCHANGED <<rows, at, mine, shared, locked>>
       ELSE UNCHANGED vars

Claim(p) ==
    /\ pc[p] = "claim"
    /\ claimed[mine[p]] = Nobody
    /\ IF Inserted(p) \/ IsLive(mine[p])
       THEN /\ Goto(p, "order")
            /\ claimed' = [claimed EXCEPT ![mine[p]] = p]
            /\ UNCHANGED <<rows, at, mine, shared, locked>>
       ELSE Abort(p)

(* The commits of POST /visits and of an order.                            *)
CommitVisit(p, state) ==
    /\ visit' = [visit EXCEPT ![mine[p]] = state]
    /\ seatOf' = [seatOf EXCEPT ![mine[p]] = at[p]]
    /\ UNCHANGED <<active, bell>>
    /\ End(p)

Answer(p) ==
    /\ pc[p] = "answer"
    /\ IF Inserted(p) THEN CommitVisit(p, "open") ELSE Abort(p)

Order(p) == pc[p] = "order" /\ CommitVisit(p, "active")

-------------------------------------------------------------------------------
(* Closing a visit.  PaymentGuard may refuse (Billing), which leaves       *)
(* everything as it is; the bell is cleared after the commit.              *)

LockVisit(p, v) ==
    /\ pc[p] = "idle"
    /\ IsLive(v)
    /\ claimed[v] = Nobody
    /\ Goto(p, "closing") /\ On(p, seatOf[v], v)
    /\ claimed' = [claimed EXCEPT ![v] = p]
    /\ UNCHANGED <<rows, shared, locked>>

CloseIfLive(p) ==
    /\ pc[p] = "closing"
    /\ Goto(p, "closed")
    /\ UNCHANGED <<rows, at, mine, locks>>

CommitClose(p) ==
    /\ pc[p] = "closed"
    /\ visit' = [visit EXCEPT ![mine[p]] = "closed"]
    /\ Goto(p, "clear bell")
    /\ Release(p)
    /\ UNCHANGED <<active, bell, seatOf, at, mine>>

SeatFree(s) == locked[s] = Nobody /\ shared[s] = {}

ClearBell(p) ==
    /\ pc[p] = "clear bell"
    /\ SeatFree(at[p])
    /\ bell' = [bell EXCEPT ![at[p]] = "none"]
    /\ End(p)
    /\ UNCHANGED <<active, visit, seatOf>>

-------------------------------------------------------------------------------
(* Seats in and out of service.                                            *)

LockSeat(p, s) ==
    /\ pc[p] = "idle"
    /\ SeatFree(s)
    /\ Goto(p, "check") /\ On(p, s, NoVisit)
    /\ locked' = [locked EXCEPT ![s] = p]
    /\ UNCHANGED <<rows, shared, claimed>>

Check(p) ==
    /\ pc[p] = "check"
    /\ IF LiveOn(at[p]) = {} /\ active[at[p]]
       THEN Goto(p, "dark") /\ UNCHANGED <<rows, at, mine, locks>>
       ELSE Abort(p)

CommitDark(p) ==
    /\ pc[p] = "dark"
    /\ active' = [active EXCEPT ![at[p]] = FALSE]
    /\ bell' = [bell EXCEPT ![at[p]] = "none"]
    /\ End(p)
    /\ UNCHANGED <<visit, seatOf>>

Activate(s) ==
    /\ SeatFree(s) /\ ~active[s]
    /\ active' = [active EXCEPT ![s] = TRUE]
    /\ UNCHANGED <<bell, visit, seatOf, pc, at, mine, locks>>

-------------------------------------------------------------------------------
(* The bell.  The guard looked at the session; the handler writes the seat *)
(* without looking again, so a phone admitted before a close may ring      *)
(* after it.                                                               *)

Admit(p, s) ==
    /\ pc[p] = "idle"
    /\ active[s]
    /\ \E v \in LiveOn(s) \cup {NoVisit} : Goto(p, "ring") /\ On(p, s, v)
    /\ UNCHANGED <<rows, locks>>

Ring(p) ==
    /\ pc[p] = "ring"
    /\ SeatFree(at[p])
    /\ bell' = [bell EXCEPT ![at[p]] = mine[p]]
    /\ End(p)
    /\ UNCHANGED <<active, visit, seatOf>>

Acknowledge(s) ==
    /\ SeatFree(s)
    /\ bell[s] # "none"
    /\ bell' = [bell EXCEPT ![s] = "none"]
    /\ UNCHANGED <<active, visit, seatOf, pc, at, mine, locks>>

-------------------------------------------------------------------------------
Begin(p) ==
    \/ \E s \in Seats : ShareSeat(p, s) \/ GuestInsert(p, s) \/ LockSeat(p, s) \/ Admit(p, s)
    \/ \E v \in Visits : OrderOn(p, v) \/ LockVisit(p, v)

Proceed(p) ==
    \/ Insert(p) \/ Attach(p) \/ GuestFind(p) \/ Claim(p) \/ Answer(p) \/ Order(p)
    \/ CloseIfLive(p) \/ CommitClose(p) \/ ClearBell(p)
    \/ Check(p) \/ CommitDark(p) \/ Ring(p)

Next ==
    \/ \E p \in Procs : Begin(p) \/ Proceed(p)
    \/ \E s \in Seats : Activate(s) \/ Acknowledge(s)

Spec == Init /\ [][Next]_vars

(* The server carries a request on as long as nothing blocks it.           *)
FairSpec == Spec /\ \A p \in Procs : WF_vars(Proceed(p))

-------------------------------------------------------------------------------
(* Properties.                                                             *)

(* FRD 3, BRIEF-048 AC-2: a seat has one live visit, however many phones   *)
(* and staff open it at once.                                              *)
OneLivePerSeat == \A s \in Seats : \A v, w \in LiveOn(s) : v = w

(* CD-13 R5: no guests on a seat that is out of service, although opening  *)
(* and deactivating look at different rows.                                *)
NoGuestsOnDarkSeat == \A s \in Seats : ~active[s] => LiveOn(s) = {}

(* An order lands on a live visit: no close slips between the look at the  *)
(* visit and the commit of the order, and none is reopened by it.          *)
ClosedStaysClosed == [][\A v \in Visits : visit[v] = "closed" => visit'[v] = "closed"]_vars

(* Locks and the index never leave requests waiting for each other: once   *)
(* no more of them arrive, all are answered.                               *)
AllAnswered ==
    <>[][\A p \in Procs : ~Begin(p)]_vars =>
        \A p \in Procs : (pc[p] # "idle") ~> (pc[p] = "idle")
===============================================================================
