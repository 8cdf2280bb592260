------------------------------ MODULE GuestSession ------------------------------
(***************************************************************************)
(* The sessions of the phones at one seat (GuestSessionService and its     *)
(* guard): a phone scans the QR, belongs to the seat until the seat has a  *)
(* visit, joins that visit on its next request or opens one with its first *)
(* order, and ends with it.                                                *)
(*                                                                         *)
(* The visits of the seat follow one another and are numbered; a request   *)
(* of a phone is a chain of statements without a transaction around them,  *)
(* except for the order.  The seat stays in service (SeatVisit); a new QR  *)
(* code for it touches no session.                                         *)
(***************************************************************************)
EXTENDS Naturals

CONSTANTS
    Phones,      \* one session row each
    Requests,    \* requests of phones at a time
    MaxVisits,   \* bound: visits of the evening
    NoPhone

ASSUME PhonesAssumption == NoPhone \notin Phones /\ MaxVisits \in Nat

VARIABLES
    opened,      \* visits opened on the seat so far; the last one may be live
    live,        \* the last visit is live
    bound,       \* guest_session.visit_id (0: NULL)
    scannedAt,   \* visits opened before the scan, less one if it found a live one
    age,         \* of a session: "none", "young", "capped" (created_at + 60 minutes passed)
    orders,      \* <<phone, visit>> of committed orders
    pc, phone,   \* the next statement of a request, and the phone it is from
    view,        \* the visit the request found for the phone
    entity       \* visit_id of the row TypeORM loaded to change it

vars == <<opened, live, bound, scannedAt, age, orders, pc, phone, view, entity>>
sessions == <<bound, scannedAt, age, orders>>

VisitIds == 0..MaxVisits
Places   == {"idle", "look", "bind", "load", "slide", "handle", "rename", "save name"}

TypeOK ==
    /\ opened \in VisitIds
    /\ live \in BOOLEAN
    /\ bound \in [Phones -> VisitIds]
    /\ scannedAt \in [Phones -> VisitIds]
    /\ age \in [Phones -> {"none", "young", "capped"}]
    /\ orders \subseteq Phones \X VisitIds
    /\ pc \in [Requests -> Places]
    /\ phone \in [Requests -> Phones \cup {NoPhone}]
    /\ view \in [Requests -> VisitIds]
    /\ entity \in [Requests -> VisitIds]

Init ==
    /\ opened = 0 /\ live = FALSE
    /\ bound = [g \in Phones |-> 0]
    /\ scannedAt = [g \in Phones |-> 0]
    /\ age = [g \in Phones |-> "none"]
    /\ orders = {}
    /\ pc = [r \in Requests |-> "idle"]
    /\ phone = [r \in Requests |-> NoPhone]
    /\ view = [r \in Requests |-> 0]
    /\ entity = [r \in Requests |-> 0]

LiveVisit(v) == live /\ v = opened /\ v # 0

(* Seeded fault (Valid): the 60-minute cap is not checked.                 *)
ValidUncapped(g) == age[g] # "none" /\ (bound[g] # 0 => LiveVisit(bound[g]))

(* isValid: a bound session lives with its visit, a seat-only one 60       *)
(* minutes; its sliding expires_at is always later than that.              *)
Valid(g) ==
    /\ age[g] # "none"
    /\ IF bound[g] # 0 THEN LiveVisit(bound[g]) ELSE age[g] = "young"

-------------------------------------------------------------------------------
(* Staff and time.                                                         *)

OpenVisit ==
    /\ ~live /\ opened < MaxVisits
    /\ opened' = opened + 1 /\ live' = TRUE
    /\ UNCHANGED <<sessions, pc, phone, view, entity>>

CloseVisit ==
    /\ live
    /\ live' = FALSE
    /\ UNCHANGED <<opened, sessions, pc, phone, view, entity>>

Ages(g) ==
    /\ age[g] = "young"
    /\ age' = [age EXCEPT ![g] = "capped"]
    /\ UNCHANGED <<opened, live, bound, scannedAt, orders, pc, phone, view, entity>>

(* A scan finds the live visit or a free seat.                             *)
Scan(g) ==
    /\ age[g] = "none"
    /\ age' = [age EXCEPT ![g] = "young"]
    /\ bound' = [bound EXCEPT ![g] = IF live THEN opened ELSE 0]
    /\ scannedAt' = [scannedAt EXCEPT ![g] = IF live THEN opened - 1 ELSE opened]
    /\ UNCHANGED <<opened, live, orders, pc, phone, view, entity>>

-------------------------------------------------------------------------------
(* The guard of a request.                                                 *)

Goto(r, place) == pc' = [pc EXCEPT ![r] = place]
End(r) ==
    /\ Goto(r, "idle")
    /\ phone' = [phone EXCEPT ![r] = NoPhone]
    /\ view' = [view EXCEPT ![r] = 0]
    /\ entity' = [entity EXCEPT ![r] = 0]

Resolve(r, g) ==
    /\ pc[r] = "idle" /\ Valid(g)
    /\ phone' = [phone EXCEPT ![r] = g]
    /\ view' = [view EXCEPT ![r] = bound[g]]
    /\ Goto(r, IF bound[g] # 0 THEN "handle" ELSE "look")
    /\ UNCHANGED <<opened, live, sessions, entity>>

(* Seeded fault (FindLiveVisit): the seat's last visit, live or not.       *)
FindLastVisit(r) ==
    /\ pc[r] = "look"
    /\ IF opened # 0
       THEN Goto(r, "bind") /\ view' = [view EXCEPT ![r] = opened]
       ELSE Goto(r, "load") /\ UNCHANGED view
    /\ UNCHANGED <<opened, live, sessions, phone, entity>>

FindLiveVisit(r) ==
    /\ pc[r] = "look"
    /\ IF live
       THEN Goto(r, "bind") /\ view' = [view EXCEPT ![r] = opened]
       ELSE Goto(r, "load") /\ UNCHANGED view
    /\ UNCHANGED <<opened, live, sessions, phone, entity>>

BindNull(g, v) == bound' = [bound EXCEPT ![g] = IF @ = 0 THEN v ELSE @]

BindVisit(r) ==
    /\ pc[r] = "bind"
    /\ BindNull(phone[r], view[r])
    /\ Goto(r, "handle")
    /\ UNCHANGED <<opened, live, scannedAt, age, orders, phone, view, entity>>

(* mutate: findOne, then save().  save() compares the entity with the row  *)
(* and writes every column that differs, visit_id included.                *)
Load(r) ==
    /\ pc[r] \in {"load", "rename"}
    /\ entity' = [entity EXCEPT ![r] = bound[phone[r]]]
    /\ Goto(r, IF pc[r] = "load" THEN "slide" ELSE "save name")
    /\ UNCHANGED <<opened, live, sessions, phone, view>>

SaveEntity(r) == bound' = [bound EXCEPT ![phone[r]] = entity[r]]

SlideExpiry(r) ==
    /\ pc[r] = "slide"
    /\ SaveEntity(r)
    /\ Goto(r, "handle")
    /\ UNCHANGED <<opened, live, scannedAt, age, orders, phone, view, entity>>

-------------------------------------------------------------------------------
(* The handlers.                                                           *)

(* Requests that only read, or that lock the visit of the session and are  *)
(* refused when it closed (payments, the tab).                             *)
Read(r) ==
    /\ pc[r] = "handle"
    /\ End(r)
    /\ UNCHANGED <<opened, live, sessions>>

Rename(r) ==
    /\ pc[r] = "handle"
    /\ Goto(r, "rename")
    /\ UNCHANGED <<opened, live, sessions, phone, view, entity>>

SaveName(r) ==
    /\ pc[r] = "save name"
    /\ SaveEntity(r)
    /\ End(r)
    /\ UNCHANGED <<opened, live, scannedAt, age, orders>>

(* An order of a phone that found a visit, in one transaction.             *)
Order(r) ==
    /\ pc[r] = "handle" /\ view[r] # 0
    /\ LiveVisit(view[r])
    /\ orders' = orders \cup {<<phone[r], view[r]>>}
    /\ End(r)
    /\ UNCHANGED <<opened, live, bound, scannedAt, age>>

(* The first order: join the live visit or open one, bind, insert.         *)
FirstOrder(r) ==
    /\ pc[r] = "handle" /\ view[r] = 0
    /\ live \/ opened < MaxVisits
    /\ opened' = (IF live THEN opened ELSE opened + 1) /\ live' = TRUE
    /\ BindNull(phone[r], opened')
    /\ orders' = orders \cup {<<phone[r], opened'>>}
    /\ End(r)
    /\ UNCHANGED <<scannedAt, age>>

-------------------------------------------------------------------------------
Handle(r) ==
    \/ FindLiveVisit(r) \/ BindVisit(r) \/ Load(r) \/ SlideExpiry(r)
    \/ Read(r) \/ Rename(r) \/ SaveName(r) \/ Order(r) \/ FirstOrder(r)

(* The evening is over for the bound of the model: all visits closed, all  *)
(* phones out and answered.                                                *)
Over ==
    /\ ~live /\ opened = MaxVisits
    /\ \A r \in Requests : pc[r] = "idle"
    /\ \A g \in Phones : age[g] # "none" /\ ~Valid(g)
    /\ UNCHANGED vars

Next ==
    \/ OpenVisit \/ CloseVisit \/ Over
    \/ \E g \in Phones : Ages(g) \/ Scan(g)
    \/ \E r \in Requests : Handle(r) \/ \E g \in Phones : Resolve(r, g)

(* Of a request under way the server takes some next step; phones, staff   *)
(* and the clock promise nothing.                                          *)
Spec == Init /\ [][Next]_vars /\ \A r \in Requests : WF_vars(Handle(r))

-------------------------------------------------------------------------------
(* Properties.                                                             *)

Idle(g) == \A r \in Requests : phone[r] # g

(* BRIEF-050 AC-11: a seat-only session older than 60 minutes is never     *)
(* bound to a later visit, whatever its older requests left in the row.    *)
CappedStaysOut ==
    \A g \in Phones :
        [](age[g] = "capped" /\ bound[g] = 0 /\ Idle(g) => [](bound[g] = 0))

(* A phone is on the seat's visits from its scan on, never on one that was *)
(* over when its guests sat down; so are its orders.                       *)
NeverAnEarlierGroup ==
    /\ \A g \in Phones : bound[g] # 0 => bound[g] > scannedAt[g]
    /\ \A o \in orders : o[2] > scannedAt[o[1]]

PhoneInv == TypeOK /\ NeverAnEarlierGroup

(* DR-028: after its first order a session lives as long as the visit; a   *)
(* phone whose visit was closed is out at once.                            *)
EndsWithVisit == \A o \in orders : Valid(o[1]) => LiveVisit(o[2])
===============================================================================
