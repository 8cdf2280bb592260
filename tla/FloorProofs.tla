------------------------------ MODULE FloorProofs ------------------------------
(***************************************************************************)
(* Proofs about the clients on the floor.                                  *)
(*                                                                         *)
(* GuestSession, for any number of phones, requests and visits: a phone    *)
(* joins no visit that was over at its scan, and none at all once its hour *)
(* is up.  The first rests on what each request carries to its next        *)
(* statement (Carries): the visit it found, and the row it loaded to write *)
(* it back.                                                                *)
(*                                                                         *)
(* LiveBoard, for any number of tickets, seats and staff: once nothing is  *)
(* on its way, a screen shows the rows.  Both rest on what still makes up  *)
(* for a row that is not shown (MadeUp).                                   *)
(***************************************************************************)
EXTENDS GuestSession, LiveBoard, TLAPS

USE PhonesAssumption

(* A request under way is of a phone that scanned; no other holds a row.   *)
OfAPhone ==
    \A r \in Requests :
        /\ IF pc[r] = "idle" THEN entity[r] = 0 ELSE phone[r] \in Phones
        /\ phone[r] \in Phones => age[phone[r]] # "none"

(* A scan is never ahead of the visits of the seat, and behind the live one.*)
ScansKnown ==
    /\ live => opened # 0
    /\ \A g \in Phones : scannedAt[g] <= opened /\ (live => scannedAt[g] < opened)

(* What a request brings to the row is of a visit after the scan.          *)
Carries ==
    \A r \in Requests : phone[r] \in Phones =>
        /\ view[r] # 0 => view[r] > scannedAt[phone[r]]
        /\ entity[r] # 0 => entity[r] > scannedAt[phone[r]]

(* Who orders has scanned.                                                 *)
OrdersKnown == \A o \in orders : age[o[1]] # "none"

GuestInv ==
    /\ TypeOK /\ NeverAnEarlierGroup
    /\ OfAPhone /\ ScansKnown /\ Carries /\ OrdersKnown

-------------------------------------------------------------------------------
LEMMA GuestInit == Init => GuestInv
<1> SUFFICES ASSUME Init PROVE GuestInv
  OBVIOUS
<1>1. TypeOK
  <2>1. 0 \in VisitIds /\ "idle" \in Places
    BY DEF VisitIds, Places
  <2>2. orders \subseteq Phones \X VisitIds
    BY DEF Init
  <2> QED
    BY <2>1, <2>2 DEF Init, TypeOK
<1>2. NeverAnEarlierGroup /\ OfAPhone /\ ScansKnown /\ Carries /\ OrdersKnown
  BY DEF Init, NeverAnEarlierGroup, OfAPhone, ScansKnown, Carries, OrdersKnown
<1> QED
  BY <1>1, <1>2 DEF GuestInv

(* Staff and time.                                                         *)
LEMMA HouseSteps ==
    ASSUME GuestInv, OpenVisit \/ CloseVisit \/ Over \/ \E g \in Phones : Ages(g)
    PROVE  GuestInv'
<1> USE DEF GuestInv, TypeOK, NeverAnEarlierGroup, OfAPhone, ScansKnown, Carries,
            OrdersKnown, VisitIds, sessions
<1>1. CASE OpenVisit
  BY <1>1 DEF OpenVisit
<1>2. CASE CloseVisit
  BY <1>2 DEF CloseVisit
<1>3. CASE Over
  BY <1>3 DEF Over, vars
<1>4. ASSUME NEW g \in Phones, Ages(g)
      PROVE  GuestInv'
  <2>1. \A p \in Phones : age'[p] = "none" <=> age[p] = "none"
    BY <1>4 DEF Ages
  <2>2. age' \in [Phones -> {"none", "young", "capped"}]
    BY <1>4 DEF Ages
  <2>3. \A o \in orders : o[1] \in Phones
    OBVIOUS
  <2>4. TypeOK' /\ NeverAnEarlierGroup' /\ ScansKnown' /\ Carries'
    BY <1>4, <2>2 DEF Ages
  <2>5. OfAPhone' /\ OrdersKnown'
    BY <1>4, <2>1, <2>3 DEF Ages
  <2> QED
    BY <2>4, <2>5
<1> QED
  BY <1>1, <1>2, <1>3, <1>4

(* A phone that scans has no request and no order yet.                     *)
LEMMA ScanStep ==
    ASSUME GuestInv, NEW g \in Phones, Scan(g)
    PROVE  GuestInv'
<1> USE DEF GuestInv, TypeOK, VisitIds
<1>1. /\ age' \in [Phones -> {"none", "young", "capped"}]
      /\ age'[g] = "young" /\ \A p \in Phones \ {g} : age'[p] = age[p]
  BY DEF Scan
<1>2. /\ bound' \in [Phones -> VisitIds] /\ scannedAt' \in [Phones -> VisitIds]
      /\ bound'[g] # 0 => bound'[g] > scannedAt'[g]
      /\ scannedAt'[g] <= opened /\ (live => scannedAt'[g] < opened)
      /\ \A p \in Phones \ {g} : bound'[p] = bound[p] /\ scannedAt'[p] = scannedAt[p]
  BY DEF Scan, ScansKnown
<1>3. \A r \in Requests : phone[r] # g
  BY DEF Scan, OfAPhone
<1>4. \A o \in orders : o[1] \in Phones \ {g} /\ o[2] \in VisitIds
  BY DEF Scan, OrdersKnown
<1>5. TypeOK' /\ ScansKnown'
  BY <1>1, <1>2 DEF Scan, ScansKnown
<1>6. NeverAnEarlierGroup' /\ OrdersKnown'
  BY <1>1, <1>2, <1>4 DEF Scan, NeverAnEarlierGroup, OrdersKnown
<1>7. OfAPhone' /\ Carries'
  BY <1>1, <1>2, <1>3 DEF Scan, OfAPhone, Carries
<1> QED
  BY <1>5, <1>6, <1>7

-------------------------------------------------------------------------------
(* A step of one request leaves the scans and the other requests alone.    *)
Frame(r) ==
    /\ UNCHANGED <<scannedAt, age>>
    /\ \A q \in Requests \ {r} : /\ pc'[q] = pc[q] /\ phone'[q] = phone[q]
                                  /\ view'[q] = view[q] /\ entity'[q] = entity[q]

(* What it carries on, or that it is answered.                             *)
Fits(r, v, e) ==
    /\ v # 0 => v > scannedAt[phone[r]]
    /\ e # 0 => e > scannedAt[phone[r]]

CarriesOn(r) ==
    /\ phone[r] \in Phones /\ phone'[r] = phone[r]
    /\ pc'[r] # "idle" /\ Fits(r, view'[r], entity'[r])
IsAnswered(r)  == pc'[r] = "idle" /\ phone'[r] = NoPhone /\ entity'[r] = 0

LEMMA RequestStep ==
    ASSUME GuestInv, NEW r \in Requests, Frame(r), CarriesOn(r) \/ IsAnswered(r),
           TypeOK', NeverAnEarlierGroup', ScansKnown', OrdersKnown'
    PROVE  GuestInv'
<1>1. OfAPhone'
  BY DEF GuestInv, TypeOK, OfAPhone, Frame, CarriesOn, IsAnswered
<1>2. Carries'
  <2> SUFFICES ASSUME NEW q \in Requests, phone'[q] \in Phones
               PROVE  /\ view'[q] # 0 => view'[q] > scannedAt[phone'[q]]
                      /\ entity'[q] # 0 => entity'[q] > scannedAt[phone'[q]]
    BY DEF Carries, Frame
  <2>1. CASE q = r
    BY <2>1 DEF CarriesOn, IsAnswered, Fits
  <2>2. CASE q # r
    BY <2>2 DEF GuestInv, Carries, Frame
  <2> QED
    BY <2>1, <2>2
<1> QED
  BY <1>1, <1>2 DEF GuestInv

(* A request that only looks.                                              *)
LEMMA LookStep ==
    ASSUME GuestInv, NEW r \in Requests, Frame(r), CarriesOn(r) \/ IsAnswered(r),
           TypeOK', UNCHANGED <<opened, live, sessions>>
    PROVE  GuestInv'
<1>1. NeverAnEarlierGroup' /\ ScansKnown' /\ OrdersKnown'
  BY DEF GuestInv, NeverAnEarlierGroup, ScansKnown, OrdersKnown, sessions
<1> QED
  BY <1>1, RequestStep

LEMMA ResolveStep ==
    ASSUME GuestInv, NEW r \in Requests, NEW g \in Phones, Resolve(r, g)
    PROVE  GuestInv'
<1> USE DEF GuestInv, TypeOK
<1>1. TypeOK'
  BY DEF Resolve, Goto, Places, sessions
<1>2. /\ phone'[r] = g /\ view'[r] = bound[g] /\ age[g] # "none"
      /\ \A q \in Requests \ {r} : pc'[q] = pc[q] /\ phone'[q] = phone[q] /\ view'[q] = view[q]
      /\ entity' = entity /\ UNCHANGED <<opened, live, sessions>>
  BY DEF Resolve, Goto, Valid
<1>3. entity[r] = 0
  BY DEF Resolve, OfAPhone
<1>4. NeverAnEarlierGroup' /\ ScansKnown' /\ OrdersKnown'
  BY <1>2 DEF NeverAnEarlierGroup, ScansKnown, OrdersKnown, sessions
<1>5. OfAPhone'
  BY <1>2 DEF OfAPhone, sessions, Resolve, Goto
<1>6. Carries'
  BY <1>2, <1>3 DEF Carries, NeverAnEarlierGroup, sessions
<1> QED
  BY <1>1, <1>4, <1>5, <1>6

-------------------------------------------------------------------------------
(* What a request brings to the row of its phone is of a visit after the   *)
(* scan, so writing it keeps the phone with its group.                     *)
LEMMA BoundLater ==
    ASSUME GuestInv, NEW g \in Phones, NEW v \in VisitIds, v # 0 => v > scannedAt[g],
           bound' = [bound EXCEPT ![g] = v], UNCHANGED <<scannedAt, orders>>
    PROVE  bound' \in [Phones -> VisitIds] /\ NeverAnEarlierGroup'
BY DEF GuestInv, TypeOK, NeverAnEarlierGroup

LEMMA BindStep ==
    ASSUME GuestInv, NEW r \in Requests, BindVisit(r)
    PROVE  GuestInv'
<1> USE DEF GuestInv, TypeOK
<1>1. PICK v \in VisitIds : /\ bound' = [bound EXCEPT ![phone[r]] = v]
                            /\ v # 0 => v > scannedAt[phone[r]]
  <2>1. phone[r] \in Phones /\ Fits(r, view[r], entity[r])
    BY DEF BindVisit, OfAPhone, Carries, Fits
  <2>2. Fits(r, bound[phone[r]], 0)
    BY <2>1 DEF NeverAnEarlierGroup, Fits
  <2> QED
    BY <2>1, <2>2 DEF BindVisit, BindNull, Fits
<1>2. phone[r] \in Phones
  BY DEF BindVisit, OfAPhone
<1>3. bound' \in [Phones -> VisitIds] /\ NeverAnEarlierGroup'
  BY <1>1, <1>2, BoundLater DEF BindVisit
<1>4. TypeOK' /\ ScansKnown' /\ OrdersKnown' /\ Frame(r) /\ CarriesOn(r)
  BY <1>2, <1>3 DEF BindVisit, Goto, Places, ScansKnown, OrdersKnown, Frame, CarriesOn,
                    Carries, Fits
<1> QED
  BY <1>3, <1>4, RequestStep

(* A row that was loaded is written back with the visit it had then.       *)
LEMMA SaveStep ==
    ASSUME GuestInv, NEW r \in Requests, SlideExpiry(r) \/ SaveName(r)
    PROVE  GuestInv'
<1> USE DEF GuestInv, TypeOK
<1>1. phone[r] \in Phones /\ Fits(r, view[r], entity[r])
  BY DEF SlideExpiry, SaveName, OfAPhone, Carries, Fits
<1>2. /\ bound' = [bound EXCEPT ![phone[r]] = entity[r]]
      /\ UNCHANGED <<opened, live, scannedAt, age, orders>>
  BY DEF SlideExpiry, SaveName, SaveEntity
<1>3. bound' \in [Phones -> VisitIds] /\ NeverAnEarlierGroup'
  BY <1>1, <1>2, BoundLater DEF Fits
<1>4. TypeOK' /\ Frame(r) /\ (CarriesOn(r) \/ IsAnswered(r))
  <2>1. CASE SlideExpiry(r)
    BY <1>1, <1>2, <1>3, <2>1 DEF SlideExpiry, Goto, Places, Frame, CarriesOn
  <2>2. CASE SaveName(r)
    <3>1. 0 \in VisitIds
      BY DEF VisitIds
    <3> QED
      BY <1>2, <1>3, <2>2, <3>1 DEF SaveName, End, Goto, Places, Frame, IsAnswered
  <2> QED
    BY <2>1, <2>2
<1>5. ScansKnown' /\ OrdersKnown'
  BY <1>2 DEF ScansKnown, OrdersKnown
<1> QED
  BY <1>3, <1>4, <1>5, RequestStep

LEMMA LookSteps ==
    ASSUME GuestInv, NEW r \in Requests,
           FindLiveVisit(r) \/ Load(r) \/ Read(r) \/ Rename(r)
    PROVE  GuestInv'
<1> USE DEF GuestInv, TypeOK
<1>1. CASE FindLiveVisit(r)
  <2>1. phone[r] \in Phones /\ Fits(r, view[r], entity[r])
    BY <1>1 DEF FindLiveVisit, OfAPhone, Carries, Fits
  <2>2. live => Fits(r, opened, entity[r])
    BY <2>1 DEF ScansKnown, Fits
  <2>3. UNCHANGED <<opened, live, bound, scannedAt, age, orders, phone, entity>>
    BY <1>1 DEF FindLiveVisit, sessions
  <2>4. PICK place \in {"bind", "load"} : pc' = [pc EXCEPT ![r] = place]
    BY <1>1 DEF FindLiveVisit, Goto
  <2>5. PICK v \in VisitIds : view' = [view EXCEPT ![r] = v] /\ Fits(r, v, entity[r])
    <3>1. CASE live
      BY <1>1, <2>2, <3>1 DEF FindLiveVisit
    <3>2. CASE ~live
      BY <1>1, <2>1, <3>2 DEF FindLiveVisit
    <3> QED
      BY <3>1, <3>2
  <2>6. TypeOK'
    BY <2>3, <2>4, <2>5 DEF Places
  <2>7. Frame(r) /\ CarriesOn(r)
    BY <2>1, <2>3, <2>4, <2>5 DEF Frame, CarriesOn, Fits
  <2> QED
    BY <2>3, <2>6, <2>7, LookStep DEF sessions
<1>2. CASE Load(r)
  <2>1. phone[r] \in Phones /\ Fits(r, view[r], bound[phone[r]])
    BY <1>2 DEF Load, OfAPhone, Carries, Fits, NeverAnEarlierGroup
  <2>2. TypeOK' /\ Frame(r) /\ CarriesOn(r) /\ UNCHANGED <<opened, live, sessions>>
    BY <1>2, <2>1 DEF Load, Goto, Places, Frame, CarriesOn, sessions, Fits
  <2> QED
    BY <2>2, LookStep
<1>3. CASE Read(r)
  <2>1. 0 \in VisitIds
    BY DEF VisitIds
  <2>2. TypeOK' /\ Frame(r) /\ IsAnswered(r) /\ UNCHANGED <<opened, live, sessions>>
    BY <1>3, <2>1 DEF Read, End, Goto, Places, Frame, IsAnswered, sessions
  <2> QED
    BY <2>2, LookStep
<1>4. CASE Rename(r)
  <2>1. phone[r] \in Phones /\ Fits(r, view[r], entity[r])
    BY <1>4 DEF Rename, OfAPhone, Carries, Fits
  <2>2. TypeOK' /\ Frame(r) /\ CarriesOn(r) /\ UNCHANGED <<opened, live, sessions>>
    BY <1>4, <2>1 DEF Rename, Goto, Places, Frame, CarriesOn, sessions, Fits
  <2> QED
    BY <2>2, LookStep
<1> QED
  BY <1>1, <1>2, <1>3, <1>4

(* An order is on the visit its request found, or on the one it opens.     *)
LEMMA OrderSteps ==
    ASSUME GuestInv, NEW r \in Requests, Order(r) \/ FirstOrder(r)
    PROVE  GuestInv'
<1> USE DEF GuestInv, TypeOK
<1>1. phone[r] \in Phones /\ age[phone[r]] # "none" /\ Fits(r, view[r], entity[r])
  BY DEF Order, FirstOrder, OfAPhone, Carries, Fits
<1>2. /\ pc' \in [Requests -> Places] /\ phone' \in [Requests -> Phones \cup {NoPhone}]
      /\ view' \in [Requests -> VisitIds] /\ entity' \in [Requests -> VisitIds]
      /\ Frame(r) /\ IsAnswered(r)
  <2>1. End(r) /\ UNCHANGED <<scannedAt, age>>
    BY DEF Order, FirstOrder
  <2>2. 0 \in VisitIds
    BY DEF VisitIds
  <2>3. "idle" \in Places
    BY DEF Places
  <2> QED
    BY <2>1, <2>2, <2>3 DEF End, Goto, Frame, IsAnswered
<1>3. PICK v \in VisitIds : orders' = orders \cup {<<phone[r], v>>} /\ v > scannedAt[phone[r]]
                            /\ \/ Order(r)
                               \/ FirstOrder(r) /\ v = opened'
  <2>1. CASE Order(r)
    BY <1>1, <2>1 DEF Order, Fits
  <2>2. CASE FirstOrder(r)
    <3>1. opened' \in VisitIds /\ opened' > scannedAt[phone[r]]
      BY <1>1, <2>2 DEF FirstOrder, ScansKnown, VisitIds
    <3> QED
      BY <2>2, <3>1 DEF FirstOrder
  <2> QED
    BY <2>1, <2>2
<1>4. /\ orders' \subseteq Phones \X VisitIds /\ OrdersKnown'
      /\ \A o \in orders' : o[2] > scannedAt'[o[1]]
  <2>1. \A o \in orders' : o \in orders \/ o = <<phone[r], v>>
    BY <1>3
  <2> QED
    BY <1>1, <1>2, <1>3, <2>1 DEF OrdersKnown, NeverAnEarlierGroup, Frame
<1>5. /\ bound' \in [Phones -> VisitIds] /\ opened' \in VisitIds /\ live' \in BOOLEAN
      /\ \A g \in Phones : bound'[g] # 0 => bound'[g] > scannedAt[g]
      /\ ScansKnown'
  <2>1. CASE Order(r)
    BY <2>1 DEF Order, ScansKnown, NeverAnEarlierGroup
  <2>2. CASE FirstOrder(r)
    <3>1. /\ opened' \in VisitIds /\ opened' >= opened /\ opened' # 0 /\ live'
          /\ UNCHANGED scannedAt
          /\ \A g \in Phones : scannedAt[g] < opened'
      BY <2>2 DEF FirstOrder, ScansKnown, VisitIds
    <3>2. /\ bound' \in [Phones -> VisitIds]
          /\ \A g \in Phones : bound'[g] = bound[g] \/ bound'[g] = opened'
      BY <1>1, <2>2, <3>1 DEF FirstOrder, BindNull
    <3>3. ScansKnown'
      BY <3>1 DEF ScansKnown, VisitIds
    <3>4. \A g \in Phones : bound'[g] # 0 => bound'[g] > scannedAt[g]
      BY <3>1, <3>2 DEF NeverAnEarlierGroup, VisitIds
    <3>5. live' \in BOOLEAN
      BY <2>2 DEF FirstOrder
    <3> QED
      BY <3>1, <3>2, <3>3, <3>4, <3>5
  <2> QED
    BY <2>1, <2>2
<1>6. TypeOK' /\ NeverAnEarlierGroup'
  BY <1>2, <1>4, <1>5 DEF Frame, NeverAnEarlierGroup
<1> QED
  BY <1>2, <1>4, <1>5, <1>6, RequestStep

-------------------------------------------------------------------------------
LEMMA GuestInvariance == Spec => []GuestInv
<1>1. GuestInv /\ [Next]_vars => GuestInv'
  <2> SUFFICES ASSUME GuestInv, [Next]_vars PROVE GuestInv'
    OBVIOUS
  <2>1. CASE UNCHANGED vars
    BY <2>1, HouseSteps DEF Over, GuestInv, TypeOK, NeverAnEarlierGroup, OfAPhone, ScansKnown,
       Carries, OrdersKnown, vars
  <2>2. CASE Next
    BY <2>2, HouseSteps, ScanStep, ResolveStep, BindStep, SaveStep, LookSteps, OrderSteps
       DEF Next, Handle
  <2> QED
    BY <2>1, <2>2
<1> QED
  BY <1>1, GuestInit, PTL DEF Spec

(* A phone is on the seat's visits from its scan on: it and its orders are *)
(* on no visit that was over when its guests sat down, whatever its        *)
(* requests found, loaded and wrote back in between (PhoneInv).            *)
THEOREM PhonesKeepTheirGroup == Spec => []PhoneInv
<1>1. GuestInv => PhoneInv
  BY DEF GuestInv, PhoneInv
<1> QED
  BY <1>1, GuestInvariance, PTL

(* A phone whose hour is up without a visit, and with no request under     *)
(* way, is let in by no guard any more and is never bound (CappedStaysOut).*)
Capped(g) == age[g] = "capped" /\ bound[g] = 0 /\ Idle(g)

LEMMA CappedStays ==
    ASSUME NEW g \in Phones, GuestInv, Capped(g), [Next]_vars
    PROVE  Capped(g)'
<1> USE DEF GuestInv, TypeOK, Capped, Idle
<1>1. CASE UNCHANGED vars
  BY <1>1 DEF vars
<1>2. CASE OpenVisit \/ CloseVisit \/ Over
  BY <1>2 DEF OpenVisit, CloseVisit, Over, vars, sessions
<1>3. ASSUME NEW p \in Phones, Ages(p) \/ Scan(p)
      PROVE  Capped(g)'
  BY <1>3 DEF Ages, Scan
<1>4. ASSUME NEW r \in Requests, Handle(r)
      PROVE  Capped(g)'
  <2>1. pc[r] # "idle"
    BY <1>4 DEF Handle, FindLiveVisit, BindVisit, Load, SlideExpiry, Read, Rename,
                SaveName, Order, FirstOrder
  <2>2. phone[r] \in Phones \ {g}
    BY <2>1 DEF OfAPhone
  <2>3. age' = age /\ bound'[g] = bound[g]
    BY <1>4, <2>2 DEF Handle, FindLiveVisit, BindVisit, Load, SlideExpiry, Read, Rename,
                      SaveName, Order, FirstOrder, sessions, BindNull, SaveEntity
  <2>4. phone' = phone \/ phone' = [phone EXCEPT ![r] = NoPhone]
    BY <1>4 DEF Handle, FindLiveVisit, BindVisit, Load, SlideExpiry, Read, Rename,
                SaveName, Order, FirstOrder, End
  <2> QED
    BY <2>3, <2>4
<1>5. ASSUME NEW r \in Requests, NEW p \in Phones, Resolve(r, p)
      PROVE  Capped(g)'
  <2>1. p # g
    BY <1>5 DEF Resolve, Valid
  <2> QED
    BY <1>5, <2>1 DEF Resolve, sessions
<1> QED
  BY <1>1, <1>2, <1>3, <1>4, <1>5 DEF Next

THEOREM CappedPhonesStayOut == Spec => CappedStaysOut
<1>1. ASSUME NEW g \in Phones
      PROVE  Spec => [](Capped(g) => [](bound[g] = 0))
  <2>1. GuestInv /\ Capped(g) /\ [Next]_vars => Capped(g)'
    BY CappedStays
  <2>2. Capped(g) => bound[g] = 0
    BY DEF Capped
  <2> QED
    BY <2>1, <2>2, GuestInvariance, PTL DEF Spec
<1> QED
  BY <1>1 DEF CappedStaysOut, Capped

-------------------------------------------------------------------------------
(* The board: types, and what a step makes of the screen.                  *)

USE BoardAssumption

Screens == (\A q \in Queries : screen[q] \in Shown(q)) /\ screen = [q \in Queries |-> screen[q]]

(* The records of Staff and Seats are functions; what a ticket's row says. *)
BoardTypes ==
    /\ BoardTypeOK /\ Screens
    /\ writer \in [Staff -> [on : Tickets, began : 0..MaxTime] \cup {NoWrite}]
    /\ ack \in [Seats -> [at : {"sent", "lost"}, was : Nat, cut : BOOLEAN] \cup {NoAck}]

(* Only the query q of the screen changes.                                 *)
OnlyQuery(q) == \A o \in Queries \ {q} : screen'[o] = screen[o]

LEMMA RowsAreData == BoardTypes => ring \in Data("tables") /\ row \in Data("tickets")
<1>1. BoardTypes => ring \in [Seats -> Nat] /\ row \in [Tickets -> Rows]
  BY DEF BoardTypes, BoardTypeOK
<1> QED
  BY <1>1 DEF Data

LEMMA FreshFits ==
    ASSUME NEW q \in Queries, NEW data \in Data(q)
    PROVE  Fresh(data) \in Shown(q)
BY DEF Fresh, Shown

(* A bell that is set by hand.                                             *)
LEMMA SetFits ==
    ASSUME NEW tables \in Shown("tables"), NEW s \in Seats, NEW call \in Nat
    PROVE  /\ Set(tables, s, call) \in Shown("tables")
           /\ Set(tables, s, call).fetch = tables.fetch /\ ~Set(tables, s, call).failed
           /\ Set(tables, s, call).data = [tables.data EXCEPT ![s] = call]
<1>1. PICK data : data = [tables.data EXCEPT ![s] = call]
  OBVIOUS
<1>2. tables.data \in [Seats -> Nat]
  BY DEF Shown, Data
<1>3. data \in Data("tables")
  BY <1>1, <1>2 DEF Data
<1>4. Set(tables, s, call) = [tables EXCEPT !.data = data, !.failed = FALSE]
  BY <1>1 DEF Set
<1> QED
  BY <1>1, <1>3, <1>4 DEF Shown

LEMMA PutScreen ==
    ASSUME BoardTypes, NEW q \in Queries, NEW shown \in Shown(q),
           screen' = [screen EXCEPT ![q] = shown]
    PROVE  Screens' /\ OnlyQuery(q) /\ screen'[q] = shown
<1>1. Screens
  BY DEF BoardTypes
<1>2. screen'[q] = shown /\ OnlyQuery(q) /\ screen' = [o \in Queries |-> screen'[o]]
  BY <1>1 DEF Screens, OnlyQuery
<1> QED
  BY <1>1, <1>2 DEF Screens, OnlyQuery

LEMMA RefetchScreen ==
    ASSUME BoardTypes, NEW q \in Queries, screen' = Refetched(q)
    PROVE  /\ Screens' /\ OnlyQuery(q)
           /\ screen'[q].fetch = "sent" /\ screen'[q].failed = screen[q].failed
           /\ screen'[q].data = screen[q].data /\ screen'[q].answer = screen[q].data
<1>1. Screens
  BY DEF BoardTypes
<1>2. screen'[q] \in Shown(q)
  BY <1>1 DEF Refetched, Shown, Screens
<1>3. screen'[q].fetch = "sent" /\ screen'[q].failed = screen[q].failed
  BY <1>1 DEF Refetched, Shown, Screens
<1>4. screen'[q].data = screen[q].data /\ screen'[q].answer = screen[q].data
  BY <1>1 DEF Refetched, Shown, Screens
<1>5. OnlyQuery(q) /\ screen' = [o \in Queries |-> screen'[o]]
  BY <1>1 DEF Refetched, Screens, OnlyQuery
<1> QED
  BY <1>1, <1>2, <1>3, <1>4, <1>5 DEF Screens, OnlyQuery

LEMMA OpenScreen ==
    ASSUME BoardTypes, NEW q \in Queries, screen' = [screen EXCEPT ![q].fetch = "sent"]
    PROVE  /\ Screens' /\ OnlyQuery(q)
           /\ screen'[q].fetch = "sent" /\ screen'[q].failed = screen[q].failed
           /\ screen'[q].data = screen[q].data /\ screen'[q].answer = screen[q].answer
<1>1. Screens
  BY DEF BoardTypes
<1>2. screen'[q] \in Shown(q)
  BY <1>1 DEF Shown, Screens
<1>3. screen'[q].fetch = "sent" /\ screen'[q].failed = screen[q].failed
  BY <1>1 DEF Shown, Screens
<1>4. screen'[q].data = screen[q].data /\ screen'[q].answer = screen[q].answer
  BY <1>1 DEF Shown, Screens
<1>5. OnlyQuery(q) /\ screen' = [o \in Queries |-> screen'[o]]
  BY <1>1 DEF Screens, OnlyQuery
<1> QED
  BY <1>1, <1>2, <1>3, <1>4, <1>5 DEF Screens, OnlyQuery

LEMMA ReadScreen ==
    ASSUME BoardTypes, NEW q \in Queries, NEW rows \in Data(q),
           screen' = [screen EXCEPT ![q].fetch = "read", ![q].answer = rows]
    PROVE  /\ Screens' /\ OnlyQuery(q)
           /\ screen'[q].fetch = "read" /\ screen'[q].failed = screen[q].failed
           /\ screen'[q].data = screen[q].data /\ screen'[q].answer = rows
<1>1. Screens
  BY DEF BoardTypes
<1>2. screen'[q] \in Shown(q)
  BY <1>1 DEF Shown, Screens
<1>3. screen'[q].fetch = "read" /\ screen'[q].failed = screen[q].failed
  BY <1>1 DEF Shown, Screens
<1>4. screen'[q].data = screen[q].data /\ screen'[q].answer = rows
  BY <1>1 DEF Shown, Screens
<1>5. OnlyQuery(q) /\ screen' = [o \in Queries |-> screen'[o]]
  BY <1>1 DEF Screens, OnlyQuery
<1> QED
  BY <1>1, <1>2, <1>3, <1>4, <1>5 DEF Screens, OnlyQuery

(* No fetch is on its way any more.                                        *)
LEMMA FreshScreen ==
    ASSUME BoardTypes, NEW q \in Queries, NEW data \in Data(q), NEW failed \in BOOLEAN,
           \/ screen' = [screen EXCEPT ![q] = [Fresh(data) EXCEPT !.failed = failed]]
           \/ screen' = [screen EXCEPT ![q] = Fresh(data)] /\ failed = FALSE
    PROVE  /\ Screens' /\ OnlyQuery(q)
           /\ screen'[q].fetch = "none" /\ screen'[q].failed = failed
           /\ screen'[q].data = data /\ screen'[q].answer = data
<1>1. Screens
  BY DEF BoardTypes
<1>2. PICK fresh : fresh = Fresh(data)
  OBVIOUS
<1>3. /\ fresh \in Shown(q) /\ fresh.failed = FALSE
      /\ fresh.fetch = "none" /\ fresh.data = data /\ fresh.answer = data
  BY <1>2 DEF Fresh, Shown
<1>4. PICK shown : /\ (shown = fresh /\ failed = FALSE) \/ shown = [fresh EXCEPT !.failed = failed]
                   /\ screen' = [screen EXCEPT ![q] = shown]
  BY <1>2
<1>5. /\ shown \in Shown(q) /\ shown.failed = failed
      /\ shown.fetch = "none" /\ shown.data = data /\ shown.answer = data
  <2>1. CASE shown = fresh /\ failed = FALSE
    BY <1>3, <2>1
  <2>2. CASE shown = [fresh EXCEPT !.failed = failed]
    BY <1>3, <2>2 DEF Shown
  <2> QED
    BY <1>4, <2>1, <2>2
<1>6. Screens' /\ OnlyQuery(q) /\ screen'[q] = shown
  BY <1>4, <1>5, PutScreen
<1> QED
  BY <1>5, <1>6

(* What an answer makes of the bells on the screen.                        *)
LEMMA AcknowledgeScreen ==
    ASSUME BoardTypes, NEW s \in Seats, Acknowledge(s)
    PROVE  /\ Screens' /\ OnlyQuery("tables")
           /\ screen'["tables"].fetch = "none" /\ ~screen'["tables"].failed
           /\ screen'["tables"].data = [screen["tables"].data EXCEPT ![s] = 0]
<1>0. "tables" \in Queries
  BY DEF Queries
<1>1. PICK data \in Data("tables") : data = screen["tables"].data
  BY <1>0 DEF BoardTypes, Screens, Shown
<1>2. PICK fresh \in Shown("tables") : fresh = Fresh(data)
  BY <1>0, FreshFits
<1>3. fresh.fetch = "none" /\ fresh.data = data
  BY <1>2 DEF Fresh
<1>4. screen' = [screen EXCEPT !["tables"] = Set(fresh, s, 0)]
  BY <1>1, <1>2 DEF Acknowledge
<1>5. Screens' /\ OnlyQuery("tables") /\ screen'["tables"] = Set(fresh, s, 0)
  BY <1>0, <1>4, SetFits, PutScreen
<1> QED
  BY <1>1, <1>3, <1>5, SetFits

LEMMA AnswerFailsScreen ==
    ASSUME BoardTypes, NEW s \in Seats, AnswerFails(s)
    PROVE  Screens' /\ OnlyQuery("tables")
<1>0. "tables" \in Queries /\ Screens
  BY DEF Queries, BoardTypes
<1>1. CASE ack[s].was = 0
  BY <1>0, <1>1 DEF AnswerFails, Screens, OnlyQuery
<1>2. CASE ack[s].was # 0
  <2>1. ack[s].was \in Nat /\ screen["tables"] \in Shown("tables")
    BY <1>0 DEF BoardTypes, AnswerFails, Screens
  <2>2. screen' = [screen EXCEPT !["tables"] = Set(screen["tables"], s, ack[s].was)]
    BY <1>0, <1>2 DEF AnswerFails, Screens
  <2> QED
    BY <1>0, <2>1, <2>2, SetFits, PutScreen
<1> QED
  BY <1>1, <1>2

(* What a step does to the screen, by the query it touches.                *)
LEMMA ScreensStay ==
    ASSUME BoardTypes, [BoardNext]_boardVars
    PROVE  Screens'
<1> USE DEF Queries
<1>1. CASE UNCHANGED screen
  BY <1>1 DEF BoardTypes, Screens
<1>2. ASSUME NEW q \in Queries, ReadRows(q) PROVE Screens'
  <2>1. PICK rows : rows = IF q = "tables" THEN ring ELSE row
    OBVIOUS
  <2>2. rows \in Data(q)
    BY <2>1, RowsAreData
  <2>3. screen' = [screen EXCEPT ![q].fetch = "read", ![q].answer = rows]
    BY <1>2, <2>1 DEF ReadRows
  <2> QED
    BY <2>2, <2>3, ReadScreen
<1>3. ASSUME NEW q \in Queries, Show(q) PROVE Screens'
  <2>1. screen[q] \in Shown(q)
    BY DEF BoardTypes, Screens
  <2>2. PICK data \in Data(q) : data = screen[q].answer
    BY <2>1 DEF Shown
  <2>3. screen' = [screen EXCEPT ![q] = Fresh(data)]
    BY <1>3, <2>2 DEF Show
  <2> QED
    BY <2>3, FreshScreen
<1>4. ASSUME NEW q \in Queries, Fail(q) PROVE Screens'
  <2>1. screen[q] \in Shown(q) /\ screen = [o \in Queries |-> screen[o]]
    BY DEF BoardTypes, Screens
  <2>2. PICK data \in Data(q) : data = screen[q].data
    BY <2>1 DEF Shown
  <2>3. screen' = [screen EXCEPT ![q] = [Fresh(data) EXCEPT !.failed = TRUE]]
    BY <1>4, <2>1, <2>2 DEF Fail
  <2> QED
    BY <2>3, FreshScreen
<1>5. ASSUME NEW event \in wire.tickets, TicketEvent(event) PROVE Screens'
  BY <1>1, <1>5, RefetchScreen DEF TicketEvent
<1>6. CASE Cleared \/ OtherEvent \/ \E s \in Seats : Called(s)
  BY <1>6, RefetchScreen DEF Cleared, OtherEvent, Called
<1>7. CASE Reconnect
  <2>1. page \in Queries
    BY DEF BoardTypes, BoardTypeOK
  <2> QED
    BY <1>1, <1>7, <2>1, RefetchScreen DEF Reconnect
<1>8. ASSUME NEW q \in Queries, Navigate(q) PROVE Screens'
  BY <1>1, <1>8, OpenScreen DEF Navigate
<1>9. ASSUME NEW s \in Seats, Acknowledge(s) PROVE Screens'
  BY <1>9, AcknowledgeScreen
<1>10. ASSUME NEW s \in Seats, AnswerFails(s) PROVE Screens'
  BY <1>10, AnswerFailsScreen
<1>11. CASE UNCHANGED boardVars
  BY <1>1, <1>11 DEF boardVars
<1> QED
  BY <1>1, <1>2, <1>3, <1>4, <1>5, <1>6, <1>7, <1>8, <1>9, <1>10, <1>11
     DEF BoardNext, Tick, Commit, Begin, CallStaff, ClearStaffCall, SaveSeat, Acknowledged,
         RequestLost, Disconnect, Miss, ConnectError

LEMMA BoardTypesStart == BoardInit => BoardTypes
<1> SUFFICES ASSUME BoardInit PROVE BoardTypes
  OBVIOUS
<1>1. ring \in [Seats -> Nat] /\ row \in [Tickets -> Rows]
  BY DEF BoardInit, Rows
<1>2. ring \in Data("tables") /\ row \in Data("tickets")
  BY <1>1 DEF Data
<1>3. Screens
  BY <1>2, FreshFits DEF BoardInit, Screens, Queries
<1> QED
  BY <1>1, <1>3 DEF BoardInit, BoardTypes, BoardTypeOK, Screens, Queries

(* A commit moves the stamp of a row that was there on.  The event of a    *)
(* write that is not missed is of a new row, or not behind the old one.    *)
LEMMA CommitEffect ==
    ASSUME BoardTypes, NEW w \in Staff, Commit(w)
    PROVE  \E t \in Tickets, stamp \in Nat, E \in SUBSET TicketEvents :
              /\ row' = [row EXCEPT ![t] = [version |-> row[t].version + 1, stamp |-> stamp]]
              /\ wire' = [wire EXCEPT !.tickets = @ \cup E]
              /\ row[t].version = 0 \/ row[t].stamp < stamp
              /\ \/ missed' = missed \cup {t}
                 \/ /\ missed' = missed \ {t}
                    /\ \E event \in E : /\ event.on = t
                                        /\ event.created \/ row[t].stamp <= event.stamp
<1>1. writer[w] \in [on : Tickets, began : 0..MaxTime]
  BY DEF Commit, BoardTypes
<1>2. PICK t, began : t = writer[w].on /\ began = writer[w].began
  OBVIOUS
<1>3. t \in Tickets /\ began \in Nat
  BY <1>1, <1>2
<1>4. row[t].version \in Nat /\ row[t].stamp \in Nat
  BY <1>3 DEF BoardTypes, BoardTypeOK, Rows
<1>5. PICK stamp : stamp = IF row[t].version = 0 THEN began ELSE Stamped(began, row[t])
  OBVIOUS
<1>6. stamp \in Nat /\ (row[t].version = 0 \/ row[t].stamp < stamp)
  BY <1>3, <1>4, <1>5 DEF Stamped, Later
<1>7. row' = [row EXCEPT ![t] = [version |-> row[t].version + 1, stamp |-> stamp]]
  BY <1>2, <1>5 DEF Commit, BoardTypes, BoardTypeOK
<1>8. wire \in [tickets : SUBSET TicketEvents, called : SUBSET Seats, cleared : BOOLEAN]
  BY DEF BoardTypes, BoardTypeOK
<1>9. CASE TellNothing(t)
  <2>1. wire' = [wire EXCEPT !.tickets = @ \cup {}] /\ missed' = missed \cup {t}
    BY <1>8, <1>9 DEF TellNothing
  <2> USE <1>3, <1>6
  <2> WITNESS t \in Tickets, stamp \in Nat, {} \in SUBSET TicketEvents
  <2> QED
    BY <1>6, <1>7, <2>1
<1>10. CASE TellWritten(t, stamp) \/ \E at \in began..clock : TellVoided(t, at)
  <2>1. PICK at \in Nat : /\ Tell(t, at)
                          /\ \/ missed' = missed \ {t} /\ (at = stamp \/ row[t].stamp <= at)
                             \/ missed' = missed \cup {t}
    <3>1. CASE TellWritten(t, stamp)
      BY <1>6, <3>1 DEF TellWritten
    <3>2. ASSUME NEW at \in began..clock, TellVoided(t, at)
          PROVE  /\ at \in Nat /\ Tell(t, at)
                 /\ \/ missed' = missed \ {t} /\ row[t].stamp <= at
                    \/ missed' = missed \cup {t}
      BY <1>3, <1>4, <3>2 DEF TellVoided, BoardTypes, BoardTypeOK
    <3> QED
      BY <1>10, <3>1, <3>2
  <2>2. PICK event : event = [on |-> t, stamp |-> at, created |-> row[t].version = 0]
    OBVIOUS
  <2>3. /\ event \in TicketEvents /\ event.on = t /\ event.stamp = at
        /\ event.created <=> row[t].version = 0
    BY <1>3, <2>2 DEF TicketEvents
  <2>4. wire' = [wire EXCEPT !.tickets = @ \cup {event}]
    BY <2>1, <2>2 DEF Tell
  <2>5. at = stamp => event.created \/ row[t].stamp <= event.stamp
    BY <1>4, <1>6, <2>3
  <2>6. \/ missed' = missed \cup {t}
        \/ missed' = missed \ {t} /\ (event.created \/ row[t].stamp <= event.stamp)
    BY <2>1, <2>3, <2>5
  <2>7. \/ missed' = missed \cup {t}
        \/ /\ missed' = missed \ {t}
           /\ \E news \in {event} :
                 news.on = t /\ (news.created \/ row[t].stamp <= news.stamp)
    BY <2>3, <2>6
  <2> USE <1>3, <1>6, <2>3
  <2> WITNESS t \in Tickets, stamp \in Nat, {event} \in SUBSET TicketEvents
  <2>8. \/ missed' = missed \cup {t}
        \/ /\ missed' = missed \ {t}
           /\ \E news \in {event} : /\ news.on = t
                                   /\ (news.created \/ row[t].stamp <= news.stamp)
    BY <2>7
  <2> QED
    BY <1>7, <2>4, <2>8
<1> QED
  BY <1>2, <1>5, <1>9, <1>10 DEF Commit

Wires == [tickets : SUBSET TicketEvents, called : SUBSET Seats, cleared : BOOLEAN]

LEMMA WireFits ==
    ASSUME BoardTypes
    PROVE  /\ wire \in Wires
           /\ \A E \in SUBSET TicketEvents : [wire EXCEPT !.tickets = E] \in Wires
           /\ \A C \in SUBSET Seats : [wire EXCEPT !.called = C] \in Wires
           /\ \A c \in BOOLEAN : [wire EXCEPT !.cleared = c] \in Wires
           /\ wire.tickets \subseteq TicketEvents /\ wire.called \subseteq Seats
BY DEF BoardTypes, BoardTypeOK, Wires

LEMMA BoardTypesStay == BoardTypes /\ [BoardNext]_boardVars => BoardTypes'
<1> SUFFICES ASSUME BoardTypes, [BoardNext]_boardVars PROVE BoardTypes'
  OBVIOUS
<1> USE DEF BoardTypes, BoardTypeOK, Queries, told
<1>0. Screens' /\ (wire' \in Wires => wire' \in [tickets : SUBSET TicketEvents,
                                               called : SUBSET Seats, cleared : BOOLEAN])
  BY ScreensStay DEF Wires
<1> DEFINE Acks == [at : {"sent", "lost"}, was : Nat, cut : BOOLEAN]
<1>2. ASSUME NEW w \in Staff, NEW t \in Tickets, Begin(w, t) PROVE BoardTypes'
  <2>1. writes' \in [tickets : Nat, calls : Nat]
    BY <1>2 DEF Begin
  <2> QED
    BY <1>0, <1>2, <2>1 DEF Begin, Screens
<1>3. ASSUME NEW w \in Staff, Commit(w) PROVE BoardTypes'
  <2>1. PICK t \in Tickets, stamp \in Nat, E \in SUBSET TicketEvents :
            /\ row' = [row EXCEPT ![t] = [version |-> row[t].version + 1, stamp |-> stamp]]
            /\ wire' = [wire EXCEPT !.tickets = @ \cup E]
            /\ missed' = missed \cup {t} \/ missed' = missed \ {t}
    BY <1>3, CommitEffect
  <2>2. [version |-> row[t].version + 1, stamp |-> stamp] \in Rows
    BY DEF Rows
  <2>3. row' \in [Tickets -> Rows] /\ missed' \subseteq Tickets
    BY <2>1, <2>2
  <2>4. wire' \in Wires
    <3>1. wire.tickets \cup E \in SUBSET TicketEvents
      BY WireFits
    <3>2. wire' = [wire EXCEPT !.tickets = wire.tickets \cup E]
      BY <2>1
    <3> QED
      BY <3>1, <3>2, WireFits
  <2>5. writer' \in [Staff -> [on : Tickets, began : 0..MaxTime] \cup {NoWrite}]
    BY <1>3 DEF Commit
  <2>6. faults' \in 0..MaxFaults
    BY <1>3 DEF Commit, TellWritten, TellVoided, TellNothing
  <2> QED
    BY <1>0, <1>3, <2>3, <2>4, <2>5, <2>6 DEF Commit, Screens
<1>4. ASSUME NEW s \in Seats, CallStaff(s) \/ ClearStaffCall(s) PROVE BoardTypes'
  <2>1. writes' \in [tickets : Nat, calls : Nat]
    BY <1>4 DEF CallStaff, ClearStaffCall
  <2>2. ring' \in [Seats -> Nat]
    BY <1>4, <2>1 DEF CallStaff, ClearStaffCall
  <2>3. wire' \in Wires
    <3>1. wire.called \cup {s} \in SUBSET Seats
      BY WireFits
    <3>2. \/ wire' = [wire EXCEPT !.called = wire.called \cup {s}]
          \/ wire' = [wire EXCEPT !.cleared = TRUE]
      BY <1>4 DEF CallStaff, ClearStaffCall
    <3>3. [wire EXCEPT !.called = wire.called \cup {s}] \in Wires
      BY <3>1, WireFits
    <3>4. [wire EXCEPT !.cleared = TRUE] \in Wires
      BY WireFits
    <3> QED
      BY <3>2, <3>3, <3>4
  <2> QED
    BY <1>0, <1>4, <2>1, <2>2, <2>3 DEF CallStaff, ClearStaffCall, Screens
<1>5. ASSUME NEW s \in Seats, NEW call \in 0..writes.calls, SaveSeat(s, call) PROVE BoardTypes'
  <2>1. call \in Nat
    OBVIOUS
  <2>2. ring' \in [Seats -> Nat] /\ faults' \in 0..MaxFaults
    BY <1>5, <2>1 DEF SaveSeat
  <2> QED
    BY <1>0, <1>5, <2>2 DEF SaveSeat, Screens
<1>6. ASSUME NEW q \in Queries, ReadRows(q) \/ Show(q) \/ Fail(q) PROVE BoardTypes'
  <2>1. missed' \subseteq Tickets /\ excused' \subseteq Queries /\ faults' \in 0..MaxFaults
    BY <1>6 DEF ReadRows, Show, Fail
  <2> QED
    BY <1>0, <1>6, <2>1 DEF ReadRows, Show, Fail, Screens
<1>7. ASSUME NEW event \in wire.tickets, TicketEvent(event) PROVE BoardTypes'
  <2>1. wire.tickets \ {event} \in SUBSET TicketEvents
    BY WireFits
  <2>2. wire' = [wire EXCEPT !.tickets = wire.tickets \ {event}]
    BY <1>7 DEF TicketEvent
  <2>3. wire' \in Wires
    BY <2>1, <2>2, WireFits
  <2> QED
    BY <1>0, <1>7, <2>3 DEF TicketEvent, Screens
<1>8. CASE Cleared \/ OtherEvent \/ \E s \in Seats : Called(s)
  <2>1. toasts' \subseteq Seats
    BY <1>8 DEF Cleared, OtherEvent, Called
  <2>2. wire' \in Wires
    <3>1. ASSUME NEW s \in Seats, Called(s) PROVE wire' \in Wires
      <4>1. wire.called \ {s} \in SUBSET Seats
        BY WireFits
      <4>2. wire' = [wire EXCEPT !.called = wire.called \ {s}]
        BY <3>1 DEF Called
      <4> QED
        BY <4>1, <4>2, WireFits
    <3>2. CASE Cleared \/ OtherEvent
      BY <3>2, WireFits DEF Cleared, OtherEvent
    <3> QED
      BY <1>8, <3>1, <3>2
  <2> QED
    BY <1>0, <1>8, <2>1, <2>2 DEF Cleared, OtherEvent, Called, Screens
<1>9. CASE Disconnect \/ ConnectError \/ Reconnect
  <2>1. link' \in [up : BOOLEAN, noticed : BOOLEAN]
    <3>1. CASE Disconnect BY <3>1 DEF Disconnect
    <3>2. CASE ConnectError BY <3>2 DEF ConnectError
    <3>3. CASE Reconnect BY <3>3 DEF Reconnect
    <3> QED BY <1>9, <3>1, <3>2, <3>3
  <2> QED
    BY <1>0, <1>9, <2>1 DEF Disconnect, ConnectError, Reconnect, Screens
<1>10. CASE Miss
  <2>1. wire' \in Wires
    <3>1. ASSUME NEW event PROVE [wire EXCEPT !.tickets = wire.tickets \ {event}] \in Wires
      <4>1. wire.tickets \ {event} \in SUBSET TicketEvents
        BY WireFits
      <4> QED
        BY <4>1, WireFits
    <3>2. ASSUME NEW s PROVE [wire EXCEPT !.called = wire.called \ {s}] \in Wires
      <4>1. wire.called \ {s} \in SUBSET Seats
        BY WireFits
      <4> QED
        BY <4>1, WireFits
    <3>3. [wire EXCEPT !.cleared = FALSE] \in Wires
      BY WireFits
    <3>4. CASE \E event \in wire.tickets : wire' = [wire EXCEPT !.tickets = @ \ {event}]
      <4>1. PICK event : wire' = [wire EXCEPT !.tickets = wire.tickets \ {event}]
        BY <3>4
      <4> QED
        BY <3>1, <4>1
    <3>5. CASE \E s \in wire.called : wire' = [wire EXCEPT !.called = @ \ {s}]
      <4>1. PICK s : wire' = [wire EXCEPT !.called = wire.called \ {s}]
        BY <3>5
      <4> QED
        BY <3>2, <4>1
    <3> QED
      BY <1>10, <3>3, <3>4, <3>5 DEF Miss
  <2> QED
    BY <1>0, <1>10, <2>1 DEF Miss, Screens
<1>11. ASSUME NEW q \in Queries, Navigate(q) PROVE BoardTypes'
  <2>1. link' \in [up : BOOLEAN, noticed : BOOLEAN]
    BY <1>11 DEF Navigate
  <2> QED
    BY <1>0, <1>11, <2>1 DEF Navigate, Screens
<1>12. ASSUME NEW s \in Seats, Acknowledge(s) PROVE BoardTypes'
  <2>1. screen["tables"].data[s] \in Nat
    BY DEF Screens, Shown, Data
  <2>2. ack' \in [Seats -> Acks \cup {NoAck}]
    BY <1>12, <2>1 DEF Acknowledge
  <2>3. toasts' \subseteq Seats /\ excused' \subseteq Queries
    BY <1>12 DEF Acknowledge
  <2> QED
    BY <1>0, <1>12, <2>2, <2>3 DEF Acknowledge, Screens
<1>13. ASSUME NEW s \in Seats, RequestLost(s) \/ Acknowledged(s) \/ AnswerFails(s)
       PROVE  BoardTypes'
  <2>1. ack[s] \in Acks
    BY <1>13 DEF RequestLost, Acknowledged, AnswerFails
  <2>2. ack' \in [Seats -> Acks \cup {NoAck}] /\ faults' \in 0..MaxFaults
    BY <1>13, <2>1 DEF RequestLost, Acknowledged, AnswerFails, LoseAck
  <2>3. wire' \in Wires
    <3>1. wire' = wire \/ wire' = [wire EXCEPT !.cleared = TRUE]
      BY <1>13 DEF RequestLost, Acknowledged, AnswerFails
    <3> QED
      BY <3>1, WireFits
  <2>4. ring' \in [Seats -> Nat] /\ excused' \subseteq Queries
    BY <1>13 DEF RequestLost, Acknowledged, AnswerFails
  <2> QED
    BY <1>0, <1>13, <2>2, <2>3, <2>4 DEF RequestLost, Acknowledged, AnswerFails, Screens
<1>14. CASE Tick \/ UNCHANGED boardVars
  BY <1>0, <1>14 DEF Tick, boardVars, Screens
<1> QED
  BY <1>2, <1>3, <1>4, <1>5, <1>6, <1>7, <1>8, <1>9, <1>10, <1>11, <1>12, <1>13, <1>14 DEF BoardNext

-------------------------------------------------------------------------------
(* The board: what makes up for a row that is not shown.                   *)

(* What is shown when nothing else comes.                                  *)
Coming(q) == IF screen[q].fetch = "read" THEN screen[q].answer ELSE screen[q].data

(* A fetch that will read the rows as they are; an error on the screen; a  *)
(* socket that is down, after which the page fetches.                      *)
MadeUp(q) ==
    \/ screen[q].fetch = "sent"
    \/ screen[q].fetch = "none" /\ screen[q].failed
    \/ ~link.up

(* Nothing the screen has is newer than the row, and the fetch that has    *)
(* read is not older than what is shown.                                   *)
NotAhead(t, shown) ==
    /\ shown.stamp <= row[t].stamp /\ shown.version <= row[t].version
    /\ shown.version = row[t].version => shown = row[t]

InStep ==
    LET tickets == screen["tickets"] IN
    \A t \in Tickets :
        /\ row[t].version = 0 => row[t].stamp = 0
        /\ NotAhead(t, tickets.data[t]) /\ NotAhead(t, tickets.answer[t])
        /\ tickets.fetch = "read" => tickets.data[t].version <= tickets.answer[t].version

Noticed == ~link.up /\ page \notin excused => link.noticed

(* An event is on its way that is not older than a card it is news to.     *)
News(event, shown) == event.created \/ shown = row[event.on] \/ shown.stamp <= event.stamp

Announced(t) ==
    \E event \in wire.tickets :
        /\ event.on = t
        /\ News(event, screen["tickets"].data[t]) /\ News(event, screen["tickets"].answer[t])

OrdersMadeUp ==
    page = "tickets" /\ "tickets" \notin excused =>
        \A t \in Tickets \ missed :
            Coming("tickets")[t] = row[t] \/ MadeUp("tickets") \/ Announced(t)

(* An answer on its way that cancelled a fetch: either it finds a call and *)
(* an event goes out, or it is excused.                                    *)
Cut == \E s \in Seats : ack[s].at # "none" /\ ack[s].cut

BellsMadeUp ==
    page = "tables" /\ "tables" \notin excused =>
        \/ MadeUp("tables") \/ wire.called # {} \/ wire.cleared \/ Cut
        \/ \A s \in Seats : \/ Coming("tables")[s] = ring[s]
                            \/ ack[s].at # "none" /\ Coming("tables")[s] = 0

BoardInv == BoardTypes /\ InStep /\ Noticed /\ OrdersMadeUp /\ BellsMadeUp

LEMMA BoardInvStart == BoardInit => BoardInv
<1> SUFFICES ASSUME BoardInit PROVE BoardInv
  OBVIOUS
<1>1. BoardTypes
  BY BoardTypesStart
<1>2. /\ screen["tickets"].data = row /\ screen["tickets"].answer = row
      /\ screen["tables"].data = ring
      /\ screen["tickets"].fetch = "none" /\ screen["tables"].fetch = "none"
  BY DEF BoardInit, Fresh, Queries
<1>3. \A t \in Tickets : row[t].stamp = 0 /\ row[t].version = 0
  BY DEF BoardInit
<1>4. InStep
  BY <1>2, <1>3 DEF InStep, NotAhead
<1>5. Noticed
  BY DEF BoardInit, Noticed
<1>6. OrdersMadeUp /\ BellsMadeUp
  BY <1>2 DEF OrdersMadeUp, BellsMadeUp, Coming
<1> QED
  BY <1>1, <1>4, <1>5, <1>6 DEF BoardInv

(* A socket that is down is noticed by the page, or the page is excused: a *)
(* fetch that reads while it is down takes no excuse away.                 *)
LEMMA NoticedStays ==
    ASSUME BoardTypes, Noticed, [BoardNext]_boardVars
    PROVE  Noticed'
<1>0. link \in [up : BOOLEAN, noticed : BOOLEAN] /\ page \in Queries
  BY DEF BoardTypes, BoardTypeOK
<1>1. CASE page' = page /\ link' = link /\ (excused \subseteq excused' \/ link.up)
  BY <1>1 DEF Noticed
<1>2. CASE Disconnect \/ ConnectError \/ Reconnect
  BY <1>0, <1>2 DEF Disconnect, ConnectError, Reconnect, Noticed
<1>3. ASSUME NEW q \in Queries, Navigate(q) PROVE Noticed'
  BY <1>0, <1>3 DEF Navigate, Noticed
<1>4. ASSUME NEW q \in Queries, ReadRows(q) \/ Show(q) \/ Fail(q) PROVE Noticed'
  BY <1>1, <1>4 DEF ReadRows, Show, Fail
<1>5. ASSUME NEW s \in Seats,
             \/ CallStaff(s) \/ ClearStaffCall(s) \/ Called(s) \/ Acknowledge(s)
             \/ RequestLost(s) \/ Acknowledged(s) \/ AnswerFails(s)
             \/ \E call \in 0..writes.calls : SaveSeat(s, call)
      PROVE  Noticed'
  <2>1. page' = page /\ link' = link /\ excused \subseteq excused'
    BY <1>5 DEF CallStaff, ClearStaffCall, Called, Acknowledge, RequestLost, Acknowledged,
                AnswerFails, SaveSeat
  <2> QED
    BY <1>1, <2>1
<1>6. CASE Tick \/ Miss \/ Cleared \/ OtherEvent \/ UNCHANGED boardVars
  BY <1>1, <1>6 DEF Tick, Miss, Cleared, OtherEvent, boardVars
<1>7. CASE \/ \E w \in Staff : Commit(w) \/ \E t \in Tickets : Begin(w, t)
           \/ \E event \in wire.tickets : TicketEvent(event)
  BY <1>1, <1>7 DEF Commit, Begin, TicketEvent
<1> QED
  BY <1>2, <1>3, <1>4, <1>5, <1>6, <1>7 DEF BoardNext

(* A step that is not about the tickets, or not about the bells.           *)
OrdersAside ==
    /\ row' = row /\ wire'.tickets = wire.tickets /\ screen'["tickets"] = screen["tickets"]
    /\ page' = page /\ link' = link /\ missed' = missed
    /\ "tickets" \in excused => "tickets" \in excused'
BellsAside ==
    /\ ring' = ring /\ wire'.called = wire.called /\ wire'.cleared = wire.cleared
    /\ screen'["tables"] = screen["tables"] /\ page' = page /\ link' = link /\ ack' = ack
    /\ "tables" \in excused => "tables" \in excused'

LEMMA OrdersStayAside ==
    ASSUME OrdersAside, InStep, OrdersMadeUp
    PROVE  InStep' /\ OrdersMadeUp'
<1>1. InStep'
  BY DEF OrdersAside, InStep, NotAhead
<1>2. OrdersMadeUp'
  BY DEF OrdersAside, OrdersMadeUp, Coming, MadeUp, Announced, News
<1> QED
  BY <1>1, <1>2

LEMMA BellsStayAside ==
    ASSUME BellsAside, BellsMadeUp
    PROVE  BellsMadeUp'
BY DEF BellsAside, BellsMadeUp, Coming, MadeUp, Cut

(* The events of the tickets and those of the tables are kept apart.       *)
LEMMA WireParts ==
    ASSUME BoardTypes
    PROVE  /\ \A E : wire' = [wire EXCEPT !.tickets = E]
                        => /\ wire'.tickets = E
                           /\ wire'.called = wire.called /\ wire'.cleared = wire.cleared
           /\ \A C : wire' = [wire EXCEPT !.called = C]
                        => wire'.called = C /\ wire'.tickets = wire.tickets
           /\ \A c : wire' = [wire EXCEPT !.cleared = c]
                        => wire'.cleared = c /\ wire'.tickets = wire.tickets
BY DEF BoardTypes, BoardTypeOK

(* The steps that the tickets query does not see.                          *)
LEMMA AsideOfOrders ==
    ASSUME BoardTypes,
           \/ \E w \in Staff, t \in Tickets : Begin(w, t)
           \/ \E s \in Seats : \/ CallStaff(s) \/ ClearStaffCall(s)
                               \/ \E call \in 0..writes.calls : SaveSeat(s, call)
                               \/ Called(s) \/ Acknowledge(s)
                               \/ RequestLost(s) \/ Acknowledged(s) \/ AnswerFails(s)
           \/ ReadRows("tables") \/ Show("tables") \/ Fail("tables")
           \/ Cleared \/ OtherEvent \/ Tick \/ UNCHANGED boardVars
    PROVE  OrdersAside
<1> USE WireParts DEF OrdersAside, told
<1>0. "tables" \in Queries /\ "tickets" \in Queries
  BY DEF Queries
<1>1. OnlyQuery("tables") => screen'["tickets"] = screen["tickets"]
  BY <1>0 DEF OnlyQuery
<1>2. ASSUME NEW x, screen' = [screen EXCEPT !["tables"] = x]
      PROVE  screen'["tickets"] = screen["tickets"]
  BY <1>0, <1>2 DEF BoardTypes, Screens
<1>3. ASSUME NEW w \in Staff, NEW t \in Tickets, Begin(w, t) PROVE OrdersAside
  BY <1>3 DEF Begin
<1>4. ASSUME NEW s \in Seats, CallStaff(s) \/ ClearStaffCall(s) PROVE OrdersAside
  BY <1>4 DEF CallStaff, ClearStaffCall
<1>5. ASSUME NEW s \in Seats, NEW call, SaveSeat(s, call) PROVE OrdersAside
  BY <1>5 DEF SaveSeat
<1>6. ASSUME NEW s \in Seats, Acknowledge(s) PROVE OrdersAside
  <2>1. screen'["tickets"] = screen["tickets"]
    BY <1>1, <1>6, AcknowledgeScreen
  <2> QED
    BY <1>6, <2>1 DEF Acknowledge
<1>7. ASSUME NEW s \in Seats, RequestLost(s) \/ Acknowledged(s) PROVE OrdersAside
  <2>1. wire'.tickets = wire.tickets
    BY <1>7 DEF RequestLost, Acknowledged
  <2> QED
    BY <1>7, <2>1 DEF RequestLost, Acknowledged
<1>8. ASSUME NEW s \in Seats, AnswerFails(s) PROVE OrdersAside
  <2>1. screen'["tickets"] = screen["tickets"]
    BY <1>1, <1>8, AnswerFailsScreen
  <2> QED
    BY <1>8, <2>1 DEF AnswerFails
<1>9. CASE ReadRows("tables") \/ Show("tables") \/ Fail("tables")
  <2>1. screen'["tickets"] = screen["tickets"]
    BY <1>0, <1>2, <1>9 DEF ReadRows, Show, Fail, BoardTypes, Screens
  <2> QED
    BY <1>9, <2>1 DEF ReadRows, Show, Fail
<1>10. CASE Cleared \/ OtherEvent \/ \E s \in Seats : Called(s)
  <2>1. screen' = Refetched("tables")
    BY <1>10 DEF Cleared, OtherEvent, Called
  <2>2. screen'["tickets"] = screen["tickets"]
    BY <1>0, <1>1, <2>1, RefetchScreen
  <2> QED
    BY <1>10, <2>2 DEF Cleared, OtherEvent, Called
<1>11. CASE Tick \/ UNCHANGED boardVars
  BY <1>11 DEF Tick, boardVars
<1> QED
  BY <1>3, <1>4, <1>5, <1>6, <1>7, <1>8, <1>9, <1>10, <1>11

LEMMA CommitKeepsOrders ==
    ASSUME BoardTypes, InStep, OrdersMadeUp, NEW w \in Staff, Commit(w)
    PROVE  InStep' /\ OrdersMadeUp'
<1> DEFINE tickets == screen["tickets"]
<1>1. PICK t \in Tickets, stamp \in Nat, E \in SUBSET TicketEvents :
          /\ row' = [row EXCEPT ![t] = [version |-> row[t].version + 1, stamp |-> stamp]]
          /\ wire' = [wire EXCEPT !.tickets = @ \cup E]
          /\ row[t].version = 0 \/ row[t].stamp < stamp
          /\ \/ missed' = missed \cup {t}
             \/ /\ missed' = missed \ {t}
                /\ \E event \in E : /\ event.on = t
                                    /\ event.created \/ row[t].stamp <= event.stamp
  BY CommitEffect
<1>2. wire'.tickets = wire.tickets \cup E
  BY <1>1, WireParts
<1>3. UNCHANGED <<screen, page, link, excused>>
  BY DEF Commit
<1>4. row \in [Tickets -> Rows]
  BY DEF BoardTypes, BoardTypeOK
<1>5. /\ row'[t].version = row[t].version + 1 /\ row'[t].stamp = stamp
      /\ \A u \in Tickets \ {t} : row'[u] = row[u]
  BY <1>1, <1>4
<1>6. row[t].version \in Nat /\ row[t].stamp \in Nat /\ row[t].stamp <= stamp
  <2>1. row[t].version \in Nat /\ row[t].stamp \in Nat
    BY <1>4 DEF Rows
  <2> QED
    BY <1>1, <2>1 DEF InStep
<1>7. \A u \in Tickets : tickets.data[u] \in Rows /\ tickets.answer[u] \in Rows
  BY DEF BoardTypes, Screens, Queries, Shown, Data
<1>8. ASSUME NEW shown \in Rows, NotAhead(t, shown)
      PROVE  NotAhead(t, shown)' /\ shown.stamp <= row[t].stamp
  BY <1>5, <1>6, <1>8 DEF NotAhead, Rows
<1> HIDE DEF tickets
<1>9. InStep'
  <2> SUFFICES ASSUME NEW u \in Tickets
               PROVE  /\ row'[u].version = 0 => row'[u].stamp = 0
                      /\ NotAhead(u, tickets.data[u])' /\ NotAhead(u, tickets.answer[u])'
    BY <1>3 DEF InStep, tickets
  <2>1. CASE u = t
    <3>1. NotAhead(t, tickets.data[t]) /\ NotAhead(t, tickets.answer[t])
      BY DEF InStep, tickets
    <3>2. tickets' = tickets
      BY <1>3 DEF tickets
    <3>3. NotAhead(t, tickets.data[t])' /\ NotAhead(t, tickets.answer[t])'
      BY <1>7, <1>8, <3>1, <3>2 DEF NotAhead
    <3> QED
      BY <1>5, <1>6, <2>1, <3>3
  <2>2. CASE u # t
    BY <1>3, <1>5, <2>2 DEF InStep, NotAhead, tickets
  <2> QED
    BY <2>1, <2>2
<1>10. OrdersMadeUp'
  <2> SUFFICES ASSUME page = "tickets", "tickets" \notin excused, NEW u \in Tickets \ missed'
               PROVE  Coming("tickets")[u] = row'[u] \/ MadeUp("tickets") \/ Announced(u)'
    BY <1>3 DEF OrdersMadeUp, Coming, MadeUp
  <2>1. CASE u = t
    <3>1. PICK event \in E : event.on = t /\ (event.created \/ row[t].stamp <= event.stamp)
      BY <1>1, <2>1
    <3>2. tickets.data[t].stamp <= row[t].stamp /\ tickets.answer[t].stamp <= row[t].stamp
      BY <1>7, <1>8 DEF InStep, tickets
    <3>3. event.stamp \in Nat /\ tickets.data[t].stamp \in Nat /\ tickets.answer[t].stamp \in Nat
      BY <1>7 DEF TicketEvents, Rows
    <3>4. News(event, tickets.data[t])' /\ News(event, tickets.answer[t])'
      BY <1>3, <1>6, <3>1, <3>2, <3>3 DEF News, tickets
    <3> QED
      BY <1>2, <2>1, <3>1, <3>4 DEF Announced, tickets
  <2>2. CASE u # t
    <3>1. u \in Tickets \ missed
      BY <1>1, <2>2
    <3>2. Announced(u) => Announced(u)'
      BY <1>2, <1>3, <1>5, <2>2 DEF Announced, News
    <3> QED
      BY <1>5, <2>2, <3>1, <3>2 DEF OrdersMadeUp
  <2> QED
    BY <2>1, <2>2
<1> QED
  BY <1>9, <1>10

LEMMA FetchKeepsOrders ==
    ASSUME BoardTypes, InStep, OrdersMadeUp,
           ReadRows("tickets") \/ Show("tickets") \/ Fail("tickets")
    PROVE  InStep' /\ OrdersMadeUp'
<1> DEFINE old == screen["tickets"]
           new == screen'["tickets"]
<1>0. old \in Shown("tickets") /\ "tickets" \in Queries
  BY DEF BoardTypes, Screens, Queries
<1>1. UNCHANGED <<row, wire, page, link>>
  BY DEF ReadRows, Show, Fail
<1>2. \/ old.fetch = "sent" /\ new.fetch = "read" /\ new.data = old.data /\ new.answer = row
      \/ /\ old.fetch = "read" /\ new.fetch = "none" /\ missed' = missed /\ excused' = excused
         /\ new.data = old.answer /\ new.answer = old.answer
      \/ new.fetch = "none" /\ new.failed /\ new.data = old.data /\ new.answer = old.data
  <2>1. CASE ReadRows("tickets")
    <3>1. screen' = [screen EXCEPT !["tickets"].fetch = "read", !["tickets"].answer = row]
      BY <2>1 DEF ReadRows
    <3> QED
      BY <1>0, <2>1, <3>1, RowsAreData, ReadScreen DEF ReadRows
  <2>2. CASE Show("tickets")
    <3>1. old.answer \in Data("tickets")
      BY <1>0 DEF Shown
    <3>2. screen' = [screen EXCEPT !["tickets"] = Fresh(old.answer)] /\ old.fetch = "read"
      BY <2>2 DEF Show
    <3>3. missed' = missed /\ excused' = excused
      BY <2>2 DEF Show, told
    <3> QED
      BY <1>0, <3>1, <3>2, <3>3, FreshScreen
  <2>3. CASE Fail("tickets")
    <3>1. old.data \in Data("tickets")
      BY <1>0 DEF Shown
    <3>2. screen' = [screen EXCEPT !["tickets"] = [Fresh(old.data) EXCEPT !.failed = TRUE]]
      BY <1>0, <2>3 DEF Fail, BoardTypes, Screens
    <3> QED
      BY <1>0, <3>1, <3>2, FreshScreen
  <2> QED
    BY <2>1, <2>2, <2>3
<1>3. InStep'
  <2> SUFFICES ASSUME NEW u \in Tickets
               PROVE  /\ NotAhead(u, new.data[u]) /\ NotAhead(u, new.answer[u])
                      /\ new.fetch = "read" => new.data[u].version <= new.answer[u].version
    BY <1>1 DEF InStep, NotAhead
  <2>1. row[u].stamp \in Nat /\ row[u].version \in Nat
    BY DEF BoardTypes, BoardTypeOK, Rows
  <2>2. NotAhead(u, row[u]) /\ NotAhead(u, old.data[u]) /\ NotAhead(u, old.answer[u])
    BY <2>1 DEF NotAhead, InStep
  <2>3. old.data[u].version <= row[u].version
    BY <2>2 DEF NotAhead
  <2> HIDE DEF new, old
  <2> QED
    BY <1>2, <2>2, <2>3
<1>4. OrdersMadeUp'
  <2> HIDE DEF new, old
  <2>1. \/ new.fetch = "read" /\ new.answer = row
        \/ new.fetch = "none" /\ new.failed
        \/ /\ old.fetch = "read" /\ new.fetch = "none" /\ new.data = old.answer
           /\ new.answer = old.answer /\ missed' = missed /\ excused' = excused
    BY <1>2
  <2>2. CASE new.fetch = "read" /\ new.answer = row
    BY <1>1, <2>2 DEF OrdersMadeUp, Coming, new
  <2>3. CASE new.fetch = "none" /\ new.failed
    BY <2>3 DEF OrdersMadeUp, MadeUp, new
  <2>4. CASE /\ old.fetch = "read" /\ new.fetch = "none" /\ new.data = old.answer
             /\ new.answer = old.answer /\ missed' = missed /\ excused' = excused
    <3>1. Coming("tickets")' = Coming("tickets")
      BY <2>4 DEF Coming, new, old
    <3>2. MadeUp("tickets") => MadeUp("tickets")'
      BY <1>1, <2>4 DEF MadeUp, new, old
    <3>3. \A t \in Tickets : Announced(t) => Announced(t)'
      BY <1>1, <2>4 DEF Announced, News, new, old
    <3> QED
      BY <1>1, <2>4, <3>1, <3>2, <3>3 DEF OrdersMadeUp
  <2> QED
    BY <2>1, <2>2, <2>3, <2>4
<1> QED
  BY <1>3, <1>4

(* A fetch that is sent again has nothing newer than before.               *)
LEMMA RefetchKeepsStep ==
    ASSUME BoardTypes, InStep, row' = row, NEW q \in Queries,
           \/ screen' = Refetched(q)
           \/ screen[q].fetch = "none" /\ screen' = [screen EXCEPT ![q].fetch = "sent"]
           \/ screen' = screen
    PROVE  InStep'
<1>1. /\ screen'["tickets"].data = screen["tickets"].data
      /\ \/ screen'["tickets"].answer = screen["tickets"].data
         \/ screen'["tickets"].answer = screen["tickets"].answer
      /\ screen'["tickets"].fetch = "sent" \/ screen'["tickets"] = screen["tickets"]
  <2>1. CASE q = "tickets"
    BY <2>1, RefetchScreen, OpenScreen
  <2>2. CASE q # "tickets"
    BY <2>2, RefetchScreen, OpenScreen DEF OnlyQuery, Queries
  <2> QED
    BY <2>1, <2>2
<1> QED
  BY <1>1 DEF InStep, NotAhead

(* An event that is older than the card is news to nobody, unless the card *)
(* shows the row as it is; then a fetch that has read the row does too.    *)
LEMMA EventKeepsOrders ==
    ASSUME BoardTypes, InStep, OrdersMadeUp, NEW event \in wire.tickets, TicketEvent(event)
    PROVE  InStep' /\ OrdersMadeUp'
<1> DEFINE tickets == screen["tickets"]
<1>0. "tickets" \in Queries
  BY DEF Queries
<1>1. UNCHANGED <<row, page, link, missed, excused>>
  BY DEF TicketEvent, told
<1>2. wire'.tickets = wire.tickets \ {event}
  BY WireParts DEF TicketEvent
<1>3. InStep'
  BY <1>0, <1>1, RefetchKeepsStep DEF TicketEvent
<1>4. CASE IsOlder(event)
  <2>1. screen' = screen
    BY <1>4 DEF TicketEvent
  <2>2. event.on \in Tickets /\ event.stamp \in Nat
    BY DEF BoardTypes, BoardTypeOK, TicketEvents
  <2>3. /\ ~event.created /\ event.stamp < tickets.data[event.on].stamp
        /\ tickets.data[event.on] \in Rows /\ row[event.on] \in Rows
    BY <1>4, <2>2 DEF IsOlder, BoardTypes, BoardTypeOK, Screens, Queries, Shown, Data
  <2>4. tickets.data[event.on].stamp \in Nat
    BY <2>3 DEF Rows
  <2>5. News(event, tickets.data[event.on]) => tickets.data[event.on] = row[event.on]
    BY <2>2, <2>3, <2>4 DEF News
  <2>6. ASSUME NEW t \in Tickets, Announced(t)
        PROVE  Announced(t)' \/ Coming("tickets")[t] = row[t]
    <3>1. PICK news \in wire.tickets :
              news.on = t /\ News(news, tickets.data[t]) /\ News(news, tickets.answer[t])
      BY <2>6 DEF Announced
    <3>2. CASE news # event
      BY <1>1, <1>2, <2>1, <3>1, <3>2 DEF Announced, News
    <3>3. CASE news = event
      <4>1. tickets.data[t] = row[t] /\ row[t] \in Rows
        BY <2>3, <2>5, <3>1, <3>3
      <4>2. tickets.fetch = "read" => tickets.answer[t] = row[t]
        <5>1. tickets.answer[t].version \in Nat /\ row[t].version \in Nat
          BY DEF BoardTypes, BoardTypeOK, Screens, Queries, Shown, Data, Rows
        <5> QED
          BY <4>1, <5>1 DEF InStep, NotAhead
      <4> QED
        BY <4>1, <4>2 DEF Coming
    <3> QED
      BY <3>2, <3>3
  <2>7. Coming("tickets")' = Coming("tickets") /\ (MadeUp("tickets") => MadeUp("tickets")')
    BY <1>1, <2>1 DEF Coming, MadeUp
  <2> QED
    BY <1>1, <1>3, <2>6, <2>7 DEF OrdersMadeUp
<1>5. CASE ~IsOlder(event)
  <2>1. screen'["tickets"].fetch = "sent"
    BY <1>0, <1>5, RefetchScreen DEF TicketEvent
  <2> QED
    BY <1>3, <2>1 DEF OrdersMadeUp, MadeUp
<1> QED
  BY <1>4, <1>5

LEMMA SocketKeepsOrders ==
    ASSUME BoardTypes, InStep, Noticed, Disconnect \/ Miss \/ ConnectError \/ Reconnect
    PROVE  InStep' /\ OrdersMadeUp'
<1>0. page \in Queries /\ link \in [up : BOOLEAN, noticed : BOOLEAN]
  BY DEF BoardTypes, BoardTypeOK
<1>1. UNCHANGED <<row, page, excused>>
  BY DEF Disconnect, Miss, ConnectError, Reconnect
<1>2. InStep'
  BY <1>0, <1>1, RefetchKeepsStep DEF Disconnect, Miss, ConnectError, Reconnect
<1>3. CASE Disconnect \/ Miss \/ ConnectError
  <2>1. ~link'.up
    <3>1. CASE Disconnect BY <3>1 DEF Disconnect
    <3>2. CASE Miss BY <3>2 DEF Miss
    <3>3. CASE ConnectError BY <1>0, <3>3 DEF ConnectError
    <3> QED BY <1>3, <3>1, <3>2, <3>3
  <2> QED
    BY <1>2, <2>1 DEF OrdersMadeUp, MadeUp
<1>4. CASE Reconnect
  <2>1. ASSUME page = "tickets", "tickets" \notin excused
        PROVE  screen'["tickets"].fetch = "sent"
    <3>1. link.noticed
      BY <1>4, <2>1 DEF Reconnect, Noticed
    <3> QED
      BY <1>0, <1>4, <2>1, <3>1, RefetchScreen DEF Reconnect
  <2> QED
    BY <1>1, <1>2, <2>1 DEF OrdersMadeUp, MadeUp
<1> QED
  BY <1>3, <1>4

LEMMA NavigateKeepsOrders ==
    ASSUME BoardTypes, InStep, NEW q \in Queries, Navigate(q)
    PROVE  InStep' /\ OrdersMadeUp'
<1>1. InStep'
  BY RefetchKeepsStep DEF Navigate
<1>2. ASSUME page' = "tickets", "tickets" \notin excused'
      PROVE  screen'["tickets"].fetch = "sent"
  <2>1. q = "tickets" /\ screen["tickets"].fetch = "none"
    BY <1>2 DEF Navigate
  <2> QED
    BY <2>1, OpenScreen DEF Navigate
<1> QED
  BY <1>1, <1>2 DEF OrdersMadeUp, MadeUp

LEMMA OrdersStay ==
    ASSUME BoardInv, [BoardNext]_boardVars
    PROVE  InStep' /\ OrdersMadeUp'
<1>1. BoardTypes /\ InStep /\ Noticed /\ OrdersMadeUp
  BY DEF BoardInv
<1>2. CASE OrdersAside
  BY <1>1, <1>2, OrdersStayAside
<1>3. ASSUME NEW w \in Staff, Commit(w) PROVE InStep' /\ OrdersMadeUp'
  BY <1>1, <1>3, CommitKeepsOrders
<1>4. CASE ReadRows("tickets") \/ Show("tickets") \/ Fail("tickets")
  BY <1>1, <1>4, FetchKeepsOrders
<1>5. ASSUME NEW event \in wire.tickets, TicketEvent(event) PROVE InStep' /\ OrdersMadeUp'
  BY <1>1, <1>5, EventKeepsOrders
<1>6. CASE Disconnect \/ Miss \/ ConnectError \/ Reconnect
  BY <1>1, <1>6, SocketKeepsOrders
<1>7. ASSUME NEW q \in Queries, Navigate(q) PROVE InStep' /\ OrdersMadeUp'
  BY <1>1, <1>7, NavigateKeepsOrders
<1>8. BoardNext \/ UNCHANGED boardVars
  OBVIOUS
<1> QED
  BY <1>1, <1>2, <1>3, <1>4, <1>5, <1>6, <1>7, <1>8, AsideOfOrders DEF BoardNext, Queries

(* The steps that the tables query does not see.                           *)
LEMMA AsideOfBells ==
    ASSUME BoardTypes,
           \/ \E w \in Staff : Commit(w) \/ \E t \in Tickets : Begin(w, t)
           \/ ReadRows("tickets") \/ Show("tickets") \/ Fail("tickets")
           \/ \E event \in wire.tickets : TicketEvent(event)
           \/ Tick \/ UNCHANGED boardVars
    PROVE  BellsAside
<1> USE WireParts DEF BellsAside
<1>0. "tables" \in Queries /\ "tickets" \in Queries
  BY DEF Queries
<1>1. ASSUME NEW x, screen' = [screen EXCEPT !["tickets"] = x]
      PROVE  screen'["tables"] = screen["tables"]
  BY <1>0, <1>1 DEF BoardTypes, Screens
<1>2. ASSUME NEW w \in Staff, NEW t \in Tickets, Begin(w, t) PROVE BellsAside
  BY <1>2 DEF Begin
<1>3. ASSUME NEW w \in Staff, Commit(w) PROVE BellsAside
  <2>1. wire'.called = wire.called /\ wire'.cleared = wire.cleared
    BY <1>3, CommitEffect
  <2> QED
    BY <1>3, <2>1 DEF Commit
<1>4. CASE ReadRows("tickets") \/ Show("tickets") \/ Fail("tickets")
  <2>1. screen'["tables"] = screen["tables"]
    BY <1>0, <1>1, <1>4 DEF ReadRows, Show, Fail, BoardTypes, Screens
  <2> QED
    BY <1>4, <2>1 DEF ReadRows, Show, Fail
<1>5. ASSUME NEW event \in wire.tickets, TicketEvent(event) PROVE BellsAside
  <2>1. screen'["tables"] = screen["tables"]
    BY <1>0, <1>5, RefetchScreen DEF TicketEvent, OnlyQuery
  <2> QED
    BY <1>5, <2>1 DEF TicketEvent
<1>6. CASE Tick \/ UNCHANGED boardVars
  BY <1>6 DEF Tick, boardVars
<1> QED
  BY <1>2, <1>3, <1>4, <1>5, <1>6

LEMMA CallKeepsBells ==
    ASSUME BoardTypes,
           \/ Cleared \/ OtherEvent
           \/ \E s \in Seats : \/ CallStaff(s) \/ ClearStaffCall(s) \/ Called(s)
                               \/ \E call \in 0..writes.calls : SaveSeat(s, call)
    PROVE  BellsMadeUp'
<1>1. CASE Cleared \/ OtherEvent \/ \E s \in Seats : Called(s)
  <2>1. screen'["tables"].fetch = "sent"
    BY <1>1, RefetchScreen DEF Cleared, OtherEvent, Called, Queries
  <2> QED
    BY <2>1 DEF BellsMadeUp, MadeUp
<1>2. ASSUME NEW s \in Seats, CallStaff(s) \/ ClearStaffCall(s) PROVE BellsMadeUp'
  <2>1. \/ wire' = [wire EXCEPT !.called = wire.called \cup {s}]
        \/ wire' = [wire EXCEPT !.cleared = TRUE]
    BY <1>2 DEF CallStaff, ClearStaffCall
  <2>2. wire'.called = wire.called \cup {s} \/ wire'.cleared
    BY <2>1, WireParts
  <2> QED
    BY <2>2 DEF BellsMadeUp
<1>3. ASSUME NEW s \in Seats, NEW call, SaveSeat(s, call) PROVE BellsMadeUp'
  BY <1>3 DEF SaveSeat, BellsMadeUp
<1> QED
  BY <1>1, <1>2, <1>3

LEMMA FetchKeepsBells ==
    ASSUME BoardTypes, BellsMadeUp, ReadRows("tables") \/ Show("tables") \/ Fail("tables")
    PROVE  BellsMadeUp'
<1> DEFINE old == screen["tables"]
           new == screen'["tables"]
<1>0. old \in Shown("tables") /\ "tables" \in Queries
  BY DEF BoardTypes, Screens, Queries
<1>1. UNCHANGED <<ring, wire, page, link, ack>>
  BY DEF ReadRows, Show, Fail
<1>2. \/ old.fetch = "sent" /\ new.fetch = "read" /\ new.answer = ring
      \/ /\ old.fetch = "read" /\ new.fetch = "none" /\ new.data = old.answer
         /\ excused' = excused
      \/ new.fetch = "none" /\ new.failed
  <2>1. CASE ReadRows("tables")
    <3>1. screen' = [screen EXCEPT !["tables"].fetch = "read", !["tables"].answer = ring]
      BY <2>1 DEF ReadRows
    <3> QED
      BY <1>0, <2>1, <3>1, RowsAreData, ReadScreen DEF ReadRows
  <2>2. CASE Show("tables")
    <3>1. old.answer \in Data("tables")
      BY <1>0 DEF Shown
    <3>2. screen' = [screen EXCEPT !["tables"] = Fresh(old.answer)] /\ old.fetch = "read"
      BY <2>2 DEF Show
    <3> QED
      BY <1>0, <2>2, <3>1, <3>2, FreshScreen DEF Show
  <2>3. CASE Fail("tables")
    <3>1. old.data \in Data("tables")
      BY <1>0 DEF Shown
    <3>2. screen' = [screen EXCEPT !["tables"] = [Fresh(old.data) EXCEPT !.failed = TRUE]]
      BY <1>0, <2>3 DEF Fail, BoardTypes, Screens
    <3> QED
      BY <1>0, <3>1, <3>2, FreshScreen
  <2> QED
    BY <2>1, <2>2, <2>3
<1> HIDE DEF new, old
<1>3. \/ Coming("tables")' = ring
      \/ MadeUp("tables")'
      \/ /\ Coming("tables")' = Coming("tables") /\ excused' = excused
         /\ MadeUp("tables") => MadeUp("tables")'
  BY <1>1, <1>2 DEF Coming, MadeUp, new, old
<1>4. (Coming("tables")' = ring) \/ MadeUp("tables")' => BellsMadeUp'
  BY <1>1 DEF BellsMadeUp
<1>5. ASSUME Coming("tables")' = Coming("tables"), excused' = excused,
             MadeUp("tables") => MadeUp("tables")'
      PROVE  BellsMadeUp'
  BY <1>1, <1>5 DEF BellsMadeUp, Cut
<1> QED
  BY <1>3, <1>4, <1>5

LEMMA SocketKeepsBells ==
    ASSUME BoardTypes, Noticed, Disconnect \/ Miss \/ ConnectError \/ Reconnect
    PROVE  BellsMadeUp'
<1>0. page \in Queries
  BY DEF BoardTypes, BoardTypeOK
<1>1. UNCHANGED <<page, excused>>
  BY DEF Disconnect, Miss, ConnectError, Reconnect
<1>2. CASE Disconnect \/ Miss \/ ConnectError
  <2>1. ~link'.up
    <3>1. CASE Disconnect BY <3>1 DEF Disconnect
    <3>2. CASE Miss BY <3>2 DEF Miss
    <3>3. CASE ConnectError BY <3>3 DEF ConnectError, BoardTypes, BoardTypeOK
    <3> QED BY <1>2, <3>1, <3>2, <3>3
  <2> QED
    BY <2>1 DEF BellsMadeUp, MadeUp
<1>3. CASE Reconnect
  <2>1. ASSUME page = "tables", "tables" \notin excused
        PROVE  screen'["tables"].fetch = "sent"
    <3>1. link.noticed
      BY <1>3, <2>1 DEF Reconnect, Noticed
    <3> QED
      BY <1>0, <1>3, <2>1, <3>1, RefetchScreen DEF Reconnect
  <2> QED
    BY <1>1, <2>1 DEF BellsMadeUp, MadeUp
<1> QED
  BY <1>2, <1>3

LEMMA NavigateKeepsBells ==
    ASSUME BoardTypes, NEW q \in Queries, Navigate(q)
    PROVE  BellsMadeUp'
<1>1. ASSUME page' = "tables", "tables" \notin excused'
      PROVE  screen'["tables"].fetch = "sent"
  <2>1. q = "tables" /\ screen["tables"].fetch = "none"
    BY <1>1 DEF Navigate
  <2> QED
    BY <2>1, OpenScreen DEF Navigate
<1> QED
  BY <1>1 DEF BellsMadeUp, MadeUp

(* An answer that cuts a fetch is Cut until it finds a call, or is excused;*)
(* one that cuts none puts out the bell it is about.  Without an error on  *)
(* the query nothing is lost by its being taken away.                      *)
LEMMA AcknowledgeKeepsBells ==
    ASSUME BoardTypes, BellsMadeUp, NEW s \in Seats, Acknowledge(s)
    PROVE  BellsMadeUp'
<1> DEFINE old == screen["tables"]
           new == screen'["tables"]
<1>1. old.data \in [Seats -> Nat] /\ old.failed \in BOOLEAN
  BY DEF BoardTypes, Screens, Queries, Shown, Data
<1>2. PICK data : data = [old.data EXCEPT ![s] = 0]
  OBVIOUS
<1>3. new.fetch = "none" /\ ~new.failed /\ new.data = data
  BY <1>2, AcknowledgeScreen
<1>4. UNCHANGED <<ring, wire, page, link>>
  BY DEF Acknowledge
<1>5. /\ ack'[s].at = "sent" /\ ack'[s].cut = (old.fetch # "none")
      /\ \A u \in Seats \ {s} : ack'[u] = ack[u]
      /\ ack[s].at = "none"
  BY DEF Acknowledge, BoardTypes, NoAck
<1>6. CASE old.failed
  BY <1>6 DEF Acknowledge, BellsMadeUp
<1> HIDE DEF old, new
<1>7. CASE old.fetch # "none"
  BY <1>5, <1>7 DEF BellsMadeUp, Cut
<1>8. CASE old.fetch = "none" /\ ~old.failed
  <2>1. MadeUp("tables") => MadeUp("tables")' /\ excused' = excused
    BY <1>3, <1>4, <1>8 DEF MadeUp, Acknowledge, old, new
  <2>2. Cut => Cut'
    BY <1>5 DEF Cut
  <2>3. Coming("tables") = old.data /\ Coming("tables")' = data
    BY <1>3, <1>8 DEF Coming, old, new
  <2>4. ASSUME NEW u \in Seats,
               \/ Coming("tables")[u] = ring[u]
               \/ ack[u].at # "none" /\ Coming("tables")[u] = 0
        PROVE  \/ data[u] = ring[u]
               \/ ack'[u].at # "none" /\ data[u] = 0
    <3>1. CASE u = s
      BY <1>1, <1>2, <1>5, <3>1
    <3>2. CASE u # s
      BY <1>1, <1>2, <1>5, <2>3, <2>4, <3>2
    <3> QED
      BY <3>1, <3>2
  <2>5. excused' = excused
    BY <1>8 DEF Acknowledge, old
  <2> QED
    BY <1>4, <2>1, <2>2, <2>3, <2>4, <2>5 DEF BellsMadeUp
<1> QED
  BY <1>6, <1>7, <1>8

LEMMA AcknowledgedKeepsBells ==
    ASSUME BoardTypes, BellsMadeUp, NEW s \in Seats, Acknowledged(s)
    PROVE  BellsMadeUp'
<1>1. UNCHANGED <<screen, page, link>> /\ excused \subseteq excused'
  BY DEF Acknowledged
<1>2. CASE ring[s] # 0
  <2>1. wire'.cleared
    BY <1>2, WireParts DEF Acknowledged
  <2> QED
    BY <2>1 DEF BellsMadeUp
<1>3. CASE ring[s] = 0 /\ ack[s].cut
  BY <1>3 DEF Acknowledged, BellsMadeUp
<1>4. CASE ring[s] = 0 /\ ~ack[s].cut
  <2>1. ring' = ring /\ wire' = wire
    BY <1>4 DEF Acknowledged, BoardTypes, BoardTypeOK
  <2>2. \A u \in Seats \ {s} : ack'[u] = ack[u]
    BY DEF Acknowledged, LoseAck, BoardTypes
  <2>3. Cut => Cut'
    BY <1>4, <2>2 DEF Cut
  <2>4. ASSUME NEW u \in Seats, NEW shown,
               shown = ring[u] \/ (ack[u].at # "none" /\ shown = 0)
        PROVE  shown = ring[u] \/ (ack'[u].at # "none" /\ shown = 0)
    BY <1>4, <2>2, <2>4
  <2> QED
    BY <1>1, <2>1, <2>3, <2>4 DEF BellsMadeUp, Coming, MadeUp
<1> QED
  BY <1>2, <1>3, <1>4

LEMMA LostKeepsBells ==
    ASSUME BoardTypes, BellsMadeUp, NEW s \in Seats, RequestLost(s) \/ AnswerFails(s)
    PROVE  BellsMadeUp'
<1>1. CASE RequestLost(s)
  <2>1. UNCHANGED <<ring, wire, page, link, screen, excused>>
    BY <1>1 DEF RequestLost
  <2>2. ack[s] \in [at : {"sent", "lost"}, was : Nat, cut : BOOLEAN]
    BY <1>1 DEF RequestLost, BoardTypes
  <2>3. /\ ack'[s].at = "lost" /\ ack'[s].cut = ack[s].cut
        /\ \A u \in Seats \ {s} : ack'[u] = ack[u]
    BY <1>1, <2>2 DEF RequestLost, LoseAck, BoardTypes
  <2>4. Cut => Cut'
    BY <2>3 DEF Cut
  <2>5. \A u \in Seats : ack[u].at # "none" => ack'[u].at # "none"
    BY <2>3
  <2> QED
    BY <2>1, <2>4, <2>5 DEF BellsMadeUp, Coming, MadeUp
<1>2. CASE AnswerFails(s)
  BY <1>2 DEF AnswerFails, BellsMadeUp
<1> QED
  BY <1>1, <1>2

LEMMA BellsStay ==
    ASSUME BoardInv, [BoardNext]_boardVars
    PROVE  BellsMadeUp'
<1>1. BoardTypes /\ Noticed /\ BellsMadeUp
  BY DEF BoardInv
<1>2. CASE BellsAside
  BY <1>1, <1>2, BellsStayAside
<1>3. CASE \/ Cleared \/ OtherEvent
           \/ \E s \in Seats : \/ CallStaff(s) \/ ClearStaffCall(s) \/ Called(s)
                               \/ \E call \in 0..writes.calls : SaveSeat(s, call)
  BY <1>1, <1>3, CallKeepsBells
<1>4. CASE ReadRows("tables") \/ Show("tables") \/ Fail("tables")
  BY <1>1, <1>4, FetchKeepsBells
<1>5. CASE Disconnect \/ Miss \/ ConnectError \/ Reconnect
  BY <1>1, <1>5, SocketKeepsBells
<1>6. ASSUME NEW q \in Queries, Navigate(q) PROVE BellsMadeUp'
  BY <1>1, <1>6, NavigateKeepsBells
<1>7. ASSUME NEW s \in Seats, Acknowledge(s) \/ Acknowledged(s) PROVE BellsMadeUp'
  BY <1>1, <1>7, AcknowledgeKeepsBells, AcknowledgedKeepsBells
<1>8. ASSUME NEW s \in Seats, RequestLost(s) \/ AnswerFails(s) PROVE BellsMadeUp'
  BY <1>1, <1>8, LostKeepsBells
<1>9. BoardNext \/ UNCHANGED boardVars
  OBVIOUS
<1> QED
  BY <1>1, <1>2, <1>3, <1>4, <1>5, <1>6, <1>7, <1>8, <1>9, AsideOfBells DEF BoardNext, Queries

LEMMA BoardInvariance == BoardSpec => []BoardInv
<1>1. BoardInit => BoardInv
  BY BoardInvStart
<1>2. BoardInv /\ [BoardNext]_boardVars => BoardInv'
  BY BoardTypesStay, NoticedStays, OrdersStay, BellsStay DEF BoardInv
<1> QED
  BY <1>1, <1>2, PTL DEF BoardSpec

(* The types of the board (BoardTypeOK), for every number of tickets,      *)
(* seats, staff, writes and lost connections.                              *)
THEOREM BoardIsTyped == BoardSpec => []BoardTypeOK
<1>1. BoardInv => BoardTypeOK
  BY DEF BoardInv, BoardTypes
<1> QED
  BY <1>1, BoardInvariance, PTL

(* OrdersAreCurrent of useTicketBoard: when nothing is on its way, the     *)
(* orders page shows every ticket as it is, but for the writes no event in *)
(* time told of, whatever the socket lost and in whatever order the events *)
(* of the writers came.  A row that is not shown is made up for: by an     *)
(* event that is news, by a fetch, by the socket's return.                 *)
THEOREM OrdersStayCurrent == BoardSpec => []OrdersAreCurrent
<1>1. BoardInv => OrdersAreCurrent
  BY DEF BoardInv, OrdersAreCurrent, Settled, OrdersMadeUp, Coming, MadeUp, Announced
<1> QED
  BY <1>1, BoardInvariance, PTL

(* BellsAreCurrent of useStaffCalls: when nothing is on its way, the floor *)
(* page shows the bells that ring, whoever rang, answered or lost the      *)
(* socket in between, but for what the page does not make up for: an       *)
(* answer that cancelled a fetch for nothing, that failed, or that took    *)
(* the error of a failed fetch away; a save of the seat.                   *)
THEOREM BellsStayCurrent == BoardSpec => []BellsAreCurrent
<1>1. BoardInv => BellsAreCurrent
  <2> SUFFICES ASSUME BoardInv, Settled("tables"), "tables" \notin excused
               PROVE  screen["tables"].data = ring
    BY DEF BellsAreCurrent
  <2>1. ASSUME NEW s \in Seats PROVE ack[s].at = "none"
    <3>1. ack[s] = NoAck
      BY DEF Settled
    <3> QED
      BY <3>1 DEF NoAck
  <2>2. BellsMadeUp /\ page = "tables"
    BY DEF BoardInv, Settled
  <2>3. /\ ~MadeUp("tables") /\ wire.called = {} /\ ~wire.cleared
        /\ Coming("tables") = screen["tables"].data
    BY DEF Settled, MadeUp, Coming
  <2>4. ~Cut
    BY <2>1 DEF Cut
  <2>5. \A s \in Seats : screen["tables"].data[s] = ring[s]
    BY <2>1, <2>2, <2>3, <2>4 DEF BellsMadeUp
  <2>6. screen["tables"].data \in [Seats -> Nat] /\ ring \in [Seats -> Nat]
    BY DEF BoardInv, BoardTypes, BoardTypeOK, Screens, Queries, Shown, Data
  <2> QED
    BY <2>6, <2>5
<1> QED
  BY <1>1, BoardInvariance, PTL
===============================================================================
