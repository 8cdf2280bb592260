----------------------------- MODULE BillingProofs -----------------------------
(***************************************************************************)
(* Proofs about Billing for every set of visits, orders, lines, items and  *)
(* payments: the tab keeps its types, the money invariant holds, a ticket  *)
(* is cancelled exactly when it is empty, the bill of a closed visit is    *)
(* final, and Billing implements TabLedger.                                *)
(*                                                                         *)
(* As to money, the steps of the system fall into five kinds, one lemma    *)
(* each: steps that touch no line and no payment, a new order, lines       *)
(* leaving the bill, a new payment, and the end of a pending payment.      *)
(***************************************************************************)
EXTENDS BillingLedger, TLAPS

(* Every step keeps the types.                                             *)
LEMMA TypeStep ==
    ASSUME TypeOK, [Next]_vars
    PROVE  TypeOK'
<1> USE DEF TypeOK, LiveStates, Statuses, Buckets
<1>1. ASSUME NEW v \in Visits, OpenVisit(v) \/ CloseVisit(v) PROVE TypeOK'
  BY <1>1 DEF OpenVisit, CloseVisit, orderVars, payVars, menuVars
<1>2. ASSUME NEW o \in Orders, NEW v \in Visits, PlaceOrder(o, v) \/ PlaceAsGuest(o, v)
      PROVE TypeOK'
  <2>1. InsertOrder(o, v) /\ visit' = [visit EXCEPT ![v] = "active"]
        /\ UNCHANGED <<payVars, menuVars>>
    BY <1>2 DEF PlaceOrder, PlaceAsGuest
  <2>2. \A l \in Lines : BucketFor(l \in ChargeLines, l \in FoodLines, kitchenOn) \in Buckets
    BY DEF BucketFor
  <2>3. \A k \in Tickets : FirstStatus(k[2]) \in Statuses
    BY DEF FirstStatus
  <2> QED
    BY <2>1, <2>2, <2>3 DEF InsertOrder, payVars, menuVars
<1>3. ASSUME NEW k \in Tickets,
             \/ Accept(k) \/ Ready(k) \/ Send(k)
             \/ FlagIssue(k) \/ Substitute(k) \/ Escalate(k)
      PROVE TypeOK'
  <2>1. PICK status \in Statuses : SetTicket(k, status)
    BY <1>3 DEF Accept, Ready, Send, FlagIssue, Substitute, Escalate
  <2> QED
    BY <2>1 DEF SetTicket, payVars, menuVars
<1>4. ASSUME NEW l \in Lines, VoidItem(l) \/ CompItem(l) PROVE TypeOK'
  BY <1>4 DEF VoidItem, CompItem, VoidLines, payVars, menuVars
<1>5. ASSUME NEW i \in Items, MarkUnavailable(i) \/ MarkAvailable(i) PROVE TypeOK'
  <2>1. available' \in [Items -> BOOLEAN]
    BY <1>5, Zenon DEF MarkUnavailable, MarkAvailable
  <2>2. line' \in [Lines -> {"none", "active", "void", "comp"}]
        /\ ticket' \in [Tickets -> Statuses \cup {"none"}]
    BY <1>5 DEF MarkUnavailable, MarkAvailable, VoidLines, orderVars
  <2>3. UNCHANGED <<visit, orderVisit, bucket, payStatus, payVisit, payOrders, payLines, kitchenOn>>
    BY <1>5 DEF MarkUnavailable, MarkAvailable, orderVars, payVars
  <2> QED
    BY <2>1, <2>2, <2>3
<1>6. ASSUME SwitchKitchenDisplay PROVE TypeOK'
  BY <1>6 DEF SwitchKitchenDisplay, orderVars, payVars
<1>7. ASSUME NEW p \in Payments, NEW v \in Visits, CreatePromptPay(p, v) \/ PayCash(p, v)
      PROVE TypeOK'
  BY <1>7 DEF CreatePromptPay, PayCash, CreatePayment, InsertAttempt, Uncovered, Billable, orderVars, menuVars
<1>8. ASSUME NEW p \in Payments, SettlePayment(p) \/ DropPayment(p) PROVE TypeOK'
  BY <1>8 DEF SettlePayment, DropPayment, orderVars, menuVars
<1>9. CASE UNCHANGED vars
  BY <1>9 DEF vars, orderVars, payVars, menuVars
<1> QED
  BY <1>1, <1>2, <1>3, <1>4, <1>5, <1>6, <1>7, <1>8, <1>9
     DEF Next, VisitNext, OrderNext, TicketNext, LineNext, MenuNext, PaymentNext

(* Every handler writes values its column knows: statuses, stations, sets  *)
(* of existing orders and lines.                                           *)
LEMMA TypeInvariance == Spec => []TypeOK
<1> USE DEF LiveStates, Statuses, Buckets
<1>1. Init => TypeOK
  BY DEF Init, TypeOK
<1>2. TypeOK /\ [Next]_vars => TypeOK'
  BY TypeStep
<1> QED
  BY <1>1, <1>2, PTL DEF Spec

-------------------------------------------------------------------------------
(* The money invariant.                                                    *)

(* Steps that leave the lines and the payments alone: what remains is that *)
(* no visit with a pending payment leaves the live states.                 *)
LEMMA FrameKeepsMoney ==
    ASSUME MoneyInv,
           UNCHANGED <<orderVisit, line, bucket, payVars>>,
           \A v \in Visits : IsLive(v) /\ PendingOnVisit(v) => IsLive(v)'
    PROVE  MoneyInv'
<1> USE DEF MoneyInv, payVars
<1>1. (RowsLinked /\ OnePendingPerVisit /\ NoDoubleCharge)'
  BY DEF RowsLinked, OnePendingPerVisit, NoDoubleCharge, InPlay, VisitOf
<1>2. (PendingFrozen /\ PaidCoversBill)'
  BY DEF PendingFrozen, PaidCoversBill, Billable
<1>3. PendingOnLiveVisit'
  BY DEF PendingOnLiveVisit, PendingOnVisit, RowsLinked
<1> QED
  BY <1>1, <1>2, <1>3

(* A new order is covered by no payment, so no amount can refer to it.     *)
LEMMA NewOrderKeepsMoney ==
    ASSUME TypeOK, MoneyInv,
           NEW o \in Orders, NEW v \in Visits,
           CanPlace(o), InsertOrder(o, v), UNCHANGED payVars,
           visit' = [visit EXCEPT ![v] = "active"]
    PROVE  MoneyInv'
<1> USE DEF MoneyInv, payVars
<1>1. orderVisit[o] = NoVisit /\ orderVisit' = [orderVisit EXCEPT ![o] = v]
  BY DEF CanPlace, InsertOrder
<1>2. \A l \in Lines : OrderOf[l] # o => line'[l] = line[l] /\ bucket'[l] = bucket[l]
  BY DEF InsertOrder, LinesOf
<1>3. \A l \in Lines : OrderOf[l] = o => line'[l] = "active" /\ bucket'[l] # "none"
  BY DEF InsertOrder, LinesOf, BucketFor
<1>4. \A p \in Payments : o \notin payOrders[p]
  BY <1>1, NoVisitAssumption DEF RowsLinked
<1>5. RowsLinked'
  <2>1. \A l \in Lines : (line'[l] = "none" <=> VisitOf(l)' = NoVisit)
                        /\ (line'[l] = "none" <=> bucket'[l] = "none")
    BY <1>1, <1>2, <1>3, LinesAssumption, NoVisitAssumption DEF RowsLinked, VisitOf, TypeOK
  <2>2. \A p \in Payments : \A q \in payOrders[p] :
           payStatus[p] # "none" /\ orderVisit'[q] = payVisit[p]
    BY <1>1, <1>4 DEF RowsLinked, TypeOK
  <2> QED
    BY <2>1, <2>2 DEF RowsLinked
<1>6. (OnePendingPerVisit /\ NoDoubleCharge)'
  BY DEF OnePendingPerVisit, NoDoubleCharge, InPlay
<1>7. \A p \in Payments : Billable(payOrders[p])' = Billable(payOrders[p])
  BY <1>2, <1>4 DEF Billable
<1>8. (PendingFrozen /\ PaidCoversBill)'
  BY <1>7 DEF PendingFrozen, PaidCoversBill
<1>9. PendingOnLiveVisit'
  BY DEF PendingOnLiveVisit, IsLive, LiveStates, TypeOK
<1> QED
  BY <1>5, <1>6, <1>8, <1>9

(* Void, comp and 86 only take active lines off visits without a pending   *)
(* payment: a pending amount stays, a completed one can only be too high.  *)
LEMMA LinesOffKeepMoney ==
    ASSUME TypeOK, MoneyInv,
           UNCHANGED <<visit, orderVisit, bucket, payVars>>,
           \A l \in Lines :
              \/ line'[l] = line[l]
              \/ line[l] = "active" /\ line'[l] \in {"void", "comp"} /\ ~PendingOnVisit(VisitOf(l))
    PROVE  MoneyInv'
<1> USE DEF MoneyInv, payVars
<1>1. (RowsLinked /\ OnePendingPerVisit /\ NoDoubleCharge /\ PendingOnLiveVisit)'
  BY DEF RowsLinked, VisitOf, OnePendingPerVisit, NoDoubleCharge, InPlay,
         PendingOnLiveVisit, IsLive
<1>2. PaidCoversBill'
  BY DEF PaidCoversBill, Billable
<1>3. ASSUME NEW p \in Payments, payStatus[p] = "pending"
      PROVE  Billable(payOrders[p])' = Billable(payOrders[p])
  <2>1. \A l \in Lines : OrderOf[l] \in payOrders[p] => line'[l] = line[l]
    BY <1>3 DEF RowsLinked, PendingOnVisit, VisitOf
  <2> QED
    BY <2>1 DEF Billable
<1>4. PendingFrozen'
  BY <1>3 DEF PendingFrozen
<1> QED
  BY <1>1, <1>2, <1>4

(* A new payment takes exactly the uncovered orders of a visit that has no *)
(* pending payment.                                                        *)
LEMMA NewPaymentKeepsMoney ==
    ASSUME TypeOK, MoneyInv,
           NEW p \in Payments, NEW v \in Visits, NEW status \in {"pending", "completed"},
           CreatePayment(p, v, status)
    PROVE  MoneyInv'
<1> USE DEF MoneyInv
<1>1. /\ payStatus[p] = "none" /\ IsLive(v) /\ ~PendingOnVisit(v)
      /\ UNCHANGED <<visit, orderVisit, line, bucket>>
  BY DEF CreatePayment, InsertAttempt, orderVars
<1>2. /\ payStatus'[p] = status /\ payVisit'[p] = v
      /\ payOrders'[p] = Uncovered(v) /\ payLines'[p] = Billable(Uncovered(v))
  BY DEF CreatePayment, InsertAttempt, TypeOK
<1>3. \A q \in Payments \ {p} :
         /\ payStatus'[q] = payStatus[q] /\ payVisit'[q] = payVisit[q]
         /\ payOrders'[q] = payOrders[q] /\ payLines'[q] = payLines[q]
  BY DEF CreatePayment, InsertAttempt, TypeOK
<1>4. RowsLinked'
  <2>1. /\ payVisit'[p] \in Visits
        /\ \A o \in payOrders'[p] : payStatus'[p] # "none" /\ orderVisit[o] = payVisit'[p]
    BY <1>2 DEF Uncovered
  <2>2. \A q \in Payments \ {p} :
           /\ payStatus'[q] # "none" => payVisit'[q] \in Visits
           /\ \A o \in payOrders'[q] :
                 payStatus'[q] # "none" /\ orderVisit[o] = payVisit'[q]
    BY <1>3 DEF RowsLinked
  <2>3. \A l \in Lines : VisitOf(l)' = VisitOf(l)
    BY <1>1 DEF VisitOf
  <2> QED
    BY <1>1, <2>1, <2>2, <2>3 DEF RowsLinked
<1>5. OnePendingPerVisit'
  BY <1>1, <1>2, <1>3 DEF OnePendingPerVisit, PendingOnVisit
<1>6. NoDoubleCharge'
  <2>1. \A q \in Payments \ {p} : InPlay(q) => payOrders[q] \cap Uncovered(v) = {}
    BY <1>1 DEF InPlay, RowsLinked, PendingOnVisit, Uncovered, Covered
  <2> QED
    BY <2>1, <1>2, <1>3 DEF NoDoubleCharge, InPlay
<1>7. \A S : Billable(S)' = Billable(S)
  BY <1>1 DEF Billable
<1>8. (PendingFrozen /\ PaidCoversBill)'
  BY <1>2, <1>3, <1>7 DEF PendingFrozen, PaidCoversBill
<1>9. PendingOnLiveVisit'
  BY <1>1, <1>2, <1>3 DEF PendingOnLiveVisit, IsLive
<1> QED
  BY <1>4, <1>5, <1>6, <1>8, <1>9

(* The end of a pending payment, settled or dropped.                       *)
LEMMA EndOfPaymentKeepsMoney ==
    ASSUME TypeOK, MoneyInv,
           NEW p \in Payments, SettlePayment(p) \/ DropPayment(p)
    PROVE  MoneyInv'
<1> USE DEF MoneyInv
<1>1. /\ payStatus[p] = "pending" /\ payStatus'[p] \in {"completed", "cancelled"}
      /\ \A q \in Payments \ {p} : payStatus'[q] = payStatus[q]
      /\ UNCHANGED <<visit, orderVisit, line, bucket, payVisit, payOrders, payLines>>
  BY DEF SettlePayment, DropPayment, orderVars, TypeOK
<1>2. (RowsLinked /\ OnePendingPerVisit /\ NoDoubleCharge /\ PendingOnLiveVisit)'
  BY <1>1 DEF RowsLinked, VisitOf, OnePendingPerVisit, NoDoubleCharge, InPlay,
              PendingOnLiveVisit, IsLive
<1>3. (PendingFrozen /\ PaidCoversBill)'
  BY <1>1 DEF PendingFrozen, PaidCoversBill, Billable
<1> QED
  BY <1>2, <1>3

(* MoneyInv is inductive, given the types: one step per kind of action.    *)
LEMMA MoneyStep ==
    ASSUME TypeOK, MoneyInv, [Next]_vars
    PROVE  MoneyInv'
<1>1. ASSUME NEW v \in Visits, OpenVisit(v) \/ CloseVisit(v) PROVE MoneyInv'
  <2>1. UNCHANGED <<orderVisit, line, bucket, payVars>>
    BY <1>1 DEF OpenVisit, CloseVisit, orderVars
  <2>2. \A w \in Visits : IsLive(w) /\ PendingOnVisit(w) => IsLive(w)'
    BY <1>1 DEF OpenVisit, CloseVisit, IsLive, LiveStates, TypeOK
  <2> QED
    BY <2>1, <2>2, FrameKeepsMoney
<1>2. ASSUME NEW o \in Orders, NEW v \in Visits, PlaceOrder(o, v) \/ PlaceAsGuest(o, v)
      PROVE MoneyInv'
  <2>1. /\ CanPlace(o) /\ InsertOrder(o, v) /\ UNCHANGED payVars
        /\ visit' = [visit EXCEPT ![v] = "active"]
    BY <1>2 DEF PlaceOrder, PlaceAsGuest
  <2> QED
    BY <2>1, NewOrderKeepsMoney
<1>3. ASSUME NEW k \in Tickets,
             \/ Accept(k) \/ Ready(k) \/ Send(k)
             \/ FlagIssue(k) \/ Substitute(k) \/ Escalate(k)
      PROVE MoneyInv'
  <2>1. UNCHANGED <<visit, orderVisit, line, bucket, payVars>>
    BY <1>3 DEF Accept, Ready, Send, FlagIssue, Substitute, Escalate, SetTicket
  <2> QED
    BY <2>1, FrameKeepsMoney DEF IsLive
<1>4. ASSUME NEW l \in Lines, VoidItem(l) \/ CompItem(l) PROVE MoneyInv'
  <2>1. Adjustable(l) /\ UNCHANGED <<visit, orderVisit, bucket, payVars>>
    BY <1>4 DEF VoidItem, CompItem
  <2>2. \A m \in Lines : line'[m] = line[m] \/ (m = l /\ line'[m] \in {"void", "comp"})
    BY <1>4 DEF VoidItem, CompItem, VoidLines, TypeOK
  <2> QED
    BY <2>1, <2>2, LinesOffKeepMoney DEF Adjustable
<1>5. ASSUME NEW i \in Items, MarkUnavailable(i) PROVE MoneyInv'
  <2>1. UNCHANGED <<visit, orderVisit, bucket, payVars>>
    BY <1>5 DEF MarkUnavailable
  <2>2. \A m \in Lines : line'[m] = line[m] \/ (m \in AutoVoided(i) /\ line'[m] = "void")
    BY <1>5 DEF MarkUnavailable, VoidLines
  <2> QED
    BY <2>1, <2>2, LinesOffKeepMoney DEF AutoVoided
<1>6. ASSUME (\E i \in Items : MarkAvailable(i)) \/ SwitchKitchenDisplay PROVE MoneyInv'
  <2>1. UNCHANGED <<visit, orderVisit, line, bucket, payVars>>
    BY <1>6 DEF MarkAvailable, SwitchKitchenDisplay, orderVars
  <2> QED
    BY <2>1, FrameKeepsMoney DEF IsLive
<1>7. ASSUME NEW p \in Payments, NEW v \in Visits, CreatePromptPay(p, v) \/ PayCash(p, v)
      PROVE MoneyInv'
  BY <1>7, NewPaymentKeepsMoney DEF CreatePromptPay, PayCash
<1>8. ASSUME NEW p \in Payments, SettlePayment(p) \/ DropPayment(p) PROVE MoneyInv'
  BY <1>8, EndOfPaymentKeepsMoney
<1>9. CASE UNCHANGED vars
  BY <1>9, FrameKeepsMoney DEF vars, orderVars, IsLive
<1> QED
  BY <1>1, <1>2, <1>3, <1>4, <1>5, <1>6, <1>7, <1>8, <1>9
     DEF Next, VisitNext, OrderNext, TicketNext, LineNext, MenuNext, PaymentNext

(* However tills, phones, cooks and managers interleave, the bill adds up. *)
LEMMA MoneyInvariance == Spec => []MoneyInv
<1>1. Init => MoneyInv
  BY LinesAssumption
     DEF Init, MoneyInv, RowsLinked, VisitOf, OnePendingPerVisit, NoDoubleCharge, InPlay,
         PendingFrozen, PendingOnLiveVisit, PaidCoversBill
<1>2. TypeOK /\ MoneyInv /\ [Next]_vars => MoneyInv'
  BY MoneyStep
<1> QED
  BY <1>1, <1>2, TypeInvariance, PTL DEF Spec

(* Two tills that start a payment of one visit at once, in any order: one  *)
(* pending payment per visit.                                              *)
THEOREM OnePaymentAtATime == Spec => []OnePendingPerVisit
<1>1. MoneyInv => OnePendingPerVisit
  BY DEF MoneyInv
<1> QED
  BY <1>1, MoneyInvariance, PTL

(* No order is covered by two payments that count, however payments,       *)
(* cancellations and new orders follow each other.                         *)
THEOREM NothingChargedTwice == Spec => []NoDoubleCharge
<1>1. MoneyInv => NoDoubleCharge
  BY DEF MoneyInv
<1> QED
  BY <1>1, MoneyInvariance, PTL

(* While a payment is pending its amount is what the bill says: voids,     *)
(* comps and 86 keep their hands off the lines it covers.                  *)
THEOREM BillFrozenUnderQr == Spec => []PendingFrozen
<1>1. MoneyInv => PendingFrozen
  BY DEF MoneyInv
<1> QED
  BY <1>1, MoneyInvariance, PTL

(* A visit never closes under a pending payment.                           *)
THEOREM NoQrOnClosedVisit == Spec => []PendingOnLiveVisit
<1>1. MoneyInv => PendingOnLiveVisit
  BY DEF MoneyInv
<1> QED
  BY <1>1, MoneyInvariance, PTL

(* A settled order never owes more than was paid: what is billable on it   *)
(* was part of the amount of its payment, whatever an 86 takes off later.  *)
THEOREM PaidOrdersOweNothing == Spec => []PaidCoversBill
<1>1. MoneyInv => PaidCoversBill
  BY DEF MoneyInv
<1> QED
  BY <1>1, MoneyInvariance, PTL

-------------------------------------------------------------------------------
(* Tickets.  CancelledIffEmpty is inductive together with the links of a   *)
(* ticket to its order and to the lines on it.                             *)

TicketsLinked ==
    /\ \A l \in Lines : bucket[l] # "none" => ticket[TicketOf(l)] # "none"
    /\ \A k \in Tickets : ticket[k] # "none" => orderVisit[k[1]] # NoVisit

TicketInv == TicketsLinked /\ CancelledIffEmpty

(* An order is inserted with its tickets, none of them empty.              *)
LEMMA NewOrderKeepsTickets ==
    ASSUME TypeOK, RowsLinked, TicketInv,
           NEW o \in Orders, NEW v \in Visits, CanPlace(o), InsertOrder(o, v)
    PROVE  TicketInv'
<1> DEFINE route(l) == BucketFor(l \in ChargeLines, l \in FoodLines, kitchenOn)
<1> USE LinesAssumption, NoVisitAssumption
<1>1. /\ orderVisit[o] = NoVisit
      /\ orderVisit' = [orderVisit EXCEPT ![o] = v]
      /\ line' = [l \in Lines |-> IF l \in LinesOf(o) THEN "active" ELSE line[l]]
      /\ bucket' = [l \in Lines |-> IF l \in LinesOf(o) THEN route(l) ELSE bucket[l]]
      /\ ticket' = [k \in Tickets |->
                       IF \E l \in LinesOf(o) : k = <<o, route(l)>>
                       THEN FirstStatus(k[2]) ELSE ticket[k]]
  BY DEF CanPlace, InsertOrder
<1>2. \A l \in Lines : route(l) \in Buckets
  BY DEF BucketFor, Buckets
<1>3. \A b \in Buckets : FirstStatus(b) \notin {"none", "cancelled"}
  BY DEF FirstStatus
<1>4. \A l \in Lines : OrderOf[l] = o <=> l \in LinesOf(o)
  BY DEF LinesOf
<1>5. \A l \in LinesOf(o) : bucket[l] = "none"
  BY <1>1, <1>4 DEF RowsLinked, VisitOf, LinesOf
<1>6. \A k \in Tickets : k[1] = o => ticket[k] = "none"
  BY <1>1 DEF TicketInv, TicketsLinked
<1>7. \A k \in Tickets : k[1] # o => ticket'[k] = ticket[k] /\ LinesOn(k)' = LinesOn(k)
                                     /\ \A l \in LinesOn(k) : line'[l] = line[l]
  <2> TAKE k \in Tickets
  <2> HAVE k[1] # o
  <2>1. ticket'[k] = ticket[k]
    BY <1>1
  <2>2. \A l \in Lines \ LinesOf(o) : bucket'[l] = bucket[l] /\ line'[l] = line[l]
    BY <1>1
  <2>3. \A l \in LinesOf(o) : l \notin LinesOn(k) /\ l \notin LinesOn(k)'
    BY <1>4 DEF LinesOn, TicketOf, LinesOf
  <2> QED
    BY <2>1, <2>2, <2>3 DEF LinesOn, TicketOf
<1>8. ASSUME NEW l \in LinesOf(o), NEW k, k = <<o, route(l)>>
      PROVE  k \in Tickets /\ bucket'[l] = route(l) /\ l \in LinesOn(k)' /\ line'[l] = "active"
  <2>1. l \in Lines /\ OrderOf[l] = o /\ route(l) \in Buckets
    BY <1>2 DEF LinesOf
  <2>2. bucket'[l] = route(l) /\ line'[l] = "active"
    BY <1>1, <2>1
  <2>3. route(l) # "none"
    BY DEF BucketFor
  <2> HIDE DEF route
  <2> QED
    BY <1>8, <2>1, <2>2, <2>3 DEF LinesOn, TicketOf, Tickets
<1>9. \A k \in Tickets : k[1] = o /\ ticket'[k] # "none" =>
          \E l \in LinesOf(o) : k = <<o, route(l)>>
  BY <1>1, <1>6
<1>10. CancelledIffEmpty'
  <2> SUFFICES ASSUME NEW k \in Tickets, ticket'[k] # "none"
               PROVE  ticket'[k] = "cancelled" <=> \A l \in LinesOn(k)' : line'[l] = "void"
    BY DEF CancelledIffEmpty, Tickets
  <2>1. CASE k[1] # o
    BY <2>1, <1>7 DEF TicketInv, CancelledIffEmpty
  <2>2. CASE k[1] = o
    <3>1. PICK l \in LinesOf(o) : k = <<o, route(l)>>
      BY <2>2, <1>9
    <3>2. ticket'[k] = FirstStatus(k[2]) /\ k[2] \in Buckets
      BY <3>1, <1>1 DEF Tickets
    <3> QED
      BY <3>1, <3>2, <1>3, <1>8
  <2> QED
    BY <2>1, <2>2
<1>11. TicketsLinked'
  <2>1. ASSUME NEW l \in Lines, bucket'[l] # "none" PROVE ticket'[TicketOf(l)'] # "none"
    <3>1. CASE l \in LinesOf(o)
      <4>1. TicketOf(l)' = <<o, route(l)>> /\ <<o, route(l)>> \in Tickets
        BY <3>1, <1>4, <1>8 DEF TicketOf
      <4>2. ticket'[<<o, route(l)>>] = FirstStatus(route(l))
        BY <3>1, <1>1, <1>8
      <4> QED
        BY <4>1, <4>2, <1>2, <1>3
    <3>2. CASE l \notin LinesOf(o)
      <4>1. bucket[l] # "none" /\ TicketOf(l)' = TicketOf(l) /\ TicketOf(l)[1] # o
        BY <2>1, <3>2, <1>1, <1>4 DEF TicketOf
      <4>2. TicketOf(l) \in Tickets
        BY <4>1 DEF TicketOf, Tickets, TypeOK
      <4> QED
        BY <4>1, <4>2, <1>7 DEF TicketInv, TicketsLinked
    <3> QED
      BY <3>1, <3>2
  <2>2. ASSUME NEW k \in Tickets, ticket'[k] # "none" PROVE orderVisit'[k[1]] # NoVisit
    <3>1. k[1] \in Orders
      BY DEF Tickets
    <3> QED
      BY <2>2, <3>1, <1>1, <1>7 DEF TicketInv, TicketsLinked, TypeOK
  <2> QED
    BY <2>1, <2>2 DEF TicketsLinked, Tickets
<1> QED
  BY <1>10, <1>11 DEF TicketInv

(* Voiding active lines cancels the tickets they were the last of.         *)
LEMMA VoidKeepsTickets ==
    ASSUME TypeOK, RowsLinked, TicketInv,
           NEW S \in SUBSET Lines, \A l \in S : line[l] = "active",
           VoidLines(S), UNCHANGED <<orderVisit, bucket>>
    PROVE  TicketInv'
<1> USE LinesAssumption, NoVisitAssumption
<1>1. \A l \in Lines : line'[l] = IF l \in S THEN "void" ELSE line[l]
  BY DEF VoidLines
<1>2. \A k \in Tickets : ticket'[k] = IF k \in EmptiedBy(S) THEN "cancelled" ELSE ticket[k]
  BY DEF VoidLines
<1>3. \A k : LinesOn(k)' = LinesOn(k)
  BY DEF LinesOn, TicketOf
<1>4. \A l \in S : bucket[l] # "none" /\ TicketOf(l) \in Tickets /\ VisitOf(l) # NoVisit
  BY DEF RowsLinked, TicketOf, Tickets, TypeOK
<1>5. CancelledIffEmpty'
  <2> SUFFICES ASSUME NEW k \in Tickets, ticket'[k] # "none"
               PROVE  ticket'[k] = "cancelled" <=> \A l \in LinesOn(k) : line'[l] = "void"
    BY <1>3 DEF CancelledIffEmpty, Tickets
  <2>0. LinesOn(k) \subseteq Lines
    BY DEF LinesOn
  <2>1. CASE k \in EmptiedBy(S)
    BY <2>0, <2>1, <1>1, <1>2 DEF EmptiedBy
  <2>2. CASE k \notin EmptiedBy(S) /\ \E l \in S : TicketOf(l) = k
    <3>1. PICK l \in LinesOn(k) : l \notin S /\ line[l] # "void"
      BY <2>2 DEF EmptiedBy
    <3> QED
      BY <2>0, <2>2, <3>1, <1>1, <1>2 DEF TicketInv, CancelledIffEmpty
  <2>3. CASE ~\E l \in S : TicketOf(l) = k
    <3>1. \A l \in LinesOn(k) : l \notin S
      BY <2>3 DEF LinesOn
    <3>2. k \notin EmptiedBy(S)
      BY <2>3 DEF EmptiedBy
    <3> QED
      BY <2>0, <3>1, <3>2, <1>1, <1>2 DEF TicketInv, CancelledIffEmpty
  <2> QED
    BY <2>1, <2>2, <2>3
<1>6. TicketsLinked'
  <2>1. ASSUME NEW l \in Lines, bucket[l] # "none" PROVE ticket'[TicketOf(l)] # "none"
    <3>1. TicketOf(l) \in Tickets
      BY <2>1 DEF TicketOf, Tickets, TypeOK
    <3> QED
      BY <2>1, <3>1, <1>2 DEF TicketInv, TicketsLinked
  <2>2. ASSUME NEW k \in Tickets, ticket'[k] # "none" PROVE orderVisit[k[1]] # NoVisit
    <3>1. CASE k \in EmptiedBy(S)
      BY <3>1, <1>4 DEF EmptiedBy, TicketOf, VisitOf
    <3>2. CASE k \notin EmptiedBy(S)
      BY <2>2, <3>2, <1>2 DEF TicketInv, TicketsLinked
    <3> QED
      BY <3>1, <3>2
  <2> QED
    BY <2>1, <2>2 DEF TicketsLinked, TicketOf, Tickets
<1> QED
  BY <1>5, <1>6 DEF TicketInv

(* A handler of the kitchen moves a ticket that is alive and keeps it so.  *)
LEMMA WorkKeepsTickets ==
    ASSUME TypeOK, TicketInv, NEW k \in Tickets,
           ticket[k] \notin {"none", "cancelled"},
           NEW status, status \notin {"none", "cancelled"}, SetTicket(k, status)
    PROVE  TicketInv'
<1>1. /\ \A j \in Tickets : ticket'[j] = IF j = k THEN status ELSE ticket[j]
      /\ UNCHANGED <<line, bucket, orderVisit>>
  BY DEF SetTicket, TypeOK
<1>2. \A l \in Lines : bucket[l] # "none" => TicketOf(l) \in Tickets
  BY LinesAssumption DEF TicketOf, Tickets, TypeOK
<1>3. CancelledIffEmpty'
  BY <1>1 DEF TicketInv, CancelledIffEmpty, LinesOn, TicketOf, Tickets
<1>4. TicketsLinked'
  BY <1>1, <1>2 DEF TicketInv, TicketsLinked, TicketOf, Tickets
<1> QED
  BY <1>3, <1>4 DEF TicketInv

(* Every step keeps tickets and lines together.                            *)
LEMMA TicketStep ==
    ASSUME TypeOK, RowsLinked, TicketInv, [Next]_vars
    PROVE  TicketInv'
<1>1. ASSUME NEW o \in Orders, NEW v \in Visits, PlaceOrder(o, v) \/ PlaceAsGuest(o, v)
      PROVE TicketInv'
  BY <1>1, NewOrderKeepsTickets DEF PlaceOrder, PlaceAsGuest
<1>2. ASSUME NEW k \in Tickets,
             \/ Accept(k) \/ Ready(k) \/ Send(k)
             \/ FlagIssue(k) \/ Substitute(k) \/ Escalate(k)
      PROVE TicketInv'
  <2>1. ticket[k] \notin {"none", "cancelled"}
    BY <1>2 DEF Accept, Ready, Send, FlagIssue, Substitute, Escalate, CanAccept, CanReady,
                CanSend, CanFlag, CanSubstitute, CanEscalate, InProgress
  <2>2. \E status \in Statuses \ {"cancelled"} : SetTicket(k, status)
    BY <1>2 DEF Accept, Ready, Send, FlagIssue, Substitute, Escalate, Statuses
  <2> QED
    BY <2>1, <2>2, WorkKeepsTickets DEF Statuses
<1>3. ASSUME NEW l \in Lines, VoidItem(l) PROVE TicketInv'
  <2>1. {l} \in SUBSET Lines /\ \A m \in {l} : line[m] = "active"
    BY <1>3 DEF VoidItem, Adjustable
  <2>2. VoidLines({l}) /\ UNCHANGED <<orderVisit, bucket>>
    BY <1>3 DEF VoidItem
  <2> QED
    BY <2>1, <2>2, VoidKeepsTickets
<1>4. ASSUME NEW l \in Lines, CompItem(l) PROVE TicketInv'
  <2>1. /\ line[l] = "active" /\ UNCHANGED <<orderVisit, bucket, ticket>>
        /\ \A m \in Lines : line'[m] = IF m = l THEN "comp" ELSE line[m]
    BY <1>4 DEF CompItem, Adjustable, TypeOK
  <2> QED
    BY <2>1 DEF TicketInv, TicketsLinked, CancelledIffEmpty, LinesOn, TicketOf, Tickets
<1>5. ASSUME NEW i \in Items, MarkUnavailable(i) PROVE TicketInv'
  <2>1. AutoVoided(i) \in SUBSET Lines /\ \A m \in AutoVoided(i) : line[m] = "active"
    BY DEF AutoVoided
  <2>2. VoidLines(AutoVoided(i)) /\ UNCHANGED <<orderVisit, bucket>>
    BY <1>5 DEF MarkUnavailable
  <2> QED
    BY <2>1, <2>2, VoidKeepsTickets
<1>6. ASSUME UNCHANGED orderVars PROVE TicketInv'
  BY <1>6 DEF orderVars, TicketInv, TicketsLinked, CancelledIffEmpty, LinesOn, TicketOf, Tickets
<1>7. ASSUME \/ VisitNext \/ PaymentNext \/ UNCHANGED vars
             \/ (\E i \in Items : MarkAvailable(i)) \/ SwitchKitchenDisplay
      PROVE UNCHANGED orderVars
  BY <1>7 DEF VisitNext, OpenVisit, CloseVisit, PaymentNext, CreatePromptPay, PayCash,
              CreatePayment, InsertAttempt, SettlePayment, DropPayment, MarkAvailable,
              SwitchKitchenDisplay, vars
<1> QED
  BY <1>1, <1>2, <1>3, <1>4, <1>5, <1>6, <1>7
     DEF Next, OrderNext, TicketNext, LineNext, MenuNext

(* A ticket is cancelled exactly when its last line is voided, by whatever *)
(* mix of manager voids and 86; a comped line keeps it alive.              *)
LEMMA TicketInvariance == Spec => []TicketInv
<1>1. Init => TicketInv
  BY DEF Init, TicketInv, TicketsLinked, CancelledIffEmpty, TicketOf, Tickets
<1>2. TypeOK /\ MoneyInv /\ TicketInv /\ [Next]_vars => TicketInv'
  BY TicketStep DEF MoneyInv
<1> QED
  BY <1>1, <1>2, TypeInvariance, MoneyInvariance, PTL DEF Spec

(* What a step of the bill keeps, for whoever takes such steps.            *)
BillInv == TypeOK /\ MoneyInv /\ TicketInv

LEMMA BillStep == ASSUME BillInv, [Next]_vars PROVE BillInv'
<1>1. RowsLinked
  BY DEF BillInv, MoneyInv
<1> QED
  BY <1>1, TypeStep, MoneyStep, TicketStep DEF BillInv

(* The bill does not depend on what the menu offers.                       *)
LEMMA MenuAlone ==
    ASSUME BillInv, UNCHANGED <<visit, orderVars, payVars>>,
           available' \in [Items -> BOOLEAN], kitchenOn' \in BOOLEAN
    PROVE  BillInv'
<1>1. TypeOK'
  BY DEF BillInv, TypeOK, orderVars, payVars
<1>2. MoneyInv'
  BY FrameKeepsMoney DEF BillInv, orderVars, IsLive
<1>3. TicketInv'
  BY DEF BillInv, orderVars, TicketInv, TicketsLinked, CancelledIffEmpty, LinesOn, TicketOf,
         Tickets
<1> QED
  BY <1>1, <1>2, <1>3 DEF BillInv

(* No cook starts an empty ticket, and no live line hides on a dead one.   *)
THEOREM TicketsFollowLines == Spec => []CancelledIffEmpty
<1>1. TicketInv => CancelledIffEmpty
  BY DEF TicketInv
<1> QED
  BY <1>1, TicketInvariance, PTL

-------------------------------------------------------------------------------
(* Closed visits.                                                          *)

(* A payment row that was not inserted yet belongs to no visit.            *)
UnmadePayments == \A p \in Payments : payStatus[p] = "none" => payVisit[p] = NoVisit

LEMMA UnmadeInvariance == Spec => []UnmadePayments
<1>1. Init => UnmadePayments
  BY DEF Init, UnmadePayments
<1>2. TypeOK /\ UnmadePayments /\ [Next]_vars => UnmadePayments'
  <2> SUFFICES ASSUME TypeOK, UnmadePayments, [Next]_vars PROVE UnmadePayments'
    OBVIOUS
  <2>1. ASSUME NEW p \in Payments, NEW v \in Visits, CreatePromptPay(p, v) \/ PayCash(p, v)
        PROVE UnmadePayments'
    BY <2>1 DEF CreatePromptPay, PayCash, CreatePayment, InsertAttempt, UnmadePayments, TypeOK
  <2>2. ASSUME NEW p \in Payments, SettlePayment(p) \/ DropPayment(p) PROVE UnmadePayments'
    BY <2>2 DEF SettlePayment, DropPayment, UnmadePayments, TypeOK
  <2>3. ASSUME VisitNext \/ OrderNext \/ TicketNext \/ LineNext \/ MenuNext \/ UNCHANGED vars
        PROVE UNCHANGED payVars
    BY <2>3 DEF VisitNext, OpenVisit, CloseVisit, OrderNext, PlaceOrder, PlaceAsGuest, TicketNext,
                Accept, Ready, Send, FlagIssue, Substitute, Escalate, SetTicket, LineNext, VoidItem,
                CompItem, MenuNext, MarkUnavailable, MarkAvailable, SwitchKitchenDisplay, vars
  <2> QED
    BY <2>1, <2>2, <2>3 DEF Next, PaymentNext, payVars, UnmadePayments
<1> QED
  BY <1>1, <1>2, TypeInvariance, PTL DEF Spec

(* What a step may not change of a visit that is closed.                   *)
BillStands(v) ==
    /\ visit'[v] = "closed"
    /\ \A o \in Orders : (orderVisit[o] = v) = (orderVisit'[o] = v)
    /\ \A l \in Lines : VisitOf(l) = v => line'[l] = line[l]
    /\ \A p \in Payments : payVisit[p] = v => payStatus'[p] = payStatus[p]

(* Orders land on visits that are not closed.                              *)
LEMMA NewOrderElsewhere ==
    ASSUME TypeOK, NEW v \in Visits, visit[v] = "closed",
           NEW o \in Orders, NEW w \in Visits, w # v, CanPlace(o), InsertOrder(o, w),
           visit' = [visit EXCEPT ![w] = "active"], UNCHANGED payVars
    PROVE  BillStands(v)
<1>1. visit'[v] = "closed" /\ UNCHANGED payStatus
  BY DEF TypeOK, payVars
<1>2. orderVisit[o] = NoVisit /\ orderVisit' = [orderVisit EXCEPT ![o] = w] /\ NoVisit # v
  BY NoVisitAssumption DEF CanPlace, InsertOrder
<1>3. \A l \in Lines : OrderOf[l] # o => line'[l] = line[l]
  BY DEF InsertOrder, LinesOf
<1> QED
  BY <1>1, <1>2, <1>3, LinesAssumption DEF BillStands, VisitOf, TypeOK

(* Once a visit is closed its bill is final, whatever the kitchen, an 86,  *)
(* late guests, payments and other visits do.                              *)
THEOREM ClosedBillsAreFinal == Spec => ClosedBillFinal
<1>1. TypeOK /\ MoneyInv /\ UnmadePayments /\ [Next]_vars
        => \A v \in Visits : visit[v] = "closed" => BillStands(v)
  <2> SUFFICES ASSUME TypeOK, PendingOnLiveVisit, UnmadePayments, [Next]_vars,
                      NEW v \in Visits, visit[v] = "closed"
               PROVE  BillStands(v)
    BY DEF MoneyInv
  <2>1. ~IsLive(v) /\ v # NoVisit
    BY NoVisitAssumption DEF IsLive, LiveStates
  <2>2. ASSUME NEW w \in Visits, OpenVisit(w) \/ CloseVisit(w) PROVE BillStands(v)
    BY <2>1, <2>2 DEF OpenVisit, CloseVisit, orderVars, payVars, BillStands, TypeOK
  <2>3. ASSUME NEW o \in Orders, NEW w \in Visits, PlaceOrder(o, w) \/ PlaceAsGuest(o, w)
        PROVE BillStands(v)
    <3>1. w # v
      BY <2>1, <2>3 DEF PlaceOrder, PlaceAsGuest
    <3> QED
      BY <2>3, <3>1, NewOrderElsewhere DEF PlaceOrder, PlaceAsGuest
  <2>4. ASSUME UNCHANGED <<visit, orderVisit, payStatus>>,
               \A l \in Lines : VisitOf(l) = v => line'[l] = line[l]
        PROVE BillStands(v)
    BY <2>4 DEF BillStands
  <2>5. ASSUME \/ TicketNext \/ (\E i \in Items : MarkAvailable(i)) \/ SwitchKitchenDisplay
               \/ UNCHANGED vars
        PROVE UNCHANGED <<visit, orderVisit, line, payStatus>>
    BY <2>5 DEF TicketNext, Accept, Ready, Send, FlagIssue, Substitute, Escalate, SetTicket,
                MarkAvailable, SwitchKitchenDisplay, orderVars, payVars, vars
  <2>6. ASSUME NEW l \in Lines, VoidItem(l) \/ CompItem(l) PROVE BillStands(v)
    <3>1. UNCHANGED <<visit, orderVisit, payStatus>> /\ IsLive(VisitOf(l))
      BY <2>6 DEF VoidItem, CompItem, Adjustable, payVars
    <3>2. \A m \in Lines : m # l => line'[m] = line[m]
      BY <2>6 DEF VoidItem, CompItem, VoidLines, TypeOK
    <3> QED
      BY <2>1, <2>4, <3>1, <3>2
  <2>7. ASSUME NEW i \in Items, MarkUnavailable(i) PROVE BillStands(v)
    <3>1. UNCHANGED <<visit, orderVisit, payStatus>>
      BY <2>7 DEF MarkUnavailable, payVars
    <3>2. \A m \in Lines : m \notin AutoVoided(i) => line'[m] = line[m]
      BY <2>7 DEF MarkUnavailable, VoidLines
    <3>3. \A m \in AutoVoided(i) : IsLive(VisitOf(m))
      BY DEF AutoVoided
    <3> QED
      BY <2>1, <2>4, <3>1, <3>2, <3>3
  <2>8. ASSUME NEW p \in Payments, payVisit[p] # v,
               UNCHANGED <<visit, orderVars>>,
               \A q \in Payments : q # p => payStatus'[q] = payStatus[q]
        PROVE BillStands(v)
    BY <2>8 DEF BillStands, orderVars
  <2>9. ASSUME NEW p \in Payments, NEW w \in Visits, CreatePromptPay(p, w) \/ PayCash(p, w)
        PROVE BillStands(v)
    <3>1. payStatus[p] = "none" /\ UNCHANGED <<visit, orderVars>>
          /\ \A q \in Payments : q # p => payStatus'[q] = payStatus[q]
      BY <2>9 DEF CreatePromptPay, PayCash, CreatePayment, InsertAttempt, TypeOK
    <3> QED
      BY <2>1, <2>8, <3>1 DEF UnmadePayments
  <2>10. ASSUME NEW p \in Payments, SettlePayment(p) \/ DropPayment(p) PROVE BillStands(v)
    <3>1. payStatus[p] = "pending" /\ UNCHANGED <<visit, orderVars>>
          /\ \A q \in Payments : q # p => payStatus'[q] = payStatus[q]
      BY <2>10 DEF SettlePayment, DropPayment, TypeOK
    <3> QED
      BY <2>1, <2>8, <3>1 DEF PendingOnLiveVisit
  <2> QED
    BY <2>2, <2>3, <2>4, <2>5, <2>6, <2>7, <2>9, <2>10
       DEF Next, VisitNext, OrderNext, LineNext, MenuNext, PaymentNext
<1>2. (\A v \in Visits : visit[v] = "closed" => BillStands(v))
        => [\A v \in Visits : visit[v] = "closed" =>
              /\ visit'[v] = "closed"
              /\ \A o \in Orders : (orderVisit[o] = v) = (orderVisit'[o] = v)
              /\ \A l \in Lines : VisitOf(l) = v => line'[l] = line[l]
              /\ \A p \in Payments : payVisit[p] = v => payStatus'[p] = payStatus[p]]_vars
  BY DEF BillStands
<1> QED
  BY <1>1, <1>2, TypeInvariance, MoneyInvariance, UnmadeInvariance, PTL DEF Spec, ClosedBillFinal

--------------------------------------------------------------------------------
(* Billing implements TabLedger: each step of a handler is a step of the   *)
(* promised ledger, or leaves the ledger alone.                            *)

(* The ledger the rows of the code stand for.                              *)
TabOf(v) == IF IsLive(v) THEN "live" ELSE visit[v]
Tabs     == [v \in Visits |-> TabOf(v)]
LedgerNow == [o \in Orders |-> LedgerOf(o)]

(* Steps of the kitchen, of lines, of the menu: nothing the ledger sees.   *)
LEMMA RowsAloneStutter ==
    ASSUME UNCHANGED <<visit, orderVisit, payVars>>
    PROVE  UNCHANGED <<Tabs, orderVisit, LedgerNow>>
BY DEF Tabs, TabOf, IsLive, LedgerNow, LedgerOf, Covered, LockedOrder, payVars

(* Covered and locked orders are orders of the visit of their payment.     *)
LEMMA TakenOrders ==
    ASSUME RowsLinked, NEW o \in Orders, Covered(o) \/ LockedOrder(o)
    PROVE  orderVisit[o] \in Visits
BY DEF RowsLinked, Covered, LockedOrder

(* A visit without a pending payment has nothing locked.                   *)
LEMMA NothingLocked ==
    ASSUME RowsLinked, NEW v \in Visits, ~PendingOnVisit(v)
    PROVE  Ledger!OrdersIn(v, "locked") = {}
BY DEF RowsLinked, PendingOnVisit, LockedOrder, LedgerOf, Ledger!OrdersIn

(* A new order is due.                                                     *)
LEMMA NewOrderIsAdded ==
    ASSUME TypeOK, RowsLinked, NEW o \in Orders, NEW v \in Visits,
           CanPlace(o), InsertOrder(o, v), visit[v] = "none" \/ IsLive(v),
           visit' = [visit EXCEPT ![v] = "active"], UNCHANGED payVars
    PROVE  Ledger!Add(o, v)
<1>1. /\ orderVisit[o] = NoVisit
      /\ orderVisit' = [orderVisit EXCEPT ![o] = v]
  BY DEF CanPlace, InsertOrder
<1>2. \A q \in Orders : (Covered(q)' = Covered(q)) /\ (LockedOrder(q)' = LockedOrder(q))
  BY DEF Covered, LockedOrder, payVars
<1>3. ~Covered(o) /\ ~LockedOrder(o)
  BY <1>1, TakenOrders, NoVisitAssumption
<1>4. LedgerNow' = [LedgerNow EXCEPT ![o] = "due"]
  BY <1>1, <1>2, <1>3, NoVisitAssumption DEF LedgerNow, LedgerOf, TypeOK
<1>5. Tabs' = [Tabs EXCEPT ![v] = "live"]
  BY DEF Tabs, TabOf, IsLive, LiveStates, TypeOK
<1>6. LedgerNow[o] = "none" /\ Tabs[v] # "closed"
  BY <1>1 DEF LedgerNow, LedgerOf, Tabs, TabOf, IsLive, LiveStates
<1> QED
  BY <1>1, <1>4, <1>5, <1>6 DEF Ledger!Add, Tabs, TabOf, LedgerNow

(* A payment attempt takes the orders that are due and still cost          *)
(* something.                                                              *)
LEMMA NewPaymentTakes ==
    ASSUME TypeOK, RowsLinked, NEW p \in Payments, NEW v \in Visits,
           NEW status \in {"pending", "completed"}, CreatePayment(p, v, status)
    PROVE  Ledger!Take(v, IF status = "pending" THEN "locked" ELSE "paid")
<1>1. /\ payStatus[p] = "none" /\ payStatus'[p] = status
      /\ payOrders'[p] = Uncovered(v) /\ Uncovered(v) # {} /\ Uncovered(v) \subseteq Orders
      /\ \A q \in Payments \ {p} : payStatus'[q] = payStatus[q] /\ payOrders'[q] = payOrders[q]
      /\ UNCHANGED <<visit, orderVisit>> /\ IsLive(v) /\ ~PendingOnVisit(v)
  BY DEF CreatePayment, InsertAttempt, orderVars, Uncovered, TypeOK
<1>2. \A o \in Uncovered(v) : orderVisit[o] = v /\ ~Covered(o) /\ ~LockedOrder(o)
  BY <1>1 DEF Uncovered, RowsLinked, PendingOnVisit, LockedOrder
<1>3. \A o \in Orders : /\ Covered(o)' = (Covered(o) \/ (status = "completed" /\ o \in Uncovered(v)))
                        /\ LockedOrder(o)' = (LockedOrder(o) \/ (status = "pending" /\ o \in Uncovered(v)))
  BY <1>1 DEF Covered, LockedOrder
<1>4. \A o \in Orders :
          LedgerOf(o)' = IF o \in Uncovered(v)
                         THEN IF status = "pending" THEN "locked" ELSE "paid" ELSE LedgerOf(o)
  BY <1>1, <1>2, <1>3, NoVisitAssumption DEF LedgerOf
<1>5. Uncovered(v) \in SUBSET Ledger!OrdersIn(v, "due")
  BY <1>1, <1>2, NoVisitAssumption DEF Ledger!OrdersIn, LedgerOf
<1>6. Ledger!OrdersIn(v, "locked") = {}
  BY <1>1, NothingLocked
<1>7. Ledger!Move(Uncovered(v), IF status = "pending" THEN "locked" ELSE "paid")
  BY <1>4 DEF Ledger!Move
<1>8. UNCHANGED <<Tabs, orderVisit>> /\ Tabs[v] = "live"
  BY <1>1 DEF Tabs, TabOf, IsLive
<1> QED
  BY <1>1, <1>5, <1>6, <1>7, <1>8 DEF Ledger!Take, Tabs, TabOf

(* The end of a pending payment finishes the lock of its visit as a whole. *)
LEMMA EndOfPaymentFinishes ==
    ASSUME TypeOK, MoneyInv, NEW p \in Payments, payStatus[p] = "pending",
           NEW status \in {"completed", "cancelled"},
           payStatus' = [payStatus EXCEPT ![p] = status],
           UNCHANGED <<visit, orderVars, payVisit, payOrders, payLines>>
    PROVE  \/ Ledger!Finish(payVisit[p], IF status = "completed" THEN "paid" ELSE "due")
           \/ UNCHANGED <<Tabs, orderVisit, LedgerNow>>
<1> DEFINE v == payVisit[p]
           locked == Ledger!OrdersIn(v, "locked")
<1>1. v \in Visits /\ payOrders[p] \subseteq Orders
      /\ \A o \in payOrders[p] : orderVisit[o] = v
  BY DEF MoneyInv, RowsLinked, TypeOK
<1>2. \A o \in payOrders[p] : ~Covered(o) /\ LockedOrder(o)
  BY DEF MoneyInv, NoDoubleCharge, InPlay, Covered, LockedOrder
<1>3. \A o \in Orders : LockedOrder(o) /\ orderVisit[o] = v => o \in payOrders[p]
  BY DEF MoneyInv, OnePendingPerVisit, RowsLinked, LockedOrder
<1>4. locked = payOrders[p]
  BY <1>1, <1>2, <1>3, NoVisitAssumption DEF Ledger!OrdersIn, LedgerOf
<1>5. \A o \in Orders :
          /\ Covered(o)' = (Covered(o) \/ (status = "completed" /\ o \in payOrders[p]))
          /\ o \notin payOrders[p] => LockedOrder(o)' = LockedOrder(o)
          /\ o \in payOrders[p] => ~LockedOrder(o)'
  <2>1. /\ payStatus'[p] = status
        /\ \A q \in Payments \ {p} : payStatus'[q] = payStatus[q]
        /\ payOrders' = payOrders
    BY DEF TypeOK
  <2>2. \A q \in Payments \ {p} : \A o \in payOrders[p] : payStatus[q] = "pending" => o \notin payOrders[q]
    BY DEF MoneyInv, NoDoubleCharge, InPlay
  <2> QED
    BY <2>1, <2>2 DEF Covered, LockedOrder
<1>6. \A o \in Orders :
          LedgerOf(o)' = IF o \in payOrders[p]
                         THEN IF status = "completed" THEN "paid" ELSE "due" ELSE LedgerOf(o)
  BY <1>1, <1>2, <1>5, NoVisitAssumption DEF LedgerOf, orderVars
<1>7. UNCHANGED <<Tabs, orderVisit>>
  BY DEF Tabs, TabOf, IsLive, orderVars
<1>8. CASE payOrders[p] = {}
  BY <1>6, <1>7, <1>8 DEF LedgerNow
<1>9. CASE payOrders[p] # {}
  <2>1. Ledger!Move(locked, IF status = "completed" THEN "paid" ELSE "due")
    BY <1>4, <1>6 DEF Ledger!Move
  <2> QED
    BY <1>4, <1>7, <1>9, <2>1 DEF Ledger!Finish, Tabs, TabOf
<1> QED
  BY <1>8, <1>9

(* Paid orders never fall back to due, a lock is taken whole, and settled  *)
(* or released whole, and a visit with a lock does not close.              *)
THEOREM TabIsLedger == Spec => ImplementsLedger
<1>1. Init => Ledger!LedgerInit
  BY DEF Init, Ledger!LedgerInit, IsLive, LiveStates, LedgerOf
<1>2. TypeOK /\ MoneyInv /\ [Next]_vars => [Ledger!LedgerNext]_(Ledger!ledgerVars)
  <2> SUFFICES ASSUME TypeOK, MoneyInv, [Next]_vars
               PROVE  Ledger!LedgerNext \/ UNCHANGED <<Tabs, orderVisit, LedgerNow>>
    BY DEF Ledger!ledgerVars, Tabs, TabOf, LedgerNow
  <2>1. ASSUME NEW v \in Visits, OpenVisit(v) PROVE Ledger!Open(v)
    BY <2>1 DEF OpenVisit, orderVars, payVars, Ledger!Open, IsLive, LiveStates, LedgerOf, Covered,
                LockedOrder, TypeOK
  <2>2. ASSUME NEW v \in Visits, CloseVisit(v) PROVE Ledger!Close(v)
    <3>1. Ledger!OrdersIn(v, "locked") = {}
      BY <2>2, NothingLocked DEF CloseVisit, MoneyInv
    <3> QED
      BY <2>2, <3>1 DEF CloseVisit, orderVars, payVars, Ledger!Close, IsLive, LiveStates, LedgerOf,
                        Covered, LockedOrder, TypeOK
  <2>3. ASSUME NEW o \in Orders, NEW v \in Visits, PlaceOrder(o, v) \/ PlaceAsGuest(o, v)
        PROVE Ledger!Add(o, v)
    BY <2>3, NewOrderIsAdded DEF PlaceOrder, PlaceAsGuest, MoneyInv
  <2>4. ASSUME TicketNext \/ LineNext \/ MenuNext \/ UNCHANGED vars
        PROVE UNCHANGED <<Tabs, orderVisit, LedgerNow>>
    <3>1. UNCHANGED <<visit, orderVisit, payVars>>
      BY <2>4 DEF TicketNext, Accept, Ready, Send, FlagIssue, Substitute, Escalate, SetTicket,
                  LineNext, VoidItem, CompItem, MenuNext, MarkUnavailable, MarkAvailable,
                  SwitchKitchenDisplay, orderVars, vars
    <3> QED
      BY <3>1, RowsAloneStutter
  <2>5. ASSUME NEW p \in Payments, NEW v \in Visits, CreatePromptPay(p, v) PROVE Ledger!Lock(v)
    BY <2>5, NewPaymentTakes DEF CreatePromptPay, MoneyInv, Ledger!Lock
  <2>6. ASSUME NEW p \in Payments, NEW v \in Visits, PayCash(p, v) PROVE Ledger!PayNow(v)
    BY <2>6, NewPaymentTakes DEF PayCash, MoneyInv, Ledger!PayNow
  <2>7. ASSUME NEW p \in Payments, SettlePayment(p)
        PROVE Ledger!Settle(payVisit[p]) \/ UNCHANGED <<Tabs, orderVisit, LedgerNow>>
    BY <2>7, EndOfPaymentFinishes DEF SettlePayment, Ledger!Settle
  <2>8. ASSUME NEW p \in Payments, DropPayment(p)
        PROVE Ledger!Release(payVisit[p]) \/ UNCHANGED <<Tabs, orderVisit, LedgerNow>>
    BY <2>8, EndOfPaymentFinishes DEF DropPayment, Ledger!Release
  <2>9. \A p \in Payments : payStatus[p] = "pending" => payVisit[p] \in Visits
    BY DEF MoneyInv, RowsLinked
  <2> QED
    BY <2>1, <2>2, <2>3, <2>4, <2>5, <2>6, <2>7, <2>8, <2>9
       DEF Next, VisitNext, OrderNext, PaymentNext, Ledger!LedgerNext, SettlePayment, DropPayment
<1> QED
  BY <1>1, <1>2, TypeInvariance, MoneyInvariance, PTL DEF Spec, ImplementsLedger, Ledger!LedgerSpec
===============================================================================
