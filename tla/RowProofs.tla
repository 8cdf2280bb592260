------------------------------- MODULE RowProofs -------------------------------
(***************************************************************************)
(* Proofs about RowLocks, for any number of requests, tickets and lines.   *)
(*                                                                         *)
(* The invariant RowInv says of each transaction what it knows of the      *)
(* committed rows at its next statement (At), or when it is about to       *)
(* commit (Done).  The locks it holds are why it stays true: what would    *)
(* spoil it needs a lock that is not to be had.  So a commit can be        *)
(* described by the rows alone (Effect), and what was promised of Billing, *)
(* where a transaction is one step, holds of the rows.                     *)
(***************************************************************************)
EXTENDS RowBilling, SequenceTheorems, TLAPS

-------------------------------------------------------------------------------
(* The programs.                                                           *)

Firsts == {"shareMenu", "lockLive", "lockLine", "lockMenu", "lockVenue", "accept", "send",
           "settle", "drop"}
Inserts == {"insertPending", "insertCompleted"}
Sweeps == {"lockPending", "voidIfActive", "cancelIfEmpty"}
Finals == Inserts \cup Sweeps \cup
    {"insertOrder", "closeVisit", "compLine", "cancelTicket", "settle", "drop", "accept", "send",
     "saveAccount", "skipIfPending"}

OfMenu   == {"shareMenu", "lockMenu", "findLines"}
OfVisit  == {"claim", "lockLive", "noPending", "readTotals", "readCovered", "closeVisit",
             "lockIfLive", "skipIfPending"}
OfVenue  == {"shareVenue", "lockVenue", "noneInFlight", "saveAccount"}
OfTicket == {"insertOrder", "accept", "send", "anyActive", "cancelTicket", "lockPending",
             "cancelIfEmpty"}
OfLine   == {"lockLine", "lockAdjustable", "lockPayments", "voidLine", "compLine",
             "voidIfActive"}
StepsOf(p) ==
    [op : OfMenu, row : {"menu"}] \cup [op : OfVisit, row : {"visit"}]
        \cup [op : OfVenue, row : {"venue"}] \cup [op : OfTicket, row : TicketRows]
        \cup [op : OfLine, row : Lines] \cup [op : {"settle", "drop"}, row : Procs]
        \cup [op : Inserts, row : {p}]

(* What comes after a step that is not the last one.                       *)
Follows(s, t) ==
    \/ s.op = "shareMenu" /\ t.op = "claim"
    \/ s.op = "claim" /\ t.op = "insertOrder"
    \/ s.op = "lockLive" /\ t.op = "noPending"
    \/ s.op = "noPending" /\ t.op \in {"readTotals", "closeVisit"}
    \/ s.op = "readTotals" /\ t.op = "readCovered"
    \/ s.op = "readCovered" /\ t.op = "shareVenue"
    \/ s.op = "shareVenue" /\ t.op \in Inserts
    \/ s.op = "lockLine" /\ t.op = "lockAdjustable" /\ t.row = s.row
    \/ s.op = "lockAdjustable" /\ t.op = "lockPayments" /\ t.row = s.row
    \/ s.op = "lockPayments" /\ t.op \in {"voidLine", "compLine"} /\ t.row = s.row
    \/ s.op = "voidLine" /\ t.op = "anyActive" /\ t.row = TicketRowOf[s.row]
    \/ s.op = "anyActive" /\ t.op = "cancelTicket" /\ t.row = s.row
    \/ s.op = "lockVenue" /\ t.op = "noneInFlight"
    \/ s.op = "noneInFlight" /\ t.op = "saveAccount"
    \/ s.op = "lockMenu" /\ t.op = "findLines"
    \/ s.op = "findLines" /\ t.op = "lockIfLive"
    \/ s.op = "lockIfLive" /\ t.op = "skipIfPending"

IsProgram(p, steps) ==
    /\ steps \in Seq(StepsOf(p))
    /\ \A i \in 1..Len(steps) - 1 : Follows(steps[i], steps[i + 1])
    /\ steps # <<>> => steps[Len(steps)].op \in Finals

-------------------------------------------------------------------------------
(* What a transaction knows of the rows, and holds.                        *)

MenuS  == <<"menu", "S">>
MenuX  == <<"menu", "X">>
VenueS == <<"venue", "S">>
VenueX == <<"venue", "X">>
VisitX == <<"visit", "X">>

Live         == db["visit"] \in {"open", "active"}
NoneInFlight == \A q \in Procs : db[q].status # "pending"
NoneMoving   == \A q \in Procs : db[q].status \notin {"pending", "completed"}
SomePayment  == \E q \in Procs : db[q] # NoPayment
Active       == {l \in Lines : db[l] = "active"}
Paid         == UNION {db[q].orders : q \in {r \in Procs : db[r].status = "completed"}}
Due          == {l \in Active : TicketRowOf[l] \notin Paid}
MayAdjust(l) == Live /\ NoneMoving /\ db[l] = "active"

(* The lines an 86 is after, as p sees them.                               *)
Unstarted(p) == {l \in Lines : Sees(p, l) = "active" /\ Sees(p, TicketRowOf[l]) = "pending"}

(* What an 86 has done to the tickets but those in S: each line it voided  *)
(* was active on a ticket that is pending and locked, and a ticket it is   *)
(* through with is cancelled exactly when its lines are void.              *)
Swept(p, S) ==
    /\ MenuX \in held[p] /\ VisitX \in held[p]
    /\ Live /\ NoneInFlight /\ db["menu"] = "on"
    /\ DOMAIN own[p] \subseteq {"menu"} \cup Lines \cup TicketRows
    /\ "menu" \in DOMAIN own[p] /\ own[p]["menu"] = "off"
    /\ \A l \in Lines \cap DOMAIN own[p] :
          /\ own[p][l] = "void" /\ db[l] = "active" /\ l \notin seen[p]
          /\ db[TicketRowOf[l]] = "pending" /\ <<TicketRowOf[l], "X">> \in held[p]
          /\ \/ TicketRowOf[l] \in S
             \/ /\ seen[p] \cap LinesOf(TicketRowOf[l]) = {}
                /\ Emptied(p, TicketRowOf[l]) => TicketRowOf[l] \in DOMAIN own[p]
    /\ \A k \in TicketRows \cap DOMAIN own[p] :
          /\ own[p][k] = "cancelled" /\ db[k] = "pending" /\ <<k, "X">> \in held[p]
          /\ Emptied(p, k) /\ seen[p] \cap LinesOf(k) = {}
          /\ \E l \in LinesOf(k) : l \in DOMAIN own[p]
    /\ Unstarted(p) \subseteq seen[p]

(* The ticket an 86 is on.                                                 *)
OnTicket(p, k) ==
    /\ Swept(p, {k})
    /\ k \notin DOMAIN own[p] /\ db[k] = "pending" /\ <<k, "X">> \in held[p]

(* What holds when the next step of p is op on row.                        *)
At(p, op, row) ==
    /\ op \in Firsts => held[p] = {} /\ own[p] = <<>>
    /\ op = "claim" => held[p] = {MenuS} /\ own[p] = <<>>
    /\ op = "insertOrder" =>
          held[p] = {MenuS, VisitX} /\ own[p] = One("visit", "active") /\ Live
    /\ op \in {"noPending", "readTotals", "readCovered", "shareVenue", "closeVisit"} =>
          held[p] = {VisitX} /\ own[p] = <<>> /\ Live
    /\ op \in {"readTotals", "readCovered", "shareVenue", "closeVisit"} => NoneInFlight
    /\ op = "readCovered" => seen[p] = Active
    /\ op = "shareVenue" => seen[p] = Due /\ Due # {}
    /\ op \in Inserts =>
          /\ held[p] = {VisitX, VenueS} /\ own[p] = <<>>
          /\ Live /\ NoneInFlight /\ seen[p] = Due /\ Due # {}
    /\ op = "lockAdjustable" => held[p] = {<<row, "X">>} /\ own[p] = <<>>
    /\ op = "lockPayments" =>
          held[p] = {<<row, "X">>, VisitX} /\ own[p] = <<>> /\ Live /\ db[row] = "active"
    /\ op \in {"voidLine", "compLine"} => VisitX \in held[p] /\ own[p] = <<>> /\ MayAdjust(row)
    /\ op \in {"anyActive", "cancelTicket"} =>
          /\ VisitX \in held[p]
          /\ \E l \in LinesOf(row) : own[p] = One(l, "void") /\ MayAdjust(l)
    /\ op = "cancelTicket" => Emptied(p, row)
    /\ op \in {"noneInFlight", "saveAccount"} => held[p] = {VenueX} /\ own[p] = <<>>
    /\ op = "saveAccount" => NoneInFlight
    /\ op \in {"findLines", "lockIfLive", "skipIfPending"} =>
          own[p] = One("menu", "off") /\ db["menu"] = "on"
    /\ op \in {"findLines", "lockIfLive"} => held[p] = {MenuX}
    /\ op = "skipIfPending" => held[p] = {MenuX, VisitX} /\ Live
    /\ op \in {"lockIfLive", "skipIfPending"} => Unstarted(p) \subseteq seen[p]
    /\ op = "lockPending" => Swept(p, {}) /\ seen[p] \cap LinesOf(row) # {}
    /\ op = "voidIfActive" => OnTicket(p, TicketRowOf[row]) /\ row \in seen[p]
    /\ op = "cancelIfEmpty" => OnTicket(p, row) /\ seen[p] \cap LinesOf(row) = {}

-------------------------------------------------------------------------------
(* What a transaction that is about to commit has written.                 *)

Placed(p, k) ==
    /\ DOMAIN own[p] = {"visit", k} \cup LinesOf(k)
    /\ own[p]["visit"] = "active" /\ own[p][k] = "pending"
    /\ \A l \in LinesOf(k) : own[p][l] = "active"
    /\ {MenuS, VisitX, <<k, "X">>} \subseteq held[p] /\ MenuX \notin held[p]
    /\ Live /\ db["menu"] = "on"

Attempted(p, status) ==
    /\ own[p] = One(p, [status |-> status, orders |-> {TicketRowOf[l] : l \in Due},
                        lines |-> Due, account |-> db["venue"]])
    /\ {VisitX, VenueS, <<p, "X">>} \subseteq held[p]
    /\ Live /\ NoneInFlight /\ Due # {}

Closed(p) == own[p] = One("visit", "closed") /\ VisitX \in held[p] /\ Live /\ NoneInFlight

Comped(p, l) == own[p] = One(l, "comp") /\ VisitX \in held[p] /\ MayAdjust(l)

Voided(p, l) ==
    /\ VisitX \in held[p] /\ MayAdjust(l)
    /\ \/ own[p] = One(l, "void") /\ ~Emptied(p, TicketRowOf[l])
       \/ /\ own[p] = Over(One(TicketRowOf[l], "cancelled"), One(l, "void"))
          /\ Emptied(p, TicketRowOf[l]) /\ <<TicketRowOf[l], "X">> \in held[p]

Moved(p, k) ==
    /\ <<k, "X">> \in held[p]
    /\ \/ own[p] = One(k, "accepted") /\ CanAccept(db[k])
       \/ own[p] = One(k, "sent") /\ CanSend(db[k], FALSE)

Ended(p, q) ==
    /\ <<q, "X">> \in held[p] /\ db[q].status = "pending"
    /\ \E status \in {"completed", "cancelled"} :
          own[p] = One(q, [db[q] EXCEPT !.status = status])

Renamed(p) == own[p] = One("venue", "second account") /\ VenueX \in held[p] /\ NoneInFlight

(* An 86 that left the lines alone, or is through with them.               *)
MarkedOff(p) ==
    \/ /\ own[p] = One("menu", "off") /\ MenuX \in held[p] /\ db["menu"] = "on"
       /\ db["visit"] = "closed" \/ SomePayment \/ Unstarted(p) = {}
    \/ Swept(p, {}) /\ seen[p] = {}

Done(p) ==
    \/ own[p] = <<>>
    \/ \E k \in TicketRows : Placed(p, k) \/ Moved(p, k)
    \/ Attempted(p, "pending") \/ Attempted(p, "completed")
    \/ Closed(p)
    \/ \E l \in Lines : Comped(p, l) \/ Voided(p, l)
    \/ \E q \in Procs : Ended(p, q)
    \/ Renamed(p)
    \/ MarkedOff(p)

-------------------------------------------------------------------------------
(* The inductive invariant.                                                *)

WillPlace(p, k) ==
    \/ k \in DOMAIN own[p] /\ own[p][k] = "pending"
    \/ \E i \in 1..Len(rest[p]) : rest[p][i] = Step("insertOrder", k)

Payment == [status : {"none", "pending", "completed", "cancelled"}, orders : SUBSET TicketRows,
            lines : SUBSET Lines, account : {"none", "first account", "second account"}]

DbOK ==
    /\ db = [r \in Rows |-> db[r]]
    /\ db["menu"] \in {"on", "off"} /\ db["visit"] \in {"active", "closed"}
    /\ db["venue"] \in {"first account", "second account"}
    /\ \A k \in TicketRows : db[k] \in Statuses \cup {"none"}
    /\ \A l \in Lines : db[l] \in {"none", "active", "void", "comp"}
    /\ \A q \in Procs : db[q] \in Payment

(* A line is there with its ticket; a pending ticket has a line to make.   *)
TicketsOK ==
    \A k \in TicketRows :
        /\ \A l \in LinesOf(k) : db[l] = "none" <=> db[k] = "none"
        /\ db[k] = "pending" => \E l \in LinesOf(k) : db[l] # "void"

Typed(p) ==
    /\ DOMAIN own[p] \subseteq Rows /\ held[p] \subseteq Rows \X {"S", "X"}
    /\ seen[p] \subseteq Lines /\ phase[p] \in {"new", "running", "done"}
    /\ phase[p] # "running" => rest[p] = <<>> /\ held[p] = {} /\ own[p] = <<>>
    /\ phase[p] # "done" => db[p] = NoPayment

(* Two transactions share a row only for reading.                          *)
Compatible == \A p, q \in Procs : p # q =>
    \A r \in Rows, mode \in {"S", "X"} : <<r, "X">> \in held[p] => <<r, mode>> \notin held[q]

(* An order is placed once.                                                *)
PlacedOnce ==
    \A p \in Procs, k \in TicketRows : WillPlace(p, k) =>
        db[k] = "none" /\ \A q \in Procs \ {p} : ~WillPlace(q, k)

OnCourse(p) ==
    /\ IsProgram(p, rest[p])
    /\ IF rest[p] = <<>> THEN Done(p) ELSE phase[p] = "running" /\ At(p, Op(p), Row(p))

OfProcs(f) == f = [p \in Procs |-> f[p]]

RowInv ==
    /\ OfProcs(own) /\ OfProcs(held) /\ OfProcs(rest) /\ OfProcs(seen) /\ OfProcs(phase)
    /\ DbOK /\ TicketsOK /\ Compatible /\ PlacedOnce
    /\ \A p \in Procs : Typed(p) /\ OnCourse(p)

-------------------------------------------------------------------------------
(* Programs: what is left of one is one, and every request is one.         *)

(* A transaction with nothing left to do is on course.                     *)
LEMMA NoSteps == ASSUME NEW p \in Procs PROVE IsProgram(p, <<>>)
BY DEF IsProgram

(* A single last statement is a program.                                   *)
LEMMA OneStep ==
    ASSUME NEW p \in Procs, NEW s \in StepsOf(p), s.op \in Finals
    PROVE  IsProgram(p, <<s>>)
BY DEF IsProgram

(* What is left of a program after its first statement is a program.       *)
LEMMA TailIsProgram ==
    ASSUME NEW p \in Procs, NEW steps, IsProgram(p, steps), steps # <<>>
    PROVE  /\ Head(steps) \in StepsOf(p) /\ IsProgram(p, Tail(steps))
           /\ Tail(steps) = <<>> => Head(steps).op \in Finals
           /\ Tail(steps) # <<>> => Follows(Head(steps), Head(Tail(steps)))
<1>1. steps \in Seq(StepsOf(p))
  BY DEF IsProgram
<1>2. /\ Tail(steps) \in Seq(StepsOf(p)) /\ Len(Tail(steps)) = Len(steps) - 1
      /\ \A i \in 1..Len(Tail(steps)) : Tail(steps)[i] = steps[i + 1]
      /\ Head(steps) = steps[1] /\ Head(steps) \in StepsOf(p)
  BY <1>1, HeadTailProperties
<1>3. PICK t : t = Tail(steps)
  OBVIOUS
<1>4. /\ t \in Seq(StepsOf(p)) /\ Len(t) = Len(steps) - 1
      /\ \A i \in 1..Len(t) : t[i] = steps[i + 1]
      /\ Len(steps) \in Nat \ {0}
  BY <1>1, <1>2, <1>3, EmptySeq
<1>5. \A i \in 1..Len(t) - 1 : Follows(t[i], t[i + 1])
  BY <1>4 DEF IsProgram
<1>6. CASE t = <<>>
  <2>1. Len(steps) = 1
    BY <1>4, <1>6, EmptySeq
  <2> QED
    BY <1>2, <1>3, <1>6, <2>1, NoSteps DEF IsProgram
<1>7. CASE t # <<>>
  <2>1. Len(t) \in Nat \ {0}
    BY <1>4, <1>7, EmptySeq
  <2>2. Head(t) = t[1] /\ t[1] = steps[2] /\ t[Len(t)] = steps[Len(steps)]
    BY <1>4, <1>7, <2>1, HeadTailProperties
  <2>3. Follows(steps[1], steps[2])
    BY <1>4, <2>1 DEF IsProgram
  <2>4. IsProgram(p, t)
    BY <1>4, <1>5, <2>2 DEF IsProgram
  <2> QED
    BY <1>2, <1>3, <1>7, <2>2, <2>3, <2>4
<1> QED
  BY <1>6, <1>7

(* Placing an order.                                                       *)
LEMMA PlaceIsProgram == ASSUME NEW p \in Procs, NEW k \in TicketRows PROVE IsProgram(p, Place(k))
<1>1. Place(k) \in Seq(StepsOf(p))
  BY DEF Place, Step, StepsOf, OfMenu, OfVisit, OfTicket
<1>2. \A i \in 1..2 : Follows(Place(k)[i], Place(k)[i + 1])
  BY DEF Place, Step, Follows
<1> QED
  BY <1>1, <1>2 DEF IsProgram, Place, Step, Finals

(* A payment attempt, PromptPay or cash.                                   *)
LEMMA PayIsProgram ==
    ASSUME NEW p \in Procs, NEW insert \in Inserts
    PROVE  IsProgram(p, Pay(p, insert))
<1>1. Pay(p, insert) \in Seq(StepsOf(p))
  BY DEF Pay, Step, StepsOf, OfVisit, OfVenue
<1>2. \A i \in 1..5 : Follows(Pay(p, insert)[i], Pay(p, insert)[i + 1])
  BY DEF Pay, Step, Follows
<1> QED
  BY <1>1, <1>2 DEF IsProgram, Pay, Step, Finals

(* Closing the visit.                                                      *)
LEMMA CloseIsProgram == ASSUME NEW p \in Procs PROVE IsProgram(p, Close)
<1>1. Close \in Seq(StepsOf(p))
  BY DEF Close, Step, StepsOf, OfVisit
<1>2. \A i \in 1..2 : Follows(Close[i], Close[i + 1])
  BY DEF Close, Step, Follows
<1> QED
  BY <1>1, <1>2 DEF IsProgram, Close, Step, Finals

(* A comp and a void.                                                      *)
LEMMA AdjustIsProgram ==
    ASSUME NEW p \in Procs, NEW l \in Lines
    PROVE  IsProgram(p, Comp(l)) /\ IsProgram(p, Void(l))
<1>1. TicketRowOf[l] \in TicketRows
  BY RowsAssumption
<1>2. Comp(l) \in Seq(StepsOf(p)) /\ Void(l) \in Seq(StepsOf(p))
  BY <1>1 DEF Comp, Void, Step, StepsOf, OfLine, OfTicket
<1>3. \A i \in 1..3 : Follows(Comp(l)[i], Comp(l)[i + 1])
  BY DEF Comp, Step, Follows
<1>4. \A i \in 1..5 : Follows(Void(l)[i], Void(l)[i + 1])
  BY DEF Void, Step, Follows
<1> QED
  BY <1>2, <1>3, <1>4 DEF IsProgram, Comp, Void, Step, Finals

(* An 86, up to the lines it finds.                                        *)
LEMMA SoldOutIsProgram == ASSUME NEW p \in Procs PROVE IsProgram(p, SoldOut)
<1>1. SoldOut \in Seq(StepsOf(p))
  BY DEF SoldOut, Step, StepsOf, OfMenu, OfVisit
<1>2. \A i \in 1..3 : Follows(SoldOut[i], SoldOut[i + 1])
  BY DEF SoldOut, Step, Follows
<1> QED
  BY <1>1, <1>2 DEF IsProgram, SoldOut, Step, Finals

(* A change of the PromptPay account.                                      *)
LEMMA MoveIsProgram == ASSUME NEW p \in Procs PROVE IsProgram(p, MoveAccount)
<1>1. MoveAccount \in Seq(StepsOf(p))
  BY DEF MoveAccount, Step, StepsOf, OfVenue
<1>2. \A i \in 1..2 : Follows(MoveAccount[i], MoveAccount[i + 1])
  BY DEF MoveAccount, Step, Follows
<1> QED
  BY <1>1, <1>2 DEF IsProgram, MoveAccount, Step, Finals

(* A request is a program, starts with a first step and inserts the order  *)
(* it was given.                                                           *)
LEMMA RequestsArePrograms ==
    ASSUME NEW p \in Procs, NEW steps \in Requests(p)
    PROVE  /\ IsProgram(p, steps) /\ steps # <<>> /\ Head(steps).op \in Firsts
           /\ \A k, i : i \in 1..Len(steps) /\ steps[i] = Step("insertOrder", k)
                => k \in TicketRows /\ steps = Place(k) /\ steps \in Requests(p)
<1>1. \/ \E k \in TicketRows :
            steps = Place(k) \/ \E op \in {"accept", "send"} : steps = <<Step(op, k)>>
      \/ \E insert \in Inserts : steps = Pay(p, insert)
      \/ steps = Close
      \/ \E l \in Lines : steps = Comp(l) \/ steps = Void(l)
      \/ steps = SoldOut
      \/ \E q \in Procs, op \in {"settle", "drop"} : steps = <<Step(op, q)>>
      \/ steps = MoveAccount
  BY DEF Requests, Inserts
<1> USE DEF Step, Firsts
<1>A. ASSUME NEW s \in StepsOf(p), s.op \in {"accept", "send", "settle", "drop"}, steps = <<s>>
      PROVE  /\ IsProgram(p, steps) /\ steps # <<>> /\ Head(steps).op \in Firsts
             /\ \A i \in 1..Len(steps) : steps[i].op # "insertOrder"
  <2>1. s.op \in Finals
    BY <1>A DEF Finals
  <2> QED
    BY <1>A, <2>1, OneStep
<1>2. CASE \E k \in TicketRows : steps = Place(k)
  BY <1>2, PlaceIsProgram DEF Place
<1>3. CASE \E k \in TicketRows, op \in {"accept", "send"} : steps = <<Step(op, k)>>
  <2>1. PICK k \in TicketRows, op \in {"accept", "send"} : steps = <<Step(op, k)>>
    BY <1>3
  <2>2. Step(op, k) \in StepsOf(p) /\ Step(op, k).op = op
    BY DEF StepsOf, OfTicket
  <2> QED
    BY <1>A, <2>1, <2>2
<1>4. CASE \E insert \in Inserts : steps = Pay(p, insert)
  <2>1. PICK insert \in Inserts : steps = Pay(p, insert)
    BY <1>4
  <2>2. steps[6].op # "insertOrder" /\ \A i \in 1..5 : steps[i].op # "insertOrder"
    BY <2>1 DEF Pay, Inserts
  <2>3. Len(steps) = 6 /\ steps # <<>> /\ Head(steps).op = "lockLive"
    BY <2>1 DEF Pay
  <2> QED
    BY <2>1, <2>2, <2>3, PayIsProgram
<1>5. CASE steps = Close
  BY <1>5, CloseIsProgram DEF Close
<1>6. CASE \E l \in Lines : steps = Comp(l) \/ steps = Void(l)
  <2>1. PICK l \in Lines : steps = Comp(l) \/ steps = Void(l)
    BY <1>6
  <2>2. CASE steps = Comp(l)
    BY <2>2, AdjustIsProgram DEF Comp
  <2>3. CASE steps = Void(l)
    BY <2>3, AdjustIsProgram DEF Void
  <2> QED
    BY <2>1, <2>2, <2>3
<1>7. CASE steps = SoldOut
  BY <1>7, SoldOutIsProgram DEF SoldOut
<1>8. CASE \E q \in Procs, op \in {"settle", "drop"} : steps = <<Step(op, q)>>
  <2>1. PICK q \in Procs, op \in {"settle", "drop"} : steps = <<Step(op, q)>>
    BY <1>8
  <2>2. Step(op, q) \in StepsOf(p) /\ Step(op, q).op = op
    BY DEF StepsOf
  <2> QED
    BY <1>A, <2>1, <2>2
<1>9. CASE steps = MoveAccount
  BY <1>9, MoveIsProgram DEF MoveAccount
<1> QED
  BY <1>1, <1>2, <1>3, <1>4, <1>5, <1>6, <1>7, <1>8, <1>9

-------------------------------------------------------------------------------
(* Reading and writing rows.                                               *)

(* A write of one row.                                                     *)
LEMMA OneIs == ASSUME NEW r, NEW value PROVE DOMAIN One(r, value) = {r} /\ One(r, value)[r] = value
BY DEF One

(* A later write covers an earlier one of the same row.                    *)
LEMMA OverIs ==
    ASSUME NEW f, NEW g
    PROVE  /\ DOMAIN Over(f, g) = DOMAIN f \cup DOMAIN g
           /\ \A r \in DOMAIN f : Over(f, g)[r] = f[r]
           /\ \A r \in DOMAIN g \ DOMAIN f : Over(f, g)[r] = g[r]
BY DEF Over

(* The first write of a transaction is all it has written.                 *)
LEMMA FirstWrite ==
    ASSUME NEW r, NEW value
    PROVE  Over(One(r, value), <<>>) = One(r, value)
BY DEF Over, One

(* A line is on the ticket it belongs to, and every ticket has lines.      *)
LEMMA LinesHaveTickets ==
    /\ \A l \in Lines : TicketRowOf[l] \in TicketRows /\ l \in LinesOf(TicketRowOf[l])
    /\ \A k \in TicketRows : LinesOf(k) # {} /\ LinesOf(k) \subseteq Lines
    /\ \A k, l : l \in LinesOf(k) <=> l \in Lines /\ TicketRowOf[l] = k
BY RowsAssumption DEF LinesOf

(* The rows of different tables are different rows.                        *)
LEMMA RowsApart ==
    /\ {"menu", "venue", "visit"} \subseteq Rows
    /\ TicketRows \subseteq Rows /\ Lines \subseteq Rows /\ Procs \subseteq Rows
    /\ \A k \in TicketRows : k \notin Lines /\ k \notin Procs
    /\ \A l \in Lines : l \notin Procs
    /\ \A r \in TicketRows \cup Lines \cup Procs : r # "menu" /\ r # "venue" /\ r # "visit"
BY IdsAssumption DEF Rows

(* An 86 goes to the ticket of a line it has not come to, or is through.   *)
LEMMA NextTicketIs ==
    ASSUME NEW S \in SUBSET Lines
    PROVE  /\ S = {} => NextTicket(S) = <<>>
           /\ S # {} => \E k \in TicketRows : /\ NextTicket(S) = <<Step("lockPending", k)>>
                                              /\ S \cap LinesOf(k) # {}
<1>1. CASE S = {}
  BY <1>1 DEF NextTicket
<1>2. CASE S # {}
  <2>1. PICK l : l = CHOOSE x \in S : TRUE
    OBVIOUS
  <2>2. l \in S
    BY <1>2, <2>1
  <2> QED
    BY <1>2, <2>1, <2>2, LinesHaveTickets DEF NextTicket
<1> QED
  BY <1>1, <1>2

(* On a ticket an 86 goes to a line of it, or looks whether it is empty.   *)
LEMMA NextLineIs ==
    ASSUME NEW k \in TicketRows, NEW S \in SUBSET Lines
    PROVE  /\ S \cap LinesOf(k) = {} => NextLine(k, S) = <<Step("cancelIfEmpty", k)>>
           /\ S \cap LinesOf(k) # {} => \E l \in S \cap LinesOf(k) :
                  NextLine(k, S) = <<Step("voidIfActive", l)>>
<1>1. CASE S \cap LinesOf(k) = {}
  BY <1>1 DEF NextLine
<1>2. CASE S \cap LinesOf(k) # {}
  <2>1. PICK l : l = CHOOSE x \in S \cap LinesOf(k) : TRUE
    OBVIOUS
  <2>2. l \in S \cap LinesOf(k)
    BY <1>2, <2>1
  <2> QED
    BY <1>2, <2>1, <2>2 DEF NextLine
<1> QED
  BY <1>1, <1>2

-------------------------------------------------------------------------------
(* What a step of q may do to the rows another transaction has read.  Each *)
(* change is covered by a lock of q.                                       *)

Rely(q) ==
    /\ db'["menu"] # db["menu"] => MenuX \in held[q]
    /\ db'["venue"] # db["venue"] => VenueX \in held[q]
    /\ db'["visit"] # db["visit"] => VisitX \in held[q]
    /\ db["visit"] = "closed" => db'["visit"] = "closed"
    /\ \A l \in Lines :
          /\ db'[l] # db[l] => VisitX \in held[q]
          /\ db'[l] = "active" /\ db[l] # "active" => MenuS \in held[q]
    /\ \A k \in TicketRows :
          /\ db'[k] # db[k] => <<k, "X">> \in held[q]
          /\ db'[k] = "pending" /\ db[k] # "pending" => MenuS \in held[q]
          /\ db[k] = "none" /\ db'[k] # "none" => WillPlace(q, k)
    /\ \A r \in Procs : db'[r] # db[r] =>
          /\ <<r, "X">> \in held[q]
          /\ \/ db[r].status = "pending" /\ db'[r].status \in {"completed", "cancelled"}
             \/ r = q /\ VisitX \in held[q] /\ db[r] = NoPayment
          /\ db'[r].status = "pending" => VenueS \in held[q]
          /\ db'[r] # NoPayment

(* A step of q, seen by p.                                                 *)
Beside(p, q) ==
    /\ p # q /\ Rely(q)
    /\ own'[p] = own[p] /\ held'[p] = held[p] /\ rest'[p] = rest[p]
    /\ seen'[p] = seen[p] /\ phase'[p] = phase[p]

(* An exclusive lock keeps everybody else off its row.                     *)
LEMMA Excludes ==
    ASSUME NEW p \in Procs, NEW q \in Procs, p # q, Compatible, NEW r \in Rows
    PROVE  /\ <<r, "X">> \in held[p] => <<r, "X">> \notin held[q] /\ <<r, "S">> \notin held[q]
           /\ <<r, "S">> \in held[p] => <<r, "X">> \notin held[q]
BY DEF Compatible

(* With the visit row, nobody else changes the visit or its lines.         *)
LEMMA VisitFrozen ==
    ASSUME NEW p \in Procs, NEW q \in Procs, Compatible, Beside(p, q), VisitX \in held[p]
    PROVE  /\ db'["visit"] = db["visit"] /\ Live' = Live
           /\ \A l \in Lines : db'[l] = db[l]
           /\ \A k \in TicketRows : Emptied(p, k)' = Emptied(p, k)
<1>1. VisitX \notin held[q]
  BY Excludes, RowsApart DEF Beside, VisitX
<1>2. db'["visit"] = db["visit"] /\ \A l \in Lines : db'[l] = db[l]
  BY <1>1 DEF Beside, Rely
<1>3. \A l \in Lines : Sees(p, l)' = Sees(p, l)
  BY <1>2 DEF Sees, Beside
<1>4. \A k \in TicketRows : Emptied(p, k)' = Emptied(p, k)
  BY <1>3, LinesHaveTickets DEF Emptied
<1> QED
  BY <1>2, <1>4 DEF Live

(* With the visit row and nothing in flight, the payments stay too.        *)
LEMMA PaymentsFrozen ==
    ASSUME NEW p \in Procs, NEW q \in Procs, Compatible, Beside(p, q), VisitX \in held[p],
           NoneInFlight
    PROVE  \A r \in Procs : db'[r] = db[r]
<1>1. VisitX \notin held[q]
  BY Excludes, RowsApart DEF Beside, VisitX
<1> QED
  BY <1>1 DEF Beside, Rely, NoneInFlight

(* What is due is read off the payments and the lines.                     *)
LEMMA BillFrozen ==
    ASSUME \A r \in Procs : db'[r] = db[r], \A l \in Lines : db'[l] = db[l]
    PROVE  /\ NoneInFlight' = NoneInFlight /\ NoneMoving' = NoneMoving /\ Due' = Due
           /\ Active' = Active /\ SomePayment' = SomePayment
<1>1. Active' = Active
  BY DEF Active
<1>2. Paid' = Paid
  BY DEF Paid
<1>3. Due' = Due
  BY <1>1, <1>2 DEF Due
<1> QED
  BY <1>1, <1>3 DEF NoneInFlight, NoneMoving, SomePayment

(* With the menu row to itself, a transaction sees no unstarted line       *)
(* appear.                                                                 *)
LEMMA MenuFrozen ==
    ASSUME NEW p \in Procs, NEW q \in Procs, Compatible, Beside(p, q), MenuX \in held[p]
    PROVE  db'["menu"] = db["menu"] /\ Unstarted(p)' \subseteq Unstarted(p)
<1>1. MenuX \notin held[q] /\ MenuS \notin held[q]
  BY Excludes, RowsApart DEF Beside, MenuX, MenuS
<1>2. db'["menu"] = db["menu"]
  BY <1>1 DEF Beside, Rely
<1>3. ASSUME NEW l \in Lines, Sees(p, l)' = "active" PROVE Sees(p, l) = "active"
  BY <1>1, <1>3 DEF Sees, Beside, Rely
<1>4. ASSUME NEW k \in TicketRows, Sees(p, k)' = "pending" PROVE Sees(p, k) = "pending"
  BY <1>1, <1>4 DEF Sees, Beside, Rely
<1> QED
  BY <1>2, <1>3, <1>4, LinesHaveTickets DEF Unstarted

(* With its row, a ticket keeps its status.                                *)
LEMMA TicketFrozen ==
    ASSUME NEW p \in Procs, NEW q \in Procs, Compatible, Beside(p, q), NEW k \in TicketRows,
           <<k, "X">> \in held[p]
    PROVE  db'[k] = db[k]
BY Excludes, RowsApart DEF Beside, Rely

(* What an 86 has done to the tickets is not undone beside it.             *)
LEMMA SweptStays ==
    ASSUME NEW p \in Procs, NEW q \in Procs, Compatible, Beside(p, q), NEW S, Swept(p, S)
    PROVE  Swept(p, S)'
<1>1. MenuX \in held[p] /\ VisitX \in held[p] /\ NoneInFlight
  BY DEF Swept
<1>2. /\ db'["visit"] = db["visit"] /\ Live' = Live /\ \A l \in Lines : db'[l] = db[l]
      /\ \A k \in TicketRows : Emptied(p, k)' = Emptied(p, k)
  BY <1>1, VisitFrozen
<1>3. NoneInFlight'
  BY <1>1, <1>2, PaymentsFrozen, BillFrozen
<1>4. db'["menu"] = db["menu"] /\ Unstarted(p)' \subseteq Unstarted(p)
  BY <1>1, MenuFrozen
<1>5. \A k \in TicketRows : <<k, "X">> \in held[p] => db'[k] = db[k]
  BY TicketFrozen
<1>6. own'[p] = own[p] /\ held'[p] = held[p] /\ seen'[p] = seen[p]
  BY DEF Beside
<1>7. ASSUME NEW l \in Lines \cap DOMAIN own[p]
      PROVE  /\ own[p][l] = "void" /\ db'[l] = "active" /\ l \notin seen[p]
             /\ db'[TicketRowOf[l]] = "pending" /\ <<TicketRowOf[l], "X">> \in held[p]
             /\ \/ TicketRowOf[l] \in S
                \/ /\ seen[p] \cap LinesOf(TicketRowOf[l]) = {}
                   /\ Emptied(p, TicketRowOf[l])' => TicketRowOf[l] \in DOMAIN own[p]
  BY <1>2, <1>5, LinesHaveTickets DEF Swept
<1>8. ASSUME NEW k \in TicketRows \cap DOMAIN own[p]
      PROVE  /\ own[p][k] = "cancelled" /\ db'[k] = "pending" /\ <<k, "X">> \in held[p]
             /\ Emptied(p, k)' /\ seen[p] \cap LinesOf(k) = {}
             /\ \E l \in LinesOf(k) : l \in DOMAIN own[p]
  BY <1>2, <1>5 DEF Swept
<1> QED
  BY <1>1, <1>2, <1>3, <1>4, <1>6, <1>7, <1>8 DEF Swept

(* Nor is the ticket it is on taken from it.                               *)
LEMMA OnTicketStays ==
    ASSUME NEW p \in Procs, NEW q \in Procs, Compatible, Beside(p, q), NEW k \in TicketRows,
           OnTicket(p, k)
    PROVE  OnTicket(p, k)'
<1>1. Swept(p, {k})'
  BY SweptStays DEF OnTicket
<1>2. db'[k] = db[k]
  BY TicketFrozen DEF OnTicket
<1> QED
  BY <1>1, <1>2 DEF OnTicket, Beside

(* A line that may be adjusted stays so for whoever has the visit.         *)
LEMMA MayAdjustStays ==
    ASSUME NEW p \in Procs, NEW q \in Procs, Compatible, Beside(p, q), VisitX \in held[p],
           NEW l \in Lines, MayAdjust(l)
    PROVE  MayAdjust(l)'
<1>1. NoneInFlight
  BY DEF MayAdjust, NoneMoving, NoneInFlight
<1>2. (\A r \in Procs : db'[r] = db[r]) /\ \A m \in Lines : db'[m] = db[m]
  BY <1>1, PaymentsFrozen, VisitFrozen
<1>3. NoneMoving' = NoneMoving /\ Live' = Live
  BY <1>2, BillFrozen, VisitFrozen
<1> QED
  BY <1>2, <1>3 DEF MayAdjust

(* The account does not move under an attempt, nor an attempt under it.    *)
LEMMA VenueFrozen ==
    ASSUME NEW p \in Procs, NEW q \in Procs, Compatible, Beside(p, q)
    PROVE  /\ VenueS \in held[p] => db'["venue"] = db["venue"]
           /\ VenueX \in held[p] /\ NoneInFlight => NoneInFlight'
<1>1. ASSUME VenueS \in held[p] PROVE db'["venue"] = db["venue"]
  <2>1. VenueX \notin held[q]
    BY <1>1, Excludes, RowsApart DEF Beside, VenueS, VenueX
  <2> QED
    BY <2>1 DEF Beside, Rely
<1>2. ASSUME VenueX \in held[p], NoneInFlight PROVE NoneInFlight'
  <2>1. VenueS \notin held[q]
    BY <1>2, Excludes, RowsApart DEF Beside, VenueS, VenueX
  <2>2. ASSUME NEW r \in Procs PROVE db'[r].status # "pending"
    BY <1>2, <2>1 DEF Beside, Rely, NoneInFlight
  <2> QED
    BY <2>2 DEF NoneInFlight
<1> QED
  BY <1>1, <1>2

(* What a transaction knows at its next statement, the others leave true.  *)
LEMMA AtStays ==
    ASSUME NEW p \in Procs, NEW q \in Procs, Compatible, Beside(p, q),
           NEW s \in StepsOf(p), At(p, s.op, s.row)
    PROVE  At(p, s.op, s.row)'
<1> DEFINE op == s.op
           row == s.row
<1>0. own'[p] = own[p] /\ held'[p] = held[p] /\ seen'[p] = seen[p]
  BY DEF Beside
<1>1. VisitX \in held[p] => Live' = Live /\ \A l \in Lines : db'[l] = db[l]
  BY VisitFrozen
<1>2. VisitX \in held[p] /\ NoneInFlight => Due' = Due /\ NoneInFlight'
  BY <1>1, PaymentsFrozen, BillFrozen
<1>3. VisitX \in held[p] => Active' = Active
  BY <1>1 DEF Active
<1>4. /\ op \in OfTicket => row \in TicketRows
      /\ op \in OfLine => row \in Lines
  BY DEF StepsOf, OfMenu, OfVisit, OfVenue, OfTicket, OfLine, Inserts
<1>5. /\ op = "insertOrder" => Live'
      /\ op \in {"noPending", "readTotals", "readCovered", "shareVenue", "closeVisit"} => Live'
      /\ op \in {"readTotals", "readCovered", "shareVenue", "closeVisit"} => NoneInFlight'
      /\ op = "readCovered" => seen'[p] = Active'
      /\ op = "shareVenue" => seen'[p] = Due' /\ Due' # {}
  BY <1>0, <1>1, <1>2, <1>3 DEF At
<1>6. op \in Inserts => Live' /\ NoneInFlight' /\ seen'[p] = Due' /\ Due' # {}
  BY <1>0, <1>1, <1>2 DEF At
<1>7. /\ op = "lockPayments" => Live' /\ db'[row] = "active"
      /\ op \in {"voidLine", "compLine"} => MayAdjust(row)'
  BY <1>1, <1>4, MayAdjustStays DEF At, OfLine
<1>8. op \in {"anyActive", "cancelTicket"} =>
          \E l \in LinesOf(row) : own[p] = One(l, "void") /\ MayAdjust(l)'
  BY <1>4, LinesHaveTickets, MayAdjustStays DEF At, OfTicket
<1>9. op = "cancelTicket" => Emptied(p, row)'
  BY <1>4, VisitFrozen DEF At, OfTicket
<1>10. op = "saveAccount" => NoneInFlight'
  BY VenueFrozen DEF At
<1>11. op \in {"findLines", "lockIfLive", "skipIfPending"} => MenuX \in held[p]
  BY DEF At
<1>12. /\ op \in {"findLines", "lockIfLive", "skipIfPending"} => db'["menu"] = "on"
       /\ op \in {"lockIfLive", "skipIfPending"} => Unstarted(p)' \subseteq seen'[p]
       /\ op = "skipIfPending" => Live'
  BY <1>0, <1>1, <1>11, MenuFrozen DEF At
<1>13. /\ op = "lockPending" => Swept(p, {})'
       /\ op = "voidIfActive" => OnTicket(p, TicketRowOf[row])'
       /\ op = "cancelIfEmpty" => OnTicket(p, row)'
  BY <1>4, SweptStays, OnTicketStays, LinesHaveTickets DEF At, OfTicket, OfLine
<1> HIDE DEF op, row
<1>14. At(p, op, row)'
  BY <1>0, <1>5, <1>6, <1>7, <1>8, <1>9, <1>10, <1>12, <1>13 DEF At, op, row
<1> QED
  BY <1>14 DEF op, row

(* What an order about to commit has checked stays true.                   *)
LEMMA PlacedStays ==
    ASSUME NEW p \in Procs, NEW q \in Procs, Compatible, Beside(p, q), NEW k \in TicketRows,
           Placed(p, k)
    PROVE  Placed(p, k)'
<1>1. MenuX \notin held[q]
  BY Excludes, RowsApart DEF Placed, Beside, MenuS, MenuX
<1>2. db'["menu"] = db["menu"] /\ Live' = Live
  BY <1>1, VisitFrozen DEF Placed, Beside, Rely
<1> QED
  BY <1>2 DEF Placed, Beside

(* What a payment attempt about to commit has read stays true.             *)
LEMMA AttemptedStays ==
    ASSUME NEW p \in Procs, NEW q \in Procs, Compatible, Beside(p, q), NEW status,
           Attempted(p, status)
    PROVE  Attempted(p, status)'
<1>1. VisitX \in held[p] /\ VenueS \in held[p] /\ NoneInFlight
  BY DEF Attempted
<1>2. NoneInFlight' /\ Due' = Due /\ Live' = Live /\ db'["venue"] = db["venue"]
  BY <1>1, PaymentsFrozen, VisitFrozen, BillFrozen, VenueFrozen
<1> QED
  BY <1>2 DEF Attempted, Beside

(* What a close about to commit has checked stays true.                    *)
LEMMA ClosedStays ==
    ASSUME NEW p \in Procs, NEW q \in Procs, Compatible, Beside(p, q), Closed(p)
    PROVE  Closed(p)'
<1>1. NoneInFlight' /\ Live' = Live
  BY PaymentsFrozen, VisitFrozen, BillFrozen DEF Closed
<1> QED
  BY <1>1 DEF Closed, Beside

(* What a void or comp about to commit has checked stays true.             *)
LEMMA AdjustedStays ==
    ASSUME NEW p \in Procs, NEW q \in Procs, Compatible, Beside(p, q), NEW l \in Lines,
           Comped(p, l) \/ Voided(p, l)
    PROVE  (Comped(p, l) \/ Voided(p, l))'
<1>1. MayAdjust(l)'
  BY MayAdjustStays DEF Comped, Voided
<1>2. Emptied(p, TicketRowOf[l])' = Emptied(p, TicketRowOf[l])
  BY VisitFrozen, LinesHaveTickets DEF Comped, Voided
<1> QED
  BY <1>1, <1>2 DEF Comped, Voided, Beside

(* What a cook's step about to commit has checked stays true.              *)
LEMMA MovedStays ==
    ASSUME NEW p \in Procs, NEW q \in Procs, Compatible, Beside(p, q), NEW k \in TicketRows,
           Moved(p, k)
    PROVE  Moved(p, k)'
<1>1. db'[k] = db[k]
  BY TicketFrozen DEF Moved
<1> QED
  BY <1>1 DEF Moved, Beside

(* What the end of a payment about to commit has checked stays true.       *)
LEMMA EndedStays ==
    ASSUME NEW p \in Procs, NEW q \in Procs, Compatible, Beside(p, q), NEW r \in Procs,
           Ended(p, r)
    PROVE  Ended(p, r)'
<1>1. <<r, "X">> \notin held[q]
  BY Excludes, RowsApart DEF Ended, Beside
<1>2. db'[r] = db[r]
  BY <1>1 DEF Beside, Rely
<1> QED
  BY <1>2 DEF Ended, Beside

(* What an 86 about to commit has found stays true.                        *)
LEMMA MarkedOffStays ==
    ASSUME NEW p \in Procs, NEW q \in Procs, Compatible, Beside(p, q), MarkedOff(p)
    PROVE  MarkedOff(p)'
<1>1. CASE Swept(p, {}) /\ seen[p] = {}
  BY <1>1, SweptStays DEF MarkedOff, Beside
<1>2. CASE /\ own[p] = One("menu", "off") /\ MenuX \in held[p] /\ db["menu"] = "on"
           /\ db["visit"] = "closed" \/ SomePayment \/ Unstarted(p) = {}
  <2>1. db'["menu"] = db["menu"] /\ Unstarted(p)' \subseteq Unstarted(p)
    BY <1>2, MenuFrozen
  <2>2. SomePayment => SomePayment'
    BY DEF SomePayment, Beside, Rely
  <2>3. db["visit"] = "closed" => db'["visit"] = "closed"
    BY DEF Beside, Rely
  <2> QED
    BY <1>2, <2>1, <2>2, <2>3 DEF MarkedOff, Beside
<1> QED
  BY <1>1, <1>2 DEF MarkedOff

(* All of it: a transaction about to commit may do so later as well.       *)
LEMMA DoneStays ==
    ASSUME NEW p \in Procs, NEW q \in Procs, Compatible, Beside(p, q), Done(p)
    PROVE  Done(p)'
<1>1. CASE own[p] = <<>>
  BY <1>1 DEF Beside, Done
<1>2. ASSUME NEW k \in TicketRows, Placed(p, k) \/ Moved(p, k) PROVE Done(p)'
  BY <1>2, PlacedStays, MovedStays DEF Done
<1>3. CASE Attempted(p, "pending") \/ Attempted(p, "completed")
  BY <1>3, AttemptedStays DEF Done
<1>4. CASE Closed(p)
  BY <1>4, ClosedStays DEF Done
<1>5. ASSUME NEW l \in Lines, Comped(p, l) \/ Voided(p, l) PROVE Done(p)'
  BY <1>5, AdjustedStays DEF Done
<1>6. ASSUME NEW r \in Procs, Ended(p, r) PROVE Done(p)'
  BY <1>6, EndedStays DEF Done
<1>7. CASE Renamed(p)
  BY <1>7, VenueFrozen DEF Done, Renamed, Beside
<1>8. CASE MarkedOff(p)
  BY <1>8, MarkedOffStays DEF Done
<1> QED
  BY <1>1, <1>2, <1>3, <1>4, <1>5, <1>6, <1>7, <1>8 DEF Done

(* What p knows stays true whatever another transaction does.              *)
LEMMA CourseStays ==
    ASSUME NEW p \in Procs, NEW q \in Procs, Compatible, Beside(p, q), Typed(p), OnCourse(p)
    PROVE  Typed(p)' /\ OnCourse(p)'
<1>1. db[p] = NoPayment => db'[p] = NoPayment
  <2>1. NoPayment.status # "pending"
    BY DEF NoPayment
  <2> QED
    BY <2>1 DEF Beside, Rely
<1>2. Typed(p)'
  BY <1>1 DEF Typed, Beside
<1>3. IsProgram(p, rest[p])'
  BY DEF OnCourse, Beside, IsProgram
<1>4. CASE rest[p] = <<>>
  <2>1. Done(p)' /\ rest'[p] = <<>>
    BY <1>4, DoneStays DEF OnCourse, Beside
  <2> QED
    BY <1>2, <1>3, <2>1 DEF OnCourse
<1>5. CASE rest[p] # <<>>
  <2>1. PICK s \in StepsOf(p) : s = Head(rest[p])
    BY <1>5, TailIsProgram DEF OnCourse
  <2>2. At(p, s.op, s.row)
    BY <1>5, <2>1 DEF OnCourse, Op, Row
  <2>3. At(p, s.op, s.row)'
    BY <2>2, AtStays
  <2>4. Op(p)' = s.op /\ Row(p)' = s.row
    BY <2>1 DEF Op, Row, Beside
  <2>5. At(p, Op(p), Row(p))'
    BY <2>3, <2>4 DEF At
  <2>6. rest'[p] # <<>> /\ phase'[p] = "running"
    BY <1>5 DEF OnCourse, Beside
  <2> QED
    BY <1>2, <1>3, <2>5, <2>6 DEF OnCourse
<1> QED
  BY <1>4, <1>5

-------------------------------------------------------------------------------
(* One transaction acts; the others stay as they are.                      *)

Alone(p) ==
    /\ OfProcs(own') /\ OfProcs(held') /\ OfProcs(rest') /\ OfProcs(seen') /\ OfProcs(phase')
    /\ \A q \in Procs \ {p} :
          /\ own'[q] = own[q] /\ held'[q] = held[q] /\ rest'[q] = rest[q]
          /\ seen'[q] = seen[q] /\ phase'[q] = phase[q]

(* The locks of p go with those of the others.                             *)
LocksFit(p) ==
    \A q \in Procs \ {p}, r \in Rows :
        /\ <<r, "X">> \in held'[p] => <<r, "X">> \notin held[q] /\ <<r, "S">> \notin held[q]
        /\ <<r, "S">> \in held'[p] => <<r, "X">> \notin held[q]

(* The invariant after a step of p: p is on course again, and what it did  *)
(* leaves the others as they were.                                         *)
LEMMA OneActs ==
    ASSUME RowInv, NEW p \in Procs, Alone(p), Rely(p), DbOK', TicketsOK',
           Typed(p)', OnCourse(p)', LocksFit(p),
           \A k \in TicketRows : WillPlace(p, k)' =>
               db'[k] = "none" /\ \A q \in Procs \ {p} : ~WillPlace(q, k)
    PROVE  RowInv'
<1>1. ASSUME NEW q \in Procs PROVE Typed(q)' /\ OnCourse(q)'
  <2>1. CASE q = p
    BY <2>1
  <2>2. CASE q # p
    <3>1. Beside(q, p)
      BY <2>2 DEF Beside, Alone
    <3>2. Compatible /\ Typed(q) /\ OnCourse(q)
      BY DEF RowInv
    <3> QED
      BY <3>1, <3>2, CourseStays
  <2> QED
    BY <2>1, <2>2
<1>2. Compatible'
  <2> SUFFICES ASSUME NEW q \in Procs, NEW r \in Procs, q # r,
                      NEW x \in Rows, NEW mode \in {"S", "X"}, <<x, "X">> \in held'[q]
               PROVE  <<x, mode>> \notin held'[r]
    BY DEF Compatible
  <2>1. CASE q = p
    BY <2>1 DEF LocksFit, Alone
  <2>2. CASE r = p
    BY <2>2 DEF LocksFit, Alone
  <2>3. CASE q # p /\ r # p
    BY <2>3 DEF RowInv, Compatible, Alone
  <2> QED
    BY <2>1, <2>2, <2>3
<1>3. ASSUME NEW q \in Procs \ {p}, NEW k \in TicketRows PROVE WillPlace(q, k)' = WillPlace(q, k)
  BY DEF WillPlace, Alone
<1>4. PlacedOnce'
  <2> SUFFICES ASSUME NEW q \in Procs, NEW k \in TicketRows, WillPlace(q, k)'
               PROVE  db'[k] = "none" /\ \A r \in Procs \ {q} : ~WillPlace(r, k)'
    BY DEF PlacedOnce
  <2>1. CASE q = p
    BY <1>3, <2>1
  <2>2. CASE q # p
    <3>1. WillPlace(q, k) /\ PlacedOnce
      BY <1>3, <2>2 DEF RowInv
    <3>2. db[k] = "none" /\ \A r \in Procs \ {q} : ~WillPlace(r, k)
      BY <3>1 DEF PlacedOnce
    <3>3. db'[k] = "none"
      BY <2>2, <3>2 DEF Rely
    <3>4. ~WillPlace(p, k)'
      BY <2>2, <3>1
    <3> QED
      BY <1>3, <3>2, <3>3, <3>4
  <2> QED
    BY <2>1, <2>2
<1> QED
  BY <1>1, <1>2, <1>4 DEF RowInv, Alone

(* A step within the transaction: what it has written and seen becomes     *)
(* mine and lines, and steps are left.                                     *)
Acts(p, mine, lines, steps) ==
    /\ Then(p, steps) /\ Alone(p)
    /\ own'[p] = mine /\ seen'[p] = lines /\ rest'[p] = steps
    /\ held'[p] = held[p] \cup Needs(p)

(* The ways a statement goes on, each as what p wrote, read and has left.  *)
LEMMA KindsOfActs ==
    ASSUME RowInv, NEW p \in Procs
    PROVE  /\ \A steps : Then(p, steps) /\ UNCHANGED <<own, seen>>
                            => Acts(p, own[p], seen[p], steps)
           /\ Go(p) => Acts(p, own[p], seen[p], Tail(rest[p]))
           /\ \A f : Write(p, f) => Acts(p, Over(f, own[p]), seen[p], Tail(rest[p]))
           /\ \A S : Read(p, S) => Acts(p, own[p], S, Tail(rest[p]))
           /\ \A steps, mine, S :
                 /\ Then(p, steps)
                 /\ own' = [own EXCEPT ![p] = mine] /\ seen' = [seen EXCEPT ![p] = S]
                 => Acts(p, mine, S, steps)
<1>1. OfProcs(own) /\ OfProcs(held) /\ OfProcs(rest) /\ OfProcs(seen) /\ OfProcs(phase)
  BY DEF RowInv
<1>2. ASSUME NEW steps, Then(p, steps)
      PROVE  /\ OfProcs(held') /\ OfProcs(rest') /\ OfProcs(phase')
             /\ \A q \in Procs \ {p} :
                   held'[q] = held[q] /\ rest'[q] = rest[q] /\ phase'[q] = phase[q]
             /\ rest'[p] = steps /\ held'[p] = held[p] \cup Needs(p)
  BY <1>1, <1>2 DEF Then, OfProcs
<1>3. ASSUME NEW steps, NEW mine, NEW S, Then(p, steps),
             own' = [own EXCEPT ![p] = mine], seen' = [seen EXCEPT ![p] = S]
      PROVE  Acts(p, mine, S, steps)
  <2>1. /\ OfProcs(own') /\ OfProcs(seen') /\ own'[p] = mine /\ seen'[p] = S
        /\ \A q \in Procs \ {p} : own'[q] = own[q] /\ seen'[q] = seen[q]
    BY <1>1, <1>3 DEF OfProcs
  <2> QED
    BY <1>2, <1>3, <2>1 DEF Acts, Alone
<1>4. own = [own EXCEPT ![p] = own[p]] /\ seen = [seen EXCEPT ![p] = seen[p]]
  BY <1>1 DEF OfProcs
<1>5. ASSUME NEW steps, Then(p, steps), UNCHANGED <<own, seen>>
      PROVE  Acts(p, own[p], seen[p], steps)
  BY <1>3, <1>4, <1>5
<1>6. Go(p) => Acts(p, own[p], seen[p], Tail(rest[p]))
  BY <1>5 DEF Go
<1>7. ASSUME NEW f, Write(p, f) PROVE Acts(p, Over(f, own[p]), seen[p], Tail(rest[p]))
  <2>1. own' = [own EXCEPT ![p] = Over(f, own[p])] /\ seen' = [seen EXCEPT ![p] = seen[p]]
    BY <1>1, <1>4, <1>7 DEF Write, OfProcs
  <2> QED
    BY <1>3, <1>7, <2>1 DEF Write
<1>8. ASSUME NEW S, Read(p, S) PROVE Acts(p, own[p], S, Tail(rest[p]))
  BY <1>3, <1>4, <1>8 DEF Read
<1> QED
  BY <1>3, <1>5, <1>6, <1>7, <1>8

-------------------------------------------------------------------------------
(* A transaction takes a step.                                             *)

(* A statement is about a row of its table.                                *)
LEMMA RowsOfSteps ==
    ASSUME NEW p \in Procs, NEW s \in StepsOf(p)
    PROVE  /\ s.row \in Rows
           /\ s.op \in OfMenu => s.row = "menu"
           /\ s.op \in OfVisit => s.row = "visit"
           /\ s.op \in OfVenue => s.row = "venue"
           /\ s.op \in OfTicket => s.row \in TicketRows
           /\ s.op \in OfLine => s.row \in Lines
           /\ s.op \in {"settle", "drop"} => s.row \in Procs
           /\ s.op \in Inserts => s.row = p
BY RowsApart DEF StepsOf, OfMenu, OfVisit, OfVenue, OfTicket, OfLine, Inserts

(* A transaction at its turn is on course at that statement.               *)
LEMMA TurnIs ==
    ASSUME RowInv, NEW p \in Procs, NEW op, Turn(p, op)
    PROVE  /\ rest[p] # <<>> /\ phase[p] = "running" /\ IsProgram(p, rest[p])
           /\ Head(rest[p]) \in StepsOf(p) /\ Head(rest[p]).op = op /\ Op(p) = op
           /\ Head(rest[p]).row = Row(p) /\ Row(p) \in Rows
           /\ Typed(p) /\ At(p, op, Row(p))
<1>1. rest[p] # <<>> /\ phase[p] = "running" /\ Op(p) = op
  BY DEF Turn, Running
<1>2. IsProgram(p, rest[p]) /\ At(p, Op(p), Row(p)) /\ Typed(p)
  BY <1>1 DEF RowInv, OnCourse
<1>3. Head(rest[p]) \in StepsOf(p)
  BY <1>1, <1>2, TailIsProgram
<1> QED
  BY <1>1, <1>2, <1>3, RowsOfSteps DEF Op, Row

(* What a statement needs are row locks.                                   *)
LEMMA NeedsAreLocks ==
    ASSUME RowInv, NEW p \in Procs, rest[p] # <<>>
    PROVE  Needs(p) \subseteq Rows \X {"S", "X"}
<1>1. Head(rest[p]) \in StepsOf(p)
  BY TailIsProgram DEF RowInv, OnCourse
<1>2. Row(p) \in Rows /\ "visit" \in Rows /\ Procs \subseteq Rows
  BY <1>1, RowsOfSteps, RowsApart DEF Row
<1>3. {<<q, "X">> : q \in {r \in Procs : InPlay(p, r)}} \subseteq Rows \X {"S", "X"}
  BY <1>2
<1> QED
  BY <1>2, <1>3 DEF Needs

(* Locks granted at a turn fit with the locks of the others.               *)
LEMMA TurnFits ==
    ASSUME RowInv, NEW p \in Procs, NEW op, Turn(p, op), held'[p] = held[p] \cup Needs(p)
    PROVE  LocksFit(p)
<1> SUFFICES ASSUME NEW q \in Procs \ {p}, NEW r \in Rows
             PROVE  /\ <<r, "X">> \in held'[p] =>
                          <<r, "X">> \notin held[q] /\ <<r, "S">> \notin held[q]
                    /\ <<r, "S">> \in held'[p] => <<r, "X">> \notin held[q]
  BY DEF LocksFit
<1>1. /\ <<r, "X">> \in held[p] => <<r, "X">> \notin held[q] /\ <<r, "S">> \notin held[q]
      /\ <<r, "S">> \in held[p] => <<r, "X">> \notin held[q]
  BY Excludes DEF RowInv
<1>2. ~WaitsFor(p, q) /\ Running(p) /\ p # q
  BY DEF Turn
<1>3. \A need \in Needs(p), lock \in held[q] :
          ~(need[1] = lock[1] /\ "X" \in {need[2], lock[2]})
  BY <1>2 DEF WaitsFor
<1>4. /\ <<r, "X">> \in Needs(p) => <<r, "X">> \notin held[q] /\ <<r, "S">> \notin held[q]
      /\ <<r, "S">> \in Needs(p) => <<r, "X">> \notin held[q]
  BY <1>3
<1> QED
  BY <1>1, <1>4

(* Enough for the invariant after a statement that only locks, reads and   *)
(* writes uncommitted rows.                                                *)
LEMMA ActsKeep ==
    ASSUME RowInv, NEW p \in Procs, NEW op, Turn(p, op),
           NEW mine, NEW lines \in SUBSET Lines, NEW steps, Acts(p, mine, lines, steps),
           DOMAIN mine \subseteq Rows, IsProgram(p, steps),
           steps = <<>> => Done(p)',
           steps # <<>> => At(p, Head(steps).op, Head(steps).row)',
           \A k \in TicketRows : k \in DOMAIN mine /\ mine[k] = "pending" => WillPlace(p, k),
           \A i \in 1..Len(steps) : steps[i].op = "insertOrder" =>
               \E j \in 1..Len(rest[p]) : rest[p][j] = steps[i]
    PROVE  RowInv'
<1>1. /\ Alone(p) /\ db' = db /\ phase' = phase
      /\ own'[p] = mine /\ seen'[p] = lines /\ rest'[p] = steps /\ held'[p] = held[p] \cup Needs(p)
  BY DEF Acts, Then
<1>2. Typed(p) /\ phase[p] = "running" /\ rest[p] # <<>>
  BY TurnIs
<1>3. Rely(p) /\ DbOK' /\ TicketsOK'
  <2>1. Rely(p)
    BY <1>1 DEF Rely
  <2>2. DbOK /\ TicketsOK
    BY DEF RowInv
  <2>3. DbOK'
    BY <1>1, <2>2 DEF DbOK
  <2>4. TicketsOK'
    BY <1>1, <2>2 DEF TicketsOK
  <2> QED
    BY <2>1, <2>3, <2>4
<1>4. LocksFit(p)
  BY <1>1, TurnFits
<1>5. Typed(p)'
  <2>1. held'[p] \subseteq Rows \X {"S", "X"}
    BY <1>1, <1>2, NeedsAreLocks DEF Typed
  <2> QED
    BY <1>1, <1>2, <2>1 DEF Typed
<1>6. OnCourse(p)'
  <2>1. IsProgram(p, rest[p])'
    BY <1>1 DEF IsProgram
  <2>2. CASE steps = <<>>
    BY <1>1, <2>1, <2>2 DEF OnCourse
  <2>3. CASE steps # <<>>
    <3>1. Op(p)' = Head(steps).op /\ Row(p)' = Head(steps).row
      BY <1>1 DEF Op, Row
    <3>2. At(p, Op(p), Row(p))'
      BY <2>3, <3>1 DEF At
    <3> QED
      BY <1>1, <1>2, <2>1, <2>3, <3>2 DEF OnCourse
  <2> QED
    BY <2>2, <2>3
<1>7. ASSUME NEW k \in TicketRows, WillPlace(p, k)'
      PROVE  db'[k] = "none" /\ \A q \in Procs \ {p} : ~WillPlace(q, k)
  <2>1. WillPlace(p, k)
    <3>1. CASE k \in DOMAIN mine /\ mine[k] = "pending"
      BY <3>1
    <3>2. CASE \E i \in 1..Len(steps) : steps[i] = Step("insertOrder", k)
      <4>1. PICK i \in 1..Len(steps) : steps[i] = Step("insertOrder", k)
        BY <3>2
      <4>2. steps[i].op = "insertOrder"
        BY <4>1 DEF Step
      <4> QED
        BY <4>1, <4>2 DEF WillPlace
    <3> QED
      BY <1>1, <1>7, <3>1, <3>2 DEF WillPlace
  <2> QED
    BY <1>1, <2>1 DEF RowInv, PlacedOnce
<1> QED
  BY <1>1, <1>3, <1>4, <1>5, <1>6, <1>7, OneActs

(* On to the next statement of the program, or to the commit.              *)
LEMMA GoesOn ==
    ASSUME RowInv, NEW p \in Procs, NEW op, Turn(p, op),
           NEW mine, NEW lines \in SUBSET Lines, Acts(p, mine, lines, Tail(rest[p])),
           DOMAIN mine \subseteq Rows,
           op \in Finals => Done(p)',
           \A t \in StepsOf(p) : Follows(Head(rest[p]), t) => At(p, t.op, t.row)',
           \A k \in TicketRows : k \in DOMAIN mine /\ mine[k] = "pending" => WillPlace(p, k)
    PROVE  RowInv'
<1>1. /\ rest[p] # <<>> /\ IsProgram(p, rest[p]) /\ Head(rest[p]).op = op
      /\ rest[p] \in Seq(StepsOf(p))
  BY TurnIs DEF IsProgram
<1>2. PICK steps : steps = Tail(rest[p])
  OBVIOUS
<1>3. /\ IsProgram(p, steps)
      /\ steps = <<>> => op \in Finals
      /\ steps # <<>> => Follows(Head(rest[p]), Head(steps))
  BY <1>1, <1>2, TailIsProgram
<1>4. steps \in Seq(StepsOf(p)) /\ Len(steps) = Len(rest[p]) - 1 /\ Len(rest[p]) \in Nat
      /\ \A i \in 1..Len(steps) : steps[i] = rest[p][i + 1]
  BY <1>1, <1>2, HeadTailProperties
<1>5. steps # <<>> => Head(steps) \in StepsOf(p)
  BY <1>3, TailIsProgram
<1>6. steps # <<>> => At(p, Head(steps).op, Head(steps).row)'
  <2> SUFFICES ASSUME steps # <<>> PROVE At(p, Head(steps).op, Head(steps).row)'
    OBVIOUS
  <2>1. PICK t \in StepsOf(p) : t = Head(steps)
    BY <1>5
  <2>2. At(p, t.op, t.row)'
    BY <1>3, <2>1
  <2> QED
    BY <2>1, <2>2
<1>7. \A i \in 1..Len(steps) : steps[i].op = "insertOrder" =>
          \E j \in 1..Len(rest[p]) : rest[p][j] = steps[i]
  <2> SUFFICES ASSUME NEW i \in 1..Len(steps)
               PROVE  \E j \in 1..Len(rest[p]) : rest[p][j] = steps[i]
    OBVIOUS
  <2>1. i + 1 \in 1..Len(rest[p]) /\ rest[p][i + 1] = steps[i]
    BY <1>4
  <2> QED
    BY <2>1
<1>8. Acts(p, mine, lines, steps)
  BY <1>2
<1> QED
  BY <1>3, <1>6, <1>7, <1>8, ActsKeep

(* While nothing commits, what is read off the committed rows stays.       *)
LEMMA SameRows ==
    ASSUME db' = db
    PROVE  /\ Live' = Live /\ NoneInFlight' = NoneInFlight /\ SomePayment' = SomePayment
           /\ Active' = Active /\ Due' = Due /\ \A l \in Lines : MayAdjust(l)' = MayAdjust(l)
<1>1. Active' = Active /\ Live' = Live
  BY DEF Active, Live
<1>2. /\ NoneMoving' = NoneMoving /\ Due' = Due
      /\ NoneInFlight' = NoneInFlight /\ SomePayment' = SomePayment
  BY BillFrozen
<1> QED
  BY <1>1, <1>2 DEF MayAdjust

(* A transaction that has not written a row sees it as committed.          *)
LEMMA SeesCommitted ==
    ASSUME NEW p \in Procs
    PROVE  /\ \A r : r \notin DOMAIN own[p] => Sees(p, r) = db[r]
           /\ own[p] = <<>> => DOMAIN own[p] = {}
           /\ "visit" \notin DOMAIN own[p] => VisitLive(p) = Live
<1>1. \A r : r \notin DOMAIN own[p] => Sees(p, r) = db[r]
  BY DEF Sees
<1> QED
  BY <1>1 DEF VisitLive, Live

(* A transaction that is rolled back leaves nothing behind.                *)
LEMMA AbortKeeps == ASSUME RowInv, NEW p \in Procs, Abort(p) PROVE RowInv'
<1>1. OfProcs(own) /\ OfProcs(held) /\ OfProcs(rest) /\ OfProcs(seen) /\ OfProcs(phase)
  BY DEF RowInv
<1>2. /\ db' = db /\ own' = [own EXCEPT ![p] = <<>>] /\ held' = [held EXCEPT ![p] = {}]
      /\ rest' = [rest EXCEPT ![p] = <<>>] /\ seen' = [seen EXCEPT ![p] = {}]
      /\ phase' = [phase EXCEPT ![p] = "done"]
  BY DEF Abort, End
<1>3. /\ own'[p] = <<>> /\ held'[p] = {} /\ rest'[p] = <<>> /\ seen'[p] = {} /\ phase'[p] = "done"
  BY <1>1, <1>2 DEF OfProcs
<1>4. Alone(p)
  BY <1>1, <1>2 DEF OfProcs, Alone
<1>5. Rely(p) /\ DbOK' /\ TicketsOK'
  BY <1>2 DEF RowInv, Rely, DbOK, TicketsOK
<1>6. LocksFit(p) /\ Typed(p)'
  BY <1>3 DEF LocksFit, Typed
<1>7. OnCourse(p)'
  <2>1. IsProgram(p, rest[p])'
    BY <1>3 DEF IsProgram
  <2> QED
    BY <1>3, <2>1 DEF OnCourse, Done
<1>8. \A k : ~WillPlace(p, k)'
  BY <1>3 DEF WillPlace
<1> QED
  BY <1>4, <1>5, <1>6, <1>7, <1>8, OneActs

(* On without a write.                                                     *)
LEMMA LooksOn ==
    ASSUME RowInv, NEW p \in Procs, NEW op, Turn(p, op), NEW lines \in SUBSET Lines,
           Acts(p, own[p], lines, Tail(rest[p])),
           op \in Finals => Done(p)',
           \A t \in StepsOf(p) : Follows(Head(rest[p]), t) => At(p, t.op, t.row)'
    PROVE  RowInv'
<1>1. PICK mine : mine = own[p]
  OBVIOUS
<1>2. DOMAIN mine \subseteq Rows
  BY <1>1, TurnIs DEF Typed
<1>3. \A k \in TicketRows : k \in DOMAIN mine /\ mine[k] = "pending" => WillPlace(p, k)
  BY <1>1 DEF WillPlace
<1> QED
  BY <1>1, <1>2, <1>3, GoesOn

(* A statement that changes nothing but the locks.                         *)
LEMMA Passes ==
    ASSUME RowInv, NEW p \in Procs, NEW op, Turn(p, op), Go(p),
           op \in Finals => Done(p)',
           \A t \in StepsOf(p) : Follows(Head(rest[p]), t) => At(p, t.op, t.row)'
    PROVE  RowInv'
<1>1. Acts(p, own[p], seen[p], Tail(rest[p])) /\ seen[p] \in SUBSET Lines
  BY KindsOfActs, TurnIs DEF Typed
<1> QED
  BY <1>1, LooksOn

(* On with a write that places nothing new.                                *)
LEMMA WritesOn ==
    ASSUME RowInv, NEW p \in Procs, NEW op, Turn(p, op),
           NEW f, Write(p, f), DOMAIN f \subseteq Rows,
           op \in Finals => Done(p)',
           \A t \in StepsOf(p) : Follows(Head(rest[p]), t) => At(p, t.op, t.row)',
           \A k \in TicketRows \cap DOMAIN f : f[k] = "pending" => WillPlace(p, k)
    PROVE  RowInv'
<1>1. PICK mine : mine = Over(f, own[p])
  OBVIOUS
<1>2. Acts(p, mine, seen[p], Tail(rest[p])) /\ seen[p] \in SUBSET Lines
  BY <1>1, KindsOfActs, TurnIs DEF Typed
<1>3. /\ DOMAIN Over(f, own[p]) = DOMAIN f \cup DOMAIN own[p]
      /\ \A r \in DOMAIN f : Over(f, own[p])[r] = f[r]
      /\ \A r \in DOMAIN own[p] \ DOMAIN f : Over(f, own[p])[r] = own[p][r]
  BY OverIs
<1>4. DOMAIN mine \subseteq Rows
  BY <1>1, <1>3, TurnIs DEF Typed
<1>5. ASSUME NEW k \in TicketRows, k \in DOMAIN mine, mine[k] = "pending" PROVE WillPlace(p, k)
  <2>1. CASE k \in DOMAIN f
    BY <1>1, <1>3, <1>5, <2>1
  <2>2. CASE k \notin DOMAIN f
    BY <1>1, <1>3, <1>5, <2>2 DEF WillPlace
  <2> QED
    BY <2>1, <2>2
<1> QED
  BY <1>2, <1>4, <1>5, GoesOn

(* What a step leaves of db, and of its transaction.                       *)
LEMMA GoIs ==
    ASSUME RowInv, NEW p \in Procs
    PROVE  /\ Go(p) => /\ db' = db /\ own'[p] = own[p] /\ seen'[p] = seen[p]
                       /\ held'[p] = held[p] \cup Needs(p)
           /\ \A S : Read(p, S) => /\ db' = db /\ own'[p] = own[p] /\ seen'[p] = S
                                   /\ held'[p] = held[p] \cup Needs(p)
           /\ \A f : Write(p, f) => /\ db' = db /\ own'[p] = Over(f, own[p]) /\ seen'[p] = seen[p]
                                    /\ held'[p] = held[p] \cup Needs(p)
BY KindsOfActs DEF Acts, Then

(* A statement that writes its first row.                                  *)
LEMMA WritesOneOn ==
    ASSUME RowInv, NEW p \in Procs, NEW op, Turn(p, op),
           NEW r \in Rows, NEW value, Write(p, One(r, value)),
           r \in TicketRows => value # "pending",
           op \in Finals => Done(p)',
           \A t \in StepsOf(p) : Follows(Head(rest[p]), t) => At(p, t.op, t.row)'
    PROVE  RowInv'
<1>1. PICK f : f = One(r, value)
  OBVIOUS
<1>2. DOMAIN f = {r} /\ f[r] = value
  BY <1>1, OneIs
<1>3. DOMAIN f \subseteq Rows /\ \A k \in TicketRows \cap DOMAIN f : f[k] # "pending"
  BY <1>2
<1> QED
  BY <1>1, <1>3, WritesOn

-------------------------------------------------------------------------------
(* Locks taken before anything is read under them; the visit; orders.      *)

(* Locks taken first, with nothing read yet.                               *)
LEMMA TakeLockKeeps == ASSUME RowInv, NEW p \in Procs, TakeLock(p) PROVE RowInv'
<1>1. PICK op \in {"shareMenu", "shareVenue", "lockVenue", "lockLine"} : Turn(p, op) /\ Go(p)
  BY DEF TakeLock
<1>2. /\ At(p, op, Row(p)) /\ Op(p) = op /\ Head(rest[p]).op = op /\ Head(rest[p]).row = Row(p)
      /\ Head(rest[p]) \in StepsOf(p)
  BY <1>1, TurnIs
<1>3. /\ db' = db /\ own'[p] = own[p] /\ seen'[p] = seen[p]
      /\ held'[p] = held[p] \cup Needs(p)
  BY <1>1, GoIs
<1>4. Live' = Live /\ NoneInFlight' = NoneInFlight /\ Due' = Due
  BY <1>3, SameRows
<1>5. op \notin Finals
  BY <1>1 DEF Finals, Inserts, Sweeps
<1>6. ASSUME NEW t \in StepsOf(p), Follows(Head(rest[p]), t) PROVE At(p, t.op, t.row)'
  <2>1. CASE op = "shareMenu"
    <3>1. t.op = "claim" /\ Row(p) = "menu"
      BY <1>2, <1>6, <2>1, RowsOfSteps DEF Follows, OfMenu
    <3>2. Needs(p) = {MenuS} /\ held[p] = {} /\ own[p] = <<>>
      BY <1>2, <2>1, <3>1 DEF Needs, MenuS, At, Firsts
    <3> QED
      BY <1>3, <3>1, <3>2 DEF At, Firsts, Inserts
  <2>2. CASE op = "shareVenue"
    <3>1. t.op \in Inserts /\ Row(p) = "venue"
      BY <1>2, <1>6, <2>2, RowsOfSteps DEF Follows, OfVenue
    <3>2. /\ Needs(p) = {VenueS} /\ held[p] = {VisitX} /\ own[p] = <<>>
          /\ Live /\ NoneInFlight /\ seen[p] = Due /\ Due # {}
      BY <1>2, <2>2, <3>1 DEF Needs, VenueS, At
    <3>3. /\ held'[p] = {VisitX, VenueS} /\ own'[p] = <<>>
          /\ Live' /\ NoneInFlight' /\ seen'[p] = Due' /\ Due' # {}
      BY <1>3, <1>4, <3>2
    <3> QED
      BY <3>1, <3>3 DEF At, Inserts, Firsts
  <2>3. CASE op = "lockVenue"
    <3>1. t.op = "noneInFlight" /\ Row(p) = "venue"
      BY <1>2, <1>6, <2>3, RowsOfSteps DEF Follows, OfVenue
    <3>2. Needs(p) = {VenueX} /\ held[p] = {} /\ own[p] = <<>>
      BY <1>2, <2>3, <3>1 DEF Needs, VenueX, At, Firsts
    <3> QED
      BY <1>3, <3>1, <3>2 DEF At, Firsts, Inserts
  <2>4. CASE op = "lockLine"
    <3>1. t.op = "lockAdjustable" /\ t.row = Row(p)
      BY <1>2, <1>6, <2>4 DEF Follows
    <3>2. Needs(p) = {<<Row(p), "X">>} /\ held[p] = {} /\ own[p] = <<>>
      BY <1>2, <2>4 DEF Needs, At, Firsts
    <3>3. held'[p] = {<<t.row, "X">>} /\ own'[p] = <<>>
      BY <1>3, <3>1, <3>2
    <3> QED
      BY <3>1, <3>3 DEF At, Firsts, Inserts
  <2> QED
    BY <2>1, <2>2, <2>3, <2>4
<1> QED
  BY <1>1, <1>5, <1>6, Passes

(* Visit: lock it and check that it is live.                               *)
LEMMA LockLiveKeeps == ASSUME RowInv, NEW p \in Procs, LockLive(p) PROVE RowInv'
<1>1. Turn(p, "lockLive")
  BY DEF LockLive
<1>2. /\ At(p, "lockLive", Row(p)) /\ Op(p) = "lockLive" /\ Head(rest[p]).op = "lockLive"
      /\ Head(rest[p]).row = Row(p) /\ Head(rest[p]) \in StepsOf(p)
  BY <1>1, TurnIs
<1>3. Row(p) = "visit" /\ held[p] = {} /\ own[p] = <<>>
  BY <1>2, RowsOfSteps DEF OfVisit, At, Firsts
<1>4. CASE VisitLive(p) /\ Go(p)
  <2>1. Live /\ Needs(p) = {VisitX}
    BY <1>2, <1>3, <1>4, SeesCommitted DEF Needs, VisitX
  <2>2. Live' /\ own'[p] = <<>> /\ held'[p] = {VisitX}
    BY <1>3, <1>4, <2>1, GoIs, SameRows
  <2>3. ASSUME NEW t \in StepsOf(p), Follows(Head(rest[p]), t) PROVE At(p, t.op, t.row)'
    <3>1. t.op = "noPending"
      BY <1>2, <2>3 DEF Follows
    <3> QED
      BY <2>2, <3>1 DEF At, Firsts, Inserts
  <2>4. "lockLive" \notin Finals
    BY DEF Finals, Inserts, Sweeps
  <2> QED
    BY <1>1, <1>4, <2>3, <2>4, Passes
<1> QED
  BY <1>4, AbortKeeps DEF LockLive, Require

(* Visit: claim it for an order.                                           *)
LEMMA ClaimKeeps == ASSUME RowInv, NEW p \in Procs, Claim(p) PROVE RowInv'
<1>1. Turn(p, "claim")
  BY DEF Claim
<1>2. /\ At(p, "claim", Row(p)) /\ Op(p) = "claim" /\ Head(rest[p]).op = "claim"
      /\ Head(rest[p]).row = Row(p) /\ Head(rest[p]) \in StepsOf(p)
  BY <1>1, TurnIs
<1>3. Row(p) = "visit" /\ held[p] = {MenuS} /\ own[p] = <<>>
  BY <1>2, RowsOfSteps DEF OfVisit, At
<1>4. CASE VisitLive(p) /\ Write(p, One("visit", "active"))
  <2>1. Live /\ Needs(p) = {VisitX}
    BY <1>2, <1>3, <1>4, SeesCommitted DEF Needs, VisitX
  <2>2. Live' /\ own'[p] = One("visit", "active") /\ held'[p] = {MenuS, VisitX}
    BY <1>3, <1>4, <2>1, GoIs, SameRows, FirstWrite
  <2>3. ASSUME NEW t \in StepsOf(p), Follows(Head(rest[p]), t) PROVE At(p, t.op, t.row)'
    <3>1. t.op = "insertOrder"
      BY <1>2, <2>3 DEF Follows
    <3> QED
      BY <2>2, <3>1 DEF At, Firsts, Inserts
  <2>4. "claim" \notin Finals /\ "visit" \in Rows /\ "visit" \notin TicketRows
    BY RowsApart DEF Finals, Inserts, Sweeps
  <2> QED
    BY <1>1, <1>4, <2>3, <2>4, WritesOneOn
<1> QED
  BY <1>4, AbortKeeps DEF Claim, WriteIf

(* Visit: close it.                                                        *)
LEMMA CloseVisitKeeps == ASSUME RowInv, NEW p \in Procs, CloseVisit(p) PROVE RowInv'
<1>1. Turn(p, "closeVisit") /\ Write(p, One("visit", "closed"))
  BY DEF CloseVisit
<1>2. At(p, "closeVisit", Row(p)) /\ Head(rest[p]).op = "closeVisit"
  BY <1>1, TurnIs
<1>3. VisitX \in held[p] /\ own[p] = <<>> /\ Live /\ NoneInFlight
  BY <1>2 DEF At
<1>4. Live' /\ NoneInFlight' /\ own'[p] = One("visit", "closed") /\ VisitX \in held'[p]
  BY <1>1, <1>3, GoIs, SameRows, FirstWrite
<1>5. Done(p)'
  BY <1>4 DEF Done, Closed
<1>6. \A t \in StepsOf(p) : ~Follows(Head(rest[p]), t)
  BY <1>2 DEF Follows
<1>7. "visit" \in Rows /\ "visit" \notin TicketRows
  BY RowsApart
<1> QED
  BY <1>1, <1>5, <1>6, <1>7, WritesOneOn

(* Order: insert it, its ticket and its lines.                             *)
LEMMA InsertOrderKeeps == ASSUME RowInv, NEW p \in Procs, InsertOrder(p) PROVE RowInv'
<1>1. Turn(p, "insertOrder")
  BY DEF InsertOrder
<1>2. PICK k : k = Row(p)
  OBVIOUS
<1>3. /\ At(p, "insertOrder", k) /\ Op(p) = "insertOrder" /\ Head(rest[p]).op = "insertOrder"
      /\ Head(rest[p]).row = k /\ Head(rest[p]) \in StepsOf(p)
      /\ rest[p] # <<>> /\ IsProgram(p, rest[p])
  BY <1>1, <1>2, TurnIs
<1>4. k \in TicketRows
  BY <1>3, RowsOfSteps DEF OfTicket
<1>5. held[p] = {MenuS, VisitX} /\ own[p] = One("visit", "active") /\ Live
  BY <1>3 DEF At
<1>6. PICK lines : lines = [l \in LinesOf(k) |-> "active"]
  OBVIOUS
<1>7. PICK f : f = Over(One(k, "pending"), lines)
  OBVIOUS
<1>8. CASE Sees(p, "menu") = "on" /\ Write(p, f)
  <2>1. Needs(p) = {<<k, "X">>}
    BY <1>2, <1>3 DEF Needs
  <2>2. /\ db' = db /\ own'[p] = Over(f, own[p]) /\ held'[p] = {MenuS, VisitX, <<k, "X">>}
    BY <1>5, <1>8, <2>1, GoIs
  <2>3. Live' /\ db'["menu"] = "on"
    <3>1. DOMAIN One("visit", "active") = {"visit"}
      BY OneIs
    <3> QED
      BY <1>5, <1>8, <2>2, <3>1, SameRows DEF Sees
  <2>4. /\ DOMAIN f = {k} \cup LinesOf(k) /\ f[k] = "pending"
        /\ \A l \in LinesOf(k) : f[l] = "active"
    <3>1. PICK one : one = One(k, "pending")
      OBVIOUS
    <3>3. DOMAIN one = {k} /\ one[k] = "pending" /\ f = Over(one, lines)
      BY <1>7, <3>1, OneIs
    <3>4. /\ DOMAIN f = {k} \cup DOMAIN lines /\ f[k] = "pending"
          /\ \A l \in DOMAIN lines \ {k} : f[l] = lines[l]
      BY <3>3 DEF Over
    <3>2. k \notin LinesOf(k)
      BY <1>4, LinesHaveTickets, RowsApart
    <3> QED
      BY <1>6, <3>2, <3>4
  <2>5. "visit" \notin DOMAIN f /\ DOMAIN f \subseteq Rows
    BY <1>4, <2>4, LinesHaveTickets, RowsApart
  <2>6. /\ DOMAIN own'[p] = {"visit", k} \cup LinesOf(k)
        /\ own'[p]["visit"] = "active" /\ own'[p][k] = "pending"
        /\ \A l \in LinesOf(k) : own'[p][l] = "active"
    <3>1. PICK first : first = One("visit", "active")
      OBVIOUS
    <3>2. DOMAIN first = {"visit"} /\ first["visit"] = "active"
      BY <3>1, OneIs
    <3>3. own'[p] = Over(f, first)
      BY <1>5, <2>2, <3>1
    <3>4. /\ DOMAIN own'[p] = DOMAIN f \cup {"visit"} /\ own'[p]["visit"] = "active"
          /\ \A r \in DOMAIN f : own'[p][r] = f[r]
      <4>1. PICK mine : mine = own'[p]
        OBVIOUS
      <4>2. /\ DOMAIN mine = DOMAIN f \cup DOMAIN first
            /\ \A r \in DOMAIN f : mine[r] = f[r]
            /\ \A r \in DOMAIN first \ DOMAIN f : mine[r] = first[r]
        BY <3>3, <4>1 DEF Over
      <4> QED
        BY <2>5, <3>2, <4>1, <4>2
    <3> QED
      BY <2>4, <3>4
  <2>7. MenuX \notin held'[p]
    BY <1>4, <2>2, RowsApart DEF MenuX, MenuS, VisitX
  <2>8. Done(p)'
    <3>1. Placed(p, k)'
      BY <2>2, <2>3, <2>6, <2>7 DEF Placed
    <3> QED
      BY <1>4, <3>1 DEF Done
  <2>9. \A t \in StepsOf(p) : ~Follows(Head(rest[p]), t)
    BY <1>3 DEF Follows
  <2>10. WillPlace(p, k)
    <3>1. Head(rest[p]) = Step("insertOrder", k)
      BY <1>3 DEF StepsOf, Step
    <3>2. rest[p][1] = Head(rest[p]) /\ 1 \in 1..Len(rest[p])
      BY <1>3, HeadTailProperties, EmptySeq DEF IsProgram
    <3> QED
      BY <3>1, <3>2 DEF WillPlace
  <2>11. \A m \in TicketRows \cap DOMAIN f : f[m] = "pending" => WillPlace(p, m)
    BY <2>4, <2>10, LinesHaveTickets, RowsApart
  <2> QED
    BY <1>1, <1>8, <2>5, <2>8, <2>9, <2>11, WritesOn
<1> QED
  BY <1>2, <1>6, <1>7, <1>8, AbortKeeps DEF InsertOrder, WriteIf

-------------------------------------------------------------------------------
(* Payments.                                                               *)

(* Payment: no other attempt may be in flight.                             *)
LEMMA NoPendingKeeps == ASSUME RowInv, NEW p \in Procs, NoPending(p) PROVE RowInv'
<1>1. PICK op \in {"noPending", "noneInFlight"} : Turn(p, op) /\ Require(p, NonePending(p))
  BY DEF NoPending
<1>2. /\ At(p, op, Row(p)) /\ Op(p) = op /\ Head(rest[p]).op = op
  BY <1>1, TurnIs
<1>3. /\ op = "noPending" => held[p] = {VisitX} /\ own[p] = <<>> /\ Live
      /\ op = "noneInFlight" => held[p] = {VenueX} /\ own[p] = <<>>
  BY <1>2 DEF At
<1>4. CASE NonePending(p) /\ Go(p)
  <2>1. NoneInFlight
    BY <1>1, <1>3, <1>4, SeesCommitted DEF NonePending, NoneInFlight
  <2>2. Needs(p) = {}
    BY <1>1, <1>2 DEF Needs
  <2>3. /\ Live' = Live /\ NoneInFlight' /\ own'[p] = <<>> /\ held'[p] = held[p]
    BY <1>1, <1>3, <1>4, <2>1, <2>2, GoIs, SameRows
  <2>4. ASSUME NEW t \in StepsOf(p), Follows(Head(rest[p]), t) PROVE At(p, t.op, t.row)'
    <3>1. CASE op = "noPending"
      <4>1. t.op \in {"readTotals", "closeVisit"}
        BY <1>2, <2>4, <3>1 DEF Follows
      <4> QED
        BY <1>3, <2>3, <3>1, <4>1 DEF At, Firsts, Inserts
    <3>2. CASE op = "noneInFlight"
      <4>1. t.op = "saveAccount"
        BY <1>2, <2>4, <3>2 DEF Follows
      <4> QED
        BY <1>3, <2>3, <3>2, <4>1 DEF At, Firsts, Inserts
    <3> QED
      BY <1>1, <3>1, <3>2
  <2>5. op \notin Finals
    BY <1>1 DEF Finals, Inserts, Sweeps
  <2> QED
    BY <1>1, <1>4, <2>4, <2>5, Passes
<1> QED
  BY <1>1, <1>4, AbortKeeps DEF Require

(* Payment: read what the lines cost.                                      *)
LEMMA ReadTotalsKeeps == ASSUME RowInv, NEW p \in Procs, ReadTotals(p) PROVE RowInv'
<1>1. Turn(p, "readTotals")
  BY DEF ReadTotals
<1>2. At(p, "readTotals", Row(p)) /\ Op(p) = "readTotals" /\ Head(rest[p]).op = "readTotals"
  BY <1>1, TurnIs
<1>3. held[p] = {VisitX} /\ own[p] = <<>> /\ Live /\ NoneInFlight
  BY <1>2 DEF At
<1>4. {l \in Lines : Sees(p, l) = "active"} = Active
  BY <1>3, SeesCommitted DEF Active
<1>5. Read(p, Active) /\ Needs(p) = {}
  BY <1>2, <1>4 DEF ReadTotals, Needs
<1>6. /\ Live' /\ NoneInFlight' /\ Active' = Active /\ seen'[p] = Active /\ own'[p] = <<>>
      /\ held'[p] = {VisitX}
  BY <1>3, <1>5, GoIs, SameRows
<1>7. ASSUME NEW t \in StepsOf(p), Follows(Head(rest[p]), t) PROVE At(p, t.op, t.row)'
  <2>1. t.op = "readCovered"
    BY <1>2, <1>7 DEF Follows
  <2> QED
    BY <1>6, <2>1 DEF At, Firsts, Inserts
<1>8. "readTotals" \notin Finals /\ Active \in SUBSET Lines
  BY DEF Finals, Inserts, Sweeps, Active
<1>9. Acts(p, own[p], Active, Tail(rest[p]))
  BY <1>5, KindsOfActs
<1> QED
  BY <1>1, <1>7, <1>8, <1>9, LooksOn

(* Payment: leave out the orders already paid for.                         *)
LEMMA ReadCoveredKeeps == ASSUME RowInv, NEW p \in Procs, ReadCovered(p) PROVE RowInv'
<1>1. Turn(p, "readCovered")
  BY DEF ReadCovered
<1>2. At(p, "readCovered", Row(p)) /\ Op(p) = "readCovered" /\ Head(rest[p]).op = "readCovered"
  BY <1>1, TurnIs
<1>3. held[p] = {VisitX} /\ own[p] = <<>> /\ Live /\ NoneInFlight /\ seen[p] = Active
  BY <1>2 DEF At
<1>4. UNION {Sees(p, q).orders : q \in {r \in Procs : Sees(p, r).status = "completed"}} = Paid
  <2>1. \A q : Sees(p, q) = db[q]
    BY <1>3, SeesCommitted
  <2> QED
    BY <2>1 DEF Paid
<1>5. {l \in seen[p] : TicketRowOf[l] \notin Paid} = Due
  BY <1>3 DEF Due
<1>6. IF Due # {} THEN Read(p, Due) ELSE Abort(p)
  BY <1>4, <1>5 DEF ReadCovered
<1>7. CASE Due # {} /\ Read(p, Due)
  <2>1. Needs(p) = {}
    BY <1>2 DEF Needs
  <2>2. /\ Live' /\ NoneInFlight' /\ Due' = Due /\ seen'[p] = Due /\ own'[p] = <<>>
        /\ held'[p] = {VisitX}
    BY <1>3, <1>7, <2>1, GoIs, SameRows
  <2>3. ASSUME NEW t \in StepsOf(p), Follows(Head(rest[p]), t) PROVE At(p, t.op, t.row)'
    <3>1. t.op = "shareVenue"
      BY <1>2, <2>3 DEF Follows
    <3> QED
      BY <1>7, <2>2, <3>1 DEF At, Firsts, Inserts
  <2>4. "readCovered" \notin Finals /\ Due \in SUBSET Lines
    BY DEF Finals, Inserts, Sweeps, Due, Active
  <2>5. Acts(p, own[p], Due, Tail(rest[p]))
    BY <1>7, KindsOfActs
  <2> QED
    BY <1>1, <2>3, <2>4, <2>5, LooksOn
<1> QED
  BY <1>6, <1>7, AbortKeeps

(* Payment: insert the attempt.                                            *)
LEMMA InsertPaymentKeeps == ASSUME RowInv, NEW p \in Procs, InsertPayment(p) PROVE RowInv'
<1>1. PICK status \in {"pending", "completed"} :
          /\ Turn(p, IF status = "pending" THEN "insertPending" ELSE "insertCompleted")
          /\ Write(p, One(p, [status  |-> status,
                              orders  |-> {TicketRowOf[l] : l \in seen[p]},
                              lines   |-> seen[p],
                              account |-> Sees(p, "venue")]))
  BY DEF InsertPayment
<1>2. PICK op \in Inserts : op = IF status = "pending" THEN "insertPending" ELSE "insertCompleted"
  BY DEF Inserts
<1>3. /\ Turn(p, op) /\ At(p, op, Row(p)) /\ Op(p) = op /\ Head(rest[p]).op = op
      /\ Head(rest[p]).row = Row(p) /\ Head(rest[p]) \in StepsOf(p)
  BY <1>1, <1>2, TurnIs
<1>4. Row(p) = p
  BY <1>3, RowsOfSteps
<1>5. /\ held[p] = {VisitX, VenueS} /\ own[p] = <<>>
      /\ Live /\ NoneInFlight /\ seen[p] = Due /\ Due # {}
  BY <1>3 DEF At
<1>6. PICK value : value = [status |-> status, orders |-> {TicketRowOf[l] : l \in Due},
                            lines |-> Due, account |-> db["venue"]]
  OBVIOUS
<1>7. Write(p, One(p, value))
  <2>1. Sees(p, "venue") = db["venue"]
    BY <1>5, SeesCommitted
  <2> QED
    BY <1>1, <1>5, <1>6, <2>1
<1>8. Needs(p) = {<<p, "X">>}
  BY <1>3, <1>4 DEF Needs, Inserts
<1>9. /\ db' = db /\ own'[p] = One(p, value) /\ held'[p] = {VisitX, VenueS, <<p, "X">>}
      /\ Live' /\ NoneInFlight' /\ Due' = Due
  <2>1. /\ db' = db /\ own'[p] = Over(One(p, value), own[p])
        /\ held'[p] = held[p] \cup Needs(p)
    BY <1>7, GoIs
  <2>2. own'[p] = One(p, value)
    BY <1>5, <2>1, FirstWrite
  <2> QED
    BY <1>5, <1>8, <2>1, <2>2, SameRows
<1>10. Attempted(p, status)'
  BY <1>5, <1>6, <1>9 DEF Attempted
<1>11. Done(p)'
  BY <1>10 DEF Done
<1>12. \A t \in StepsOf(p) : ~Follows(Head(rest[p]), t)
  BY <1>3 DEF Follows, Inserts
<1>13. p \in Rows /\ p \notin TicketRows
  BY RowsApart
<1> QED
  BY <1>3, <1>7, <1>11, <1>12, <1>13, WritesOneOn

(* Payment: settle or drop it.                                             *)
LEMMA EndPaymentKeeps == ASSUME RowInv, NEW p \in Procs, EndPayment(p) PROVE RowInv'
<1>1. PICK op \in {"settle", "drop"} :
        /\ Turn(p, op)
        /\ LET row == Sees(p, Row(p))
               status == IF op = "settle" THEN "completed" ELSE "cancelled"
           IN WriteIf(p, row.status = "pending", One(Row(p), [row EXCEPT !.status = status]))
  BY DEF EndPayment
<1>2. /\ At(p, op, Row(p)) /\ Op(p) = op /\ Head(rest[p]).op = op
      /\ Head(rest[p]).row = Row(p) /\ Head(rest[p]) \in StepsOf(p)
  BY <1>1, TurnIs
<1>3. PICK q \in Procs : q = Row(p)
  BY <1>2, RowsOfSteps
<1>4. own[p] = <<>> /\ Sees(p, q) = db[q] /\ Needs(p) = {<<q, "X">>}
  BY <1>2, <1>3, SeesCommitted DEF At, Firsts, Needs
<1>5. PICK status \in {"completed", "cancelled"} :
          status = IF op = "settle" THEN "completed" ELSE "cancelled"
  OBVIOUS
<1>6. PICK value : value = [db[q] EXCEPT !.status = status]
  OBVIOUS
<1>7. WriteIf(p, db[q].status = "pending", One(q, value))
  BY <1>1, <1>3, <1>4, <1>5, <1>6
<1>8. CASE db[q].status = "pending" /\ Write(p, One(q, value))
  <2>1. db' = db /\ own'[p] = One(q, value) /\ <<q, "X">> \in held'[p]
    BY <1>4, <1>8, GoIs, FirstWrite
  <2>2. Ended(p, q)'
    BY <1>5, <1>6, <1>8, <2>1 DEF Ended
  <2>3. Done(p)'
    BY <2>2 DEF Done
  <2>4. \A t \in StepsOf(p) : ~Follows(Head(rest[p]), t)
    BY <1>1, <1>2 DEF Follows
  <2>5. q \in Rows /\ q \notin TicketRows
    BY RowsApart
  <2> QED
    BY <1>1, <1>8, <2>3, <2>4, <2>5, WritesOneOn
<1> QED
  BY <1>7, <1>8, AbortKeeps DEF WriteIf

(* Venue: save the new account.                                            *)
LEMMA SaveAccountKeeps == ASSUME RowInv, NEW p \in Procs, SaveAccount(p) PROVE RowInv'
<1>1. Turn(p, "saveAccount") /\ Write(p, One("venue", "second account"))
  BY DEF SaveAccount
<1>2. At(p, "saveAccount", Row(p)) /\ Head(rest[p]).op = "saveAccount"
  BY <1>1, TurnIs
<1>3. held[p] = {VenueX} /\ own[p] = <<>> /\ NoneInFlight
  BY <1>2 DEF At
<1>4. NoneInFlight' /\ own'[p] = One("venue", "second account") /\ VenueX \in held'[p]
  BY <1>1, <1>3, GoIs, SameRows, FirstWrite
<1>5. Done(p)'
  BY <1>4 DEF Done, Renamed
<1>6. \A t \in StepsOf(p) : ~Follows(Head(rest[p]), t)
  BY <1>2 DEF Follows
<1>7. "venue" \in Rows /\ "venue" \notin TicketRows
  BY RowsApart
<1> QED
  BY <1>1, <1>5, <1>6, <1>7, WritesOneOn

-------------------------------------------------------------------------------
(* Void, comp and tickets.                                                 *)

(* Adjustment: lock the visit, check the line and the visit.               *)
LEMMA LockAdjustableKeeps == ASSUME RowInv, NEW p \in Procs, LockAdjustable(p) PROVE RowInv'
<1>1. Turn(p, "lockAdjustable")
  BY DEF LockAdjustable
<1>2. /\ At(p, "lockAdjustable", Row(p)) /\ Op(p) = "lockAdjustable"
      /\ Head(rest[p]).op = "lockAdjustable" /\ Head(rest[p]).row = Row(p)
  BY <1>1, TurnIs
<1>3. PICK l : l = Row(p)
  OBVIOUS
<1>4. held[p] = {<<l, "X">>} /\ own[p] = <<>> /\ Needs(p) = {VisitX}
  BY <1>2, <1>3 DEF At, Needs, VisitX
<1>5. CASE Sees(p, l) = "active" /\ VisitLive(p) /\ Go(p)
  <2>1. db[l] = "active" /\ Live
    BY <1>4, <1>5, SeesCommitted
  <2>2. db'[l] = "active" /\ Live' /\ own'[p] = <<>> /\ held'[p] = {<<l, "X">>, VisitX}
    BY <1>4, <1>5, <2>1, GoIs, SameRows
  <2>3. ASSUME NEW t \in StepsOf(p), Follows(Head(rest[p]), t) PROVE At(p, t.op, t.row)'
    <3>1. t.op = "lockPayments" /\ t.row = l
      BY <1>2, <1>3, <2>3 DEF Follows
    <3> QED
      BY <2>2, <3>1 DEF At, Firsts, Inserts
  <2>4. "lockAdjustable" \notin Finals
    BY DEF Finals, Inserts, Sweeps
  <2> QED
    BY <1>1, <1>5, <2>3, <2>4, Passes
<1> QED
  BY <1>3, <1>5, AbortKeeps DEF LockAdjustable, Require

(* Adjustment: lock the payments in play, which must not be.               *)
LEMMA LockPaymentsKeeps == ASSUME RowInv, NEW p \in Procs, LockPayments(p) PROVE RowInv'
<1>1. Turn(p, "lockPayments")
  BY DEF LockPayments
<1>2. /\ At(p, "lockPayments", Row(p)) /\ Op(p) = "lockPayments"
      /\ Head(rest[p]).op = "lockPayments" /\ Head(rest[p]).row = Row(p)
      /\ Head(rest[p]) \in StepsOf(p)
  BY <1>1, TurnIs
<1>3. PICK l \in Lines : l = Row(p)
  BY <1>2, RowsOfSteps DEF OfLine
<1>4. VisitX \in held[p] /\ own[p] = <<>> /\ Live /\ db[l] = "active"
  BY <1>2, <1>3 DEF At
<1>5. CASE (\A q \in Procs : ~InPlay(p, q)) /\ Go(p)
  <2>1. NoneMoving
    BY <1>4, <1>5, SeesCommitted DEF InPlay, NoneMoving
  <2>2. MayAdjust(l)
    BY <1>4, <2>1 DEF MayAdjust
  <2>3. MayAdjust(l)' /\ own'[p] = <<>> /\ VisitX \in held'[p]
    BY <1>4, <1>5, <2>2, GoIs, SameRows
  <2>4. ASSUME NEW t \in StepsOf(p), Follows(Head(rest[p]), t) PROVE At(p, t.op, t.row)'
    <3>1. t.op \in {"voidLine", "compLine"} /\ t.row = l
      BY <1>2, <1>3, <2>4 DEF Follows
    <3>2. PICK op \in {"voidLine", "compLine"} : op = t.op
      BY <3>1
    <3>3. At(p, op, l)'
      BY <2>3 DEF At, Firsts, Inserts
    <3> QED
      BY <3>1, <3>2, <3>3
  <2>5. "lockPayments" \notin Finals
    BY DEF Finals, Inserts, Sweeps
  <2> QED
    BY <1>1, <1>5, <2>4, <2>5, Passes
<1> QED
  BY <1>5, AbortKeeps DEF LockPayments, Require

(* Adjustment: void or comp the line.                                      *)
LEMMA WriteLineKeeps == ASSUME RowInv, NEW p \in Procs, WriteLine(p) PROVE RowInv'
<1>1. PICK kind \in {"void", "comp"} :
          /\ Turn(p, IF kind = "void" THEN "voidLine" ELSE "compLine")
          /\ Write(p, One(Row(p), kind))
  BY DEF WriteLine
<1>2. PICK op \in {"voidLine", "compLine"} : op = IF kind = "void" THEN "voidLine" ELSE "compLine"
  OBVIOUS
<1>3. /\ Turn(p, op) /\ At(p, op, Row(p)) /\ Head(rest[p]).op = op
      /\ Head(rest[p]).row = Row(p) /\ Head(rest[p]) \in StepsOf(p)
  BY <1>1, <1>2, TurnIs
<1>4. PICK l \in Lines : l = Row(p)
  BY <1>3, RowsOfSteps DEF OfLine
<1>5. VisitX \in held[p] /\ own[p] = <<>> /\ MayAdjust(l)
  BY <1>3, <1>4 DEF At
<1>6. Write(p, One(l, kind))
  BY <1>1, <1>4
<1>7. VisitX \in held'[p] /\ own'[p] = One(l, kind) /\ MayAdjust(l)'
  BY <1>5, <1>6, GoIs, SameRows, FirstWrite
<1>8. op \in Finals => Done(p)'
  <2>1. CASE op = "voidLine"
    BY <2>1 DEF Finals, Inserts, Sweeps
  <2>2. CASE op = "compLine"
    <3>1. Comped(p, l)'
      BY <1>2, <1>7, <2>2 DEF Comped
    <3> QED
      BY <3>1 DEF Done
  <2> QED
    BY <2>1, <2>2
<1>9. ASSUME NEW t \in StepsOf(p), Follows(Head(rest[p]), t) PROVE At(p, t.op, t.row)'
  <2>1. op = "voidLine" /\ t.op = "anyActive" /\ t.row = TicketRowOf[l]
    BY <1>3, <1>4, <1>9 DEF Follows
  <2>2. l \in LinesOf(t.row) /\ own'[p] = One(l, "void")
    BY <1>2, <1>7, <2>1, LinesHaveTickets
  <2> QED
    BY <1>7, <2>1, <2>2 DEF At, Firsts, Inserts
<1>10. l \in Rows /\ l \notin TicketRows
  BY RowsApart
<1> QED
  BY <1>3, <1>6, <1>8, <1>9, <1>10, WritesOneOn

(* Adjustment: look whether the ticket has a line left.                    *)
LEMMA AnyActiveKeeps == ASSUME RowInv, NEW p \in Procs, AnyActive(p) PROVE RowInv'
<1>1. Turn(p, "anyActive")
  BY DEF AnyActive
<1>2. PICK k : k = Row(p)
  OBVIOUS
<1>3. /\ At(p, "anyActive", k) /\ Op(p) = "anyActive" /\ Head(rest[p]).op = "anyActive"
      /\ Head(rest[p]).row = k /\ Head(rest[p]) \in StepsOf(p) /\ Typed(p)
  BY <1>1, <1>2, TurnIs
<1>4. k \in TicketRows /\ Needs(p) = {}
  BY <1>3, RowsOfSteps DEF OfTicket, Needs
<1>5. PICK l \in LinesOf(k) : own[p] = One(l, "void") /\ MayAdjust(l)
  BY <1>3 DEF At
<1>6. VisitX \in held[p] /\ l \in Lines /\ TicketRowOf[l] = k
  BY <1>3, <1>4, <1>5, LinesHaveTickets DEF At
<1>7. ASSUME db' = db, own'[p] = own[p]
      PROVE  MayAdjust(l)' /\ own'[p] = One(l, "void") /\ Emptied(p, k)' = Emptied(p, k)
  <2>1. \A m \in Lines : Sees(p, m)' = Sees(p, m)
    BY <1>7 DEF Sees
  <2> QED
    BY <1>4, <1>5, <1>6, <1>7, <2>1, SameRows, LinesHaveTickets DEF Emptied
<1>8. CASE Emptied(p, k) /\ Go(p)
  <2>1. db' = db /\ own'[p] = own[p] /\ held'[p] = held[p]
    BY <1>4, <1>8, GoIs
  <2>2. ASSUME NEW t \in StepsOf(p), Follows(Head(rest[p]), t) PROVE At(p, t.op, t.row)'
    <3>1. t.op = "cancelTicket" /\ t.row = k
      BY <1>3, <2>2 DEF Follows
    <3>2. At(p, "cancelTicket", k)'
      BY <1>5, <1>6, <1>7, <1>8, <2>1 DEF At, Firsts, Inserts
    <3> QED
      BY <3>1, <3>2
  <2>3. "anyActive" \notin Finals
    BY DEF Finals, Inserts, Sweeps
  <2> QED
    BY <1>1, <1>8, <2>2, <2>3, Passes
<1>9. CASE ~Emptied(p, k) /\ Then(p, <<>>) /\ UNCHANGED <<own, seen>>
  <2>1. PICK mine, lines : mine = own[p] /\ lines = seen[p]
    OBVIOUS
  <2>2. Acts(p, mine, lines, <<>>)
    BY <1>9, <2>1, KindsOfActs
  <2>3. db' = db /\ own'[p] = own[p] /\ held'[p] = held[p]
    BY <1>4, <2>1, <2>2 DEF Acts, Then
  <2>4. Voided(p, l)'
    BY <1>6, <1>7, <1>9, <2>3 DEF Voided
  <2>5. Done(p)'
    BY <1>6, <2>4 DEF Done
  <2>6. DOMAIN mine \subseteq Rows /\ lines \in SUBSET Lines
    BY <1>3, <2>1 DEF Typed
  <2>7. \A m \in TicketRows : m \in DOMAIN mine /\ mine[m] = "pending" => WillPlace(p, m)
    BY <2>1 DEF WillPlace
  <2> QED
    BY <1>1, <2>2, <2>5, <2>6, <2>7, NoSteps, ActsKeep
<1> QED
  BY <1>2, <1>8, <1>9 DEF AnyActive

(* Adjustment: cancel a ticket with no line left.                          *)
LEMMA CancelTicketKeeps == ASSUME RowInv, NEW p \in Procs, CancelTicket(p) PROVE RowInv'
<1>1. Turn(p, "cancelTicket")
  BY DEF CancelTicket
<1>2. PICK k : k = Row(p)
  OBVIOUS
<1>3. /\ At(p, "cancelTicket", k) /\ Op(p) = "cancelTicket" /\ Head(rest[p]).op = "cancelTicket"
      /\ Head(rest[p]).row = k /\ Head(rest[p]) \in StepsOf(p)
  BY <1>1, <1>2, TurnIs
<1>4. k \in TicketRows /\ Needs(p) = {<<k, "X">>} /\ Write(p, One(k, "cancelled"))
  BY <1>2, <1>3, RowsOfSteps DEF OfTicket, Needs, CancelTicket
<1>5. PICK l \in LinesOf(k) : own[p] = One(l, "void") /\ MayAdjust(l)
  BY <1>3 DEF At
<1>6. VisitX \in held[p] /\ l \in Lines /\ TicketRowOf[l] = k /\ Emptied(p, k)
  BY <1>3, <1>4, <1>5, LinesHaveTickets DEF At
<1>7. /\ db' = db /\ own'[p] = Over(One(k, "cancelled"), One(l, "void"))
      /\ VisitX \in held'[p] /\ <<k, "X">> \in held'[p] /\ MayAdjust(l)'
  BY <1>4, <1>5, <1>6, GoIs, SameRows
<1>8. Emptied(p, k)'
  <2>1. PICK one : one = One(k, "cancelled")
    OBVIOUS
  <2>2. PICK mine : mine = Over(one, own[p])
    OBVIOUS
  <2>3. DOMAIN one = {k}
    BY <2>1, OneIs
  <2>4. \A m \in Lines : /\ m \in DOMAIN mine <=> m \in DOMAIN own[p]
                         /\ m \in DOMAIN own[p] => mine[m] = own[p][m]
    BY <1>4, <2>2, <2>3, RowsApart DEF Over
  <2>5. own'[p] = mine
    BY <1>5, <1>7, <2>1, <2>2
  <2>6. \A m \in Lines : Sees(p, m)' = Sees(p, m)
    BY <1>7, <2>4, <2>5 DEF Sees
  <2> QED
    BY <1>4, <1>6, <2>6, LinesHaveTickets DEF Emptied
<1>9. Done(p)'
  <2>1. Voided(p, l)'
    BY <1>6, <1>7, <1>8 DEF Voided
  <2> QED
    BY <1>6, <2>1 DEF Done
<1>10. \A t \in StepsOf(p) : ~Follows(Head(rest[p]), t)
  BY <1>3 DEF Follows
<1>11. k \in Rows
  BY <1>4, RowsApart
<1> QED
  BY <1>1, <1>4, <1>9, <1>10, <1>11, WritesOneOn

(* Ticket: a cook accepts or sends it.                                     *)
LEMMA MoveTicketKeeps ==
    ASSUME RowInv, NEW p \in Procs, Accept(p) \/ Send(p) PROVE RowInv'
<1>1. PICK op \in {"accept", "send"} :
          \/ /\ op = "accept" /\ Turn(p, op)
             /\ WriteIf(p, CanAccept(Sees(p, Row(p))), One(Row(p), "accepted"))
          \/ /\ op = "send" /\ Turn(p, op)
             /\ WriteIf(p, CanSend(Sees(p, Row(p)), FALSE), One(Row(p), "sent"))
  BY DEF Accept, Send
<1>2. PICK k : k = Row(p)
  OBVIOUS
<1>3. /\ Turn(p, op) /\ At(p, op, k) /\ Op(p) = op /\ Head(rest[p]).op = op
      /\ Head(rest[p]).row = k /\ Head(rest[p]) \in StepsOf(p)
  BY <1>1, <1>2, TurnIs
<1>4. k \in TicketRows /\ k \in Rows
  BY <1>3, RowsOfSteps DEF OfTicket
<1>5. own[p] = <<>> /\ Sees(p, k) = db[k] /\ Needs(p) = {<<k, "X">>}
  BY <1>2, <1>3, SeesCommitted DEF At, Firsts, Needs
<1>6. ASSUME NEW status \in {"accepted", "sent"}, Write(p, One(k, status)),
             \/ status = "accepted" /\ CanAccept(db[k])
             \/ status = "sent" /\ CanSend(db[k], FALSE)
      PROVE  RowInv'
  <2>1. db' = db /\ own'[p] = One(k, status) /\ <<k, "X">> \in held'[p]
    BY <1>5, <1>6, GoIs, FirstWrite
  <2>2. Moved(p, k)'
    BY <1>6, <2>1 DEF Moved
  <2>3. Done(p)'
    BY <1>4, <2>2 DEF Done
  <2>4. \A t \in StepsOf(p) : ~Follows(Head(rest[p]), t)
    BY <1>1, <1>3 DEF Follows
  <2> QED
    BY <1>3, <1>4, <1>6, <2>3, <2>4, WritesOneOn
<1> QED
  BY <1>1, <1>2, <1>5, <1>6, AbortKeeps DEF WriteIf

-------------------------------------------------------------------------------
(* The 86.                                                                 *)

(* 86: take the item off the menu.                                         *)
LEMMA LockMenuKeeps == ASSUME RowInv, NEW p \in Procs, LockMenu(p) PROVE RowInv'
<1>1. Turn(p, "lockMenu")
  BY DEF LockMenu
<1>2. /\ At(p, "lockMenu", Row(p)) /\ Op(p) = "lockMenu" /\ Head(rest[p]).op = "lockMenu"
      /\ Head(rest[p]).row = Row(p) /\ Head(rest[p]) \in StepsOf(p)
  BY <1>1, TurnIs
<1>3. Row(p) = "menu" /\ held[p] = {} /\ own[p] = <<>>
  BY <1>2, RowsOfSteps DEF OfMenu, At, Firsts
<1>4. Needs(p) = {MenuX} /\ Sees(p, "menu") = db["menu"]
  BY <1>2, <1>3, SeesCommitted DEF Needs, MenuX
<1>5. CASE db["menu"] = "on" /\ Write(p, One("menu", "off"))
  <2>1. db'["menu"] = "on" /\ own'[p] = One("menu", "off") /\ held'[p] = {MenuX}
    BY <1>3, <1>4, <1>5, GoIs, FirstWrite
  <2>2. ASSUME NEW t \in StepsOf(p), Follows(Head(rest[p]), t) PROVE At(p, t.op, t.row)'
    <3>1. t.op = "findLines"
      BY <1>2, <2>2 DEF Follows
    <3> QED
      BY <2>1, <3>1 DEF At, Firsts, Inserts
  <2>3. "lockMenu" \notin Finals /\ "menu" \in Rows /\ "menu" \notin TicketRows
    BY RowsApart DEF Finals, Inserts, Sweeps
  <2> QED
    BY <1>1, <1>5, <2>2, <2>3, WritesOneOn
<1> QED
  BY <1>4, <1>5, AbortKeeps DEF LockMenu

(* A transaction that goes on to its commit.                               *)
LEMMA Ready ==
    ASSUME RowInv, NEW p \in Procs, NEW op, Turn(p, op), NEW lines \in SUBSET Lines,
           Acts(p, own[p], lines, <<>>), Done(p)'
    PROVE  RowInv'
<1>1. PICK mine : mine = own[p]
  OBVIOUS
<1>2. DOMAIN mine \subseteq Rows
  BY <1>1, TurnIs DEF Typed
<1>3. \A k \in TicketRows : k \in DOMAIN mine /\ mine[k] = "pending" => WillPlace(p, k)
  BY <1>1 DEF WillPlace
<1> QED
  BY <1>1, <1>2, <1>3, NoSteps, ActsKeep

(* What p sees of lines and tickets changes with its writes only.          *)
LEMMA SameView ==
    ASSUME NEW p \in Procs, db' = db, own'[p] = own[p]
    PROVE  /\ \A r : Sees(p, r)' = Sees(p, r)
           /\ Unstarted(p)' = Unstarted(p)
           /\ \A k \in TicketRows : Emptied(p, k)' = Emptied(p, k)
<1>1. \A r : Sees(p, r)' = Sees(p, r)
  BY DEF Sees
<1>2. \A k \in TicketRows : Emptied(p, k)' = Emptied(p, k)
  BY <1>1 DEF Emptied
<1>3. Unstarted(p)' = Unstarted(p)
  BY <1>1 DEF Unstarted
<1> QED
  BY <1>1, <1>2, <1>3

(* 86: find the lines on tickets that are not cancelled.                   *)
LEMMA FindLinesKeeps == ASSUME RowInv, NEW p \in Procs, FindLines(p) PROVE RowInv'
<1>1. Turn(p, "findLines")
  BY DEF FindLines
<1>2. At(p, "findLines", Row(p)) /\ Op(p) = "findLines" /\ Head(rest[p]).op = "findLines"
  BY <1>1, TurnIs
<1>3. own[p] = One("menu", "off") /\ db["menu"] = "on" /\ held[p] = {MenuX} /\ Needs(p) = {}
  BY <1>2 DEF At, Needs
<1>4. PICK found : found = {l \in Lines : /\ Sees(p, l) = "active"
                                          /\ Sees(p, TicketRowOf[l]) # "cancelled"}
  OBVIOUS
<1>5. PICK mine : mine = own[p]
  OBVIOUS
<1>6. /\ Then(p, IF found = {} THEN <<>> ELSE Tail(rest[p]))
      /\ own' = [own EXCEPT ![p] = mine] /\ seen' = [seen EXCEPT ![p] = found]
  <2>1. own = [own EXCEPT ![p] = own[p]]
    BY DEF RowInv, OfProcs
  <2>2. UNCHANGED own
    BY DEF FindLines
  <2> QED
    BY <1>4, <1>5, <2>1, <2>2 DEF FindLines
<1>7. Acts(p, mine, found, IF found = {} THEN <<>> ELSE Tail(rest[p]))
  BY <1>6, KindsOfActs
<1>8. /\ db' = db /\ own'[p] = own[p] /\ seen'[p] = found /\ held'[p] = {MenuX}
      /\ db'["menu"] = "on" /\ own'[p] = One("menu", "off")
  <2>1. PICK steps : steps = IF found = {} THEN <<>> ELSE Tail(rest[p])
    OBVIOUS
  <2>2. Acts(p, mine, found, steps)
    BY <1>7, <2>1
  <2>3. db' = db /\ own'[p] = mine /\ seen'[p] = found /\ held'[p] = held[p] \cup Needs(p)
    BY <2>2 DEF Acts, Then
  <2> QED
    BY <1>3, <1>5, <2>3
<1>9. Unstarted(p)' \subseteq found
  <2>1. Unstarted(p)' = Unstarted(p)
    BY <1>8, SameView
  <2>2. Unstarted(p) \subseteq found
    BY <1>4 DEF Unstarted
  <2> QED
    BY <2>1, <2>2
<1>10. found \in SUBSET Lines
  BY <1>4
<1>11. CASE found = {}
  <2>1. MarkedOff(p)'
    BY <1>8, <1>9, <1>11 DEF MarkedOff
  <2>2. Done(p)'
    BY <2>1 DEF Done
  <2> QED
    BY <1>1, <1>5, <1>7, <1>10, <1>11, <2>2, Ready
<1>12. CASE found # {}
  <2>1. ASSUME NEW t \in StepsOf(p), Follows(Head(rest[p]), t) PROVE At(p, t.op, t.row)'
    <3>1. t.op = "lockIfLive"
      BY <1>2, <2>1 DEF Follows
    <3> QED
      BY <1>8, <1>9, <3>1 DEF At, Firsts, Inserts
  <2>2. "findLines" \notin Finals
    BY DEF Finals, Inserts, Sweeps
  <2> QED
    BY <1>1, <1>5, <1>7, <1>10, <1>12, <2>1, <2>2, LooksOn
<1> QED
  BY <1>11, <1>12

(* 86: lock the visit, or leave it if it is closed.                        *)
LEMMA LockIfLiveKeeps == ASSUME RowInv, NEW p \in Procs, LockIfLive(p) PROVE RowInv'
<1>1. Turn(p, "lockIfLive")
  BY DEF LockIfLive
<1>2. /\ At(p, "lockIfLive", Row(p)) /\ Op(p) = "lockIfLive" /\ Head(rest[p]).op = "lockIfLive"
      /\ Head(rest[p]).row = Row(p) /\ Head(rest[p]) \in StepsOf(p) /\ Typed(p)
  BY <1>1, TurnIs
<1>3. /\ own[p] = One("menu", "off") /\ db["menu"] = "on" /\ held[p] = {MenuX}
      /\ Unstarted(p) \subseteq seen[p] /\ Needs(p) = {VisitX}
  BY <1>2, RowsOfSteps DEF At, Needs, OfVisit, VisitX
<1>4. VisitLive(p) = Live
  <2>1. DOMAIN One("menu", "off") = {"menu"}
    BY OneIs
  <2> QED
    BY <1>3, <2>1, SeesCommitted
<1>5. CASE Live /\ Go(p)
  <2>1. /\ db' = db /\ own'[p] = One("menu", "off") /\ held'[p] = {MenuX, VisitX}
        /\ seen'[p] = seen[p] /\ Live' /\ own'[p] = own[p]
    BY <1>3, <1>5, GoIs, SameRows
  <2>2. Unstarted(p)' \subseteq seen'[p]
    BY <1>3, <2>1, SameView
  <2>3. ASSUME NEW t \in StepsOf(p), Follows(Head(rest[p]), t) PROVE At(p, t.op, t.row)'
    <3>1. t.op = "skipIfPending"
      BY <1>2, <2>3 DEF Follows
    <3> QED
      BY <1>3, <2>1, <2>2, <3>1 DEF At, Firsts, Inserts
  <2>4. "lockIfLive" \notin Finals
    BY DEF Finals, Inserts, Sweeps
  <2> QED
    BY <1>1, <1>5, <2>3, <2>4, Passes
<1>6. CASE ~Live /\ Then(p, <<>>) /\ UNCHANGED <<own, seen>>
  <2>1. Acts(p, own[p], seen[p], <<>>)
    BY <1>6, KindsOfActs
  <2>2. db' = db /\ own'[p] = One("menu", "off") /\ MenuX \in held'[p]
    BY <1>3, <2>1 DEF Acts, Then
  <2>3. db["visit"] = "closed"
    BY <1>6 DEF Live, RowInv, DbOK
  <2>4. MarkedOff(p)'
    BY <1>3, <2>2, <2>3 DEF MarkedOff
  <2>5. Done(p)' /\ seen[p] \in SUBSET Lines
    BY <1>2, <2>4 DEF Done, Typed
  <2> QED
    BY <1>1, <2>1, <2>5, Ready
<1> QED
  BY <1>4, <1>5, <1>6 DEF LockIfLive

(* What a transaction has swept is of lines and tickets, none of it new.   *)
LEMMA SweptIsOld ==
    ASSUME NEW p \in Procs, NEW mine, own'[p] = mine, NEW S, Swept(p, S)'
    PROVE  /\ DOMAIN mine \subseteq Rows
           /\ \A k \in TicketRows : k \in DOMAIN mine => mine[k] # "pending"
<1>1. DOMAIN mine \subseteq Rows
  BY RowsApart DEF Swept
<1>2. \A k \in TicketRows : k \in DOMAIN mine => mine[k] = "cancelled"
  BY DEF Swept
<1> QED
  BY <1>1, <1>2

(* The steps of an 86 that are found as it goes.                           *)
LEMMA GoesToTicket ==
    ASSUME RowInv, NEW p \in Procs, NEW op, Turn(p, op),
           NEW mine, NEW lines \in SUBSET Lines, Acts(p, mine, lines, NextTicket(lines)),
           Swept(p, {})'
    PROVE  RowInv'
<1>1. own'[p] = mine /\ seen'[p] = lines
  BY DEF Acts
<1>2. /\ DOMAIN mine \subseteq Rows
      /\ \A k \in TicketRows : k \in DOMAIN mine => mine[k] # "pending"
  BY <1>1, SweptIsOld
<1>3. PICK steps : steps = NextTicket(lines)
  OBVIOUS
<1>4. CASE lines = {}
  <2>1. steps = <<>> /\ IsProgram(p, steps)
    BY <1>3, <1>4, NextTicketIs, NoSteps
  <2>2. Done(p)'
    BY <1>1, <1>4 DEF Done, MarkedOff
  <2> QED
    BY <1>2, <1>3, <2>1, <2>2, ActsKeep
<1>5. CASE lines # {}
  <2>1. PICK k \in TicketRows : steps = <<Step("lockPending", k)>> /\ lines \cap LinesOf(k) # {}
    BY <1>3, <1>5, NextTicketIs
  <2>2. PICK s \in StepsOf(p) : s = Step("lockPending", k)
    BY DEF Step, StepsOf, OfTicket
  <2>3. s.op = "lockPending" /\ s.row = k /\ steps = <<s>> /\ s.op \in Finals
    BY <2>1, <2>2 DEF Step, Finals, Sweeps
  <2>4. IsProgram(p, steps)
    BY <2>3, OneStep
  <2>5. At(p, s.op, s.row)'
    BY <1>1, <2>1, <2>3 DEF At, Firsts, Inserts
  <2>6. steps # <<>> /\ Head(steps) = s /\ \A i \in 1..Len(steps) : steps[i].op # "insertOrder"
    BY <2>3
  <2>7. At(p, Head(steps).op, Head(steps).row)'
    BY <2>5, <2>6
  <2>8. Acts(p, mine, lines, steps)
    BY <1>3
  <2> QED
    BY <1>2, <2>4, <2>6, <2>7, <2>8, ActsKeep
<1> QED
  BY <1>4, <1>5

(* On a locked pending ticket an 86 goes to its next line or to its end.   *)
LEMMA GoesToLine ==
    ASSUME RowInv, NEW p \in Procs, NEW op, Turn(p, op), NEW k \in TicketRows,
           NEW mine, NEW lines \in SUBSET Lines, Acts(p, mine, lines, NextLine(k, lines)),
           OnTicket(p, k)'
    PROVE  RowInv'
<1>1. own'[p] = mine /\ seen'[p] = lines
  BY DEF Acts
<1>2. Swept(p, {k})'
  BY DEF OnTicket
<1>3. /\ DOMAIN mine \subseteq Rows
      /\ \A j \in TicketRows : j \in DOMAIN mine => mine[j] # "pending"
  BY <1>1, <1>2, SweptIsOld
<1>4. PICK steps : steps = NextLine(k, lines)
  OBVIOUS
<1>5. PICK s \in StepsOf(p) :
          /\ steps = <<s>>
          /\ \/ s = Step("cancelIfEmpty", k) /\ lines \cap LinesOf(k) = {}
             \/ \E l \in lines \cap LinesOf(k) : s = Step("voidIfActive", l)
  <2>1. CASE lines \cap LinesOf(k) = {}
    <3>1. Step("cancelIfEmpty", k) \in StepsOf(p)
      BY DEF Step, StepsOf, OfTicket
    <3> QED
      BY <1>4, <2>1, <3>1, NextLineIs
  <2>2. CASE lines \cap LinesOf(k) # {}
    <3>1. PICK l \in lines \cap LinesOf(k) : steps = <<Step("voidIfActive", l)>>
      BY <1>4, <2>2, NextLineIs
    <3>2. Step("voidIfActive", l) \in StepsOf(p)
      BY DEF Step, StepsOf, OfLine
    <3> QED
      BY <3>1, <3>2
  <2> QED
    BY <2>1, <2>2
<1>6. s.op \in {"cancelIfEmpty", "voidIfActive"} /\ s.op \in Finals
  BY <1>5 DEF Step, Finals, Sweeps
<1>7. IsProgram(p, steps)
  BY <1>5, <1>6, OneStep
<1>8. At(p, s.op, s.row)'
  <2>1. CASE s = Step("cancelIfEmpty", k) /\ lines \cap LinesOf(k) = {}
    <3>1. s.op = "cancelIfEmpty" /\ s.row = k
      BY <2>1 DEF Step
    <3> QED
      BY <1>1, <2>1, <3>1 DEF At, Firsts, Inserts
  <2>2. ASSUME NEW l \in lines \cap LinesOf(k), s = Step("voidIfActive", l)
        PROVE  At(p, s.op, s.row)'
    <3>1. s.op = "voidIfActive" /\ s.row = l /\ TicketRowOf[l] = k
      BY <2>2, LinesHaveTickets DEF Step
    <3> QED
      BY <1>1, <3>1 DEF At, Firsts, Inserts
  <2> QED
    BY <1>5, <2>1, <2>2
<1>9. steps # <<>> /\ Head(steps) = s /\ \A i \in 1..Len(steps) : steps[i].op # "insertOrder"
  BY <1>5, <1>6
<1>10. At(p, Head(steps).op, Head(steps).row)'
  BY <1>8, <1>9
<1>11. Acts(p, mine, lines, steps)
  BY <1>4
<1> QED
  BY <1>3, <1>7, <1>9, <1>10, <1>11, ActsKeep

(* 86: leave the visit alone while a payment is in flight.                 *)
LEMMA SkipIfPendingKeeps == ASSUME RowInv, NEW p \in Procs, SkipIfPending(p) PROVE RowInv'
<1>1. Turn(p, "skipIfPending")
  BY DEF SkipIfPending
<1>2. /\ At(p, "skipIfPending", Row(p)) /\ Op(p) = "skipIfPending" /\ Typed(p)
  BY <1>1, TurnIs
<1>3. /\ own[p] = One("menu", "off") /\ db["menu"] = "on" /\ held[p] = {MenuX, VisitX}
      /\ Live /\ Unstarted(p) \subseteq seen[p] /\ Needs(p) = {} /\ seen[p] \in SUBSET Lines
  BY <1>2 DEF At, Needs, Typed
<1>4. PICK mine : mine = own[p]
  OBVIOUS
<1>5. DOMAIN mine = {"menu"} /\ mine["menu"] = "off"
  BY <1>3, <1>4, OneIs
<1>6. NonePending(p) = NoneInFlight
  <2>1. \A q \in Procs : Sees(p, q) = db[q]
    BY <1>4, <1>5, RowsApart DEF Sees
  <2> QED
    BY <2>1 DEF NonePending, NoneInFlight
<1>7. PICK steps : steps = IF NoneInFlight THEN NextTicket(seen[p]) ELSE <<>>
  OBVIOUS
<1>8. Acts(p, own[p], seen[p], steps)
  BY <1>6, <1>7, KindsOfActs DEF SkipIfPending
<1>9. /\ db' = db /\ own'[p] = own[p] /\ seen'[p] = seen[p] /\ held'[p] = {MenuX, VisitX}
      /\ Live' /\ NoneInFlight' = NoneInFlight /\ Unstarted(p)' = Unstarted(p)
  BY <1>3, <1>8, SameRows, SameView DEF Acts, Then
<1>10. CASE NoneInFlight
  <2>1. Swept(p, {})'
    <3>1. \A r \in TicketRows \cup Lines : r \notin DOMAIN mine
      BY <1>5, RowsApart
    <3>2. own'[p] = mine
      BY <1>4, <1>9
    <3> QED
      BY <1>3, <1>5, <1>9, <1>10, <3>1, <3>2 DEF Swept
  <2> QED
    BY <1>1, <1>3, <1>7, <1>8, <1>10, <2>1, GoesToTicket
<1>11. CASE ~NoneInFlight
  <2>1. SomePayment
    BY <1>11 DEF NoneInFlight, SomePayment, NoPayment
  <2>2. MarkedOff(p)'
    BY <1>3, <1>9, <2>1, SameRows DEF MarkedOff
  <2>3. Done(p)'
    BY <2>2 DEF Done
  <2> QED
    BY <1>1, <1>3, <1>7, <1>8, <1>11, <2>3, Ready
<1> QED
  BY <1>10, <1>11

(* 86: lock the next ticket, or let it be if it was started.               *)
LEMMA LockPendingKeeps == ASSUME RowInv, NEW p \in Procs, LockPending(p) PROVE RowInv'
<1>1. Turn(p, "lockPending")
  BY DEF LockPending
<1>2. PICK k : k = Row(p)
  OBVIOUS
<1>3. /\ At(p, "lockPending", k) /\ Op(p) = "lockPending" /\ Typed(p)
      /\ Head(rest[p]).op = "lockPending" /\ Head(rest[p]).row = k /\ Head(rest[p]) \in StepsOf(p)
  BY <1>1, <1>2, TurnIs
<1>4. k \in TicketRows
  BY <1>3, RowsOfSteps DEF OfTicket
<1>5. /\ Swept(p, {}) /\ seen[p] \cap LinesOf(k) # {}
      /\ Needs(p) = {<<k, "X">>} /\ seen[p] \subseteq Lines
  BY <1>2, <1>3 DEF At, Needs, Typed
<1>6. k \notin DOMAIN own[p] /\ Sees(p, k) = db[k]
  BY <1>4, <1>5 DEF Swept, Sees
<1>7. PICK left \in SUBSET Lines :
          left = IF db[k] = "pending" THEN seen[p] ELSE seen[p] \ LinesOf(k)
  BY <1>5
<1>8. PICK steps : steps = IF db[k] = "pending" THEN NextLine(k, left) ELSE NextTicket(left)
  OBVIOUS
<1>9. PICK mine : mine = own[p]
  OBVIOUS
<1>10. Acts(p, mine, left, steps)
  <2>1. own = [own EXCEPT ![p] = own[p]]
    BY DEF RowInv, OfProcs
  <2>2. /\ Then(p, steps) /\ own' = [own EXCEPT ![p] = mine]
        /\ seen' = [seen EXCEPT ![p] = left]
    BY <1>2, <1>6, <1>7, <1>8, <1>9, <2>1 DEF LockPending
  <2> QED
    BY <2>2, KindsOfActs
<1>11. /\ db' = db /\ own'[p] = own[p] /\ seen'[p] = left /\ held'[p] = held[p] \cup {<<k, "X">>}
       /\ Live' = Live /\ NoneInFlight' = NoneInFlight /\ Unstarted(p)' = Unstarted(p)
       /\ \A j \in TicketRows : Emptied(p, j)' = Emptied(p, j)
  BY <1>5, <1>9, <1>10, SameRows, SameView DEF Acts, Then
<1>12. Unstarted(p) \subseteq left
  <2>1. Unstarted(p) \subseteq seen[p]
    BY <1>5 DEF Swept
  <2>2. CASE db[k] = "pending"
    BY <1>7, <2>1, <2>2
  <2>3. CASE db[k] # "pending"
    BY <1>4, <1>6, <1>7, <2>1, <2>3, LinesHaveTickets DEF Unstarted
  <2> QED
    BY <2>2, <2>3
<1>13. left \subseteq seen[p]
  BY <1>7
<1>14. Swept(p, {})'
  <2>1. \A l \in Lines \cap DOMAIN own[p] :
            /\ own[p][l] = "void" /\ db[l] = "active" /\ l \notin left
            /\ db[TicketRowOf[l]] = "pending" /\ <<TicketRowOf[l], "X">> \in held[p]
            /\ left \cap LinesOf(TicketRowOf[l]) = {}
            /\ Emptied(p, TicketRowOf[l])' => TicketRowOf[l] \in DOMAIN own[p]
    BY <1>5, <1>11, <1>13, LinesHaveTickets DEF Swept
  <2>2. \A j \in TicketRows \cap DOMAIN own[p] :
            /\ own[p][j] = "cancelled" /\ db[j] = "pending" /\ <<j, "X">> \in held[p]
            /\ Emptied(p, j)' /\ left \cap LinesOf(j) = {}
            /\ \E l \in LinesOf(j) : l \in DOMAIN own[p]
    BY <1>5, <1>11, <1>13 DEF Swept
  <2>3. /\ MenuX \in held[p] /\ VisitX \in held[p] /\ Live /\ NoneInFlight /\ db["menu"] = "on"
        /\ DOMAIN own[p] \subseteq {"menu"} \cup Lines \cup TicketRows
        /\ "menu" \in DOMAIN own[p] /\ own[p]["menu"] = "off"
    BY <1>5 DEF Swept
  <2> QED
    BY <1>11, <1>12, <2>1, <2>2, <2>3 DEF Swept
<1>15. CASE db[k] = "pending"
  <2>1. OnTicket(p, k)'
    <3>1. Swept(p, {k})'
      BY <1>14 DEF Swept
    <3> QED
      BY <1>6, <1>11, <1>15, <3>1 DEF OnTicket
  <2> QED
    BY <1>1, <1>4, <1>8, <1>10, <1>15, <2>1, GoesToLine
<1>16. CASE db[k] # "pending"
  BY <1>1, <1>8, <1>10, <1>14, <1>16, GoesToTicket
<1> QED
  BY <1>15, <1>16

(* What p sees after a step that leaves db alone.                          *)
LEMMA SeesAfter ==
    ASSUME NEW p \in Procs, NEW mine, own'[p] = mine, db' = db
    PROVE  \A r : /\ r \in DOMAIN mine => Sees(p, r)' = mine[r]
                  /\ r \notin DOMAIN mine => Sees(p, r)' = db[r]
BY DEF Sees

(* 86: void the line, unless it is gone already.                           *)
LEMMA VoidIfActiveKeeps == ASSUME RowInv, NEW p \in Procs, VoidIfActive(p) PROVE RowInv'
<1>1. Turn(p, "voidIfActive")
  BY DEF VoidIfActive
<1>2. PICK l : l = Row(p)
  OBVIOUS
<1>3. /\ At(p, "voidIfActive", l) /\ Op(p) = "voidIfActive" /\ Typed(p)
      /\ Head(rest[p]).op = "voidIfActive" /\ Head(rest[p]).row = l /\ Head(rest[p]) \in StepsOf(p)
  BY <1>1, <1>2, TurnIs
<1>4. l \in Lines
  BY <1>3, RowsOfSteps DEF OfLine
<1>5. PICK k \in TicketRows : k = TicketRowOf[l]
  BY <1>4, LinesHaveTickets
<1>6. OnTicket(p, k) /\ l \in seen[p] /\ seen[p] \subseteq Lines
  BY <1>3, <1>5 DEF At, Typed
<1>7. Swept(p, {k}) /\ k \notin DOMAIN own[p] /\ db[k] = "pending" /\ <<k, "X">> \in held[p]
  BY <1>6 DEF OnTicket
<1>8. l \notin DOMAIN own[p] /\ Sees(p, l) = db[l]
  BY <1>4, <1>6, <1>7 DEF Swept, Sees
<1>9. PICK old : old = own[p]
  OBVIOUS
<1>10. PICK mine : mine = IF db[l] = "active" THEN Over(One(l, "void"), old) ELSE old
  OBVIOUS
<1>11. /\ DOMAIN mine = IF db[l] = "active" THEN {l} \cup DOMAIN old ELSE DOMAIN old
       /\ \A r \in DOMAIN old : mine[r] = old[r]
       /\ db[l] = "active" => mine[l] = "void"
  BY <1>8, <1>9, <1>10 DEF Over, One
<1>12. PICK left \in SUBSET Lines : left = seen[p] \ {l}
  BY <1>6
<1>13. Acts(p, mine, left, NextLine(k, left))
  <2>1. own = [own EXCEPT ![p] = own[p]]
    BY DEF RowInv, OfProcs
  <2>2. own' = [own EXCEPT ![p] = mine]
    BY <1>2, <1>8, <1>9, <1>10, <2>1 DEF VoidIfActive
  <2>3. Then(p, NextLine(k, left)) /\ seen' = [seen EXCEPT ![p] = left]
    BY <1>2, <1>5, <1>12 DEF VoidIfActive
  <2> QED
    BY <2>2, <2>3, KindsOfActs
<1>14. /\ db' = db /\ own'[p] = mine /\ seen'[p] = left /\ held[p] \subseteq held'[p]
       /\ Live' = Live /\ NoneInFlight' = NoneInFlight
  BY <1>13, SameRows DEF Acts, Then
<1>15. \A r : r # l => Sees(p, r)' = Sees(p, r)
  BY <1>9, <1>11, <1>14, SeesAfter DEF Sees
<1>16. ASSUME NEW j \in TicketRows, j # k PROVE Emptied(p, j)' = Emptied(p, j)
  BY <1>5, <1>15, <1>16, LinesHaveTickets DEF Emptied
<1>17. Unstarted(p)' \subseteq left
  <2>1. Unstarted(p) \subseteq seen[p]
    BY <1>7 DEF Swept
  <2>2. Sees(p, l)' # "active"
    BY <1>8, <1>9, <1>11, <1>14, SeesAfter
  <2>3. \A m \in Lines : TicketRowOf[m] # l
    BY <1>4, LinesHaveTickets, RowsApart
  <2> QED
    BY <1>12, <1>15, <2>1, <2>2, <2>3 DEF Unstarted
<1>18. Swept(p, {k})'
  <2>1. ASSUME NEW m \in Lines \cap DOMAIN mine
        PROVE  /\ mine[m] = "void" /\ db[m] = "active" /\ m \notin left
               /\ db[TicketRowOf[m]] = "pending" /\ <<TicketRowOf[m], "X">> \in held[p]
               /\ \/ TicketRowOf[m] \in {k}
                  \/ /\ left \cap LinesOf(TicketRowOf[m]) = {}
                     /\ Emptied(p, TicketRowOf[m])' => TicketRowOf[m] \in DOMAIN mine
    <3>1. CASE m = l
      BY <1>5, <1>7, <1>8, <1>9, <1>11, <1>12, <2>1, <3>1
    <3>2. CASE m # l
      <4>1. m \in DOMAIN own[p] /\ mine[m] = own[p][m]
        BY <1>9, <1>11, <2>1, <3>2
      <4> QED
        BY <1>7, <1>9, <1>11, <1>12, <1>16, <4>1, LinesHaveTickets DEF Swept
    <3> QED
      BY <3>1, <3>2
  <2>2. ASSUME NEW j \in TicketRows \cap DOMAIN mine
        PROVE  /\ mine[j] = "cancelled" /\ db[j] = "pending" /\ <<j, "X">> \in held[p]
               /\ Emptied(p, j)' /\ left \cap LinesOf(j) = {}
               /\ \E m \in LinesOf(j) : m \in DOMAIN mine
    <3>1. j # l /\ j \in DOMAIN own[p] /\ mine[j] = own[p][j] /\ j # k
      BY <1>4, <1>7, <1>9, <1>11, <2>2, RowsApart
    <3> QED
      BY <1>7, <1>9, <1>11, <1>12, <1>16, <3>1 DEF Swept
  <2>3. /\ MenuX \in held[p] /\ VisitX \in held[p] /\ Live /\ NoneInFlight /\ db["menu"] = "on"
        /\ DOMAIN own[p] \subseteq {"menu"} \cup Lines \cup TicketRows
        /\ "menu" \in DOMAIN own[p] /\ own[p]["menu"] = "off"
    BY <1>7 DEF Swept
  <2>4. /\ DOMAIN mine \subseteq {"menu"} \cup Lines \cup TicketRows
        /\ "menu" \in DOMAIN mine /\ mine["menu"] = "off"
    BY <1>4, <1>9, <1>11, <2>3
  <2> QED
    BY <1>14, <1>17, <2>1, <2>2, <2>3, <2>4 DEF Swept
<1>19. k \notin DOMAIN mine
  BY <1>4, <1>7, <1>9, <1>11, RowsApart
<1>20. OnTicket(p, k)'
  BY <1>7, <1>14, <1>18, <1>19 DEF OnTicket
<1> QED
  BY <1>1, <1>13, <1>20, GoesToLine

(* 86: cancel the ticket if no line of it is left.                         *)
LEMMA CancelIfEmptyKeeps == ASSUME RowInv, NEW p \in Procs, CancelIfEmpty(p) PROVE RowInv'
<1>1. Turn(p, "cancelIfEmpty")
  BY DEF CancelIfEmpty
<1>2. PICK k : k = Row(p)
  OBVIOUS
<1>3. /\ At(p, "cancelIfEmpty", k) /\ Op(p) = "cancelIfEmpty" /\ Typed(p)
      /\ Head(rest[p]).op = "cancelIfEmpty" /\ Head(rest[p]).row = k /\ Head(rest[p]) \in StepsOf(p)
  BY <1>1, <1>2, TurnIs
<1>4. k \in TicketRows
  BY <1>3, RowsOfSteps DEF OfTicket
<1>5. OnTicket(p, k) /\ seen[p] \cap LinesOf(k) = {} /\ seen[p] \in SUBSET Lines
  BY <1>3 DEF At, Typed
<1>6. Swept(p, {k}) /\ k \notin DOMAIN own[p] /\ db[k] = "pending" /\ <<k, "X">> \in held[p]
  BY <1>5 DEF OnTicket
<1>7. PICK old : old = own[p]
  OBVIOUS
<1>8. PICK mine : mine = IF Emptied(p, k) THEN Over(One(k, "cancelled"), old) ELSE old
  OBVIOUS
<1>9. /\ DOMAIN mine = IF Emptied(p, k) THEN {k} \cup DOMAIN old ELSE DOMAIN old
      /\ \A r \in DOMAIN old : mine[r] = old[r]
      /\ Emptied(p, k) => mine[k] = "cancelled"
  BY <1>6, <1>7, <1>8 DEF Over, One
<1>10. PICK lines \in SUBSET Lines : lines = seen[p]
  BY <1>5
<1>11. Acts(p, mine, lines, NextTicket(lines))
  <2>1. own = [own EXCEPT ![p] = own[p]] /\ seen = [seen EXCEPT ![p] = seen[p]]
    BY DEF RowInv, OfProcs
  <2>2. own' = [own EXCEPT ![p] = mine]
    BY <1>2, <1>7, <1>8, <2>1 DEF CancelIfEmpty
  <2>3. Then(p, NextTicket(lines)) /\ seen' = [seen EXCEPT ![p] = lines]
    BY <1>10, <2>1 DEF CancelIfEmpty
  <2> QED
    BY <2>2, <2>3, KindsOfActs
<1>12. /\ db' = db /\ own'[p] = mine /\ seen'[p] = lines /\ held[p] \subseteq held'[p]
       /\ Live' = Live /\ NoneInFlight' = NoneInFlight
  BY <1>11, SameRows DEF Acts, Then
<1>13. \A r : r # k => Sees(p, r)' = Sees(p, r)
  BY <1>7, <1>9, <1>12, SeesAfter DEF Sees
<1>14. ASSUME NEW j \in TicketRows PROVE Emptied(p, j)' = Emptied(p, j)
  <2>1. \A m \in LinesOf(j) : m # k
    BY <1>4, LinesHaveTickets, RowsApart
  <2> QED
    BY <1>13, <2>1 DEF Emptied
<1>15. Unstarted(p)' \subseteq lines
  <2>1. Unstarted(p) \subseteq seen[p]
    BY <1>6 DEF Swept
  <2>2. Sees(p, k) = "pending"
    BY <1>6 DEF Sees
  <2>3. \A m \in Lines : m # k
    BY <1>4, RowsApart
  <2>4. ASSUME NEW m \in Unstarted(p)' PROVE m \in Unstarted(p)
    <3>1. m \in Lines /\ Sees(p, m) = "active" /\ Sees(p, TicketRowOf[m])' = "pending"
      BY <1>13, <2>3, <2>4 DEF Unstarted
    <3>2. CASE TicketRowOf[m] = k
      BY <2>2, <3>1, <3>2 DEF Unstarted
    <3>3. CASE TicketRowOf[m] # k
      BY <1>13, <3>1, <3>3 DEF Unstarted
    <3> QED
      BY <3>2, <3>3
  <2> QED
    BY <1>10, <2>1, <2>4
<1>16. Swept(p, {})'
  <2>1. ASSUME NEW m \in Lines \cap DOMAIN mine
        PROVE  /\ mine[m] = "void" /\ db[m] = "active" /\ m \notin lines
               /\ db[TicketRowOf[m]] = "pending" /\ <<TicketRowOf[m], "X">> \in held[p]
               /\ lines \cap LinesOf(TicketRowOf[m]) = {}
               /\ Emptied(p, TicketRowOf[m])' => TicketRowOf[m] \in DOMAIN mine
    <3>1. m \in DOMAIN own[p] /\ mine[m] = own[p][m] /\ TicketRowOf[m] \in TicketRows
      BY <1>4, <1>7, <1>9, <2>1, LinesHaveTickets, RowsApart
    <3>2. /\ mine[m] = "void" /\ db[m] = "active" /\ m \notin lines
          /\ db[TicketRowOf[m]] = "pending" /\ <<TicketRowOf[m], "X">> \in held[p]
      BY <1>6, <1>10, <3>1 DEF Swept
    <3>3. CASE TicketRowOf[m] = k
      BY <1>5, <1>9, <1>10, <1>14, <3>1, <3>2, <3>3
    <3>4. CASE TicketRowOf[m] # k
      <4>1. /\ seen[p] \cap LinesOf(TicketRowOf[m]) = {}
            /\ Emptied(p, TicketRowOf[m]) => TicketRowOf[m] \in DOMAIN own[p]
        BY <1>6, <3>1, <3>4 DEF Swept
      <4> QED
        BY <1>7, <1>9, <1>10, <1>14, <3>1, <3>2, <4>1
    <3> QED
      BY <3>3, <3>4
  <2>2. ASSUME NEW j \in TicketRows \cap DOMAIN mine
        PROVE  /\ mine[j] = "cancelled" /\ db[j] = "pending" /\ <<j, "X">> \in held[p]
               /\ Emptied(p, j)' /\ lines \cap LinesOf(j) = {}
               /\ \E m \in LinesOf(j) : m \in DOMAIN mine
    <3>1. CASE j = k
      <4>1. Emptied(p, k) /\ mine[k] = "cancelled"
        BY <1>6, <1>7, <1>9, <2>2, <3>1
      <4>2. PICK m \in LinesOf(k) : db[m] # "void"
        BY <1>4, <1>6 DEF RowInv, TicketsOK
      <4>3. m \in DOMAIN own[p]
        BY <4>1, <4>2 DEF Emptied, Sees
      <4> QED
        BY <1>5, <1>6, <1>7, <1>9, <1>10, <1>14, <3>1, <4>1, <4>2, <4>3
    <3>2. CASE j # k
      <4>1. j \in DOMAIN own[p] /\ mine[j] = own[p][j]
        BY <1>7, <1>9, <2>2, <3>2
      <4> QED
        BY <1>6, <1>7, <1>9, <1>10, <1>14, <4>1 DEF Swept
    <3> QED
      BY <3>1, <3>2
  <2>3. /\ MenuX \in held[p] /\ VisitX \in held[p] /\ Live /\ NoneInFlight /\ db["menu"] = "on"
        /\ DOMAIN own[p] \subseteq {"menu"} \cup Lines \cup TicketRows
        /\ "menu" \in DOMAIN own[p] /\ own[p]["menu"] = "off"
    BY <1>6 DEF Swept
  <2>4. /\ DOMAIN mine \subseteq {"menu"} \cup Lines \cup TicketRows
        /\ "menu" \in DOMAIN mine /\ mine["menu"] = "off"
    BY <1>4, <1>7, <1>9, <2>3
  <2> QED
    BY <1>12, <1>15, <2>1, <2>2, <2>3, <2>4 DEF Swept
<1> QED
  BY <1>1, <1>11, <1>16, GoesToTicket

-------------------------------------------------------------------------------
(* A transaction begins.                                                   *)

(* An order that begins has an id nobody else has.                         *)
LEMMA PlacesFreshRows ==
    ASSUME RowInv, NEW p \in Procs, NEW k \in TicketRows, Place(k) \in Requests(p)
    PROVE  db[k] = "none" /\ \A q \in Procs : ~WillPlace(q, k)
<1> DEFINE placed == {j \in TicketRows : db[j] # "none"}
           taken  == UNION {DOMAIN own[q] \cup {s.row : s \in Range(rest[q])} : q \in Procs}
<1>1. PICK steps : steps = Place(k)
  OBVIOUS
<1>2. steps[1].op = "shareMenu" /\ steps[3].row = k
  BY <1>1 DEF Place, Step
<1>3. \/ steps \in {Place(j) : j \in (TicketRows \ placed) \ taken}
      \/ \E insert : steps = Pay(p, insert)
      \/ steps = Close
      \/ \E l \in Lines : steps = Comp(l) \/ steps = Void(l)
      \/ steps = SoldOut
      \/ \E op \in {"accept", "send", "settle", "drop"} : \E r : steps = <<Step(op, r)>>
      \/ steps = MoveAccount
  BY <1>1 DEF Requests
<1>4. steps \in {Place(j) : j \in (TicketRows \ placed) \ taken}
  <2>1. \A insert : Pay(p, insert)[1].op = "lockLive"
    BY DEF Pay, Step
  <2>2. Close[1].op = "lockLive" /\ SoldOut[1].op = "lockMenu" /\ MoveAccount[1].op = "lockVenue"
    BY DEF Close, SoldOut, MoveAccount, Step
  <2>3. \A l \in Lines : Comp(l)[1].op = "lockLine" /\ Void(l)[1].op = "lockLine"
    BY DEF Comp, Void, Step
  <2>4. \A op \in {"accept", "send", "settle", "drop"} : \A r : <<Step(op, r)>>[1].op # "shareMenu"
    BY DEF Step
  <2> QED
    BY <1>2, <1>3, <2>1, <2>2, <2>3, <2>4
<1>5. PICK j \in (TicketRows \ placed) \ taken : steps = Place(j)
  BY <1>4
<1>6. j = k
  BY <1>2, <1>5 DEF Place, Step
<1>7. ASSUME NEW q \in Procs, WillPlace(q, k) PROVE FALSE
  <2>1. k \notin DOMAIN own[q] /\ k \notin {s.row : s \in Range(rest[q])}
    BY <1>5, <1>6
  <2>2. PICK i \in 1..Len(rest[q]) : rest[q][i] = Step("insertOrder", k)
    BY <1>7, <2>1 DEF WillPlace
  <2>3. rest[q] \in Seq(StepsOf(q))
    BY DEF RowInv, OnCourse, IsProgram
  <2>4. Step("insertOrder", k) \in Range(rest[q])
    BY <2>2, <2>3 DEF Range
  <2> QED
    BY <2>1, <2>4 DEF Step
<1> QED
  BY <1>5, <1>6, <1>7

(* A request begins its transaction.                                       *)
LEMMA BeginKeeps == ASSUME RowInv, NEW p \in Procs, Begin(p) PROVE RowInv'
<1>1. PICK steps \in Requests(p) : rest' = [rest EXCEPT ![p] = steps]
  BY DEF Begin
<1>2. /\ phase[p] = "new" /\ phase' = [phase EXCEPT ![p] = "running"]
      /\ db' = db /\ own' = own /\ held' = held /\ seen' = seen
  BY DEF Begin
<1>3. OfProcs(own) /\ OfProcs(held) /\ OfProcs(rest) /\ OfProcs(seen) /\ OfProcs(phase)
  BY DEF RowInv
<1>4. Alone(p) /\ rest'[p] = steps /\ phase'[p] = "running"
  BY <1>1, <1>2, <1>3 DEF Alone, OfProcs
<1>5. rest[p] = <<>> /\ held[p] = {} /\ own[p] = <<>> /\ db[p] = NoPayment /\ Typed(p)
  BY <1>2 DEF RowInv, Typed
<1>6. Rely(p) /\ DbOK' /\ TicketsOK' /\ LocksFit(p)
  BY <1>2, <1>5 DEF RowInv, Rely, DbOK, TicketsOK, LocksFit
<1>7. Typed(p)'
  BY <1>2, <1>4, <1>5 DEF Typed
<1>8. /\ IsProgram(p, steps) /\ steps # <<>> /\ Head(steps).op \in Firsts
      /\ \A k, i : i \in 1..Len(steps) /\ steps[i] = Step("insertOrder", k)
           => k \in TicketRows /\ steps = Place(k)
  BY RequestsArePrograms
<1>9. OnCourse(p)'
  <2>1. IsProgram(p, rest[p])'
    BY <1>4, <1>8 DEF IsProgram
  <2>2. Op(p)' \in Firsts /\ held'[p] = {} /\ own'[p] = <<>>
    BY <1>2, <1>4, <1>5, <1>8 DEF Op
  <2>3. At(p, Op(p), Row(p))'
    BY <2>2 DEF At, Firsts, Inserts
  <2> QED
    BY <1>4, <1>8, <2>1, <2>3 DEF OnCourse
<1>10. ASSUME NEW k \in TicketRows, WillPlace(p, k)'
       PROVE  db'[k] = "none" /\ \A q \in Procs \ {p} : ~WillPlace(q, k)
  <2>1. own'[p] = <<>>
    BY <1>2, <1>5
  <2>2. steps = Place(k)
    BY <1>4, <1>8, <1>10, <2>1 DEF WillPlace
  <2> QED
    BY <1>2, <2>2, PlacesFreshRows
<1> QED
  BY <1>4, <1>6, <1>7, <1>9, <1>10, OneActs

-------------------------------------------------------------------------------
(* A transaction commits.                                                  *)

(* A commit makes the writes of p the committed rows and frees its locks.  *)
LEMMA CommitIs ==
    ASSUME RowInv, NEW p \in Procs, Commit(p)
    PROVE  /\ db' = [r \in Rows |-> db'[r]]
           /\ \A r \in Rows : db'[r] = Sees(p, r)
           /\ Alone(p) /\ own'[p] = <<>> /\ held'[p] = {} /\ rest'[p] = <<>> /\ seen'[p] = {}
           /\ phase'[p] = "done"
<1>1. OfProcs(own) /\ OfProcs(held) /\ OfProcs(rest) /\ OfProcs(seen) /\ OfProcs(phase)
  BY DEF RowInv
<1>2. /\ own' = [own EXCEPT ![p] = <<>>] /\ held' = [held EXCEPT ![p] = {}]
      /\ rest' = [rest EXCEPT ![p] = <<>>] /\ seen' = [seen EXCEPT ![p] = {}]
      /\ phase' = [phase EXCEPT ![p] = "done"]
  BY DEF Commit, End
<1>3. /\ Alone(p) /\ own'[p] = <<>> /\ held'[p] = {} /\ rest'[p] = <<>> /\ seen'[p] = {}
      /\ phase'[p] = "done"
  BY <1>1, <1>2 DEF OfProcs, Alone
<1>4. PICK mine : mine = own[p]
  OBVIOUS
<1>5. DOMAIN mine \subseteq Rows /\ DOMAIN db = Rows
  BY <1>4 DEF RowInv, Typed, DbOK
<1>6. db' = [r \in DOMAIN mine \cup DOMAIN db |-> IF r \in DOMAIN mine THEN mine[r] ELSE db[r]]
  BY <1>4 DEF Commit, Over
<1>7. DOMAIN mine \cup DOMAIN db = Rows
  BY <1>5
<1>8. db' = [r \in Rows |-> IF r \in DOMAIN mine THEN mine[r] ELSE db[r]]
  BY <1>6, <1>7
<1> QED
  BY <1>3, <1>4, <1>8 DEF Sees

(* One row is committed.                                                   *)
LEMMA OneCommits ==
    ASSUME RowInv, NEW p \in Procs, Commit(p), NEW r \in Rows, NEW value, own[p] = One(r, value)
    PROVE  /\ db' = [x \in Rows |-> db'[x]] /\ db'[r] = value
           /\ \A x \in Rows \ {r} : db'[x] = db[x]
<1>1. PICK mine : mine = own[p]
  OBVIOUS
<1>2. DOMAIN mine = {r} /\ mine[r] = value
  BY <1>1, OneIs
<1> QED
  BY <1>1, <1>2, CommitIs DEF Sees

CommitOK(p) == Rely(p) /\ DbOK' /\ TicketsOK'

(* Enough for the invariant after a commit: the rows are well formed, and  *)
(* the others' knowledge survives it.                                      *)
LEMMA CommitKeeps ==
    ASSUME RowInv, NEW p \in Procs, Commit(p), CommitOK(p)
    PROVE  RowInv'
<1>1. /\ Alone(p) /\ own'[p] = <<>> /\ held'[p] = {} /\ rest'[p] = <<>> /\ seen'[p] = {}
      /\ phase'[p] = "done"
  BY CommitIs
<1>2. LocksFit(p) /\ Typed(p)'
  BY <1>1 DEF LocksFit, Typed
<1>3. OnCourse(p)'
  <2>1. IsProgram(p, rest[p])'
    BY <1>1 DEF IsProgram
  <2> QED
    BY <1>1, <2>1 DEF OnCourse, Done
<1>4. \A k : ~WillPlace(p, k)'
  BY <1>1 DEF WillPlace
<1> QED
  BY <1>1, <1>2, <1>3, <1>4, OneActs DEF CommitOK

-------------------------------------------------------------------------------
(* What a commit does to the rows, as one step of its own.                 *)

Kept(S) == \A r \in S : db'[r] = db[r]
UnstartedLines == {l \in Lines : db[l] = "active" /\ db[TicketRowOf[l]] = "pending"}

PlaceEffect(k) ==
    /\ Live /\ db["menu"] = "on" /\ db[k] = "none"
    /\ db'[k] = "pending" /\ \A l \in LinesOf(k) : db'[l] = "active"
    /\ Kept(Rows \ ({k} \cup LinesOf(k)))

MoveEffect(k) ==
    /\ \/ db'[k] = "accepted" /\ CanAccept(db[k])
       \/ db'[k] = "sent" /\ CanSend(db[k], FALSE)
    /\ Kept(Rows \ {k})

AttemptEffect(q, status) ==
    /\ Live /\ NoneInFlight /\ Due # {} /\ db[q] = NoPayment
    /\ db'[q] = [status |-> status, orders |-> {TicketRowOf[l] : l \in Due}, lines |-> Due,
                 account |-> db["venue"]]
    /\ Kept(Rows \ {q})

CloseEffect == Live /\ NoneInFlight /\ db'["visit"] = "closed" /\ Kept(Rows \ {"visit"})

CompEffect(l) == MayAdjust(l) /\ db'[l] = "comp" /\ Kept(Rows \ {l})

VoidEffect(l) ==
    /\ MayAdjust(l) /\ db'[l] = "void" /\ Kept(Rows \ {l, TicketRowOf[l]})
    /\ db'[TicketRowOf[l]] =
           IF \A m \in LinesOf(TicketRowOf[l]) : db'[m] = "void"
           THEN "cancelled" ELSE db[TicketRowOf[l]]

EndEffect(q) ==
    /\ db[q].status = "pending"
    /\ \E status \in {"completed", "cancelled"} : db'[q] = [db[q] EXCEPT !.status = status]
    /\ Kept(Rows \ {q})

RenameEffect == NoneInFlight /\ db'["venue"] = "second account" /\ Kept(Rows \ {"venue"})

MarkEffect ==
    /\ db["menu"] = "on" /\ db'["menu"] = "off" /\ Kept(Rows \ {"menu"})
    /\ db["visit"] = "closed" \/ SomePayment \/ UnstartedLines = {}

SweepEffect ==
    /\ Live /\ NoneInFlight
    /\ db["menu"] = "on" /\ db'["menu"] = "off" /\ Kept({"visit", "venue"} \cup Procs)
    /\ \A l \in Lines : db'[l] = IF l \in UnstartedLines THEN "void" ELSE db[l]
    /\ \A k \in TicketRows :
          db'[k] = IF db[k] = "pending" /\ \A l \in LinesOf(k) : db'[l] = "void"
                   THEN "cancelled" ELSE db[k]

Effect ==
    \/ \E k \in TicketRows : PlaceEffect(k) \/ MoveEffect(k)
    \/ \E q \in Procs :
          AttemptEffect(q, "pending") \/ AttemptEffect(q, "completed") \/ EndEffect(q)
    \/ CloseEffect
    \/ \E l \in Lines : CompEffect(l) \/ VoidEffect(l)
    \/ RenameEffect
    \/ MarkEffect
    \/ SweepEffect

(* The parts of the invariant about the committed rows.                    *)
LEMMA RowsTyped ==
    ASSUME RowInv
    PROVE  /\ DbOK /\ TicketsOK /\ PlacedOnce
           /\ \A p \in Procs : Typed(p)
BY DEF RowInv

(* A commit of nothing.                                                    *)
LEMMA NothingCommits ==
    ASSUME RowInv, NEW p \in Procs, Commit(p), own[p] = <<>>
    PROVE  CommitOK(p) /\ db' = db
<1>1. \A r \in Rows : db'[r] = db[r]
  BY CommitIs, SeesCommitted
<1>2. db' = [r \in Rows |-> db'[r]] /\ db = [r \in Rows |-> db[r]]
  BY CommitIs, RowsTyped DEF DbOK
<1>3. db' = db
  BY <1>1, <1>2
<1> QED
  BY <1>3, RowsTyped DEF CommitOK, Rely, DbOK, TicketsOK

(* A commit of an order.                                                   *)
LEMMA PlacedCommits ==
    ASSUME RowInv, NEW p \in Procs, Commit(p), NEW k \in TicketRows, Placed(p, k)
    PROVE  CommitOK(p) /\ PlaceEffect(k)
<1>1. PICK mine : mine = own[p]
  OBVIOUS
<1>2. /\ DOMAIN mine = {"visit", k} \cup LinesOf(k) /\ mine["visit"] = "active"
      /\ mine[k] = "pending" /\ \A l \in LinesOf(k) : mine[l] = "active"
      /\ VisitX \in held[p] /\ MenuS \in held[p] /\ <<k, "X">> \in held[p]
      /\ db["visit"] = "active"
  BY <1>1, RowsTyped DEF Placed, DbOK, Live
<1>3. WillPlace(p, k) /\ db[k] = "none"
  BY <1>1, <1>2, RowsTyped DEF WillPlace, PlacedOnce
<1>4. /\ db' = [r \in Rows |-> db'[r]] /\ db'["visit"] = "active" /\ db["visit"] = "active"
      /\ db'["menu"] = db["menu"] /\ db'["venue"] = db["venue"]
      /\ db'[k] = "pending" /\ \A j \in TicketRows \ {k} : db'[j] = db[j]
      /\ \A l \in LinesOf(k) : db'[l] = "active"
      /\ \A l \in Lines \ LinesOf(k) : db'[l] = db[l]
      /\ \A q \in Procs : db'[q] = db[q]
  BY <1>1, <1>2, CommitIs, RowsApart, LinesHaveTickets DEF Sees
<1>5. Rely(p)
  BY <1>2, <1>3, <1>4 DEF Rely
<1>6. DbOK'
  BY <1>4, RowsTyped DEF DbOK, Statuses
<1>7. TicketsOK'
  BY <1>4, RowsTyped, LinesHaveTickets DEF TicketsOK
<1>8. PlaceEffect(k)
  <2>1. Live /\ db["menu"] = "on"
    BY DEF Placed
  <2>2. Kept(Rows \ ({k} \cup LinesOf(k)))
    BY <1>4 DEF Kept, Rows
  <2> QED
    BY <1>3, <1>4, <2>1, <2>2 DEF PlaceEffect
<1> QED
  BY <1>5, <1>6, <1>7, <1>8 DEF CommitOK

(* A commit of a cook's step.                                              *)
LEMMA MovedCommits ==
    ASSUME RowInv, NEW p \in Procs, Commit(p), NEW k \in TicketRows, Moved(p, k)
    PROVE  CommitOK(p) /\ MoveEffect(k)
<1>1. PICK status \in {"accepted", "sent"} :
          /\ own[p] = One(k, status) /\ db[k] \in {"pending", "ready", "accepted"}
          /\ \/ status = "accepted" /\ CanAccept(db[k])
             \/ status = "sent" /\ CanSend(db[k], FALSE)
  BY DEF Moved, CanAccept, CanSend
<1>2. /\ db' = [r \in Rows |-> db'[r]] /\ db'[k] = status
      /\ \A r \in Rows \ {k} : db'[r] = db[r]
  BY <1>1, OneCommits, RowsApart
<1>3. /\ db'["visit"] = db["visit"] /\ db'["menu"] = db["menu"] /\ db'["venue"] = db["venue"]
      /\ (\A j \in TicketRows \ {k} : db'[j] = db[j]) /\ (\A l \in Lines : db'[l] = db[l])
      /\ \A q \in Procs : db'[q] = db[q]
  BY <1>2, RowsApart
<1>4. Rely(p)
  BY <1>1, <1>2, <1>3, LinesHaveTickets DEF Rely, Moved
<1>5. DbOK'
  BY <1>2, <1>3, RowsTyped, LinesHaveTickets DEF DbOK, Statuses
<1>6. TicketsOK'
  BY <1>1, <1>2, <1>3, RowsTyped, LinesHaveTickets DEF TicketsOK
<1>7. MoveEffect(k)
  BY <1>1, <1>2 DEF MoveEffect, Kept
<1> QED
  BY <1>4, <1>5, <1>6, <1>7 DEF CommitOK

(* A commit of a payment attempt.                                          *)
LEMMA AttemptedCommits ==
    ASSUME RowInv, NEW p \in Procs, Commit(p), phase[p] = "running",
           NEW status \in {"pending", "completed"}, Attempted(p, status)
    PROVE  CommitOK(p) /\ AttemptEffect(p, status)
<1>1. PICK value : value = [status |-> status, orders |-> {TicketRowOf[l] : l \in Due},
                            lines |-> Due, account |-> db["venue"]]
  OBVIOUS
<1>2. own[p] = One(p, value) /\ value.status = status
  BY <1>1 DEF Attempted
<1>3. /\ db' = [r \in Rows |-> db'[r]] /\ db'[p] = value
      /\ \A r \in Rows \ {p} : db'[r] = db[r]
  BY <1>2, OneCommits, RowsApart
<1>4. /\ db'["visit"] = db["visit"] /\ db'["menu"] = db["menu"] /\ db'["venue"] = db["venue"]
      /\ (\A j \in TicketRows : db'[j] = db[j]) /\ \A l \in Lines : db'[l] = db[l]
      /\ \A q \in Procs \ {p} : db'[q] = db[q]
  BY <1>3, RowsApart
<1>5. db[p] = NoPayment /\ value # NoPayment
  BY <1>2, RowsTyped DEF Typed, NoPayment
<1>6. value \in Payment
  <2>1. Due \in SUBSET Lines
    BY DEF Due, Active
  <2>2. {TicketRowOf[l] : l \in Due} \in SUBSET TicketRows
    BY <2>1, LinesHaveTickets
  <2>3. db["venue"] \in {"first account", "second account"}
    BY RowsTyped DEF DbOK
  <2> QED
    BY <1>1, <2>1, <2>2, <2>3 DEF Payment
<1>7. Rely(p)
  BY <1>2, <1>3, <1>4, <1>5 DEF Rely, Attempted
<1>8. DbOK'
  BY <1>3, <1>4, <1>6, RowsTyped DEF DbOK
<1>9. TicketsOK'
  BY <1>4, RowsTyped, LinesHaveTickets DEF TicketsOK
<1>10. AttemptEffect(p, status)
  BY <1>1, <1>3, <1>5 DEF AttemptEffect, Attempted, Kept
<1> QED
  BY <1>7, <1>8, <1>9, <1>10 DEF CommitOK

(* A commit of a close.                                                    *)
LEMMA ClosedCommits ==
    ASSUME RowInv, NEW p \in Procs, Commit(p), Closed(p)
    PROVE  CommitOK(p) /\ CloseEffect
<1>1. /\ db' = [r \in Rows |-> db'[r]] /\ db'["visit"] = "closed"
      /\ \A r \in Rows \ {"visit"} : db'[r] = db[r]
  BY OneCommits, RowsApart DEF Closed
<1>2. /\ db'["menu"] = db["menu"] /\ db'["venue"] = db["venue"]
      /\ (\A j \in TicketRows : db'[j] = db[j]) /\ (\A l \in Lines : db'[l] = db[l])
      /\ \A q \in Procs : db'[q] = db[q]
  BY <1>1, RowsApart
<1>3. Rely(p)
  BY <1>1, <1>2 DEF Rely, Closed
<1>4. DbOK'
  BY <1>1, <1>2, RowsTyped DEF DbOK
<1>5. TicketsOK'
  BY <1>2, RowsTyped, LinesHaveTickets DEF TicketsOK
<1>6. CloseEffect
  BY <1>1 DEF CloseEffect, Closed, Kept
<1> QED
  BY <1>3, <1>4, <1>5, <1>6 DEF CommitOK

(* A commit of a comp.                                                     *)
LEMMA CompedCommits ==
    ASSUME RowInv, NEW p \in Procs, Commit(p), NEW l \in Lines, Comped(p, l)
    PROVE  CommitOK(p) /\ CompEffect(l)
<1>1. /\ db' = [r \in Rows |-> db'[r]] /\ db'[l] = "comp" /\ db[l] = "active"
      /\ \A r \in Rows \ {l} : db'[r] = db[r]
  BY OneCommits, RowsApart DEF Comped, MayAdjust
<1>2. /\ db'["visit"] = db["visit"] /\ db'["menu"] = db["menu"] /\ db'["venue"] = db["venue"]
      /\ (\A j \in TicketRows : db'[j] = db[j]) /\ (\A m \in Lines \ {l} : db'[m] = db[m])
      /\ \A q \in Procs : db'[q] = db[q]
  BY <1>1, RowsApart
<1>3. Rely(p)
  BY <1>1, <1>2 DEF Rely, Comped
<1>4. DbOK'
  BY <1>1, <1>2, RowsTyped DEF DbOK
<1>5. TicketsOK'
  BY <1>1, <1>2, RowsTyped, LinesHaveTickets DEF TicketsOK
<1>6. CompEffect(l)
  BY <1>1 DEF CompEffect, Comped, Kept
<1> QED
  BY <1>3, <1>4, <1>5, <1>6 DEF CommitOK

(* A commit of a void, with the ticket when it was the last line.          *)
LEMMA VoidedCommits ==
    ASSUME RowInv, NEW p \in Procs, Commit(p), NEW l \in Lines, Voided(p, l)
    PROVE  CommitOK(p) /\ VoidEffect(l)
<1>1. PICK k \in TicketRows : k = TicketRowOf[l]
  BY LinesHaveTickets
<1>2. PICK mine : mine = own[p]
  OBVIOUS
<1>3. /\ VisitX \in held[p] /\ db[l] = "active" /\ db[k] # "none" /\ l # k
      /\ mine[l] = "void"
      /\ \/ DOMAIN mine = {l} /\ ~Emptied(p, k)
         \/ /\ DOMAIN mine = {l, k} /\ mine[k] = "cancelled" /\ <<k, "X">> \in held[p]
            /\ Emptied(p, k)
  <2>1. VisitX \in held[p] /\ db[l] = "active" /\ db[k] # "none" /\ l # k
    BY <1>1, RowsTyped, RowsApart, LinesHaveTickets DEF Voided, MayAdjust, TicketsOK
  <2>2. CASE own[p] = One(l, "void") /\ ~Emptied(p, k)
    BY <1>2, <2>1, <2>2 DEF One
  <2>3. CASE /\ own[p] = Over(One(k, "cancelled"), One(l, "void")) /\ <<k, "X">> \in held[p]
             /\ Emptied(p, k)
    <3>1. PICK f, g : f = One(k, "cancelled") /\ g = One(l, "void")
      OBVIOUS
    <3>2. DOMAIN f = {k} /\ f[k] = "cancelled" /\ DOMAIN g = {l} /\ g[l] = "void"
      BY <3>1 DEF One
    <3>3. mine = Over(f, g)
      BY <1>2, <2>3, <3>1
    <3> QED
      BY <2>1, <2>3, <3>2, <3>3 DEF Over
  <2> QED
    BY <1>1, <2>2, <2>3 DEF Voided
<1>4. /\ db' = [r \in Rows |-> db'[r]]
      /\ db'["visit"] = db["visit"] /\ db'["menu"] = db["menu"] /\ db'["venue"] = db["venue"]
      /\ (\A j \in TicketRows \ {k} : db'[j] = db[j]) /\ (\A m \in Lines \ {l} : db'[m] = db[m])
      /\ \A q \in Procs : db'[q] = db[q]
  BY <1>2, <1>3, CommitIs, RowsApart DEF Sees
<1>5. /\ db'[l] = "void"
      /\ \/ db'[k] = db[k] /\ \E m \in LinesOf(k) : db'[m] # "void"
         \/ /\ db'[k] = "cancelled" /\ <<k, "X">> \in held[p]
            /\ \A m \in LinesOf(k) : db'[m] = "void"
  <2>1. \A r \in Rows : db'[r] = Sees(p, r)
    BY CommitIs
  <2>2. db'[l] = "void"
    BY <1>2, <1>3, <2>1, RowsApart DEF Sees
  <2>3. CASE DOMAIN mine = {l} /\ ~Emptied(p, k)
    <3>1. db'[k] = db[k]
      BY <1>2, <1>3, <2>1, <2>3, RowsApart DEF Sees
    <3>2. \E m \in LinesOf(k) : db'[m] # "void"
      BY <2>1, <2>3, RowsApart, LinesHaveTickets DEF Emptied
    <3> QED
      BY <2>2, <3>1, <3>2
  <2>4. CASE /\ DOMAIN mine = {l, k} /\ mine[k] = "cancelled" /\ <<k, "X">> \in held[p]
             /\ Emptied(p, k)
    <3>1. db'[k] = "cancelled"
      BY <1>2, <2>1, <2>4, RowsApart DEF Sees
    <3>2. \A m \in LinesOf(k) : db'[m] = "void"
      BY <2>1, <2>4, RowsApart, LinesHaveTickets DEF Emptied
    <3> QED
      BY <2>2, <2>4, <3>1, <3>2
  <2> QED
    BY <1>3, <2>3, <2>4
<1>6. Rely(p)
  BY <1>3, <1>4, <1>5 DEF Rely
<1>7. DbOK'
  BY <1>4, <1>5, RowsTyped DEF DbOK, Statuses
<1>8. TicketsOK'
  BY <1>1, <1>3, <1>4, <1>5, RowsTyped, LinesHaveTickets DEF TicketsOK
<1>9. VoidEffect(l)
  <2>1. Kept(Rows \ {l, k})
    BY <1>4 DEF Kept, Rows
  <2>2. MayAdjust(l)
    BY DEF Voided
  <2> QED
    BY <1>1, <1>5, <2>1, <2>2 DEF VoidEffect
<1> QED
  BY <1>6, <1>7, <1>8, <1>9 DEF CommitOK

(* A commit of a payment settled or dropped.                               *)
LEMMA EndedCommits ==
    ASSUME RowInv, NEW p \in Procs, Commit(p), NEW q \in Procs, Ended(p, q)
    PROVE  CommitOK(p) /\ EndEffect(q)
<1>1. PICK status \in {"completed", "cancelled"} : own[p] = One(q, [db[q] EXCEPT !.status = status])
  BY DEF Ended
<1>2. PICK value : value = [db[q] EXCEPT !.status = status]
  OBVIOUS
<1>3. PICK row \in Payment : row = db[q]
  BY RowsTyped DEF DbOK
<1>4. value \in Payment /\ value.status = status /\ row.status = "pending" /\ <<q, "X">> \in held[p]
  BY <1>2, <1>3 DEF Payment, Ended
<1>5. /\ db' = [r \in Rows |-> db'[r]] /\ db'[q] = value
      /\ \A r \in Rows \ {q} : db'[r] = db[r]
  BY <1>1, <1>2, OneCommits, RowsApart
<1>6. /\ db'["visit"] = db["visit"] /\ db'["menu"] = db["menu"] /\ db'["venue"] = db["venue"]
      /\ (\A j \in TicketRows : db'[j] = db[j]) /\ (\A l \in Lines : db'[l] = db[l])
      /\ \A r \in Procs \ {q} : db'[r] = db[r]
  BY <1>5, RowsApart
<1>7. Rely(p)
  BY <1>3, <1>4, <1>5, <1>6 DEF Rely, NoPayment
<1>8. DbOK'
  BY <1>4, <1>5, <1>6, RowsTyped DEF DbOK
<1>9. TicketsOK'
  BY <1>6, RowsTyped, LinesHaveTickets DEF TicketsOK
<1>10. EndEffect(q)
  BY <1>2, <1>3, <1>4, <1>5 DEF EndEffect, Kept
<1> QED
  BY <1>7, <1>8, <1>9, <1>10 DEF CommitOK

(* A commit of a new account.                                              *)
LEMMA RenamedCommits ==
    ASSUME RowInv, NEW p \in Procs, Commit(p), Renamed(p)
    PROVE  CommitOK(p) /\ RenameEffect
<1>1. /\ db' = [r \in Rows |-> db'[r]] /\ db'["venue"] = "second account"
      /\ \A r \in Rows \ {"venue"} : db'[r] = db[r]
  <2>1. PICK value : value = "second account"
    OBVIOUS
  <2>2. PICK r \in Rows : r = "venue"
    BY RowsApart
  <2>3. own[p] = One(r, value)
    BY <2>1, <2>2 DEF Renamed
  <2>4. /\ db' = [x \in Rows |-> db'[x]] /\ db'[r] = value
        /\ \A x \in Rows \ {r} : db'[x] = db[x]
    BY <2>3, OneCommits
  <2> QED
    BY <2>1, <2>2, <2>4
<1>2. /\ db'["menu"] = db["menu"] /\ db'["visit"] = db["visit"]
      /\ (\A j \in TicketRows : db'[j] = db[j]) /\ (\A l \in Lines : db'[l] = db[l])
      /\ \A q \in Procs : db'[q] = db[q]
  BY <1>1, RowsApart
<1>3. Rely(p)
  BY <1>1, <1>2 DEF Rely, Renamed
<1>4. DbOK'
  BY <1>1, <1>2, RowsTyped DEF DbOK
<1>5. TicketsOK'
  BY <1>2, RowsTyped, LinesHaveTickets DEF TicketsOK
<1>6. RenameEffect
  BY <1>1 DEF RenameEffect, Renamed, Kept
<1> QED
  BY <1>3, <1>4, <1>5, <1>6 DEF CommitOK

(* A commit of an 86: the item alone, or with every line it swept.         *)
LEMMA MarkedOffCommits ==
    ASSUME RowInv, NEW p \in Procs, Commit(p), MarkedOff(p)
    PROVE  CommitOK(p) /\ (MarkEffect \/ SweepEffect)
<1>1. CASE /\ own[p] = One("menu", "off") /\ MenuX \in held[p] /\ db["menu"] = "on"
           /\ db["visit"] = "closed" \/ SomePayment \/ Unstarted(p) = {}
  <2>1. /\ db' = [r \in Rows |-> db'[r]] /\ db'["menu"] = "off"
        /\ \A r \in Rows \ {"menu"} : db'[r] = db[r]
    BY <1>1, OneCommits, RowsApart
  <2>2. /\ db'["venue"] = db["venue"] /\ db'["visit"] = db["visit"]
        /\ (\A j \in TicketRows : db'[j] = db[j]) /\ (\A l \in Lines : db'[l] = db[l])
        /\ \A q \in Procs : db'[q] = db[q]
    BY <2>1, RowsApart
  <2>3. Rely(p)
    BY <1>1, <2>1, <2>2 DEF Rely
  <2>4. DbOK'
    BY <2>1, <2>2, RowsTyped DEF DbOK
  <2>5. TicketsOK'
    BY <2>2, RowsTyped, LinesHaveTickets DEF TicketsOK
  <2>6. MarkEffect
    <3>1. DOMAIN One("menu", "off") = {"menu"}
      BY OneIs
    <3>2. \A r \in Lines \cup TicketRows : Sees(p, r) = db[r]
      BY <1>1, <3>1, RowsApart DEF Sees
    <3>3. Unstarted(p) = UnstartedLines
      BY <3>2, LinesHaveTickets DEF Unstarted, UnstartedLines
    <3> QED
      BY <1>1, <2>1, <3>3 DEF MarkEffect, Kept
  <2> QED
    BY <2>3, <2>4, <2>5, <2>6 DEF CommitOK
<1>2. CASE Swept(p, {}) /\ seen[p] = {}
  <2>1. PICK mine : mine = own[p]
    OBVIOUS
  <2>2. \A r \in Rows : /\ r \in DOMAIN mine => db'[r] = mine[r]
                        /\ r \notin DOMAIN mine => db'[r] = db[r]
    BY <2>1, CommitIs DEF Sees
  <2>3. /\ DOMAIN mine \subseteq {"menu"} \cup Lines \cup TicketRows
        /\ "menu" \in DOMAIN mine /\ mine["menu"] = "off"
        /\ MenuX \in held[p] /\ VisitX \in held[p]
        /\ \A l \in Lines \cap DOMAIN mine :
              mine[l] = "void" /\ db[l] = "active" /\ db[TicketRowOf[l]] = "pending"
        /\ \A k \in TicketRows \cap DOMAIN mine :
              mine[k] = "cancelled" /\ db[k] = "pending" /\ <<k, "X">> \in held[p]
    BY <1>2, <2>1 DEF Swept
  <2>4. /\ db' = [r \in Rows |-> db'[r]]
        /\ db'["venue"] = db["venue"] /\ db'["visit"] = db["visit"] /\ db'["menu"] = "off"
        /\ \A q \in Procs : db'[q] = db[q]
    BY <2>2, <2>3, CommitIs, RowsApart
  <2>5. \A l \in Lines : \/ l \notin DOMAIN mine /\ db'[l] = db[l]
                         \/ /\ db'[l] = "void" /\ db[l] = "active"
                            /\ db[TicketRowOf[l]] = "pending"
    BY <2>2, <2>3, RowsApart
  <2>6. \A k \in TicketRows : \/ k \notin DOMAIN mine /\ db'[k] = db[k]
                              \/ db'[k] = "cancelled" /\ db[k] = "pending" /\ <<k, "X">> \in held[p]
    BY <2>2, <2>3, RowsApart
  <2>7. Rely(p)
    BY <2>3, <2>4, <2>5, <2>6 DEF Rely
  <2>8. DbOK'
    BY <2>4, <2>5, <2>6, RowsTyped DEF DbOK, Statuses
  <2>9. ASSUME NEW k \in TicketRows, db'[k] = "pending" PROVE \E l \in LinesOf(k) : db'[l] # "void"
    <3>1. k \notin DOMAIN mine /\ db[k] = "pending"
      BY <2>6, <2>9
    <3>2. CASE \E l \in LinesOf(k) : l \in DOMAIN mine
      <4>1. PICK l \in Lines : l \in DOMAIN mine /\ TicketRowOf[l] = k
        BY <3>2, LinesHaveTickets
      <4>2. Emptied(p, k) => k \in DOMAIN mine
        BY <1>2, <2>1, <4>1 DEF Swept
      <4> QED
        BY <3>1, <4>2, CommitIs, LinesHaveTickets, RowsApart DEF Emptied
    <3>3. CASE \A l \in LinesOf(k) : l \notin DOMAIN mine
      <4>1. PICK l \in LinesOf(k) : db[l] # "void"
        BY <3>1, RowsTyped DEF TicketsOK
      <4> QED
        BY <2>2, <3>3, <4>1, LinesHaveTickets, RowsApart
    <3> QED
      BY <3>2, <3>3
  <2>10. ASSUME NEW k \in TicketRows, NEW l \in LinesOf(k)
         PROVE  db'[l] = "none" <=> db'[k] = "none"
    <3>1. l \in Lines /\ TicketRowOf[l] = k /\ (db[l] = "none" <=> db[k] = "none")
      BY RowsTyped, LinesHaveTickets DEF TicketsOK
    <3> QED
      BY <2>5, <2>6, <3>1
  <2>11. TicketsOK'
    BY <2>9, <2>10 DEF TicketsOK
  <2>12. SweepEffect
    <3>1. Live /\ NoneInFlight /\ db["menu"] = "on" /\ Unstarted(p) = {}
      BY <1>2 DEF Swept
    <3>2. \A r \in Rows : db'[r] = Sees(p, r)
      BY CommitIs
    <3>3. ASSUME NEW k \in TicketRows
          PROVE  db'[k] = IF db[k] = "pending" /\ \A l \in LinesOf(k) : db'[l] = "void"
                          THEN "cancelled" ELSE db[k]
      <4>1. CASE k \in DOMAIN mine
        <5>1. Emptied(p, k) /\ db[k] = "pending" /\ db'[k] = "cancelled"
          BY <1>2, <2>1, <2>2, <4>1, RowsApart DEF Swept
        <5>2. \A l \in LinesOf(k) : db'[l] = "void"
          BY <3>2, <5>1, LinesHaveTickets, RowsApart DEF Emptied
        <5> QED
          BY <5>1, <5>2
      <4>2. CASE k \notin DOMAIN mine
        BY <2>2, <2>9, <4>2, RowsApart
      <4> QED
        BY <4>1, <4>2
    <3>4. ASSUME NEW l \in Lines
          PROVE  db'[l] = IF l \in UnstartedLines THEN "void" ELSE db[l]
      <4>1. CASE l \in DOMAIN mine
        BY <2>2, <2>3, <4>1, RowsApart DEF UnstartedLines
      <4>2. CASE l \notin DOMAIN mine
        <5>1. db'[l] = db[l] /\ Sees(p, l) = db[l]
          BY <2>1, <2>2, <4>2, RowsApart DEF Sees
        <5>2. PICK k \in TicketRows : k = TicketRowOf[l]
          BY LinesHaveTickets
        <5>3. ASSUME l \in UnstartedLines PROVE FALSE
          <6>1. db[l] = "active" /\ db[k] = "pending"
            BY <5>2, <5>3 DEF UnstartedLines
          <6>2. k \in DOMAIN mine
            BY <2>1, <3>1, <5>1, <5>2, <6>1 DEF Unstarted, Sees
          <6>3. Emptied(p, k)
            BY <1>2, <2>1, <6>2 DEF Swept
          <6> QED
            BY <5>1, <5>2, <6>1, <6>3, LinesHaveTickets DEF Emptied
        <5> QED
          BY <5>1, <5>3
      <4> QED
        BY <4>1, <4>2
    <3> QED
      BY <2>4, <3>1, <3>3, <3>4 DEF SweepEffect, Kept
  <2> QED
    BY <2>7, <2>8, <2>11, <2>12 DEF CommitOK
<1> QED
  BY <1>1, <1>2 DEF MarkedOff

(* Every commit keeps the rows well formed and is one of the effects.      *)
LEMMA DoneCommits ==
    ASSUME RowInv, NEW p \in Procs, Finish(p)
    PROVE  CommitOK(p) /\ (Effect \/ db' = db)
<1>1. phase[p] = "running" /\ Commit(p) /\ Done(p)
  BY DEF Finish, RowInv, OnCourse
<1>2. CASE own[p] = <<>>
  BY <1>1, <1>2, NothingCommits
<1>3. ASSUME NEW k \in TicketRows, Placed(p, k) \/ Moved(p, k)
      PROVE  CommitOK(p) /\ Effect
  BY <1>1, <1>3, PlacedCommits, MovedCommits DEF Effect
<1>4. CASE Attempted(p, "pending") \/ Attempted(p, "completed")
  BY <1>1, <1>4, AttemptedCommits DEF Effect
<1>5. CASE Closed(p)
  BY <1>1, <1>5, ClosedCommits DEF Effect
<1>6. ASSUME NEW l \in Lines, Comped(p, l) \/ Voided(p, l)
      PROVE  CommitOK(p) /\ Effect
  BY <1>1, <1>6, CompedCommits, VoidedCommits DEF Effect
<1>7. ASSUME NEW q \in Procs, Ended(p, q)
      PROVE  CommitOK(p) /\ Effect
  BY <1>1, <1>7, EndedCommits DEF Effect
<1>8. CASE Renamed(p)
  BY <1>1, <1>8, RenamedCommits DEF Effect
<1>9. CASE MarkedOff(p)
  BY <1>1, <1>9, MarkedOffCommits DEF Effect
<1> QED
  BY <1>1, <1>2, <1>3, <1>4, <1>5, <1>6, <1>7, <1>8, <1>9 DEF Done

-------------------------------------------------------------------------------
(* The invariant.                                                          *)

(* One order is placed and nothing is paid.                                *)
LEMMA FirstRows ==
    ASSUME Init
    PROVE  /\ db = [r \in Rows |-> db[r]] /\ db["menu"] = "on" /\ db["venue"] = "first account"
           /\ db["visit"] = "active"
           /\ \A q \in Procs : db[q] = NoPayment
           /\ \A k \in TicketRows : db[k] = IF k = Seed THEN "pending" ELSE "none"
           /\ \A l \in Lines : db[l] = IF TicketRowOf[l] = Seed THEN "active" ELSE "none"
<1>1. Seed \in TicketRows
  BY RowsAssumption
<1>2. /\ db = [r \in Rows |-> db[r]] /\ db["menu"] = "on" /\ db["venue"] = "first account"
      /\ db["visit"] = "active"
  <2> DEFINE first(r) == CASE r = "menu"   -> "on"
                           [] r = "venue"  -> "first account"
                           [] r = "visit"  -> "active"
                           [] r = Seed     -> "pending"
                           [] r \in Procs  -> NoPayment
                           [] OTHER        -> IF r \in LinesOf(Seed) THEN "active" ELSE "none"
  <2>1. db = [r \in Rows |-> db[r]]
    <3>1. db = [r \in Rows |-> first(r)]
      BY DEF Init
    <3> HIDE DEF first
    <3> QED
      BY <3>1
  <2>2. db["menu"] = "on"
    BY <1>1, RowsApart DEF Init
  <2>3. db["venue"] = "first account"
    BY <1>1, RowsApart DEF Init
  <2>4. db["visit"] = "active"
    BY <1>1, RowsApart DEF Init
  <2> QED
    BY <2>1, <2>2, <2>3, <2>4
<1>3. \A q \in Procs : db[q] = NoPayment
  BY <1>1, RowsApart DEF Init
<1>4. ASSUME NEW k \in TicketRows PROVE db[k] = IF k = Seed THEN "pending" ELSE "none"
  <2>1. k \in Rows /\ k \notin Procs /\ k \notin Lines
    BY RowsApart
  <2>2. k \notin {"menu", "venue", "visit"} /\ k \notin LinesOf(Seed)
    BY <1>1, <2>1, RowsApart, LinesHaveTickets
  <2> QED
    BY <2>1, <2>2 DEF Init
<1>5. ASSUME NEW l \in Lines PROVE db[l] = IF TicketRowOf[l] = Seed THEN "active" ELSE "none"
  <2>1. l \in Rows /\ l \notin Procs /\ l # Seed
    BY <1>1, RowsApart
  <2>2. l \notin {"menu", "venue", "visit"} /\ (l \in LinesOf(Seed) <=> TicketRowOf[l] = Seed)
    BY <2>1, RowsApart, LinesHaveTickets
  <2> QED
    BY <2>1, <2>2 DEF Init
<1> QED
  BY <1>2, <1>3, <1>4, <1>5

(* The invariant holds at first.                                           *)
LEMMA InitRows == Init => RowInv
<1> SUFFICES ASSUME Init PROVE RowInv
  OBVIOUS
<1>1. /\ own = [p \in Procs |-> <<>>] /\ held = [p \in Procs |-> {}]
      /\ rest = [p \in Procs |-> <<>>] /\ seen = [p \in Procs |-> {}]
      /\ phase = [p \in Procs |-> "new"]
  BY DEF Init
<1>2. /\ db = [r \in Rows |-> db[r]] /\ db["menu"] = "on" /\ db["venue"] = "first account"
      /\ db["visit"] = "active"
  BY FirstRows
<1>3. \A q \in Procs : db[q] = NoPayment
  BY FirstRows
<1>4. \A k \in TicketRows : db[k] = IF k = Seed THEN "pending" ELSE "none"
  BY FirstRows
<1>5. \A l \in Lines : db[l] = IF TicketRowOf[l] = Seed THEN "active" ELSE "none"
  BY FirstRows
<1>6. DbOK
  <2>1. NoPayment \in Payment
    BY DEF NoPayment, Payment
  <2> QED
    BY <1>2, <1>3, <1>4, <1>5, <2>1 DEF DbOK, Statuses
<1>7. TicketsOK
  BY <1>4, <1>5, LinesHaveTickets DEF TicketsOK
<1>8. \A p \in Procs : Typed(p) /\ OnCourse(p)
  BY <1>1, <1>3, NoSteps DEF Typed, OnCourse, Done
<1>9. Compatible
  BY <1>1 DEF Compatible
<1>10. PlacedOnce
  <2>1. \A p \in Procs : \A k : ~WillPlace(p, k)
    BY <1>1 DEF WillPlace
  <2> QED
    BY <2>1 DEF PlacedOnce
<1> QED
  BY <1>1, <1>6, <1>7, <1>8, <1>9, <1>10 DEF RowInv, OfProcs

(* A statement, a commit or an abort keeps it; only a commit has an        *)
(* effect.                                                                 *)
LEMMA ProceedKeeps ==
    ASSUME RowInv, NEW p \in Procs, Proceed(p)
    PROVE  RowInv' /\ (db' = db \/ Effect)
<1>1. ASSUME TakeLock(p) PROVE RowInv' /\ db' = db
  BY <1>1, TakeLockKeeps DEF TakeLock, Go, Then
<1>2. ASSUME VisitStep(p) PROVE RowInv' /\ db' = db
  <2>1. RowInv'
    BY <1>2, LockLiveKeeps, ClaimKeeps, CloseVisitKeeps, InsertOrderKeeps DEF VisitStep
  <2>2. db' = db
    BY <1>2 DEF VisitStep, LockLive, Claim, CloseVisit, InsertOrder, Require, WriteIf, Go, Write,
                Then, Abort
  <2> QED
    BY <2>1, <2>2
<1>3. ASSUME PaymentStep(p) PROVE RowInv' /\ db' = db
  <2>1. RowInv'
    BY <1>3, NoPendingKeeps, ReadTotalsKeeps, ReadCoveredKeeps, InsertPaymentKeeps,
       EndPaymentKeeps, SaveAccountKeeps DEF PaymentStep
  <2>2. db' = db
    BY <1>3 DEF PaymentStep, NoPending, ReadTotals, ReadCovered, InsertPayment, EndPayment,
                SaveAccount, Require, WriteIf, Go, Write, Read, Then, Abort
  <2> QED
    BY <2>1, <2>2
<1>4. ASSUME AdjustStep(p) PROVE RowInv' /\ db' = db
  <2>1. RowInv'
    BY <1>4, LockAdjustableKeeps, LockPaymentsKeeps, WriteLineKeeps, AnyActiveKeeps,
       CancelTicketKeeps DEF AdjustStep
  <2>2. db' = db
    BY <1>4 DEF AdjustStep, LockAdjustable, LockPayments, WriteLine, AnyActive, CancelTicket,
                Require, Go, Write, Then, Abort
  <2> QED
    BY <2>1, <2>2
<1>5. ASSUME SoldOutStep(p) PROVE RowInv' /\ db' = db
  <2>1. RowInv'
    BY <1>5, LockMenuKeeps, FindLinesKeeps, LockIfLiveKeeps, SkipIfPendingKeeps,
       LockPendingKeeps, VoidIfActiveKeeps, CancelIfEmptyKeeps DEF SoldOutStep
  <2>2. db' = db
    BY <1>5 DEF SoldOutStep, LockMenu, FindLines, LockIfLive, SkipIfPending, LockPending,
                VoidIfActive, CancelIfEmpty, Go, Write, Then, Abort
  <2> QED
    BY <2>1, <2>2
<1>6. ASSUME Accept(p) \/ Send(p) PROVE RowInv' /\ db' = db
  BY <1>6, MoveTicketKeeps DEF Accept, Send, WriteIf, Write, Then, Abort
<1>7. ASSUME Finish(p) PROVE RowInv' /\ (db' = db \/ Effect)
  BY <1>7, DoneCommits, CommitKeeps DEF Finish
<1>8. ASSUME DeadlockVictim(p) PROVE RowInv' /\ db' = db
  BY <1>8, AbortKeeps DEF DeadlockVictim, Abort
<1> QED
  BY <1>1, <1>2, <1>3, <1>4, <1>5, <1>6, <1>7, <1>8 DEF Proceed

(* So does a step that changes nothing.                                    *)
LEMMA StutterKeeps ==
    ASSUME db' = db, own' = own, held' = held, seen' = seen, NEW p \in Procs, NEW op, NEW row
    PROVE  Done(p)' = Done(p) /\ At(p, op, row)' = At(p, op, row)
<1>1. /\ Live' = Live /\ NoneInFlight' = NoneInFlight /\ SomePayment' = SomePayment
      /\ Active' = Active /\ Due' = Due /\ \A l : MayAdjust(l)' = MayAdjust(l)
  <2>1. Active' = Active /\ Live' = Live /\ NoneMoving' = NoneMoving
    BY DEF Active, Live, NoneMoving
  <2> QED
    BY <2>1, SameRows DEF MayAdjust
<1>2. /\ Unstarted(p)' = Unstarted(p) /\ \A k : Emptied(p, k)' = Emptied(p, k)
  <2>1. \A r : Sees(p, r)' = Sees(p, r)
    BY DEF Sees
  <2> QED
    BY <2>1 DEF Unstarted, Emptied
<1>3. \A S : Swept(p, S)' = Swept(p, S)
  BY <1>1, <1>2 DEF Swept
<1>4. \A k : OnTicket(p, k)' = OnTicket(p, k)
  BY <1>3 DEF OnTicket
<1>5. At(p, op, row)' = At(p, op, row)
  BY <1>1, <1>2, <1>3, <1>4 DEF At
<1>6. /\ \A k : Placed(p, k)' = Placed(p, k) /\ Moved(p, k)' = Moved(p, k)
      /\ \A status : Attempted(p, status)' = Attempted(p, status)
      /\ Closed(p)' = Closed(p) /\ Renamed(p)' = Renamed(p) /\ MarkedOff(p)' = MarkedOff(p)
  BY <1>1, <1>2, <1>3 DEF Placed, Moved, Attempted, Closed, Renamed, MarkedOff
<1>7. /\ \A l : Comped(p, l)' = Comped(p, l) /\ Voided(p, l)' = Voided(p, l)
      /\ \A q : Ended(p, q)' = Ended(p, q)
  BY <1>1, <1>2 DEF Comped, Voided, Ended
<1>8. Done(p)' = Done(p)
  BY <1>6, <1>7 DEF Done
<1> QED
  BY <1>5, <1>8

(* The invariant is inductive, and what is committed changes by effects.   *)
LEMMA NextKeeps ==
    ASSUME RowInv, [Next]_vars
    PROVE  RowInv' /\ (db' = db \/ Effect)
<1>1. ASSUME UNCHANGED vars PROVE RowInv' /\ db' = db
  <2>1. /\ db' = db /\ own' = own /\ held' = held /\ rest' = rest /\ seen' = seen
        /\ phase' = phase
    BY <1>1 DEF vars
  <2>2. DbOK' /\ TicketsOK' /\ Compatible'
    BY <2>1 DEF RowInv, DbOK, TicketsOK, Compatible
  <2>3. ASSUME NEW p \in Procs PROVE Typed(p)' /\ OnCourse(p)'
    <3>1. Typed(p) /\ OnCourse(p)
      BY DEF RowInv
    <3>2. Typed(p)'
      BY <2>1, <3>1 DEF Typed
    <3>3. IsProgram(p, rest[p])' /\ Op(p)' = Op(p) /\ Row(p)' = Row(p)
      BY <2>1, <3>1 DEF OnCourse, IsProgram, Op, Row
    <3>4. PICK op, row : op = Op(p) /\ row = Row(p)
      OBVIOUS
    <3>5. Done(p)' = Done(p) /\ At(p, op, row)' = At(p, op, row)
      BY <2>1, StutterKeeps
    <3>6. At(p, Op(p), Row(p))' = At(p, Op(p), Row(p))
      BY <3>3, <3>4, <3>5 DEF At
    <3> QED
      BY <2>1, <3>1, <3>2, <3>3, <3>5, <3>6 DEF OnCourse
  <2>5. PlacedOnce'
    BY <2>1 DEF RowInv, PlacedOnce, WillPlace
  <2> QED
    BY <2>1, <2>2, <2>3, <2>5 DEF RowInv, OfProcs
<1>2. CASE Next
  <2>1. CASE AllDone
    BY <1>1, <2>1 DEF AllDone
  <2>2. ASSUME NEW p \in Procs, Begin(p) PROVE RowInv' /\ db' = db
    BY <2>2, BeginKeeps DEF Begin
  <2>3. ASSUME NEW p \in Procs, Proceed(p) PROVE RowInv' /\ (db' = db \/ Effect)
    BY <2>3, ProceedKeeps
  <2> QED
    BY <1>2, <2>1, <2>2, <2>3 DEF Next
<1> QED
  BY <1>1, <1>2

(* The invariant, for any number of requests, lines and tickets.           *)
LEMMA RowInvariance == Spec => []RowInv
<1>1. RowInv /\ [Next]_vars => RowInv'
  BY NextKeeps
<1> QED
  BY InitRows, <1>1, PTL DEF Spec

(* Between commits nobody else sees a thing; a commit is one step on the   *)
(* rows, however many statements led to it and whatever ran between them.  *)
THEOREM CommitsAreEffects == Spec => [][Effect]_db
<1>1. RowInv /\ [Next]_vars => [Effect]_db
  BY NextKeeps
<1> QED
  BY RowInvariance, <1>1, PTL DEF Spec

(* Locks are row locks, what a transaction acts on later is lines, and one *)
(* that does not run holds and has left nothing.                           *)
THEOREM RowsAreTyped == Spec => []TypeOK
<1>1. RowInv => TypeOK
  <2> SUFFICES ASSUME RowInv PROVE TypeOK
    OBVIOUS
  <2>1. \A p \in Procs :
            /\ DOMAIN own[p] \subseteq Rows /\ held[p] \subseteq Rows \X {"S", "X"}
            /\ seen[p] \in SUBSET Lines /\ phase[p] \in {"new", "running", "done"}
            /\ phase[p] # "running" => rest[p] = <<>> /\ held[p] = {}
    BY DEF RowInv, Typed
  <2>2. \A k \in TicketRows : db[k] \in Statuses \cup {"none"}
    BY DEF RowInv, DbOK
  <2>3. seen = [p \in Procs |-> seen[p]] /\ phase = [p \in Procs |-> phase[p]]
    BY DEF RowInv, OfProcs
  <2> QED
    BY <2>1, <2>2, <2>3 DEF TypeOK
<1> QED
  BY RowInvariance, <1>1, PTL

(* A QR a guest can still pay names the account the venue has now: the     *)
(* attempt shares the venue row from reading the account to its commit,    *)
(* and a change of the account looks for attempts with that row locked.    *)
THEOREM QrNamesTheAccount == Spec => []QrIsCurrent
<1>1. Init => QrIsCurrent
  <2> SUFFICES ASSUME Init PROVE QrIsCurrent
    OBVIOUS
  <2>1. \A q \in Procs : db[q] = NoPayment
    BY FirstRows
  <2> QED
    BY <2>1 DEF QrIsCurrent, NoPayment
<1>2. RowInv /\ QrIsCurrent /\ [Next]_vars => QrIsCurrent'
  <2> SUFFICES ASSUME RowInv, QrIsCurrent, Effect PROVE QrIsCurrent'
    BY NextKeeps DEF QrIsCurrent
  <2>1. ASSUME Kept({"venue"} \cup Procs) PROVE QrIsCurrent'
    BY <2>1 DEF QrIsCurrent, Kept
  <2>2. ASSUME NEW k \in TicketRows, PlaceEffect(k) \/ MoveEffect(k) PROVE QrIsCurrent'
    <3>1. k \notin Procs /\ k # "venue" /\ \A l \in LinesOf(k) : l \notin Procs /\ l # "venue"
      BY RowsApart, LinesHaveTickets
    <3>2. {"venue"} \cup Procs \subseteq Rows \ ({k} \cup LinesOf(k))
      BY <3>1, RowsApart
    <3>3. Kept(Rows \ {k}) \/ Kept(Rows \ ({k} \cup LinesOf(k)))
      BY <2>2 DEF PlaceEffect, MoveEffect
    <3>4. Kept({"venue"} \cup Procs)
      BY <3>2, <3>3 DEF Kept
    <3> QED
      BY <2>1, <3>4
  <2>3. ASSUME NEW q \in Procs, NEW status, AttemptEffect(q, status) PROVE QrIsCurrent'
    <3>1. /\ db'["venue"] = db["venue"] /\ \A r \in Procs \ {q} : db'[r] = db[r]
          /\ db'[q].account = db["venue"]
      BY <2>3, RowsApart DEF AttemptEffect, Kept
    <3> QED
      BY <3>1 DEF QrIsCurrent
  <2>4. ASSUME NEW q \in Procs, EndEffect(q) PROVE QrIsCurrent'
    <3>1. PICK status \in {"completed", "cancelled"}, row \in Payment :
              row = db[q] /\ db'[q] = [row EXCEPT !.status = status]
      BY <2>4, RowsTyped DEF EndEffect, DbOK
    <3>2. db'[q].status # "pending"
      BY <3>1 DEF Payment
    <3>3. db'["venue"] = db["venue"] /\ \A r \in Procs \ {q} : db'[r] = db[r]
      BY <2>4, RowsApart DEF EndEffect, Kept
    <3> QED
      BY <3>2, <3>3 DEF QrIsCurrent
  <2>5. ASSUME NEW l \in Lines, CompEffect(l) \/ VoidEffect(l) PROVE QrIsCurrent'
    <3>1. Kept({"venue"} \cup Procs)
      BY <2>5, RowsApart, LinesHaveTickets DEF CompEffect, VoidEffect, Kept
    <3> QED
      BY <2>1, <3>1
  <2>6. CASE RenameEffect
    BY <2>6, RowsApart DEF RenameEffect, NoneInFlight, QrIsCurrent, Kept
  <2>7. CASE CloseEffect \/ MarkEffect \/ SweepEffect
    <3>1. Kept({"venue"} \cup Procs)
      BY <2>7, RowsApart DEF CloseEffect, MarkEffect, SweepEffect, Kept
    <3> QED
      BY <2>1, <3>1
  <2> QED
    BY <2>2, <2>3, <2>4, <2>5, <2>6, <2>7 DEF Effect
<1> QED
  BY RowInvariance, <1>1, <1>2, PTL DEF Spec

(* After an 86 no unstarted line of the item is left on a live tab, not    *)
(* even from an order placed meanwhile: an order shares the menu row until *)
(* its lines are committed, so the 86 either finds them or is seen by it.  *)
THEOREM SoldOutLeavesNothing == Spec => []SoldOutReachesAll
<1> DEFINE Reached == db["menu"] = "off" /\ db["visit"] # "closed"
                          => SomePayment \/ UnstartedLines = {}
<1>1. Init => Reached
  <2> SUFFICES ASSUME Init PROVE db["menu"] = "on"
    OBVIOUS
  <2> QED
    BY FirstRows
<1>2. RowInv /\ Reached /\ [Next]_vars => Reached'
  <2> SUFFICES ASSUME RowInv, Reached, Effect PROVE Reached'
    BY NextKeeps DEF SomePayment, UnstartedLines
  <2>1. ASSUME db'["menu"] = db["menu"], db'["visit"] = db["visit"], SomePayment => SomePayment',
               UnstartedLines' \subseteq UnstartedLines
        PROVE  Reached'
    BY <2>1
  <2>2. ASSUME NEW k \in TicketRows, PlaceEffect(k) PROVE Reached'
    <3>1. db'["menu"] = "on"
      BY <2>2, RowsApart, LinesHaveTickets DEF PlaceEffect, Kept
    <3> QED
      BY <3>1
  <2>3. ASSUME NEW k \in TicketRows, MoveEffect(k) PROVE Reached'
    <3>1. /\ db'["menu"] = db["menu"] /\ db'["visit"] = db["visit"]
          /\ (\A q \in Procs : db'[q] = db[q]) /\ (\A l \in Lines : db'[l] = db[l])
          /\ \A j \in TicketRows : db'[j] = "pending" => db[j] = "pending"
      BY <2>3, RowsApart DEF MoveEffect, Kept
    <3>2. (SomePayment => SomePayment') /\ UnstartedLines' \subseteq UnstartedLines
      BY <3>1, LinesHaveTickets DEF SomePayment, UnstartedLines
    <3> QED
      BY <2>1, <3>1, <3>2
  <2>4. ASSUME NEW q \in Procs, NEW status \in {"pending", "completed"}, AttemptEffect(q, status)
        PROVE  Reached'
    <3>1. db'[q].status = status /\ NoPayment.status = "none"
      BY <2>4 DEF AttemptEffect, NoPayment
    <3>2. SomePayment'
      BY <3>1 DEF SomePayment
    <3> QED
      BY <3>2
  <2>5. ASSUME NEW q \in Procs, EndEffect(q) PROVE Reached'
    <3>1. PICK status \in {"completed", "cancelled"}, row \in Payment :
              row = db[q] /\ db'[q] = [row EXCEPT !.status = status]
      BY <2>5, RowsTyped DEF EndEffect, DbOK
    <3>2. db'[q].status = status /\ NoPayment.status = "none"
      BY <3>1 DEF Payment, NoPayment
    <3>3. SomePayment'
      BY <3>2 DEF SomePayment
    <3> QED
      BY <3>3
  <2>6. CASE CloseEffect
    BY <2>6 DEF CloseEffect
  <2>7. ASSUME NEW l \in Lines, CompEffect(l) \/ VoidEffect(l) PROVE Reached'
    <3>1. /\ db'["menu"] = db["menu"] /\ db'["visit"] = db["visit"]
          /\ (\A q \in Procs : db'[q] = db[q])
      BY <2>7, RowsApart, LinesHaveTickets DEF CompEffect, VoidEffect, Kept
    <3>2. \A m \in Lines : db'[m] = "active" => db[m] = "active"
      BY <2>7, RowsApart, LinesHaveTickets DEF CompEffect, VoidEffect, Kept
    <3>3. \A k \in TicketRows : db'[k] = "pending" => db[k] = "pending"
      BY <2>7, RowsApart, LinesHaveTickets DEF CompEffect, VoidEffect, Kept
    <3>4. (SomePayment => SomePayment') /\ UnstartedLines' \subseteq UnstartedLines
      BY <3>1, <3>2, <3>3, LinesHaveTickets DEF SomePayment, UnstartedLines
    <3> QED
      BY <2>1, <3>1, <3>4
  <2>8. CASE RenameEffect
    <3>1. /\ db'["menu"] = db["menu"] /\ db'["visit"] = db["visit"]
          /\ (\A q \in Procs : db'[q] = db[q]) /\ (\A l \in Lines : db'[l] = db[l])
          /\ \A j \in TicketRows : db'[j] = db[j]
      BY <2>8, RowsApart DEF RenameEffect, Kept
    <3>2. (SomePayment => SomePayment') /\ UnstartedLines' \subseteq UnstartedLines
      BY <3>1, LinesHaveTickets DEF SomePayment, UnstartedLines
    <3> QED
      BY <2>1, <3>1, <3>2
  <2>9. CASE MarkEffect
    <3>1. /\ db'["visit"] = db["visit"]
          /\ (\A q \in Procs : db'[q] = db[q]) /\ (\A l \in Lines : db'[l] = db[l])
          /\ \A j \in TicketRows : db'[j] = db[j]
      BY <2>9, RowsApart DEF MarkEffect, Kept
    <3>2. (SomePayment => SomePayment') /\ UnstartedLines' \subseteq UnstartedLines
      BY <3>1, LinesHaveTickets DEF SomePayment, UnstartedLines
    <3> QED
      BY <2>9, <3>1, <3>2 DEF MarkEffect
  <2>10. CASE SweepEffect
    <3>1. UnstartedLines' = {}
      BY <2>10, LinesHaveTickets DEF SweepEffect, UnstartedLines
    <3> QED
      BY <3>1
  <2> QED
    BY <2>2, <2>3, <2>4, <2>5, <2>6, <2>7, <2>8, <2>9, <2>10 DEF Effect
<1>3. Reached => SoldOutReachesAll
  BY DEF SoldOutReachesAll, SomePayment, UnstartedLines
<1> QED
  BY RowInvariance, <1>1, <1>2, <1>3, PTL DEF Spec

-------------------------------------------------------------------------------
(* Deadlocks.                                                              *)

(* A statement that waits belongs to a running transaction, at its step.   *)
LEMMA WaiterIs ==
    ASSUME RowInv, NEW p \in Procs, NEW q \in Procs, WaitsFor(p, q)
    PROVE  /\ p # q /\ Head(rest[p]) \in StepsOf(p) /\ At(p, Op(p), Row(p))
           /\ Typed(p) /\ Typed(q)
           /\ \E need \in Needs(p), lock \in held[q] :
                 need[1] = lock[1] /\ "X" \in {need[2], lock[2]}
<1>1. rest[p] # <<>> /\ p # q
  BY DEF WaitsFor, Running
<1>2. IsProgram(p, rest[p]) /\ At(p, Op(p), Row(p)) /\ Typed(p) /\ Typed(q)
  BY <1>1 DEF RowInv, OnCourse
<1>3. Head(rest[p]) \in StepsOf(p)
  BY <1>1, <1>2, TailIsProgram
<1> QED
  BY <1>1, <1>2, <1>3 DEF WaitsFor

(* Somebody in the cycle waits for each of its members.                    *)
LEMMA CyclesClose ==
    ASSUME NEW p \in Procs, Deadlocked(p)
    PROVE  /\ \E q \in Procs : WaitsFor(p, q)
           /\ \E r \in Procs : Deadlocked(r) /\ WaitsFor(r, p)
<1> DEFINE Holds(S) == \A q \in S \cup {p}, r \in Procs : WaitsFor(q, r) => r \in S
           Reach == {x \in Procs : \A S \in SUBSET Procs : Holds(S) => x \in S}
<1>0. \A S \in SUBSET Procs : Holds(S) => p \in S
  BY DEF Deadlocked
<1>1. p \in Reach
  BY <1>0
<1>2. \A q \in Reach \cup {p}, r \in Procs : WaitsFor(q, r) => r \in Reach
  OBVIOUS
<1>3. \E q \in Procs : WaitsFor(p, q)
  <2> SUFFICES ASSUME \A q \in Procs : ~WaitsFor(p, q) PROVE FALSE
    OBVIOUS
  <2>1. Holds({}) /\ {} \in SUBSET Procs
    OBVIOUS
  <2> HIDE DEF Holds
  <2>2. p \in {}
    BY <1>0, <2>1
  <2> QED
    BY <2>2
<1>4. PICK r \in Reach : WaitsFor(r, p)
  <2> SUFFICES ASSUME \A r \in Reach : ~WaitsFor(r, p) PROVE FALSE
    OBVIOUS
  <2>1. Holds(Reach \ {p})
    BY <1>1, <1>2
  <2> QED
    BY <1>1, <2>1
<1>5. Deadlocked(r)
  <2> SUFFICES ASSUME NEW S \in SUBSET Procs,
                      \A q \in S \cup {r}, x \in Procs : WaitsFor(q, x) => x \in S
               PROVE  r \in S
    BY DEF Deadlocked
  <2>1. p \in S
    BY <1>4
  <2>2. Holds(S)
    BY <2>1
  <2> QED
    BY <2>2
<1> QED
  BY <1>3, <1>4, <1>5

(* Menu locks are a transaction's first.                                   *)
LEMMA MenuIsFirst ==
    ASSUME RowInv, NEW p \in Procs, Head(rest[p]) \in StepsOf(p),
           NEW need \in Needs(p), need[1] = "menu"
    PROVE  Op(p) \in Firsts
<1>1. CASE Row(p) = "menu"
  <2>1. Op(p) \in OfMenu
    BY <1>1, RowsApart DEF StepsOf, Op, Row
  <2>2. Op(p) # "findLines"
    BY DEF Needs
  <2> QED
    BY <2>1, <2>2 DEF OfMenu, Firsts
<1>2. CASE Row(p) # "menu"
  <2>1. CASE Op(p) = "lockPayments"
    <3>1. PICK q \in Procs : need = <<q, "X">>
      BY <2>1 DEF Needs
    <3> QED
      BY <3>1, RowsApart
  <2>2. CASE Op(p) # "lockPayments"
    <3>1. need \in {<<Row(p), "S">>, <<Row(p), "X">>, <<"visit", "X">>}
      BY <2>2 DEF Needs
    <3> QED
      BY <1>2, <3>1
  <2> QED
    BY <2>1, <2>2
<1> QED
  BY <1>1, <1>2

(* But for an adjustment at its visit, a transaction in a cycle has the    *)
(* visit: what else it could hold, nobody who holds anything asks for.     *)
LEMMA HoldsTheVisit ==
    ASSUME RowInv, NEW p \in Procs, NEW q \in Procs, NEW r \in Procs, Op(p) # "lockAdjustable",
           WaitsFor(p, q), WaitsFor(r, p), held[r] # {}
    PROVE  VisitX \in held[p]
<1>1. /\ p # q /\ Head(rest[p]) \in StepsOf(p) /\ At(p, Op(p), Row(p)) /\ Typed(p) /\ Typed(q)
      /\ \E need \in Needs(p), lock \in held[q] : need[1] = lock[1] /\ "X" \in {need[2], lock[2]}
  BY WaiterIs
<1>2. /\ Head(rest[r]) \in StepsOf(r) /\ At(r, Op(r), Row(r))
      /\ \E need \in Needs(r), lock \in held[p] : need[1] = lock[1] /\ "X" \in {need[2], lock[2]}
  BY WaiterIs
<1>3. Op(r) \notin Firsts
  BY <1>2 DEF At
<1>4. \E lock \in held[p] : lock[1] # "menu"
  BY <1>2, <1>3, MenuIsFirst
<1>5. Op(p) \notin Firsts \cup {"claim", "findLines", "lockIfLive"}
  BY <1>1, <1>4 DEF At, MenuS, MenuX
<1>6. Op(p) # "noneInFlight"
  BY <1>1 DEF Needs
<1>7. Op(p) # "saveAccount"
  <2> SUFFICES ASSUME Op(p) = "saveAccount" PROVE FALSE
    OBVIOUS
  <2>1. Row(p) = "venue" /\ VenueX \in held[p]
    BY <1>1 DEF At, StepsOf, Op, Row, OfMenu, OfVisit, OfVenue, OfTicket, OfLine, Inserts
  <2>2. Needs(p) = {VenueX}
    BY <2>1 DEF Needs, VenueX
  <2>3. PICK lock \in held[q] : lock[1] = "venue"
    BY <1>1, <2>2 DEF VenueX
  <2>4. lock = <<"venue", lock[2]>> /\ lock[2] \in {"S", "X"}
    BY <1>1, <2>3 DEF Typed
  <2> QED
    BY <1>1, <2>1, <2>3, <2>4, RowsApart DEF RowInv, Compatible, VenueX
<1>8. CASE Op(p) \in {"insertOrder", "noPending", "readTotals", "readCovered", "shareVenue",
                      "closeVisit", "lockPayments", "voidLine", "compLine", "anyActive",
                      "cancelTicket", "skipIfPending"} \cup Inserts
  BY <1>1, <1>8 DEF At, Inserts
<1>9. CASE Op(p) \in Sweeps
  BY <1>1, <1>9 DEF At, Sweeps, OnTicket, Swept
<1>10. Op(p) \in OfMenu \cup OfVisit \cup OfVenue \cup OfTicket \cup OfLine \cup {"settle", "drop"}
                 \cup Inserts
  BY <1>1 DEF StepsOf, Op
<1> QED
  BY <1>5, <1>6, <1>7, <1>8, <1>9, <1>10
     DEF Firsts, OfMenu, OfVisit, OfVenue, OfTicket, OfLine, Sweeps, Inserts

(* Whatever requests run at once, a cycle of transactions that wait for    *)
(* each other has an adjustment in it that holds its line and waits for    *)
(* the visit: every other transaction of a cycle would hold the visit row, *)
(* which only one can.  Menu, visit, ticket is an order without cycles.    *)
THEOREM OnlyLineBeforeVisitDeadlocks == Spec => []OnlyAdjustmentsDeadlock
<1>1. RowInv => OnlyAdjustmentsDeadlock
  <2> SUFFICES ASSUME RowInv, NEW p \in Procs, Deadlocked(p),
                      \A x \in Procs : Deadlocked(x) => Op(x) # "lockAdjustable"
               PROVE  FALSE
    BY DEF OnlyAdjustmentsDeadlock
  <2>1. ASSUME NEW x \in Procs, Deadlocked(x) PROVE held[x] # {}
    BY <2>1, CyclesClose DEF WaitsFor
  <2>2. ASSUME NEW x \in Procs, Deadlocked(x) PROVE VisitX \in held[x]
    <3>1. PICK y \in Procs, z \in Procs : WaitsFor(x, y) /\ WaitsFor(z, x) /\ Deadlocked(z)
      BY <2>2, CyclesClose
    <3> QED
      BY <2>1, <2>2, <3>1, HoldsTheVisit
  <2>3. PICK r \in Procs : Deadlocked(r) /\ WaitsFor(r, p)
    BY CyclesClose
  <2>4. VisitX \in held[p] /\ VisitX \in held[r] /\ p # r
    BY <2>2, <2>3 DEF WaitsFor
  <2> QED
    BY <2>4, RowsApart DEF RowInv, Compatible, VisitX
<1> QED
  BY RowInvariance, <1>1, PTL

-------------------------------------------------------------------------------
(* The committed rows as a bill.  The lemmas of BillingProofs hold of any  *)
(* instance of Billing, this one included.                                 *)

BillP == INSTANCE BillingProofs WITH
    Visits <- {TheVisit}, Orders <- TicketRows, Items <- {"menu"}, Payments <- Procs,
    OrderOf <- TicketRowOf, ItemOf <- MenuOfLines, SeatKind <- SeatOfVisits, NoVisit <- "none",
    FoodLines <- {}, ChargeLines <- {}, FreeLines <- {},
    visit <- VisitOfRows, orderVisit <- OrderVisitOfRows, line <- LineOfRows,
    bucket <- BucketOfRows, ticket <- TicketOfRows,
    payStatus <- StatusOfRows, payVisit <- PayVisitOfRows, payOrders <- PayOrdersOfRows,
    payLines <- PayLinesOfRows, available <- AvailableOfRows, kitchenOn <- FALSE

(* A part of the bill changes only with the rows it is read from.          *)
LEMMA PartsKept ==
    /\ db'["visit"] = db["visit"] => VisitOfRows' = VisitOfRows
    /\ db'["menu"] = db["menu"] => AvailableOfRows' = AvailableOfRows
    /\ (\A k \in TicketRows : db'[k] = db[k]) =>
           OrderVisitOfRows' = OrderVisitOfRows /\ TicketOfRows' = TicketOfRows
    /\ (\A k \in TicketRows : db'[k] = "none" <=> db[k] = "none") =>
           OrderVisitOfRows' = OrderVisitOfRows
    /\ (\A l \in Lines : db'[l] = db[l]) =>
           LineOfRows' = LineOfRows /\ BucketOfRows' = BucketOfRows
    /\ (\A l \in Lines : db'[l] = "none" <=> db[l] = "none") => BucketOfRows' = BucketOfRows
    /\ (\A q \in Procs : db'[q] = db[q]) =>
           /\ StatusOfRows' = StatusOfRows /\ PayVisitOfRows' = PayVisitOfRows
           /\ PayOrdersOfRows' = PayOrdersOfRows /\ PayLinesOfRows' = PayLinesOfRows
<1>1. db'["visit"] = db["visit"] => VisitOfRows' = VisitOfRows
  BY DEF VisitOfRows
<1>2. db'["menu"] = db["menu"] => AvailableOfRows' = AvailableOfRows
  BY DEF AvailableOfRows
<1>3. (\A k \in TicketRows : db'[k] = "none" <=> db[k] = "none") =>
           OrderVisitOfRows' = OrderVisitOfRows
  BY DEF OrderVisitOfRows, If
<1>4. (\A k \in TicketRows : db'[k] = db[k]) => TicketOfRows' = TicketOfRows
  BY DEF TicketOfRows
<1>5. (\A l \in Lines : db'[l] = "none" <=> db[l] = "none") => BucketOfRows' = BucketOfRows
  BY DEF BucketOfRows, If
<1>6. (\A l \in Lines : db'[l] = db[l]) => LineOfRows' = LineOfRows
  BY DEF LineOfRows
<1>7. (\A q \in Procs : db'[q] = db[q]) =>
           /\ StatusOfRows' = StatusOfRows /\ PayVisitOfRows' = PayVisitOfRows
           /\ PayOrdersOfRows' = PayOrdersOfRows /\ PayLinesOfRows' = PayLinesOfRows
  BY DEF StatusOfRows, PayVisitOfRows, PayOrdersOfRows, PayLinesOfRows
<1> QED
  BY <1>1, <1>2, <1>3, <1>4, <1>5, <1>6, <1>7

(* The tickets of this instance.                                           *)
LEMMA TicketsAre == BillP!Tickets = TicketRows \X Buckets
BY DEF BillP!Tickets, BillP!Buckets, Buckets

(* What Billing reads of the rows.                                         *)
LEMMA BillReads ==
    ASSUME DbOK, TicketsOK
    PROVE  /\ BillP!IsLive("visit") <=> Live
           /\ BillP!PendingOnVisit("visit") <=> ~NoneInFlight
           /\ BillP!PaidOnVisit("visit") <=> \E q \in Procs : db[q].status = "completed"
           /\ \A k \in TicketRows : BillP!LinesOf(k) = LinesOf(k)
           /\ \A k \in TicketRows : BillP!Covered(k) <=> k \in Paid
           /\ \A l \in Lines : db[l] # "none" =>
                 BillP!VisitOf(l) = "visit" /\ BillP!TicketOf(l) = <<TicketRowOf[l], "bar">>
           /\ \A k \in TicketRows : db[k] # "none" => BillP!LinesOn(<<k, "bar">>) = LinesOf(k)
           /\ \A k \in TicketRows, b \in Buckets : b # "bar" => BillP!LinesOn(<<k, b>>) = {}
           /\ \A S : BillP!Billable(S) = {l \in Active : TicketRowOf[l] \in S}
<1> USE DEF TheVisit
<1>1. BillP!IsLive("visit") <=> Live
  BY DEF BillP!IsLive, BillP!LiveStates, VisitOfRows, Live
<1>2. BillP!PendingOnVisit("visit") <=> ~NoneInFlight
  BY DEF BillP!PendingOnVisit, StatusOfRows, PayVisitOfRows, NoneInFlight
<1>3. BillP!PaidOnVisit("visit") <=> \E q \in Procs : db[q].status = "completed"
  BY DEF BillP!PaidOnVisit, StatusOfRows, PayVisitOfRows
<1>4. \A k \in TicketRows : BillP!LinesOf(k) = LinesOf(k)
  BY DEF BillP!LinesOf, LinesOf
<1>5. \A k \in TicketRows : BillP!Covered(k) <=> k \in Paid
  BY DEF BillP!Covered, StatusOfRows, PayOrdersOfRows, Paid
<1>6. \A l \in Lines : db[l] # "none" =>
          /\ BillP!VisitOf(l) = "visit"
          /\ BillP!TicketOf(l) = <<TicketRowOf[l], "bar">> /\ BucketOfRows[l] = "bar"
  BY LinesHaveTickets
     DEF BillP!VisitOf, BillP!TicketOf, OrderVisitOfRows, BucketOfRows, If, TicketsOK
<1>7. \A l \in Lines : db[l] = "none" => BucketOfRows[l] = "none"
  BY DEF BucketOfRows, If
<1>8. \A k \in TicketRows : db[k] # "none" => BillP!LinesOn(<<k, "bar">>) = LinesOf(k)
  BY <1>6, <1>7, LinesHaveTickets DEF BillP!LinesOn, TicketsOK
<1>9. \A k \in TicketRows, b \in Buckets : b # "bar" => BillP!LinesOn(<<k, b>>) = {}
  BY <1>6, <1>7 DEF BillP!LinesOn
<1>10. \A S : BillP!Billable(S) = {l \in Active : TicketRowOf[l] \in S}
  BY DEF BillP!Billable, LineOfRows, Active
<1> QED
  BY <1>1, <1>2, <1>3, <1>4, <1>5, <1>6, <1>8, <1>9, <1>10

(* A committed order is Billing's.                                         *)
LEMMA PlaceBills ==
    ASSUME DbOK, TicketsOK, NEW k \in TicketRows, PlaceEffect(k)
    PROVE  BillP!PlaceOrder(k, "visit")
<1> USE DEF TheVisit
<1>1. /\ Live /\ db["menu"] = "on" /\ db[k] = "none" /\ db["visit"] = "active"
      /\ \A l \in LinesOf(k) : db[l] = "none"
  BY DEF PlaceEffect, DbOK, TicketsOK, Live
<1>2. /\ db'["visit"] = "active" /\ db'["menu"] = db["menu"]
      /\ \A q \in Procs : db'[q] = db[q]
      /\ \A j \in TicketRows : db'[j] = IF j = k THEN "pending" ELSE db[j]
      /\ \A l \in Lines : db'[l] = IF l \in LinesOf(k) THEN "active" ELSE db[l]
  BY <1>1, RowsApart, LinesHaveTickets DEF PlaceEffect, Kept
<1>3. BillP!LinesOf(k) = LinesOf(k) /\ BillP!IsLive("visit")
  BY <1>1, BillReads
<1>4. BillP!CanPlace(k)
  <2>1. OrderVisitOfRows[k] = "none"
    BY <1>1 DEF OrderVisitOfRows, If
  <2>2. \A l \in LinesOf(k) : AvailableOfRows[MenuOfLines[l]]
    BY <1>1, LinesHaveTickets DEF AvailableOfRows, MenuOfLines
  <2> QED
    BY <2>1, <2>2, <1>3, LinesHaveTickets DEF BillP!CanPlace
<1>5. VisitOfRows' = [VisitOfRows EXCEPT !["visit"] = "active"]
  BY <1>1, <1>2 DEF VisitOfRows
<1>6. BillP!InsertOrder(k, "visit")
  <2>1. \A l \in Lines : BillP!BucketFor(l \in {}, l \in {}, FALSE) = "bar"
    BY DEF BillP!BucketFor
  <2>2. OrderVisitOfRows' = [OrderVisitOfRows EXCEPT ![k] = "visit"]
    BY <1>2 DEF OrderVisitOfRows, If
  <2>3. LineOfRows' = [l \in Lines |-> IF l \in LinesOf(k) THEN "active" ELSE LineOfRows[l]]
    BY <1>2 DEF LineOfRows
  <2>4. BucketOfRows' = [l \in Lines |-> IF l \in LinesOf(k) THEN "bar" ELSE BucketOfRows[l]]
    BY <1>2 DEF BucketOfRows, If
  <2>5. BillP!FirstStatus("bar") = "pending"
    BY DEF BillP!FirstStatus
  <2>6. TicketOfRows' = [j \in BillP!Tickets |->
                            IF \E l \in LinesOf(k) : j = <<k, "bar">> THEN BillP!FirstStatus(j[2])
                            ELSE TicketOfRows[j]]
    BY <1>2, <2>5, TicketsAre, LinesHaveTickets DEF TicketOfRows
  <2> HIDE DEF BillP!Tickets, BillP!FirstStatus
  <2>7. LinesOf(k) \subseteq Lines
    BY LinesHaveTickets
  <2> QED
    BY <1>3, <2>1, <2>2, <2>3, <2>4, <2>6, <2>7 DEF BillP!InsertOrder
<1> QED
  BY <1>2, <1>3, <1>4, <1>5, <1>6, PartsKept
     DEF BillP!PlaceOrder, BillP!payVars, BillP!menuVars

(* A committed cook's step is Billing's.                                   *)
LEMMA MoveBills ==
    ASSUME DbOK, TicketsOK, NEW k \in TicketRows, MoveEffect(k)
    PROVE  BillP!Accept(<<k, "bar">>) \/ BillP!Send(<<k, "bar">>)
<1> USE DEF TheVisit
<1>1. PICK status : /\ db'[k] = status
                    /\ \/ status = "accepted" /\ CanAccept(db[k])
                       \/ status = "sent" /\ CanSend(db[k], FALSE)
  BY DEF MoveEffect
<1>2. status # "none" /\ db[k] # "none"
  BY <1>1 DEF CanAccept, CanSend
<1>3. /\ db'["visit"] = db["visit"] /\ db'["menu"] = db["menu"]
      /\ (\A q \in Procs : db'[q] = db[q]) /\ (\A l \in Lines : db'[l] = db[l])
      /\ \A j \in TicketRows : db'[j] = IF j = k THEN status ELSE db[j]
      /\ \A j \in TicketRows : db'[j] = "none" <=> db[j] = "none"
  BY <1>1, <1>2, RowsApart DEF MoveEffect, Kept
<1>4. TicketOfRows' = [TicketOfRows EXCEPT ![<<k, "bar">>] = status]
  <2>1. TicketOfRows' = [j \in TicketRows \X Buckets |->
                            IF j = <<k, "bar">> THEN status ELSE TicketOfRows[j]]
    BY <1>3 DEF TicketOfRows
  <2>2. TicketOfRows = [j \in TicketRows \X Buckets |-> TicketOfRows[j]]
    BY DEF TicketOfRows
  <2> QED
    BY <2>1, <2>2
<1>5. BillP!SetTicket(<<k, "bar">>, status)
  BY <1>3, <1>4, PartsKept DEF BillP!SetTicket, BillP!payVars, BillP!menuVars
<1>6. TicketOfRows[<<k, "bar">>] = db[k]
  BY DEF TicketOfRows, Buckets
<1>7. BillP!ReadyStep(<<k, "bar">>) = FALSE
  BY DEF BillP!ReadyStep, BillP!ReadyStepApplies
<1> QED
  BY <1>1, <1>5, <1>6, <1>7
     DEF BillP!Accept, BillP!Send, BillP!CanAccept, BillP!CanSend, CanAccept, CanSend

(* A committed attempt is Billing's: it takes all that is due then.        *)
LEMMA AttemptBills ==
    ASSUME DbOK, TicketsOK, NEW q \in Procs, NEW status \in {"pending", "completed"},
           AttemptEffect(q, status)
    PROVE  BillP!CreatePayment(q, "visit", status)
<1> USE DEF TheVisit
<1>1. /\ Live /\ NoneInFlight /\ Due # {} /\ db[q].status = "none"
      /\ db'[q].status = status /\ db'[q].orders = {TicketRowOf[l] : l \in Due}
      /\ db'[q].lines = Due
  BY DEF AttemptEffect, NoPayment
<1>2. /\ db'["visit"] = db["visit"] /\ db'["menu"] = db["menu"]
      /\ (\A r \in Procs \ {q} : db'[r] = db[r]) /\ (\A l \in Lines : db'[l] = db[l])
      /\ \A k \in TicketRows : db'[k] = db[k]
  BY RowsApart DEF AttemptEffect, Kept
<1>3. BillP!IsLive("visit") /\ ~BillP!PendingOnVisit("visit")
  BY <1>1, BillReads
<1>4. BillP!Uncovered("visit") = {TicketRowOf[l] : l \in Due}
  <2>1. \A k \in TicketRows : BillP!Billable({k}) = {l \in Active : TicketRowOf[l] = k}
    BY BillReads
  <2>2. \A k \in TicketRows : OrderVisitOfRows[k] = "visit" <=> db[k] # "none"
    BY DEF OrderVisitOfRows, If
  <2>3. \A l \in Active : TicketRowOf[l] \in TicketRows /\ db[TicketRowOf[l]] # "none"
    BY LinesHaveTickets DEF Active, TicketsOK
  <2>4. \A k \in TicketRows :
            k \in BillP!Uncovered("visit") <=> \E l \in Active : TicketRowOf[l] = k /\ k \notin Paid
    BY <2>1, <2>2, <2>3, BillReads DEF BillP!Uncovered
  <2>5. BillP!Uncovered("visit") \subseteq TicketRows
    BY DEF BillP!Uncovered
  <2> QED
    BY <2>3, <2>4, <2>5 DEF Due
<1>5. BillP!Billable(BillP!Uncovered("visit")) = Due
  BY <1>4, BillReads DEF Due
<1>6. StatusOfRows[q] = "none" /\ BillP!Uncovered("visit") # {}
  BY <1>1, <1>4 DEF StatusOfRows
<1>7. /\ StatusOfRows' = [StatusOfRows EXCEPT ![q] = status]
      /\ PayVisitOfRows' = [PayVisitOfRows EXCEPT ![q] = "visit"]
      /\ PayOrdersOfRows' = [PayOrdersOfRows EXCEPT ![q] = {TicketRowOf[l] : l \in Due}]
      /\ PayLinesOfRows' = [PayLinesOfRows EXCEPT ![q] = Due]
  BY <1>1, <1>2 DEF StatusOfRows, PayVisitOfRows, PayOrdersOfRows, PayLinesOfRows
<1> QED
  BY <1>2, <1>3, <1>4, <1>5, <1>6, <1>7, PartsKept
     DEF BillP!CreatePayment, BillP!InsertAttempt, BillP!orderVars, BillP!menuVars

(* A committed end of a payment is Billing's.                              *)
LEMMA EndBills ==
    ASSUME DbOK, NEW q \in Procs, EndEffect(q)
    PROVE  BillP!SettlePayment(q) \/ BillP!DropPayment(q)
<1> USE DEF TheVisit
<1>1. PICK status \in {"completed", "cancelled"}, row \in Payment :
          row = db[q] /\ db'[q] = [row EXCEPT !.status = status] /\ row.status = "pending"
  BY DEF EndEffect, DbOK
<1>2. /\ db'[q].status = status /\ db'[q].orders = db[q].orders /\ db'[q].lines = db[q].lines
      /\ db[q].status = "pending"
  BY <1>1 DEF Payment
<1>3. /\ db'["visit"] = db["visit"] /\ db'["menu"] = db["menu"]
      /\ (\A r \in Procs \ {q} : db'[r] = db[r]) /\ (\A l \in Lines : db'[l] = db[l])
      /\ \A k \in TicketRows : db'[k] = db[k]
  BY RowsApart DEF EndEffect, Kept
<1>4. /\ StatusOfRows[q] = "pending" /\ StatusOfRows' = [StatusOfRows EXCEPT ![q] = status]
      /\ PayVisitOfRows' = PayVisitOfRows /\ PayOrdersOfRows' = PayOrdersOfRows
      /\ PayLinesOfRows' = PayLinesOfRows
  BY <1>2, <1>3 DEF StatusOfRows, PayVisitOfRows, PayOrdersOfRows, PayLinesOfRows
<1> QED
  BY <1>3, <1>4, PartsKept
     DEF BillP!SettlePayment, BillP!DropPayment, BillP!orderVars, BillP!menuVars

(* A committed close is Billing's.                                         *)
LEMMA CloseBills ==
    ASSUME DbOK, TicketsOK, CloseEffect
    PROVE  BillP!CloseVisit("visit")
<1> USE DEF TheVisit
<1>1. /\ db'["visit"] = "closed" /\ db'["menu"] = db["menu"]
      /\ (\A q \in Procs : db'[q] = db[q]) /\ (\A l \in Lines : db'[l] = db[l])
      /\ \A k \in TicketRows : db'[k] = db[k]
  BY RowsApart DEF CloseEffect, Kept
<1>2. BillP!IsLive("visit") /\ ~BillP!PendingOnVisit("visit")
  BY BillReads DEF CloseEffect
<1>3. VisitOfRows' = [VisitOfRows EXCEPT !["visit"] = "closed"]
  BY <1>1 DEF VisitOfRows
<1> QED
  BY <1>1, <1>2, <1>3, PartsKept
     DEF BillP!CloseVisit, BillP!orderVars, BillP!payVars, BillP!menuVars

(* What a void or comp checked is what Billing asks for.                   *)
LEMMA MayAdjustBills ==
    ASSUME DbOK, TicketsOK, NEW l \in Lines, MayAdjust(l)
    PROVE  BillP!Adjustable(l)
<1>1. LineOfRows[l] = "active" /\ BillP!VisitOf(l) = "visit"
  BY BillReads DEF MayAdjust, LineOfRows
<1>2. Live /\ NoneInFlight /\ ~\E q \in Procs : db[q].status = "completed"
  BY DEF MayAdjust, NoneMoving, NoneInFlight
<1> QED
  BY <1>1, <1>2, BillReads DEF BillP!Adjustable

(* A committed comp is Billing's.                                          *)
LEMMA CompBills ==
    ASSUME DbOK, TicketsOK, NEW l \in Lines, CompEffect(l)
    PROVE  BillP!CompItem(l)
<1>1. /\ db'["visit"] = db["visit"] /\ db'["menu"] = db["menu"]
      /\ (\A q \in Procs : db'[q] = db[q]) /\ (\A k \in TicketRows : db'[k] = db[k])
      /\ \A m \in Lines : db'[m] = IF m = l THEN "comp" ELSE db[m]
      /\ db[l] = "active"
  BY RowsApart DEF CompEffect, Kept, MayAdjust
<1>2. LineOfRows' = [LineOfRows EXCEPT ![l] = "comp"]
  BY <1>1 DEF LineOfRows
<1>3. \A m \in Lines : db'[m] = "none" <=> db[m] = "none"
  BY <1>1
<1>4. BillP!Adjustable(l)
  BY MayAdjustBills DEF CompEffect
<1> QED
  BY <1>1, <1>2, <1>3, <1>4, PartsKept DEF BillP!CompItem, BillP!payVars, BillP!menuVars

(* Voiding lines, with the tickets they leave empty.                       *)
LEMMA VoidsBill ==
    ASSUME DbOK, TicketsOK, NEW S \in SUBSET Lines, \A l \in S : db[l] = "active",
           \A l \in Lines : db'[l] = IF l \in S THEN "void" ELSE db[l],
           \A k \in TicketRows :
              db'[k] = IF S \cap LinesOf(k) # {} /\ \A l \in LinesOf(k) : db'[l] = "void"
                       THEN "cancelled" ELSE db[k]
    PROVE  /\ BillP!VoidLines(S) /\ BucketOfRows' = BucketOfRows
           /\ OrderVisitOfRows' = OrderVisitOfRows
<1>1. LineOfRows' = [l \in Lines |-> IF l \in S THEN "void" ELSE LineOfRows[l]]
  BY DEF LineOfRows
<1>2. \A l \in S : BillP!TicketOf(l) = <<TicketRowOf[l], "bar">> /\ db[TicketRowOf[l]] # "none"
  BY BillReads, LinesHaveTickets DEF TicketsOK
<1>3. \A l \in Lines : LineOfRows[l] = db[l]
  BY DEF LineOfRows
<1>4. \A k \in TicketRows : <<k, "bar">> \in BillP!EmptiedBy(S) <=>
          S \cap LinesOf(k) # {} /\ \A l \in LinesOf(k) : db'[l] = "void"
  <2> TAKE k \in TicketRows
  <2>1. <<k, "bar">> \in TicketRows \X Buckets
    BY DEF Buckets
  <2>2. (\E l \in S : BillP!TicketOf(l) = <<k, "bar">>) <=> S \cap LinesOf(k) # {}
    BY <1>2, LinesHaveTickets
  <2>3. S \cap LinesOf(k) # {} => BillP!LinesOn(<<k, "bar">>) = LinesOf(k)
    BY <1>2, BillReads, LinesHaveTickets
  <2>4. \A l \in LinesOf(k) : db'[l] = "void" <=> l \in S \/ LineOfRows[l] = "void"
    BY <1>3, LinesHaveTickets
  <2> QED
    BY <2>1, <2>2, <2>3, <2>4, TicketsAre DEF BillP!EmptiedBy
<1>5. \A k \in TicketRows, b \in Buckets : b # "bar" => <<k, b>> \notin BillP!EmptiedBy(S)
  BY <1>2 DEF BillP!EmptiedBy
<1>6. TicketOfRows' = [k \in BillP!Tickets |->
                          IF k \in BillP!EmptiedBy(S) THEN "cancelled" ELSE TicketOfRows[k]]
  <2>1. \A k \in TicketRows, b \in Buckets :
            (IF b = "bar" THEN db'[k] ELSE "none")
                = IF <<k, b>> \in BillP!EmptiedBy(S) THEN "cancelled"
                  ELSE IF b = "bar" THEN db[k] ELSE "none"
    BY <1>4, <1>5
  <2>2. \A k \in TicketRows, b \in Buckets :
            TicketOfRows'[<<k, b>>] = IF <<k, b>> \in BillP!EmptiedBy(S) THEN "cancelled"
                                      ELSE TicketOfRows[<<k, b>>]
    BY <2>1 DEF TicketOfRows
  <2>3. TicketOfRows' = [k \in TicketRows \X Buckets |-> TicketOfRows'[k]]
    BY DEF TicketOfRows
  <2> QED
    BY <2>2, <2>3, TicketsAre
<1>7. \A l \in Lines : db'[l] = "none" <=> db[l] = "none"
  OBVIOUS
<1>8. \A k \in TicketRows : db'[k] = "none" <=> db[k] = "none"
  BY <1>2, LinesHaveTickets
<1> QED
  BY <1>1, <1>6, <1>7, <1>8, PartsKept DEF BillP!VoidLines

(* A committed void is Billing's.                                          *)
LEMMA VoidBills ==
    ASSUME DbOK, TicketsOK, NEW l \in Lines, VoidEffect(l)
    PROVE  BillP!VoidItem(l)
<1>1. /\ db'["visit"] = db["visit"] /\ db'["menu"] = db["menu"]
      /\ (\A q \in Procs : db'[q] = db[q]) /\ db[l] = "active"
      /\ \A m \in Lines : db'[m] = IF m \in {l} THEN "void" ELSE db[m]
  BY RowsApart, LinesHaveTickets DEF VoidEffect, Kept, MayAdjust
<1>2. \A k \in TicketRows :
          db'[k] = IF {l} \cap LinesOf(k) # {} /\ \A m \in LinesOf(k) : db'[m] = "void"
                   THEN "cancelled" ELSE db[k]
  BY RowsApart, LinesHaveTickets DEF VoidEffect, Kept
<1>3. BillP!Adjustable(l)
  BY MayAdjustBills DEF VoidEffect
<1>4. \A m \in {l} : db[m] = "active"
  BY <1>1
<1>5. /\ BillP!VoidLines({l}) /\ BucketOfRows' = BucketOfRows
      /\ OrderVisitOfRows' = OrderVisitOfRows
  BY <1>1, <1>2, <1>4, VoidsBill
<1> QED
  BY <1>1, <1>3, <1>5, PartsKept DEF BillP!VoidItem, BillP!payVars, BillP!menuVars

(* A committed 86 that swept the visit is Billing's.                       *)
LEMMA SweepBills ==
    ASSUME DbOK, TicketsOK, SweepEffect
    PROVE  BillP!MarkUnavailable("menu")
<1>1. /\ db["menu"] = "on" /\ db'["menu"] = "off" /\ db'["visit"] = db["visit"]
      /\ \A q \in Procs : db'[q] = db[q]
      /\ \A l \in Lines : db'[l] = IF l \in UnstartedLines THEN "void" ELSE db[l]
  BY DEF SweepEffect, Kept
<1>2. BillP!AutoVoided("menu") = UnstartedLines
  <2>1. BillP!IsLive("visit") /\ ~BillP!PendingOnVisit("visit")
    BY BillReads DEF SweepEffect
  <2>2. \A l \in Lines : db[l] = "active" =>
            /\ BillP!VisitOf(l) = "visit"
            /\ TicketOfRows[BillP!TicketOf(l)] = db[TicketRowOf[l]]
    BY BillReads, LinesHaveTickets DEF TicketOfRows, Buckets
  <2>3. \A l \in Lines : LineOfRows[l] = db[l] /\ MenuOfLines[l] = "menu"
    BY DEF LineOfRows, MenuOfLines
  <2> QED
    BY <2>1, <2>2, <2>3 DEF BillP!AutoVoided, UnstartedLines
<1>3. \A k \in TicketRows :
          db'[k] = IF UnstartedLines \cap LinesOf(k) # {} /\ \A l \in LinesOf(k) : db'[l] = "void"
                   THEN "cancelled" ELSE db[k]
  <2> TAKE k \in TicketRows
  <2>1. UnstartedLines \cap LinesOf(k) # {} => db[k] = "pending"
    BY LinesHaveTickets DEF UnstartedLines
  <2>2. db[k] = "pending" /\ (\A l \in LinesOf(k) : db'[l] = "void")
            => UnstartedLines \cap LinesOf(k) # {}
    BY <1>1, LinesHaveTickets DEF TicketsOK
  <2> QED
    BY <2>1, <2>2 DEF SweepEffect
<1>4. UnstartedLines \in SUBSET Lines /\ \A l \in UnstartedLines : db[l] = "active"
  BY DEF UnstartedLines
<1>5. /\ BillP!VoidLines(UnstartedLines) /\ BucketOfRows' = BucketOfRows
      /\ OrderVisitOfRows' = OrderVisitOfRows
  BY <1>1, <1>3, <1>4, VoidsBill
<1>6. AvailableOfRows["menu"] /\ AvailableOfRows' = [AvailableOfRows EXCEPT !["menu"] = FALSE]
  BY <1>1 DEF AvailableOfRows
<1> QED
  BY <1>1, <1>2, <1>5, <1>6, PartsKept DEF BillP!MarkUnavailable, BillP!payVars

(* One that swept nothing had nothing to sweep, or came by a payment.      *)
LEMMA MarkBills ==
    ASSUME DbOK, TicketsOK, db' = [r \in Rows |-> db'[r]], MarkEffect
    PROVE  BillP!MarkUnavailable("menu") \/ LateSoldOut
<1>1. /\ db["menu"] = "on" /\ db'["menu"] = "off" /\ db'["visit"] = db["visit"]
      /\ (\A q \in Procs : db'[q] = db[q]) /\ (\A l \in Lines : db'[l] = db[l])
      /\ \A k \in TicketRows : db'[k] = db[k]
  BY RowsApart DEF MarkEffect, Kept
<1>2. CASE SomePayment
  <2>1. db' = [db EXCEPT !["menu"] = "off"]
    <3>1. db = [r \in Rows |-> db[r]] /\ \A r \in Rows \ {"menu"} : db'[r] = db[r]
      BY DEF DbOK, MarkEffect, Kept
    <3> QED
      BY <1>1, <3>1
  <2> QED
    BY <1>1, <1>2, <2>1 DEF LateSoldOut, SomePayment
<1>3. CASE db["visit"] = "closed" \/ UnstartedLines = {}
  <2>1. BillP!AutoVoided("menu") = {}
    <3>1. \A l \in Lines : db[l] = "active" =>
              /\ BillP!VisitOf(l) = "visit"
              /\ TicketOfRows[BillP!TicketOf(l)] = db[TicketRowOf[l]]
      BY BillReads, LinesHaveTickets DEF TicketOfRows, Buckets
    <3>2. \A l \in Lines : LineOfRows[l] = db[l]
      BY DEF LineOfRows
    <3>3. db["visit"] = "closed" => ~BillP!IsLive("visit")
      BY BillReads DEF Live
    <3> QED
      BY <1>3, <3>1, <3>2, <3>3 DEF BillP!AutoVoided, UnstartedLines
  <2>2. BillP!VoidLines({}) /\ BucketOfRows' = BucketOfRows /\ OrderVisitOfRows' = OrderVisitOfRows
    <3>1. \A k \in TicketRows :
              db'[k] = IF {} \cap LinesOf(k) # {} /\ \A l \in LinesOf(k) : db'[l] = "void"
                       THEN "cancelled" ELSE db[k]
      BY <1>1
    <3>2. \A l \in Lines : db'[l] = IF l \in {} THEN "void" ELSE db[l]
      BY <1>1
    <3>3. {} \in SUBSET Lines /\ \A l \in {} : db[l] = "active"
      OBVIOUS
    <3> QED
      BY <3>1, <3>2, <3>3, VoidsBill
  <2>3. AvailableOfRows["menu"] /\ AvailableOfRows' = [AvailableOfRows EXCEPT !["menu"] = FALSE]
    BY <1>1 DEF AvailableOfRows
  <2> QED
    BY <1>1, <2>1, <2>2, <2>3, PartsKept DEF BillP!MarkUnavailable, BillP!payVars
<1> QED
  BY <1>2, <1>3 DEF MarkEffect

(* The bill does not show the account.                                     *)
LEMMA RenameBills ==
    ASSUME RenameEffect
    PROVE  UNCHANGED (BillP!vars)
<1>1. /\ db'["visit"] = db["visit"] /\ db'["menu"] = db["menu"]
      /\ (\A q \in Procs : db'[q] = db[q]) /\ (\A l \in Lines : db'[l] = db[l])
      /\ \A k \in TicketRows : db'[k] = db[k]
  BY RowsApart DEF RenameEffect, Kept
<1> QED
  BY <1>1, PartsKept DEF BillP!vars, BillP!orderVars, BillP!payVars, BillP!menuVars

(* Every commit is a step of Billing, or an 86 that came by a payment.     *)
LEMMA EffectBills ==
    ASSUME DbOK, TicketsOK, db' = [r \in Rows |-> db'[r]], Effect
    PROVE  BillP!Next \/ LateSoldOut \/ UNCHANGED (BillP!vars)
<1> USE DEF TheVisit
<1>0. \A k \in TicketRows : <<k, "bar">> \in BillP!Tickets
  BY TicketsAre DEF Buckets
<1>1. ASSUME NEW k \in TicketRows, PlaceEffect(k) PROVE BillP!Next
  BY <1>1, PlaceBills DEF BillP!Next, BillP!OrderNext
<1>2. ASSUME NEW k \in TicketRows, MoveEffect(k) PROVE BillP!Next
  BY <1>0, <1>2, MoveBills DEF BillP!Next, BillP!TicketNext
<1>3. ASSUME NEW q \in Procs, AttemptEffect(q, "pending") \/ AttemptEffect(q, "completed")
      PROVE  BillP!Next
  BY <1>3, AttemptBills
     DEF BillP!Next, BillP!PaymentNext, BillP!CreatePromptPay, BillP!PayCash
<1>4. ASSUME NEW q \in Procs, EndEffect(q) PROVE BillP!Next
  BY <1>4, EndBills DEF BillP!Next, BillP!PaymentNext
<1>5. CASE CloseEffect
  BY <1>5, CloseBills DEF BillP!Next, BillP!VisitNext
<1>6. ASSUME NEW l \in Lines, CompEffect(l) \/ VoidEffect(l) PROVE BillP!Next
  BY <1>6, CompBills, VoidBills DEF BillP!Next, BillP!LineNext
<1>7. CASE MarkEffect
  BY <1>7, MarkBills DEF BillP!Next, BillP!MenuNext
<1>8. CASE SweepEffect
  BY <1>8, SweepBills DEF BillP!Next, BillP!MenuNext
<1>9. CASE RenameEffect
  BY <1>9, RenameBills
<1> QED
  BY <1>1, <1>2, <1>3, <1>4, <1>5, <1>6, <1>7, <1>8, <1>9 DEF Effect

(* The two instances are one.                                              *)
LEMMA SameSteps == Bill!Next <=> BillP!Next
BY
   DEF Bill!Next, BillP!Next, Bill!VisitNext, BillP!VisitNext, Bill!OrderNext,
       BillP!OrderNext, Bill!TicketNext, BillP!TicketNext, Bill!LineNext, BillP!LineNext,
       Bill!MenuNext, BillP!MenuNext, Bill!PaymentNext, BillP!PaymentNext, Bill!OpenVisit,
       BillP!OpenVisit, Bill!CloseVisit, BillP!CloseVisit, Bill!PlaceOrder, BillP!PlaceOrder,
       Bill!PlaceAsGuest, BillP!PlaceAsGuest, Bill!Accept, BillP!Accept, Bill!Ready,
       BillP!Ready, Bill!Send, BillP!Send, Bill!FlagIssue, BillP!FlagIssue, Bill!Substitute,
       BillP!Substitute, Bill!Escalate, BillP!Escalate, Bill!VoidItem, BillP!VoidItem,
       Bill!CompItem, BillP!CompItem, Bill!MarkUnavailable, BillP!MarkUnavailable,
       Bill!MarkAvailable, BillP!MarkAvailable, Bill!SwitchKitchenDisplay,
       BillP!SwitchKitchenDisplay, Bill!CreatePromptPay, BillP!CreatePromptPay, Bill!PayCash,
       BillP!PayCash, Bill!SettlePayment, BillP!SettlePayment, Bill!DropPayment,
       BillP!DropPayment, Bill!CreatePayment, BillP!CreatePayment, Bill!InsertAttempt,
       BillP!InsertAttempt, Bill!AutoVoided, BillP!AutoVoided, Bill!VoidLines,
       BillP!VoidLines, Bill!EmptiedBy, BillP!EmptiedBy, Bill!Adjustable, BillP!Adjustable,
       Bill!SetTicket, BillP!SetTicket, Bill!ReadyStep, BillP!ReadyStep, Bill!CanPlace,
       BillP!CanPlace, Bill!InsertOrder, BillP!InsertOrder, Bill!Uncovered, BillP!Uncovered,
       Bill!Billable, BillP!Billable, Bill!Covered, BillP!Covered, Bill!PendingOnVisit,
       BillP!PendingOnVisit, Bill!PaidOnVisit, BillP!PaidOnVisit, Bill!LinesOn, BillP!LinesOn,
       Bill!TicketOf, BillP!TicketOf, Bill!VisitOf, BillP!VisitOf, Bill!LinesOf,
       BillP!LinesOf, Bill!IsLive, BillP!IsLive, Bill!LiveStates, BillP!LiveStates,
       Bill!Tickets, BillP!Tickets, Bill!orderVars, BillP!orderVars, Bill!payVars,
       BillP!payVars, Bill!menuVars, BillP!menuVars, Bill!Buckets, BillP!Buckets,
       Bill!FirstStatus, BillP!FirstStatus, Bill!BucketFor, BillP!BucketFor, Bill!CanReady,
       BillP!CanReady, Bill!CanAccept, BillP!CanAccept, Bill!CanSend, BillP!CanSend,
       Bill!CanFlag, BillP!CanFlag, Bill!CanSubstitute, BillP!CanSubstitute, Bill!CanEscalate,
       BillP!CanEscalate, Bill!ReadyStepApplies, BillP!ReadyStepApplies, Bill!InProgress,
       BillP!InProgress, Bill!Statuses, BillP!Statuses

(* They have the same variables,                                           *)
LEMMA SameVars == (UNCHANGED (Bill!vars)) <=> UNCHANGED (BillP!vars)
BY
   DEF Bill!vars, BillP!vars, Bill!orderVars, BillP!orderVars, Bill!payVars, BillP!payVars,
       Bill!menuVars, BillP!menuVars

(* the same money invariant,                                               *)
LEMMA SameMoney == Bill!MoneyInv <=> BillP!MoneyInv
BY
   DEF Bill!MoneyInv, BillP!MoneyInv, Bill!RowsLinked, BillP!RowsLinked,
       Bill!OnePendingPerVisit, BillP!OnePendingPerVisit, Bill!NoDoubleCharge,
       BillP!NoDoubleCharge, Bill!InPlay, BillP!InPlay, Bill!PendingFrozen,
       BillP!PendingFrozen, Bill!PendingOnLiveVisit, BillP!PendingOnLiveVisit,
       Bill!PaidCoversBill, BillP!PaidCoversBill, Bill!Billable, BillP!Billable, Bill!VisitOf,
       BillP!VisitOf, Bill!IsLive, BillP!IsLive, Bill!LiveStates, BillP!LiveStates

(* and the same rule for tickets.                                          *)
LEMMA SameTickets == Bill!CancelledIffEmpty <=> BillP!CancelledIffEmpty
BY
   DEF Bill!CancelledIffEmpty, BillP!CancelledIffEmpty, Bill!LinesOn, BillP!LinesOn,
       Bill!TicketOf, BillP!TicketOf, Bill!Tickets, BillP!Tickets, Bill!Buckets, BillP!Buckets

(* Whatever statements of other requests come between the statements of a  *)
(* transaction, its commit is one step of Billing on the rows committed    *)
(* before it, or an 86 that came by a payment: the row locks the code      *)
(* takes are enough.                                                       *)
THEOREM RowLocksMakeTransactions == Spec => CommitsAreBillingSteps
<1>1. RowInv /\ [Next]_vars => [Bill!Next \/ LateSoldOut]_(Bill!vars)
  <2> SUFFICES ASSUME RowInv, [Next]_vars
               PROVE  Bill!Next \/ LateSoldOut \/ UNCHANGED (Bill!vars)
    OBVIOUS
  <2>1. RowInv' /\ (db' = db \/ Effect)
    BY NextKeeps
  <2>2. CASE db' = db
    <3>1. UNCHANGED (BillP!vars)
      BY <2>2, PartsKept DEF BillP!vars, BillP!orderVars, BillP!payVars, BillP!menuVars
    <3> QED
      BY <3>1, SameVars
  <2>3. CASE Effect
    <3>1. db' = [r \in Rows |-> db'[r]]
      BY <2>1 DEF RowInv, DbOK
    <3> QED
      BY <2>3, <3>1, EffectBills, RowsTyped, SameSteps, SameVars
  <2> QED
    BY <2>1, <2>2, <2>3
<1> QED
  BY <1>1, RowInvariance, PTL DEF Spec, CommitsAreBillingSteps

-------------------------------------------------------------------------------
(* The rows are a state of Billing.                                        *)
LEMMA BillIsTyped == ASSUME DbOK, TicketsOK PROVE BillP!TypeOK
<1> USE DEF TheVisit
<1>1. VisitOfRows \in [{"visit"} -> BillP!LiveStates \cup {"none", "closed"}]
  BY DEF VisitOfRows, DbOK, BillP!LiveStates
<1>2. OrderVisitOfRows \in [TicketRows -> {"visit"} \cup {"none"}]
  BY DEF OrderVisitOfRows, If
<1>3. LineOfRows \in [Lines -> {"none", "active", "void", "comp"}]
  BY DEF LineOfRows, DbOK
<1>4. BucketOfRows \in [Lines -> BillP!Buckets \cup {"none"}]
  BY DEF BucketOfRows, If, BillP!Buckets
<1>5. TicketOfRows \in [BillP!Tickets -> BillP!Statuses \cup {"none"}]
  <2>1. TicketOfRows \in [TicketRows \X Buckets -> Statuses \cup {"none"}]
    BY DEF TicketOfRows, DbOK
  <2>2. BillP!Statuses = Statuses
    BY DEF BillP!Statuses, Statuses
  <2> QED
    BY <2>1, <2>2, TicketsAre
<1>6. /\ StatusOfRows \in [Procs -> {"none", "pending", "completed", "cancelled"}]
      /\ PayVisitOfRows \in [Procs -> {"visit"} \cup {"none"}]
      /\ PayOrdersOfRows \in [Procs -> SUBSET TicketRows]
      /\ PayLinesOfRows \in [Procs -> SUBSET Lines]
  BY DEF StatusOfRows, PayVisitOfRows, PayOrdersOfRows, PayLinesOfRows, DbOK, Payment
<1>7. AvailableOfRows \in [{"menu"} -> BOOLEAN]
  BY Zenon DEF AvailableOfRows
<1> QED
  BY <1>1, <1>2, <1>3, <1>4, <1>5, <1>6, <1>7 DEF BillP!TypeOK

(* One order is placed and nothing is paid.                                *)
LEMMA BillStarts == ASSUME Init PROVE BillP!BillInv
<1> USE DEF TheVisit
<1>0. RowInv
  BY InitRows
<1>1. DbOK /\ TicketsOK
  BY <1>0, RowsTyped
<1>2. /\ \A q \in Procs : db[q] = NoPayment
      /\ \A k \in TicketRows : db[k] = IF k = Seed THEN "pending" ELSE "none"
      /\ \A l \in Lines : db[l] = IF l \in LinesOf(Seed) THEN "active" ELSE "none"
  BY FirstRows, LinesHaveTickets
<1>3. /\ \A q \in Procs : StatusOfRows[q] = "none" /\ PayOrdersOfRows[q] = {}
      /\ \A l \in Lines : LineOfRows[l] = db[l]
  BY <1>2 DEF StatusOfRows, PayOrdersOfRows, LineOfRows, NoPayment
<1>4. BillP!MoneyInv
  <2>1. BillP!RowsLinked
    <3>1. \A l \in Lines : BillP!VisitOf(l) = "none" <=> db[l] = "none"
      BY LinesHaveTickets, <1>1 DEF BillP!VisitOf, OrderVisitOfRows, If, TicketsOK
    <3>2. \A l \in Lines : BucketOfRows[l] = "none" <=> db[l] = "none"
      BY DEF BucketOfRows, If
    <3> QED
      BY <1>3, <3>1, <3>2 DEF BillP!RowsLinked
  <2> QED
    BY <1>3, <2>1
       DEF BillP!MoneyInv, BillP!OnePendingPerVisit, BillP!NoDoubleCharge, BillP!InPlay,
           BillP!PendingFrozen, BillP!PendingOnLiveVisit, BillP!PaidCoversBill
<1>5. BillP!TicketInv
  <2>1. \A k \in TicketRows, b \in Buckets :
            /\ TicketOfRows[<<k, b>>] # "none" => b = "bar" /\ k = Seed
            /\ TicketOfRows[<<k, b>>] # "cancelled"
    BY <1>2 DEF TicketOfRows
  <2>2. BillP!TicketsLinked
    <3>1. \A l \in Lines : BucketOfRows[l] # "none" => TicketOfRows[BillP!TicketOf(l)] # "none"
      <4> SUFFICES ASSUME NEW l \in Lines, db[l] # "none"
                   PROVE  TicketOfRows[BillP!TicketOf(l)] # "none"
        BY DEF BucketOfRows, If
      <4>1. BillP!TicketOf(l) = <<TicketRowOf[l], "bar">> /\ db[TicketRowOf[l]] # "none"
        BY <1>1, BillReads, LinesHaveTickets DEF TicketsOK
      <4> QED
        BY <4>1, LinesHaveTickets DEF TicketOfRows, Buckets
    <3>2. \A k \in TicketRows, b \in Buckets :
              TicketOfRows[<<k, b>>] # "none" => OrderVisitOfRows[k] # "none"
      BY <1>2, <2>1 DEF OrderVisitOfRows, If
    <3> QED
      BY <3>1, <3>2, TicketsAre DEF BillP!TicketsLinked
  <2>3. BillP!CancelledIffEmpty
    <3>1. BillP!LinesOn(<<Seed, "bar">>) = LinesOf(Seed)
      BY <1>1, <1>2, BillReads, RowsAssumption
    <3>2. \E l \in BillP!LinesOn(<<Seed, "bar">>) : LineOfRows[l] # "void"
      BY <1>2, <1>3, <3>1, LinesHaveTickets, RowsAssumption
    <3> QED
      BY <2>1, <3>2, TicketsAre DEF BillP!CancelledIffEmpty
  <2> QED
    BY <2>2, <2>3 DEF BillP!TicketInv
<1> QED
  BY <1>1, <1>4, <1>5, BillIsTyped DEF BillP!BillInv

(* The assumptions of Billing, of this instance.                           *)
LEMMA BillAssumptions ==
    /\ TicketRowOf \in [Lines -> TicketRows] /\ MenuOfLines \in [Lines -> {"menu"}]
    /\ SeatOfVisits \in [{TheVisit} -> BillP!SeatKinds]
    /\ {} \subseteq Lines /\ "none" \notin {TheVisit}
BY RowsAssumption DEF MenuOfLines, SeatOfVisits, BillP!SeatKinds, TheVisit

(* However the statements interleave, the committed bill adds up, and a    *)
(* ticket is cancelled exactly when its last line is void.                 *)
THEOREM RowsAddUp == Spec => []RowsInv
<1>1. Init => BillP!BillInv
  BY BillStarts
<1>2. RowInv /\ BillP!BillInv /\ [Next]_vars => BillP!BillInv'
  <2> SUFFICES ASSUME RowInv, BillP!BillInv, [Next]_vars PROVE BillP!BillInv'
    OBVIOUS
  <2>1. RowInv' /\ (db' = db \/ Effect)
    BY NextKeeps
  <2>2. db' = [r \in Rows |-> db'[r]]
    BY <2>1 DEF RowInv, DbOK
  <2>3. db' = db => UNCHANGED (BillP!vars)
    BY PartsKept DEF BillP!vars, BillP!orderVars, BillP!payVars, BillP!menuVars
  <2>4. BillP!Next \/ LateSoldOut \/ UNCHANGED (BillP!vars)
    BY <2>1, <2>2, <2>3, EffectBills, RowsTyped
  <2>5. CASE BillP!Next \/ UNCHANGED (BillP!vars)
    BY <2>5, BillP!BillStep, BillAssumptions
  <2>6. CASE LateSoldOut
    <3>1. \A r \in Rows \ {"menu"} : db'[r] = db[r]
      BY <2>6, RowsTyped DEF LateSoldOut, DbOK
    <3>2. UNCHANGED <<VisitOfRows, BillP!orderVars, BillP!payVars>>
      BY <3>1, PartsKept, RowsApart DEF BillP!orderVars, BillP!payVars
    <3>3. AvailableOfRows' \in [{"menu"} -> BOOLEAN]
      BY Zenon DEF AvailableOfRows
    <3> QED
      BY <3>2, <3>3, BillP!MenuAlone, BillAssumptions
  <2> QED
    BY <2>4, <2>5, <2>6
<1>3. BillP!BillInv => Bill!MoneyInv /\ Bill!CancelledIffEmpty
  BY SameMoney, SameTickets DEF BillP!BillInv, BillP!TicketInv
<1> QED
  BY <1>1, <1>2, <1>3, RowInvariance, RowsAreTyped, PTL DEF Spec, RowsInv
===============================================================================
