------------------------------ MODULE SeatProofs ------------------------------
(***************************************************************************)
(* Proofs about SeatVisit, for any number of seats, visits and requests: a *)
(* seat has one live visit, none while it is out of service, and a closed  *)
(* visit stays closed.                                                     *)
(*                                                                         *)
(* A step of a request leaves the other requests and their locks alone     *)
(* (Frame) and is of one of a few kinds (Kind).  The invariant says what   *)
(* each request knows at its next statement (Knows) and of two requests    *)
(* that one inserted row is met by nobody else (Apart).                    *)
(***************************************************************************)
EXTENDS SeatVisit, TLAPS

USE NullsAssumption

-------------------------------------------------------------------------------
(* Type correctness, part by part, and the frame of a step.                *)

RowTypes ==
    /\ active \in [Seats -> BOOLEAN]
    /\ bell \in [Seats -> Visits \cup {NoVisit, "none"}]
    /\ visit \in [Visits -> {"none", "open", "active", "closed"}]
    /\ seatOf \in [Visits -> Seats \cup {NoSeat}]

ControlTypes ==
    /\ pc \in [Procs -> Places]
    /\ at \in [Procs -> Seats \cup {NoSeat}]
    /\ mine \in [Procs -> Visits \cup {NoVisit}]

LockTypes ==
    /\ shared \in [Seats -> SUBSET Procs]
    /\ locked \in [Seats -> Procs \cup {Nobody}]
    /\ claimed \in [Visits -> Procs \cup {Nobody}]

Types == RowTypes /\ ControlTypes /\ LockTypes

Others(p) == \A q \in Procs \ {p} : pc'[q] = pc[q] /\ at'[q] = at[q] /\ mine'[q] = mine[q]

SameLocks(p) ==
    \A q \in Procs \ {p} :
        /\ \A s \in Seats : q \in shared'[s] <=> q \in shared[s]
        /\ \A s \in Seats : locked'[s] = q <=> locked[s] = q
        /\ \A v \in Visits : claimed'[v] = q <=> claimed[v] = q

(* Nobody shares a seat row that somebody holds alone.                     *)
Exclusive == \A s \in Seats : shared[s] # {} => locked[s] = Nobody

Frame(p) == Others(p) /\ SameLocks(p) /\ Exclusive'

LEMMA TypesAreTypeOK == Types <=> TypeOK
BY DEF Types, RowTypes, ControlTypes, LockTypes, TypeOK

LEMMA TypesHold ==
    ASSUME NEW p \in Procs, Types, Begin(p) \/ Proceed(p)
    PROVE  Types'
<1> USE DEF rows, locks, Goto, On, Release, End, Abort
<1>0. ASSUME NEW place \in Places, NEW s \in Seats \cup {NoSeat}, NEW v \in Visits \cup {NoVisit},
             Goto(p, place), On(p, s, v)
      PROVE  ControlTypes'
  BY <1>0 DEF Types, ControlTypes
<1>1. ASSUME NEW s \in Seats, ShareSeat(p, s) \/ LockSeat(p, s) PROVE Types'
  <2>1. RowTypes'     BY <1>1 DEF Types, RowTypes, ShareSeat, LockSeat
  <2>2. ControlTypes'
    <3>1. "insert" \in Places /\ "check" \in Places BY DEF Places
    <3>2. On(p, s, NoVisit) /\ (Goto(p, "insert") \/ Goto(p, "check"))
      BY <1>1 DEF ShareSeat, LockSeat
    <3> QED BY <1>0, <3>1, <3>2
  <2>3. LockTypes'    BY <1>1 DEF Types, LockTypes, ShareSeat, LockSeat
  <2> QED BY <2>1, <2>2, <2>3 DEF Types
<1>2. ASSUME NEW s \in Seats, GuestInsert(p, s) PROVE Types'
  <2>1. RowTypes'     BY <1>2 DEF Types, RowTypes, GuestInsert
  <2>2. \E place \in Places, v \in Visits \cup {NoVisit} : Goto(p, place) /\ On(p, s, v)
    BY <1>2 DEF GuestInsert, InsertVisit, Places
  <2>3. ControlTypes' BY <1>0, <2>2
  <2>4. LockTypes'    BY <1>2 DEF Types, LockTypes, GuestInsert
  <2> QED BY <2>1, <2>3, <2>4 DEF Types
<1>3. ASSUME NEW s \in Seats, Admit(p, s) PROVE Types'
  <2>1. \E v \in Visits \cup {NoVisit} : Goto(p, "ring") /\ On(p, s, v)
    BY <1>3 DEF Admit, LiveOn
  <2>2. ControlTypes' BY <1>0, <2>1 DEF Places
  <2> QED BY <1>3, <2>2 DEF Types, RowTypes, LockTypes, Admit
<1>4. ASSUME NEW v \in Visits, OrderOn(p, v) \/ LockVisit(p, v) PROVE Types'
  <2>1. seatOf[v] \in Seats \cup {NoSeat} BY DEF Types, RowTypes
  <2>2. ControlTypes'
    <3>1. "claim" \in Places /\ "closing" \in Places BY DEF Places
    <3>2. On(p, seatOf[v], v) /\ (Goto(p, "claim") \/ Goto(p, "closing"))
      BY <1>4 DEF OrderOn, LockVisit
    <3> QED BY <1>0, <2>1, <3>1, <3>2
  <2>3. LockTypes'    BY <1>4 DEF Types, LockTypes, OrderOn, LockVisit
  <2> QED BY <1>4, <2>2, <2>3 DEF Types, RowTypes, OrderOn, LockVisit
<1>5. ASSUME Insert(p) PROVE Types'
  <2>1. \E place \in Places, v \in Visits \cup {NoVisit} : Goto(p, place) /\ On(p, at[p], v)
    BY <1>5 DEF Insert, InsertVisit, Places
  <2>2. ControlTypes' BY <1>0, <2>1 DEF Types, ControlTypes
  <2> QED BY <1>5, <2>2 DEF Types, RowTypes, LockTypes, Insert
<1>6. ASSUME End(p) PROVE ControlTypes' /\ LockTypes'
  <2>1. ControlTypes' BY <1>6 DEF Types, ControlTypes, Places
  <2>2. LockTypes'    BY <1>6 DEF Types, LockTypes
  <2> QED BY <2>1, <2>2
<1>7. ASSUME Abort(p) PROVE Types'
  <2>1. RowTypes' BY <1>7 DEF Types, RowTypes
  <2> QED BY <1>6, <1>7, <2>1 DEF Types
<1>8. ASSUME Attach(p) \/ GuestFind(p) PROVE Types'
  <2>1. CASE Abort(p) BY <1>7, <2>1
  <2>2. CASE \E place \in Places, v \in Visits :
               Goto(p, place) /\ On(p, at[p], v) /\ UNCHANGED <<rows, locks>>
    <3>1. ControlTypes' BY <1>0, <2>2 DEF Types, ControlTypes
    <3> QED BY <2>2, <3>1 DEF Types, RowTypes, LockTypes
  <2> QED BY <1>8, <2>1, <2>2 DEF Attach, GuestFind, LiveOn, Places
<1>9. ASSUME Claim(p) PROVE Types'
  <2>1. CASE Abort(p) BY <1>7, <2>1
  <2>2. CASE ~Abort(p)
    <3>1. ControlTypes' BY <1>9, <2>2 DEF Types, ControlTypes, Claim, Places
    <3>2. LockTypes'    BY <1>9, <2>2 DEF Types, LockTypes, Claim
    <3> QED BY <1>9, <2>2, <3>1, <3>2 DEF Types, RowTypes, Claim
  <2> QED BY <2>1, <2>2
<1>10. ASSUME NEW state \in {"open", "active"}, CommitVisit(p, state) PROVE Types'
  <2>1. RowTypes' BY <1>10 DEF Types, RowTypes, ControlTypes, CommitVisit
  <2> QED BY <1>6, <1>10, <2>1 DEF Types, CommitVisit
<1>11. ASSUME CloseIfLive(p) \/ CommitClose(p) PROVE Types'
  <2>1. RowTypes'     BY <1>11 DEF Types, RowTypes, CloseIfLive, CommitClose
  <2>2. ControlTypes' BY <1>11 DEF Types, ControlTypes, CloseIfLive, CommitClose, Places
  <2>3. CASE CloseIfLive(p) BY <2>1, <2>2, <2>3 DEF Types, LockTypes, CloseIfLive
  <2>4. CASE CommitClose(p) BY <2>1, <2>2, <2>4 DEF Types, LockTypes, CommitClose
  <2> QED BY <1>11, <2>3, <2>4
<1>12. ASSUME ClearBell(p) \/ CommitDark(p) \/ Ring(p) PROVE Types'
  <2>1. mine[p] \in Visits \cup {NoVisit} BY DEF Types, ControlTypes
  <2>2. bell' \in [Seats -> Visits \cup {NoVisit, "none"}]
    BY <1>12, <2>1 DEF Types, RowTypes, ClearBell, CommitDark, Ring
  <2>3. RowTypes' BY <1>12, <2>2 DEF Types, RowTypes, ClearBell, CommitDark, Ring
  <2>4. Goto(p, "idle") /\ On(p, NoSeat, NoVisit) /\ Release(p)
    BY <1>12 DEF ClearBell, CommitDark, Ring
  <2> QED BY <1>6, <2>3, <2>4 DEF Types
<1>13. ASSUME Check(p) PROVE Types'
  <2>1. CASE Abort(p) BY <1>7, <2>1
  <2>2. CASE ~Abort(p)
    <3>1. ControlTypes' BY <1>13, <2>2 DEF Types, ControlTypes, Check, Places
    <3> QED BY <1>13, <2>2, <3>1 DEF Types, RowTypes, LockTypes, Check
  <2> QED BY <2>1, <2>2
<1>14. ASSUME Answer(p) \/ Order(p) PROVE Types'
  BY <1>7, <1>10, <1>14 DEF Answer, Order
<1> QED
  BY <1>1, <1>2, <1>3, <1>4, <1>5, <1>8, <1>9, <1>11, <1>12, <1>13, <1>14 DEF Begin, Proceed

LEMMA FrameHolds ==
    ASSUME NEW p \in Procs, Types, Exclusive, Begin(p) \/ Proceed(p)
    PROVE  Frame(p)
<1> USE DEF Types, rows, locks, Goto, On, End, Abort
<1>1. ASSUME NEW place, NEW s, NEW v, Goto(p, place), On(p, s, v) PROVE Others(p)
  BY <1>1 DEF Others, ControlTypes
<1>2. ASSUME UNCHANGED <<shared, locked, claimed>> PROVE SameLocks(p) /\ Exclusive'
  BY <1>2 DEF SameLocks, Exclusive
<1>3. ASSUME Release(p) PROVE SameLocks(p) /\ Exclusive'
  <2>1. SameLocks(p) BY <1>3 DEF Release, SameLocks, LockTypes
  <2>2. Exclusive'   BY <1>3 DEF Release, Exclusive, LockTypes
  <2> QED BY <2>1, <2>2
<1>4. ASSUME NEW s \in Seats, shared' = [shared EXCEPT ![s] = @ \cup {p}],
             locked[s] = Nobody, UNCHANGED <<locked, claimed>>
      PROVE  SameLocks(p) /\ Exclusive'
  <2>1. SameLocks(p) BY <1>4 DEF SameLocks, LockTypes
  <2>2. Exclusive'   BY <1>4 DEF Exclusive, LockTypes
  <2> QED BY <2>1, <2>2
<1>5. ASSUME NEW v \in Visits, claimed[v] = Nobody, claimed' = [claimed EXCEPT ![v] = p],
             UNCHANGED <<shared, locked>>
      PROVE  SameLocks(p) /\ Exclusive'
  BY <1>5 DEF SameLocks, Exclusive, LockTypes
<1>6. ASSUME End(p) PROVE Frame(p)
  BY <1>1, <1>3, <1>6 DEF Frame
<1>7. ASSUME NEW s \in Seats, ShareSeat(p, s) \/ GuestInsert(p, s) PROVE Frame(p)
  <2>1. Others(p)
    BY <1>1, <1>7 DEF ShareSeat, GuestInsert, InsertVisit
  <2>2. SameLocks(p) /\ Exclusive'
    BY <1>2, <1>4, <1>7 DEF ShareSeat, GuestInsert
  <2> QED BY <2>1, <2>2 DEF Frame
<1>8. ASSUME NEW s \in Seats, LockSeat(p, s) PROVE Frame(p)
  <2>1. Others(p)    BY <1>1, <1>8 DEF LockSeat
  <2>2. SameLocks(p) BY <1>8 DEF LockSeat, SeatFree, SameLocks, LockTypes
  <2>3. Exclusive'   BY <1>8 DEF LockSeat, SeatFree, Exclusive, LockTypes
  <2> QED BY <2>1, <2>2, <2>3 DEF Frame
<1>9. ASSUME NEW s \in Seats, Admit(p, s) PROVE Frame(p)
  BY <1>1, <1>2, <1>9 DEF Admit, Frame
<1>10. ASSUME NEW v \in Visits, OrderOn(p, v) \/ LockVisit(p, v) PROVE Frame(p)
  BY <1>1, <1>2, <1>5, <1>10 DEF OrderOn, LockVisit, Frame
<1>11. CASE Insert(p) \/ Attach(p) \/ GuestFind(p)
  BY <1>1, <1>2, <1>6, <1>11 DEF Insert, InsertVisit, Attach, GuestFind, Frame
<1>12. CASE Claim(p)
  <2>1. CASE Abort(p) BY <1>6, <2>1
  <2>2. CASE ~Abort(p)
    <3>1. Others(p) BY <1>12, <2>2 DEF Claim, Others, ControlTypes
    <3>2. SameLocks(p) /\ Exclusive'
      BY <1>12, <2>2 DEF Claim, SameLocks, Exclusive, LockTypes
    <3> QED BY <3>1, <3>2 DEF Frame
  <2> QED BY <2>1, <2>2
<1>13. CASE Answer(p) \/ Order(p) \/ ClearBell(p) \/ CommitDark(p) \/ Ring(p)
  BY <1>6, <1>13 DEF Answer, Order, CommitVisit, ClearBell, CommitDark, Ring
<1>14. CASE CloseIfLive(p) \/ CommitClose(p)
  <2>1. Others(p) BY <1>14 DEF CloseIfLive, CommitClose, Others, ControlTypes
  <2> QED BY <1>2, <1>3, <1>14, <2>1 DEF CloseIfLive, CommitClose, Frame
<1>15. CASE Check(p)
  <2>1. CASE Abort(p) BY <1>6, <2>1
  <2>2. CASE ~Abort(p)
    <3>1. Others(p) BY <1>15, <2>2 DEF Check, Others, ControlTypes
    <3> QED BY <1>2, <1>15, <2>2, <3>1 DEF Check, Frame
  <2> QED BY <2>1, <2>2
<1> QED
  BY <1>7, <1>8, <1>9, <1>10, <1>11, <1>12, <1>13, <1>14, <1>15 DEF Begin, Proceed

-------------------------------------------------------------------------------
(* The inductive invariant.                                                *)

Empty(s) == \A v \in Visits : IsLive(v) => seatOf[v] # s

LEMMA NobodySits == ASSUME NEW s PROVE LiveOn(s) = {} <=> Empty(s)
BY DEF LiveOn, Empty

(* What a request knows at its next statement: who opens holds the seat    *)
(* row shared, who darkens it holds it alone, who writes a visit that      *)
(* others may see holds its row and finds it live.                         *)
KnowsSeat(p) ==
    /\ pc[p] # "idle" => at[p] \in Seats
    /\ pc[p] = "insert" => p \in shared[at[p]] /\ active[at[p]]
    /\ Inserted(p) => p \in shared[at[p]] /\ active[at[p]] /\ Empty(at[p])
    /\ pc[p] \in {"check", "dark"} => locked[at[p]] = p
    /\ pc[p] = "dark" => Empty(at[p])

KnowsVisit(p) ==
    /\ pc[p] \in {"claim", "order", "answer", "closing", "closed"} =>
          /\ mine[p] \in Visits
          /\ visit[mine[p]] # "none" => seatOf[mine[p]] = at[p]
    /\ pc[p] \in {"order", "closing", "closed"} => claimed[mine[p]] = p
    /\ pc[p] = "order" => Inserted(p) \/ IsLive(mine[p])
    /\ pc[p] \in {"closing", "closed"} => IsLive(mine[p])

Knows(p) == KnowsSeat(p) /\ KnowsVisit(p)

(* A row that is inserted and not committed is met by nobody else, and no  *)
(* other is inserted on its seat: the unique index of live visits.         *)
Apart(p, q) == Inserted(p) => mine[q] # mine[p] /\ (Inserted(q) => at[q] # at[p])

SeatsKnown == \A v \in Visits : visit[v] # "none" => seatOf[v] \in Seats

OneEach == \A v, w \in Visits : IsLive(v) /\ IsLive(w) /\ seatOf[v] = seatOf[w] => v = w
NoneOnDark == \A s \in Seats : ~active[s] => Empty(s)

SeatInv ==
    /\ Types
    /\ Exclusive
    /\ \A p \in Procs : Knows(p)
    /\ \A p, q \in Procs : p # q => Apart(p, q)
    /\ SeatsKnown /\ OneEach /\ NoneOnDark

-------------------------------------------------------------------------------
(* The kinds of step.                                                      *)

Still == UNCHANGED <<active, visit, seatOf>>

Leaves(p) == Still /\ pc'[p] = "idle" /\ mine'[p] = NoVisit

Waits(p) ==
    /\ Still
    /\ at'[p] \in Seats
    /\ mine'[p] \in {NoVisit, mine[p]} \/ (mine'[p] \in Visits /\ visit[mine'[p]] # "none")
    /\ \/ pc'[p] \in {"attach", "find", "ring"}
       \/ pc'[p] = "insert" /\ p \in shared'[at'[p]] /\ active[at'[p]]
       \/ pc'[p] = "check" /\ locked'[at'[p]] = p
       \/ pc'[p] = "dark" /\ locked'[at'[p]] = p /\ Empty(at'[p])

Inserts(p) ==
    /\ Still
    /\ pc'[p] \in {"claim", "answer"}
    /\ at'[p] \in Seats /\ mine'[p] \in Visits
    /\ p \in shared'[at'[p]] /\ active[at'[p]] /\ Empty(at'[p])
    /\ Fresh(mine'[p]) /\ ~IndexBusy(at'[p])

Joins(p) ==
    /\ Still
    /\ pc'[p] \in {"claim", "answer"}
    /\ mine'[p] \in Visits /\ visit[mine'[p]] # "none"
    /\ at'[p] = seatOf[mine'[p]]

Claims(p) ==
    /\ Still
    /\ pc[p] = "claim" /\ pc'[p] = "order"
    /\ at'[p] = at[p] /\ mine'[p] = mine[p]
    /\ Inserted(p) \/ IsLive(mine[p])
    /\ shared' = shared /\ claimed'[mine[p]] = p

Holds(p) ==
    /\ Still
    /\ pc'[p] \in {"closing", "closed"}
    /\ mine'[p] \in Visits /\ IsLive(mine'[p])
    /\ at'[p] = seatOf[mine'[p]]
    /\ claimed'[mine'[p]] = p

Commits(p) ==
    /\ pc[p] = "order" \/ (pc[p] = "answer" /\ Inserted(p))
    /\ \E state \in {"open", "active"} : visit' = [visit EXCEPT ![mine[p]] = state]
    /\ seatOf' = [seatOf EXCEPT ![mine[p]] = at[p]]
    /\ active' = active
    /\ pc'[p] = "idle" /\ mine'[p] = NoVisit

Closes(p) ==
    /\ pc[p] = "closed"
    /\ visit' = [visit EXCEPT ![mine[p]] = "closed"]
    /\ UNCHANGED <<active, seatOf>>
    /\ pc'[p] = "clear bell" /\ at'[p] = at[p] /\ mine'[p] = mine[p]

Darkens(p) ==
    /\ pc[p] = "dark"
    /\ active' = [active EXCEPT ![at[p]] = FALSE]
    /\ UNCHANGED <<visit, seatOf>>
    /\ pc'[p] = "idle" /\ mine'[p] = NoVisit

Kind(p) ==
    \/ Leaves(p) \/ Waits(p) \/ Inserts(p) \/ Joins(p) \/ Claims(p) \/ Holds(p)
    \/ Commits(p) \/ Closes(p) \/ Darkens(p)

LEMMA KindOfStep ==
    ASSUME NEW p \in Procs, SeatInv, Begin(p) \/ Proceed(p)
    PROVE  Kind(p)
<1> USE DEF rows, locks, Goto, On
<1>0. /\ Types /\ Knows(p)
      /\ pc \in [Procs -> Places] /\ at \in [Procs -> Seats \cup {NoSeat}]
      /\ mine \in [Procs -> Visits \cup {NoVisit}]
      /\ shared \in [Seats -> SUBSET Procs]
  BY DEF SeatInv, Types, ControlTypes, LockTypes
<1>1. ASSUME End(p), Still PROVE Leaves(p)
  BY <1>0, <1>1 DEF End, Leaves
<1>2. ASSUME Abort(p) PROVE Leaves(p)
  BY <1>1, <1>2 DEF Abort, Still
<1>3. ASSUME NEW s \in Seats, ShareSeat(p, s) PROVE Waits(p)
  BY <1>0, <1>3 DEF ShareSeat, Waits, Still
<1>4. ASSUME NEW s \in Seats, InsertVisit(p, s, "claim", "find") \/ InsertVisit(p, s, "answer", "attach"),
             Still, p \in shared'[s], active[s]
      PROVE  Inserts(p) \/ Waits(p)
  <2>1. CASE LiveOn(s) = {}
    <3>1. Empty(s) BY <2>1, NobodySits
    <3>2. PICK v \in Visits : Fresh(v) /\ On(p, s, v) /\ pc'[p] \in {"claim", "answer"}
      BY <1>0, <1>4, <2>1 DEF InsertVisit
    <3>3. at'[p] = s /\ mine'[p] = v BY <1>0, <3>2
    <3> QED BY <1>4, <3>1, <3>2, <3>3 DEF Inserts, InsertVisit
  <2>2. CASE LiveOn(s) # {}
    <3>1. at'[p] = s /\ mine'[p] = NoVisit /\ pc'[p] \in {"find", "attach"}
      BY <1>0, <1>4, <2>2 DEF InsertVisit
    <3> QED BY <1>4, <3>1 DEF Waits
  <2> QED BY <2>1, <2>2
<1>5. ASSUME NEW s \in Seats, GuestInsert(p, s) PROVE Inserts(p) \/ Waits(p)
  <2>1. CASE active[s]
    <3>1. p \in shared'[s] BY <1>0, <1>5, <2>1 DEF GuestInsert
    <3> QED BY <1>4, <1>5, <2>1, <3>1 DEF GuestInsert, Still
  <2>2. CASE ~active[s]
    BY <1>0, <1>5, <2>2 DEF GuestInsert, Waits, Still
  <2> QED BY <2>1, <2>2
<1>6. ASSUME Insert(p) PROVE Inserts(p) \/ Waits(p)
  <2>1. at[p] \in Seats /\ p \in shared[at[p]] /\ active[at[p]]
    BY <1>0, <1>6 DEF Insert, Knows, KnowsSeat, KnowsVisit
  <2> QED BY <1>4, <1>6, <2>1 DEF Insert, Still
<1>7. ASSUME NEW s \in Seats, LockSeat(p, s) PROVE Waits(p)
  BY <1>0, <1>7 DEF LockSeat, Waits, Still, Types, LockTypes
<1>8. ASSUME NEW s \in Seats, Admit(p, s) PROVE Waits(p)
  <2>1. PICK v \in LiveOn(s) \cup {NoVisit} : Goto(p, "ring") /\ On(p, s, v)
    BY <1>8 DEF Admit
  <2>2. at'[p] = s /\ mine'[p] = v /\ pc'[p] = "ring" BY <1>0, <2>1
  <2>3. v = NoVisit \/ (v \in Visits /\ visit[v] # "none") BY DEF LiveOn, IsLive
  <2> QED BY <1>8, <2>2, <2>3 DEF Admit, Waits, Still
<1>9. ASSUME NEW v \in Visits, OrderOn(p, v) PROVE Joins(p)
  BY <1>0, <1>9 DEF OrderOn, Joins, Still
<1>10. ASSUME NEW v \in Visits, LockVisit(p, v) PROVE Holds(p)
  BY <1>0, <1>10 DEF LockVisit, Holds, Still, Types, LockTypes
<1>11. ASSUME Attach(p) \/ GuestFind(p) PROVE Leaves(p) \/ Joins(p)
  <2>1. CASE \E v \in LiveOn(at[p]) : \E place \in {"claim", "answer"} :
               Goto(p, place) /\ On(p, at[p], v) /\ UNCHANGED <<rows, locks>>
    <3>1. PICK v \in LiveOn(at[p]) : \E place \in {"claim", "answer"} :
               Goto(p, place) /\ On(p, at[p], v) /\ UNCHANGED <<rows, locks>>
      BY <2>1
    <3>2. v \in Visits /\ visit[v] # "none" /\ seatOf[v] = at[p] BY DEF LiveOn, IsLive
    <3> QED BY <1>0, <3>1, <3>2 DEF Joins, Still
  <2>2. CASE Abort(p) BY <1>2, <2>2
  <2> QED BY <1>11, <2>1, <2>2 DEF Attach, GuestFind
<1>12. ASSUME Claim(p) PROVE Leaves(p) \/ Claims(p)
  <2>1. CASE Inserted(p) \/ IsLive(mine[p])
    <3>1. mine[p] \in Visits BY <1>0, <1>12 DEF Claim, Knows, KnowsSeat, KnowsVisit
    <3> QED BY <1>0, <1>12, <2>1, <3>1 DEF Claim, Claims, Still, Types, LockTypes
  <2>2. CASE ~(Inserted(p) \/ IsLive(mine[p])) BY <1>2, <1>12, <2>2 DEF Claim
  <2> QED BY <2>1, <2>2
<1>13. ASSUME Answer(p) \/ Order(p) PROVE Leaves(p) \/ Commits(p)
  <2>1. CASE Abort(p) BY <1>2, <2>1
  <2>2. CASE \E state \in {"open", "active"} : CommitVisit(p, state)
    <3>1. pc[p] = "order" \/ (pc[p] = "answer" /\ Inserted(p)) \/ Abort(p)
      BY <1>13 DEF Answer, Order
    <3> QED BY <1>0, <1>2, <2>2, <3>1 DEF CommitVisit, End, Commits
  <2> QED BY <1>13, <2>1, <2>2 DEF Answer, Order
<1>14. ASSUME CloseIfLive(p) PROVE Holds(p)
  BY <1>0, <1>14 DEF CloseIfLive, Holds, Still, Knows, KnowsSeat, KnowsVisit, IsLive
<1>15. ASSUME CommitClose(p) PROVE Closes(p)
  BY <1>0, <1>15 DEF CommitClose, Closes
<1>16. ASSUME ClearBell(p) \/ Ring(p) PROVE Leaves(p)
  BY <1>1, <1>16 DEF ClearBell, Ring, Still
<1>17. ASSUME Check(p) PROVE Leaves(p) \/ Waits(p)
  <2>1. CASE Abort(p) BY <1>2, <2>1
  <2>2. CASE ~Abort(p)
    <3>1. LiveOn(at[p]) = {} /\ pc'[p] = "dark" /\ UNCHANGED <<rows, at, mine, locks>>
      BY <1>0, <1>17, <2>2 DEF Check
    <3>2. Empty(at[p]) BY <3>1, NobodySits
    <3>3. at[p] \in Seats /\ locked[at[p]] = p BY <1>0, <1>17 DEF Check, Knows, KnowsSeat, KnowsVisit
    <3> QED BY <3>1, <3>2, <3>3 DEF Waits, Still
  <2> QED BY <2>1, <2>2
<1>18. ASSUME CommitDark(p) PROVE Darkens(p)
  BY <1>0, <1>18 DEF CommitDark, Darkens, End
<1> QED
  BY <1>3, <1>5, <1>6, <1>7, <1>8, <1>9, <1>10, <1>11, <1>12, <1>13, <1>14, <1>15, <1>16, <1>17, <1>18
     DEF Begin, Proceed, Kind

-------------------------------------------------------------------------------
(* Each kind of step keeps the invariant.                                  *)

(* What another request knows of its seat stays true when the seat it      *)
(* shares stays in service and the seat it counts on stays empty.          *)
LEMMA SeatStays ==
    ASSUME NEW p \in Procs, NEW q \in Procs \ {p}, Frame(p), KnowsSeat(q),
           Inserted(q)' <=> Inserted(q),
           pc[q] = "insert" \/ Inserted(q) => active'[at[q]] = active[at[q]],
           pc[q] = "dark" \/ Inserted(q) => Empty(at[q])'
    PROVE  KnowsSeat(q)'
<1>1. pc'[q] = pc[q] /\ at'[q] = at[q] /\ mine'[q] = mine[q] BY DEF Frame, Others
<1>2. Inserted(q) => pc[q] # "idle" BY DEF Inserted
<1>3. at[q] \in Seats => /\ q \in shared'[at[q]] <=> q \in shared[at[q]]
                         /\ locked'[at[q]] = q <=> locked[at[q]] = q
  BY DEF Frame, SameLocks
<1>4. (pc[q] # "idle" => at[q] \in Seats)' BY <1>1 DEF KnowsSeat
<1>5. (pc[q] = "insert" => q \in shared[at[q]] /\ active[at[q]])' BY <1>1, <1>3 DEF KnowsSeat
<1>6. (Inserted(q) => q \in shared[at[q]] /\ active[at[q]])' BY <1>1, <1>2, <1>3 DEF KnowsSeat
<1>7. (pc[q] \in {"check", "dark"} => locked[at[q]] = q)' BY <1>1, <1>3 DEF KnowsSeat
<1>8. (pc[q] = "dark" => Empty(at[q]))' /\ (Inserted(q) => Empty(at[q]))' BY <1>1
<1> QED BY <1>4, <1>5, <1>6, <1>7, <1>8 DEF KnowsSeat

(* Nothing but the request itself moves: the others know what they knew.   *)
LEMMA OthersStill ==
    ASSUME NEW p \in Procs, NEW q \in Procs \ {p}, SeatInv, Frame(p), Still
    PROVE  Knows(q)'
<1>1. Types /\ Knows(q) BY DEF SeatInv
<1>2. pc'[q] = pc[q] /\ at'[q] = at[q] /\ mine'[q] = mine[q] BY DEF Frame, Others
<1>3. at[q] \in Seats => (q \in shared'[at[q]] <=> q \in shared[at[q]]) /\ (locked'[at[q]] = q <=> locked[at[q]] = q)
  BY DEF Frame, SameLocks
<1>4. mine[q] \in Visits => (claimed'[mine[q]] = q <=> claimed[mine[q]] = q)
  BY DEF Frame, SameLocks
<1> QED
  BY <1>1, <1>2, <1>3, <1>4 DEF Knows, KnowsSeat, KnowsVisit, Still, Inserted, Empty, IsLive

LEMMA RowsStill ==
    ASSUME SeatInv, Still PROVE (SeatsKnown /\ OneEach /\ NoneOnDark)'
BY DEF SeatInv, Still, SeatsKnown, OneEach, NoneOnDark, Empty, IsLive

(* What the request itself knows after its step.                           *)
LEMMA SelfKnows ==
    ASSUME NEW p \in Procs, SeatInv, Types', Kind(p) PROVE Knows(p)'
<1>1. Knows(p) /\ SeatsKnown /\ Types BY DEF SeatInv
<1>2. CASE Leaves(p) \/ Commits(p) \/ Darkens(p)
  BY <1>2 DEF Leaves, Commits, Darkens, Knows, KnowsSeat, KnowsVisit, Inserted
<1>3. CASE Waits(p)
  BY <1>3 DEF Waits, Still, Knows, KnowsSeat, KnowsVisit, Inserted, Empty, IsLive
<1>4. CASE Inserts(p)
  BY <1>4 DEF Inserts, Fresh, Still, Knows, KnowsSeat, KnowsVisit, Inserted, Empty, IsLive
<1>5. CASE Joins(p)
  BY <1>1, <1>5 DEF Joins, Still, SeatsKnown, Knows, KnowsSeat, KnowsVisit, Inserted
<1>6. CASE Claims(p)
  BY <1>1, <1>6 DEF Claims, Still, Knows, KnowsSeat, KnowsVisit, Inserted, Empty, IsLive
<1>7. CASE Holds(p)
  BY <1>1, <1>7 DEF Holds, Still, SeatsKnown, Knows, KnowsSeat, KnowsVisit, Inserted, IsLive
<1>8. CASE Closes(p)
  BY <1>1, <1>8 DEF Closes, Knows, KnowsSeat, KnowsVisit, Inserted
<1> QED
  BY <1>2, <1>3, <1>4, <1>5, <1>6, <1>7, <1>8, Kind(p) DEF Kind

(* Two requests stay apart when one of them moves.                         *)
LEMMA StayApart ==
    ASSUME NEW p \in Procs, SeatInv, Frame(p), Kind(p),
           NEW q \in Procs, NEW r \in Procs, q # r
    PROVE  Apart(q, r)'
<1>1. /\ \A a, b \in Procs : a # b => Apart(a, b)
      /\ \A a \in Procs : Knows(a)
      /\ Types
  BY DEF SeatInv
<1>2. \A a \in Procs \ {p} : pc'[a] = pc[a] /\ at'[a] = at[a] /\ mine'[a] = mine[a]
  BY DEF Frame, Others
<1>3. \A a \in Procs \ {p} : Inserted(a)' => Inserted(a)
  <2> SUFFICES ASSUME NEW a \in Procs \ {p}, Inserted(a)' PROVE Inserted(a)
    OBVIOUS
  <2>1. mine[a] \in Visits BY <1>1, <1>2 DEF Inserted, Types, ControlTypes
  <2>2. visit[mine[a]] = "none"
    <3>1. visit'[mine[a]] = "none" BY <1>2 DEF Inserted
    <3>2. CASE Commits(p) \/ Closes(p)
      <4>1. mine[p] \in Visits /\ visit'[mine[p]] \in {"open", "active", "closed"}
            /\ \A v \in Visits \ {mine[p]} : visit'[v] = visit[v]
        <5>1. mine[p] \in Visits BY <1>1, <3>2 DEF Commits, Closes, Knows, KnowsVisit
        <5> QED BY <1>1, <3>2, <5>1 DEF Commits, Closes, Types, RowTypes
      <4> QED BY <2>1, <3>1, <4>1
    <3>3. CASE ~(Commits(p) \/ Closes(p))
      BY <3>1, <3>3 DEF Kind, Leaves, Waits, Inserts, Joins, Claims, Holds, Darkens, Still
    <3> QED BY <3>2, <3>3
  <2> QED BY <1>2, <2>2 DEF Inserted
<1>4. Inserted(p)' => Inserts(p) \/ (Claims(p) /\ Inserted(p))
  BY DEF Inserted, Kind, Leaves, Waits, Inserts, Joins, Claims, Holds, Commits, Closes, Darkens, Still
<1>5. CASE q = p
  <2>1. CASE Inserts(p)
    BY <1>2, <1>3, <1>5, <2>1 DEF Apart, Inserts, Fresh, IndexBusy
  <2>2. CASE Claims(p) /\ Inserted(p)
    BY <1>1, <1>2, <1>3, <1>5, <2>2 DEF Apart, Claims
  <2> QED BY <1>4, <1>5, <2>1, <2>2 DEF Apart
<1>6. CASE r = p
  <2> SUFFICES ASSUME Inserted(q)' PROVE mine'[q] # mine'[p] /\ (Inserted(p)' => at'[q] # at'[p])
    BY <1>6 DEF Apart
  <2>1. Inserted(q) /\ mine'[q] = mine[q] /\ at'[q] = at[q] BY <1>2, <1>3, <1>6
  <2>2. mine[q] # NoVisit /\ visit[mine[q]] = "none" BY <2>1 DEF Inserted
  <2>3. mine[q] # mine[p] /\ (Inserted(p) => at[q] # at[p]) BY <1>1, <1>6, <2>1 DEF Apart
  <2>4. Inserted(p)' => at'[q] # at'[p]
    BY <1>4, <1>6, <2>1, <2>3 DEF Inserts, IndexBusy, Claims
  <2>5. mine[q] # mine'[p]
    BY <1>6, <2>2, <2>3
       DEF Kind, Leaves, Waits, Inserts, Fresh, Joins, Claims, Holds, Commits, Closes, Darkens, IsLive
  <2> QED BY <2>1, <2>4, <2>5
<1>7. CASE q # p /\ r # p
  BY <1>1, <1>2, <1>3, <1>7 DEF Apart
<1> QED BY <1>5, <1>6, <1>7

(* A commit adds a live visit to a seat that had none, or touches one that *)
(* was live there: nobody who counts on the seat is on it.                 *)
LEMMA CommitKeeps ==
    ASSUME NEW p \in Procs, SeatInv, Frame(p), Commits(p)
    PROVE  /\ \A q \in Procs \ {p} : Knows(q)'
           /\ (SeatsKnown /\ OneEach /\ NoneOnDark)'
<1> DEFINE w == mine[p]
<1>1. /\ Types /\ Exclusive /\ Knows(p) /\ SeatsKnown /\ OneEach /\ NoneOnDark
      /\ w \in Visits /\ at[p] \in Seats
  BY DEF SeatInv, Commits, Knows, KnowsSeat, KnowsVisit
<1>2. /\ visit' \in [Visits -> {"none", "open", "active", "closed"}]
      /\ visit'[w] \in {"open", "active"} /\ seatOf'[w] = at[p]
      /\ \A v \in Visits \ {w} : visit'[v] = visit[v] /\ seatOf'[v] = seatOf[v]
      /\ active' = active
  BY <1>1 DEF Commits, IsLive, Types, RowTypes
<1>3. Inserted(p) \/ (IsLive(w) /\ seatOf[w] = at[p])
  BY <1>1 DEF Commits, Knows, KnowsSeat, KnowsVisit, IsLive
<1>4. \A s \in Seats : Empty(s) /\ s # at[p] => Empty(s)'
  BY <1>2 DEF Empty, IsLive
<1>5. ~Inserted(p) => \A s : Empty(s) => Empty(s)'
  BY <1>2, <1>3 DEF Empty, IsLive
<1>6. ASSUME NEW q \in Procs \ {p} PROVE Knows(q)'
  <2>1. Knows(q) /\ Apart(p, q) /\ Apart(q, p) BY DEF SeatInv
  <2>2. pc'[q] = pc[q] /\ at'[q] = at[q] /\ mine'[q] = mine[q] BY DEF Frame, Others
  <2>3. mine[q] \in Visits => (claimed'[mine[q]] = q <=> claimed[mine[q]] = q)
    BY DEF Frame, SameLocks
  <2>4. mine[q] \in Visits => (visit'[mine[q]] = "none" <=> visit[mine[q]] = "none")
                           /\ (visit[mine[q]] # "none" => seatOf'[mine[q]] = seatOf[mine[q]])
                           /\ (IsLive(mine[q]) => visit'[mine[q]] \in {"open", "active"})
    BY <1>1, <1>2, <1>3, <2>1 DEF Apart, Inserted, IsLive
  <2>5. Inserted(q)' <=> Inserted(q)
    BY <2>2, <2>4, <1>1 DEF Inserted, Types, ControlTypes
  <2>6. Inserted(q) => Empty(at[q])'
    BY <1>4, <1>5, <2>1, <2>2 DEF Knows, KnowsSeat, KnowsVisit, Apart, Inserted
  <2>7. pc[q] = "dark" => Empty(at[q])'
    <3>1. Inserted(p) => locked[at[p]] = Nobody BY <1>1 DEF Knows, KnowsSeat, KnowsVisit, Exclusive
    <3>2. pc[q] = "dark" => at[q] \in Seats /\ locked[at[q]] = q /\ Empty(at[q]) BY <2>1 DEF Knows, KnowsSeat, KnowsVisit
    <3> QED BY <1>4, <1>5, <2>2, <3>1, <3>2
  <2>8. KnowsSeat(q)'
    BY <1>2, <2>1, <2>5, <2>6, <2>7, SeatStays DEF Knows
  <2>9. KnowsVisit(q)'
    BY <2>1, <2>2, <2>3, <2>4, <2>5 DEF Knows, KnowsVisit, IsLive
  <2> QED BY <2>8, <2>9 DEF Knows
<1>7. SeatsKnown'
  BY <1>1, <1>2 DEF SeatsKnown
<1>8. OneEach'
  <2>1. Inserted(p) => Empty(at[p]) BY <1>1 DEF Knows, KnowsSeat, KnowsVisit
  <2> QED BY <1>1, <1>2, <1>3, <2>1 DEF OneEach, Empty, IsLive
<1>9. NoneOnDark'
  <2>1. active[at[p]]
    BY <1>1, <1>3 DEF Knows, KnowsSeat, KnowsVisit, NoneOnDark, Empty
  <2> QED BY <1>1, <1>2, <1>4, <2>1 DEF NoneOnDark
<1> QED BY <1>6, <1>7, <1>8, <1>9

(* A close takes a live visit its request holds off its seat.              *)
LEMMA CloseKeeps ==
    ASSUME NEW p \in Procs, SeatInv, Frame(p), Closes(p)
    PROVE  /\ \A q \in Procs \ {p} : Knows(q)'
           /\ (SeatsKnown /\ OneEach /\ NoneOnDark)'
<1> DEFINE w == mine[p]
<1>1. /\ Types /\ Knows(p) /\ SeatsKnown /\ OneEach /\ NoneOnDark
      /\ w \in Visits /\ IsLive(w) /\ claimed[w] = p
  BY DEF SeatInv, Closes, Knows, KnowsSeat, KnowsVisit
<1>2. /\ visit'[w] = "closed"
      /\ \A v \in Visits \ {w} : visit'[v] = visit[v]
      /\ active' = active /\ seatOf' = seatOf
  BY <1>1 DEF Closes, Types, RowTypes
<1>3. \A s : Empty(s) => Empty(s)'
  BY <1>2 DEF Empty, IsLive
<1>4. ASSUME NEW q \in Procs \ {p} PROVE Knows(q)'
  <2>1. Knows(q) BY DEF SeatInv
  <2>2. pc'[q] = pc[q] /\ at'[q] = at[q] /\ mine'[q] = mine[q] BY DEF Frame, Others
  <2>3. mine[q] \in Visits => (claimed'[mine[q]] = q <=> claimed[mine[q]] = q)
    BY DEF Frame, SameLocks
  <2>4. mine[q] \in Visits => (visit'[mine[q]] = "none" <=> visit[mine[q]] = "none")
    BY <1>1, <1>2 DEF IsLive
  <2>5. Inserted(q)' <=> Inserted(q)
    BY <2>2, <2>4, <1>1 DEF Inserted, Types, ControlTypes
  <2>6. pc[q] \in {"order", "closing", "closed"} => mine[q] # w
    BY <1>1, <2>1 DEF Knows, KnowsSeat, KnowsVisit
  <2>7. mine[q] # w /\ mine[q] \in Visits => (IsLive(mine[q]) <=> visit'[mine[q]] \in {"open", "active"})
    BY <1>2 DEF IsLive
  <2>8. KnowsSeat(q)'
    <3>1. pc[q] = "dark" \/ Inserted(q) => Empty(at[q])'
      BY <1>3, <2>1, <2>2 DEF Knows, KnowsSeat
    <3> QED BY <1>2, <2>1, <2>5, <3>1, SeatStays DEF Knows
  <2>9. KnowsVisit(q)'
    BY <1>2, <2>1, <2>2, <2>3, <2>4, <2>5, <2>6, <2>7 DEF Knows, KnowsVisit, IsLive
  <2> QED BY <2>8, <2>9 DEF Knows
<1>5. (SeatsKnown /\ OneEach /\ NoneOnDark)'
  BY <1>1, <1>2, <1>3 DEF SeatsKnown, OneEach, NoneOnDark, IsLive
<1> QED BY <1>4, <1>5

(* A seat goes dark under the one request that holds its row.              *)
LEMMA DarkKeeps ==
    ASSUME NEW p \in Procs, SeatInv, Frame(p), Darkens(p)
    PROVE  /\ \A q \in Procs \ {p} : Knows(q)'
           /\ (SeatsKnown /\ OneEach /\ NoneOnDark)'
<1>1. /\ Types /\ Exclusive /\ SeatsKnown /\ OneEach /\ NoneOnDark
      /\ at[p] \in Seats /\ locked[at[p]] = p /\ Empty(at[p])
  BY DEF SeatInv, Darkens, Knows, KnowsSeat, KnowsVisit
<1>2. /\ \A s \in Seats \ {at[p]} : active'[s] = active[s]
      /\ visit' = visit /\ seatOf' = seatOf
  BY <1>1 DEF Darkens, Types, RowTypes
<1>3. \A s : Empty(s)' <=> Empty(s)
  BY <1>2 DEF Empty, IsLive
<1>4. ASSUME NEW q \in Procs \ {p} PROVE Knows(q)'
  <2>1. Knows(q) BY DEF SeatInv
  <2>2. pc'[q] = pc[q] /\ at'[q] = at[q] /\ mine'[q] = mine[q] BY DEF Frame, Others
  <2>3. at[q] \in Seats => (q \in shared'[at[q]] <=> q \in shared[at[q]]) /\ (locked'[at[q]] = q <=> locked[at[q]] = q)
    BY DEF Frame, SameLocks
  <2>4. mine[q] \in Visits => (claimed'[mine[q]] = q <=> claimed[mine[q]] = q)
    BY DEF Frame, SameLocks
  <2>5. at[q] \in Seats /\ q \in shared[at[q]] => at[q] # at[p]
    BY <1>1 DEF Exclusive
  <2>6. Inserted(q)' <=> Inserted(q)
    BY <1>2, <2>2 DEF Inserted
  <2> QED
    BY <1>2, <1>3, <2>1, <2>2, <2>3, <2>4, <2>5, <2>6 DEF Knows, KnowsSeat, KnowsVisit, Inserted, IsLive
<1>5. (SeatsKnown /\ OneEach /\ NoneOnDark)'
  BY <1>1, <1>2, <1>3 DEF SeatsKnown, OneEach, NoneOnDark, IsLive
<1> QED BY <1>4, <1>5

LEMMA RequestKeeps ==
    ASSUME NEW p \in Procs, SeatInv, Begin(p) \/ Proceed(p)
    PROVE  SeatInv'
<1>1. Types' /\ Frame(p) /\ Kind(p)
  BY TypesHold, FrameHolds, KindOfStep DEF SeatInv
<1>2. Knows(p)'
  BY <1>1, SelfKnows
<1>3. \A q, r \in Procs : q # r => Apart(q, r)'
  BY <1>1, StayApart
<1>4. (\A q \in Procs \ {p} : Knows(q)') /\ (SeatsKnown /\ OneEach /\ NoneOnDark)'
  <2>1. CASE Still BY <1>1, <2>1, OthersStill, RowsStill
  <2>2. CASE ~Still
    <3>1. Commits(p) \/ Closes(p) \/ Darkens(p)
      BY <1>1, <2>2 DEF Kind, Leaves, Waits, Inserts, Joins, Claims, Holds
    <3> QED BY <1>1, <3>1, CommitKeeps, CloseKeeps, DarkKeeps
  <2> QED BY <2>1, <2>2
<1> QED
  BY <1>1, <1>2, <1>3, <1>4 DEF SeatInv, Frame

(* A manager puts a seat back, or staff answer a bell: no request, lock or *)
(* visit is touched.                                                       *)
LEMMA SeatKeeps ==
    ASSUME NEW s \in Seats, SeatInv, Activate(s) \/ Acknowledge(s)
    PROVE  SeatInv'
<1>1. /\ UNCHANGED <<visit, seatOf, pc, at, mine, shared, locked, claimed>>
      /\ \A t \in Seats : active[t] => active'[t]
  BY DEF Activate, Acknowledge, locks, SeatInv, Types, RowTypes
<1>2. Types'
  BY <1>1 DEF SeatInv, Types, RowTypes, ControlTypes, LockTypes, Activate, Acknowledge
<1>3. \A t : Empty(t)' <=> Empty(t)
  BY <1>1 DEF Empty, IsLive
<1>4. ASSUME NEW p \in Procs PROVE Knows(p)'
  <2>1. Knows(p) /\ (Inserted(p)' <=> Inserted(p)) BY <1>1 DEF SeatInv, Inserted
  <2>2. Inserted(p) => pc[p] # "idle" BY DEF Inserted
  <2>3. KnowsSeat(p)'
    BY <1>1, <1>3, <2>1, <2>2 DEF Knows, KnowsSeat
  <2>4. KnowsVisit(p)'
    BY <1>1, <2>1 DEF Knows, KnowsVisit, IsLive
  <2> QED BY <2>3, <2>4 DEF Knows
<1>5. ASSUME NEW p \in Procs, NEW q \in Procs, p # q PROVE Apart(p, q)'
  BY <1>1, <1>5 DEF SeatInv, Apart, Inserted
<1>6. (Exclusive /\ SeatsKnown /\ OneEach /\ NoneOnDark)'
  BY <1>1, <1>3 DEF SeatInv, Exclusive, SeatsKnown, OneEach, NoneOnDark, IsLive
<1> QED
  BY <1>2, <1>4, <1>5, <1>6 DEF SeatInv

LEMMA SeatInvariance == Spec => []SeatInv
<1>1. Init => SeatInv
  <2> SUFFICES ASSUME Init PROVE SeatInv
    OBVIOUS
  <2>1. Types
    BY DEF Init, Types, RowTypes, ControlTypes, LockTypes, Places
  <2>2. \A v \in Visits : visit[v] = "none"
    BY DEF Init
  <2>3. \A p \in Procs : Knows(p)
    BY DEF Init, Knows, KnowsSeat, KnowsVisit, Inserted
  <2> QED
    BY <2>1, <2>2, <2>3
       DEF Init, SeatInv, Exclusive, Apart, Inserted, SeatsKnown, OneEach, NoneOnDark, IsLive
<1>2. SeatInv /\ [Next]_vars => SeatInv'
  <2> SUFFICES ASSUME SeatInv, [Next]_vars PROVE SeatInv'
    OBVIOUS
  <2>1. CASE \E p \in Procs : Begin(p) \/ Proceed(p)
    BY <2>1, RequestKeeps
  <2>2. CASE \E s \in Seats : Activate(s) \/ Acknowledge(s)
    BY <2>2, SeatKeeps
  <2>3. CASE UNCHANGED vars
    BY <2>3 DEF vars, rows, locks, SeatInv, Types, RowTypes, ControlTypes, LockTypes, Exclusive,
        Knows, KnowsSeat, KnowsVisit, Apart, Inserted, Empty, IsLive, SeatsKnown, OneEach, NoneOnDark
  <2> QED
    BY <2>1, <2>2, <2>3 DEF Next
<1> QED
  BY <1>1, <1>2, PTL DEF Spec

-------------------------------------------------------------------------------
(* The theorems.                                                           *)

(* Every reachable state is well typed.                                    *)
THEOREM SeatTypes == Spec => []TypeOK
<1>1. SeatInv => TypeOK
  BY TypesAreTypeOK DEF SeatInv
<1> QED
  BY <1>1, SeatInvariance, PTL

(* A seat has one live visit, however many phones and staff open it.       *)
THEOREM OneVisitPerSeat == Spec => []OneLivePerSeat
<1>1. SeatInv => OneLivePerSeat
  BY DEF SeatInv, OneEach, OneLivePerSeat, LiveOn
<1> QED
  BY <1>1, SeatInvariance, PTL

(* No guests sit on a seat that is out of service.                         *)
THEOREM DarkSeatsAreEmpty == Spec => []NoGuestsOnDarkSeat
<1>1. SeatInv => NoGuestsOnDarkSeat
  BY NobodySits DEF SeatInv, NoneOnDark, NoGuestsOnDarkSeat
<1> QED
  BY <1>1, SeatInvariance, PTL

(* No order, attach or late close brings a closed visit back.              *)
THEOREM ClosedVisitsStay == Spec => ClosedStaysClosed
<1>1. ASSUME SeatInv, [Next]_vars, NEW v \in Visits, visit[v] = "closed"
      PROVE  visit'[v] = "closed"
  <2>1. ASSUME NEW p \in Procs, Begin(p) \/ Proceed(p) PROVE visit'[v] = "closed"
    <3>1. Types /\ Knows(p) /\ Kind(p)
      BY <1>1, <2>1, KindOfStep DEF SeatInv
    <3>2. CASE Commits(p)
      <4>1. mine[p] \in Visits /\ visit[mine[p]] # "closed"
        BY <3>1, <3>2 DEF Commits, Knows, KnowsVisit, Inserted, IsLive
      <4> QED BY <1>1, <3>1, <3>2, <4>1 DEF Commits, Types, RowTypes
    <3>3. CASE Closes(p)
      BY <1>1, <3>1, <3>3 DEF Closes, Types, RowTypes
    <3>4. CASE visit' = visit
      BY <1>1, <3>4
    <3> QED
      BY <3>1, <3>2, <3>3, <3>4
         DEF Kind, Leaves, Waits, Inserts, Joins, Claims, Holds, Darkens, Still
  <2>2. CASE \E s \in Seats : Activate(s) \/ Acknowledge(s)
    BY <1>1, <2>2 DEF Activate, Acknowledge
  <2>3. CASE UNCHANGED vars
    BY <1>1, <2>3 DEF vars, rows
  <2> QED
    BY <1>1, <2>1, <2>2, <2>3 DEF Next
<1>2. SeatInv /\ [Next]_vars =>
          [\A v \in Visits : visit[v] = "closed" => visit'[v] = "closed"]_vars
  BY <1>1
<1> QED
  BY <1>2, SeatInvariance, PTL DEF Spec, ClosedStaysClosed
===============================================================================
