----------------------------- MODULE PaymentProofs -----------------------------
(***************************************************************************)
(* Proofs about what a guest pays with.                                    *)
(*                                                                         *)
(* PaymentSettle, for every set of payments and slips, with the queue and  *)
(* the server failing as they like: how a payment ended is consistent and  *)
(* is never rewritten.                                                     *)
(*                                                                         *)
(* Idempotency, for any number of requests and payloads: what a request    *)
(* answers with, and that no request repeats the write of another that did *)
(* not fail.  The answer rests on what is stored under the key.  The       *)
(* single write rests on who works on it: as long as no claim was lost,    *)
(* one request at most is between its claim and its answer, and the key is *)
(* its claim.                                                              *)
(***************************************************************************)
EXTENDS PaymentSettle, Idempotency, TLAPS

Jobs == {"none", "waiting", "failed"}
Flags == due \in [Payments -> BOOLEAN] /\ job \in [Payments -> Jobs]

(* One payment falls due.                                                  *)
LEMMA FlagSet ==
    ASSUME NEW f \in [Payments -> BOOLEAN], NEW p \in Payments, NEW b \in BOOLEAN
    PROVE  [f EXCEPT ![p] = b] \in [Payments -> BOOLEAN]
  BY Zenon

(* The clock and the queue keep their columns in their types.              *)
LEMMA FlagsKept == TypeOK /\ [Next]_vars => Flags'
<1> SUFFICES ASSUME TypeOK, [Next]_vars PROVE Flags'
  OBVIOUS
<1>1. due \in [Payments -> BOOLEAN] /\ job \in [Payments -> Jobs]
  BY Zenon DEF TypeOK, Jobs
<1>2. CASE UNCHANGED <<due, job>>
  BY <1>1, <1>2, Zenon DEF Flags
<1>3. ASSUME NEW p \in Payments, NEW b \in BOOLEAN,
             due' = [due EXCEPT ![p] = b] /\ UNCHANGED job
      PROVE  Flags'
  BY <1>1, <1>3, FlagSet, Zenon DEF Flags
<1>4. ASSUME NEW p \in Payments, NEW j \in Jobs,
             job' = [job EXCEPT ![p] = j] /\ UNCHANGED due
      PROVE  Flags'
  BY <1>1, <1>4, Zenon DEF Flags
<1> "none" \in Jobs /\ "waiting" \in Jobs /\ "failed" \in Jobs
  BY DEF Jobs
<1>5. ASSUME NEW p \in Payments, PaymentNext(p) PROVE Flags'
  <2>1. CASE TimePasses(p)
    BY <2>1, <1>3, Zenon DEF TimePasses
  <2>2. CASE Schedule(p)
    BY <2>2, <1>2, <1>4, Zenon DEF Schedule
  <2>3. CASE RunJob(p)
    BY <2>3, <1>4, Zenon DEF RunJob
  <2>4. CASE Unschedule(p)
    BY <2>4, <1>2, <1>4, Zenon DEF Unschedule
  <2>5. CASE ClearTransferCall(p) \/ Stop(p) \/ Create(p) \/ MarkPaid(p) \/ Cancel(p)
    BY <2>5, <1>2, Zenon DEF ClearTransferCall, Stop, Create, MarkPaid, Cancel
  <2>6. CASE SlipNext(p) \/ TellTransfer(p) \/ RingTransfer(p)
    BY <2>6, <1>2, Zenon
       DEF SlipNext, SendSlip, SlipAnswer, SlipRefused, TellTransfer, RingTransfer
  <2> QED
    BY <1>5, <2>1, <2>2, <2>3, <2>4, <2>5, <2>6, Zenon DEF PaymentNext, AfterCommit
<1>6. CASE CallStaff \/ Acknowledge \/ LoadSeat \/ SaveSeat \/ Restart \/ UNCHANGED vars
  BY <1>6, <1>2, Zenon DEF CallStaff, Acknowledge, LoadSeat, SaveSeat, Restart, vars
<1> QED
  BY <1>5, <1>6, Zenon DEF Next

-------------------------------------------------------------------------------
(* The steps that end a payment, and all the others.                       *)

(* What a step may do to one payment, as far as the properties can tell.   *)
Untouched == UNCHANGED <<status, via, slip>> /\ \A p \in Payments : due[p] => due'[p]

Ended(p, final, way) ==
    /\ Pending(p)
    /\ status' = [status EXCEPT ![p] = final]
    /\ via' = [via EXCEPT ![p] = way]
    /\ UNCHANGED due

EndsBySlip(p, s) ==
    /\ s \in Genuine /\ ~Used(s)
    /\ Ended(p, "completed", "slip")
    /\ slip' = [slip EXCEPT ![p] = s]

EndsByHand(p) ==
    /\ \E final \in {"completed", "cancelled"}, way \in {"staff", "cancelled by hand"} :
          Ended(p, final, way)
    /\ UNCHANGED slip

EndsByClock(p) == due[p] /\ Ended(p, "cancelled", "expired") /\ UNCHANGED slip

Starts(p) ==
    /\ status[p] = "none"
    /\ status' = [status EXCEPT ![p] = "pending"]
    /\ UNCHANGED <<via, slip, due>>

(* Every step of the system is of one of five kinds.                       *)
LEMMA StepKinds ==
    ASSUME TypeOK, [Next]_vars
    PROVE  \/ Untouched
           \/ \E p \in Payments : \/ Starts(p) \/ EndsByHand(p) \/ EndsByClock(p)
                                  \/ \E s \in Slips : EndsBySlip(p, s)
<1>1. ASSUME NEW p \in Payments, TimePasses(p) PROVE Untouched
  BY <1>1 DEF TimePasses, Untouched, TypeOK
<1>2. ASSUME NEW p \in Payments, AfterCommit(p) \/ TellTransfer(p) \/ RingTransfer(p)
      PROVE  Untouched
  BY <1>2 DEF AfterCommit, Schedule, Unschedule, ClearTransferCall, Stop, TellTransfer,
              RingTransfer, Untouched
<1>3. ASSUME NEW p \in Payments, NEW s \in Slips, SendSlip(p, s) \/ SlipRefused(p, s)
      PROVE  Untouched
  BY <1>3 DEF SendSlip, SlipRefused, Untouched
<1>4. ASSUME CallStaff \/ Acknowledge \/ LoadSeat \/ SaveSeat \/ Restart PROVE Untouched
  BY <1>4 DEF CallStaff, Acknowledge, LoadSeat, SaveSeat, Restart, Untouched
<1>5. CASE UNCHANGED vars
  BY <1>5 DEF vars, Untouched
<1>6. ASSUME NEW p \in Payments, Create(p) PROVE Starts(p)
  BY <1>6 DEF Create, Starts
<1>7. ASSUME NEW p \in Payments, MarkPaid(p) \/ Cancel(p) PROVE EndsByHand(p)
  BY <1>7 DEF MarkPaid, Cancel, Leave, EndsByHand, Ended
<1>8. ASSUME NEW p \in Payments, NEW s \in Slips, SlipAnswer(p, s)
      PROVE  Untouched \/ EndsBySlip(p, s)
  BY <1>8 DEF SlipAnswer, CompleteFromSlip, Leave, EndsBySlip, Ended, Untouched
<1>9. ASSUME NEW p \in Payments, RunJob(p) PROVE Untouched \/ EndsByClock(p)
  BY <1>9 DEF RunJob, Leave, IsDue, EndsByClock, Ended, Untouched
<1> QED
  BY <1>1, <1>2, <1>3, <1>4, <1>5, <1>6, <1>7, <1>8, <1>9 DEF Next, PaymentNext, SlipNext

-------------------------------------------------------------------------------
(* Types, by groups of columns.                                            *)

Words ==
    /\ status \in [Payments -> {"none", "pending", "completed", "cancelled"}]
    /\ via \in [Payments -> Ways]
    /\ slip \in [Payments -> Slips \cup {NoSlip}]

Work ==
    /\ todo \subseteq Payments \X {"schedule", "unschedule", "clearBell"}
    /\ checking \subseteq Payments \X Slips
    /\ telling \subseteq Payments
    /\ bell \in {"none", "transfer", "other"} /\ loaded \in BOOLEAN

(* The handlers write the words the columns know.                          *)
LEMMA WordsKept == TypeOK /\ [Next]_vars => Words'
<1> SUFFICES ASSUME TypeOK, [Next]_vars PROVE Words'
  OBVIOUS
<1> USE DEF TypeOK, Words, Ways
<1>1. CASE Untouched
  BY <1>1 DEF Untouched
<1>2. ASSUME NEW p \in Payments, Starts(p) PROVE Words'
  BY <1>2 DEF Starts
<1>3. ASSUME NEW p \in Payments, EndsByHand(p) \/ EndsByClock(p) PROVE Words'
  BY <1>3 DEF EndsByHand, EndsByClock, Ended
<1>4. ASSUME NEW p \in Payments, NEW s \in Slips, EndsBySlip(p, s) PROVE Words'
  BY <1>4 DEF EndsBySlip, Ended
<1> QED
  BY <1>1, <1>2, <1>3, <1>4, StepKinds

(* What waits after a commit or at the provider is about a payment.        *)
LEMMA WorkKept == TypeOK /\ [Next]_vars => Work'
<1> SUFFICES ASSUME TypeOK, [Next]_vars PROVE Work'
  OBVIOUS
<1>0. Work
  BY DEF TypeOK, Work
<1> USE <1>0 DEF Work
<1>1. ASSUME NEW p \in Payments, Create(p) \/ TimePasses(p) PROVE Work'
  BY <1>1 DEF Create, TimePasses
<1>2. ASSUME NEW p \in Payments, MarkPaid(p) \/ Cancel(p) PROVE Work'
  <2>1. /\ todo' = todo \cup {<<p, "unschedule">>}
        /\ UNCHANGED <<checking, telling, bell, loaded>>
    BY <1>2 DEF MarkPaid, Cancel, Leave
  <2> QED
    BY <2>1
<1>3. ASSUME NEW p \in Payments, NEW s \in Slips, SendSlip(p, s) \/ SlipRefused(p, s)
      PROVE  Work'
  BY <1>3 DEF SendSlip, SlipRefused
<1>4. ASSUME NEW p \in Payments, NEW s \in Slips, SlipAnswer(p, s) PROVE Work'
  BY <1>4 DEF SlipAnswer, CompleteFromSlip, Leave
<1>5. ASSUME NEW p \in Payments, RunJob(p) PROVE Work'
  BY <1>5 DEF RunJob, Leave
<1>6. ASSUME NEW p \in Payments, AfterCommit(p) PROVE Work'
  BY <1>6 DEF AfterCommit, Schedule, Unschedule, ClearTransferCall, Stop
<1>7. ASSUME NEW p \in Payments, TellTransfer(p) \/ RingTransfer(p) PROVE Work'
  BY <1>7 DEF TellTransfer, RingTransfer
<1>8. CASE CallStaff \/ Acknowledge \/ LoadSeat \/ SaveSeat \/ Restart
  BY <1>8 DEF CallStaff, Acknowledge, LoadSeat, SaveSeat, Restart
<1>9. CASE UNCHANGED vars
  BY <1>9 DEF vars
<1> QED
  BY <1>1, <1>2, <1>3, <1>4, <1>5, <1>6, <1>7, <1>8, <1>9 DEF Next, PaymentNext, SlipNext

(* Whether the bell is stale is a yes or a no.                             *)
LEMMA StaleKept == TypeOK /\ [Next]_vars => stale' \in BOOLEAN
<1> SUFFICES ASSUME TypeOK, [Next]_vars PROVE stale' \in BOOLEAN
  OBVIOUS
<1>1. stale \in BOOLEAN
  BY Zenon DEF TypeOK
<1>2. CASE UNCHANGED stale
  BY <1>1, <1>2, Zenon
<1>3. ASSUME NEW p \in Payments, PaymentNext(p) PROVE stale' \in BOOLEAN
  <2>1. CASE Create(p) \/ TimePasses(p) \/ MarkPaid(p) \/ Cancel(p) \/ RunJob(p)
    BY <2>1, <1>2, Zenon DEF Create, TimePasses, MarkPaid, Cancel, RunJob
  <2>2. CASE SlipNext(p) \/ TellTransfer(p)
    BY <2>2, <1>2, Zenon DEF SlipNext, SendSlip, SlipAnswer, SlipRefused, TellTransfer
  <2>3. CASE RingTransfer(p)
    BY <2>3, Zenon DEF RingTransfer
  <2>4. CASE Schedule(p) \/ Unschedule(p)
    BY <2>4, <1>2, Zenon DEF Schedule, Unschedule
  <2>5. CASE ClearTransferCall(p) \/ Stop(p)
    BY <2>5, <1>1, Zenon DEF ClearTransferCall, Stop
  <2> QED
    BY <1>3, <2>1, <2>2, <2>3, <2>4, <2>5, Zenon DEF PaymentNext, AfterCommit
<1>4. CASE CallStaff \/ Acknowledge \/ SaveSeat \/ Restart
  BY <1>4, <1>1, Zenon DEF CallStaff, Acknowledge, SaveSeat, Restart
<1>5. CASE LoadSeat \/ UNCHANGED vars
  BY <1>5, <1>2, Zenon DEF LoadSeat, vars
<1> QED
  BY <1>3, <1>4, <1>5, Zenon DEF Next

(* The types hold in every run, for every set of payments and slips.       *)
THEOREM PaymentTypes == Spec => []TypeOK
<1>1. Init => TypeOK
  <2> SUFFICES ASSUME Init PROVE TypeOK
    OBVIOUS
  <2>1. due \in [Payments -> BOOLEAN] /\ loaded \in BOOLEAN /\ stale \in BOOLEAN
    BY Zenon DEF Init
  <2> QED
    BY <2>1 DEF Init, TypeOK, Ways
<1>2. TypeOK /\ [Next]_vars => TypeOK'
  <2> SUFFICES ASSUME TypeOK, [Next]_vars PROVE TypeOK'
    OBVIOUS
  <2>1. Words' /\ Flags' /\ Work'
    BY WordsKept, FlagsKept, WorkKept
  <2>2. stale' \in BOOLEAN
    BY StaleKept, Zenon
  <2> QED
    BY <2>1, <2>2, Zenon DEF TypeOK, Words, Flags, Jobs, Work
<1> QED
  BY <1>1, <1>2, PTL DEF Spec

-------------------------------------------------------------------------------
(* A slip backs one payment, and only one it pays for, in whatever order   *)
(* slips, staff, guests and the queue come; the expiry job cancels nothing *)
(* before its time, even when the queue fires early.  Each kind of step    *)
(* keeps both.                                                             *)
THEOREM SettleInvariance == Spec => []SettleInv
<1> USE DEF SettleInv, SlipBacksOnePayment, ExpiredWasDue
<1>1. Init => SettleInv
  BY DEF Init
<1>2. TypeOK /\ SettleInv /\ [Next]_vars => SettleInv'
  <2> SUFFICES ASSUME TypeOK, SettleInv, [Next]_vars PROVE SettleInv'
    OBVIOUS
  <2>1. CASE Untouched
    BY <2>1 DEF Untouched
  <2>2. ASSUME NEW p \in Payments, Starts(p) PROVE SettleInv'
    BY <2>2 DEF Starts, TypeOK
  <2>3. ASSUME NEW p \in Payments, EndsByHand(p) \/ EndsByClock(p) PROVE SettleInv'
    <3>1. slip[p] = NoSlip /\ UNCHANGED <<slip, due>>
      BY <2>3 DEF EndsByHand, EndsByClock, Ended, Pending
    <3>2. /\ via'[p] \in {"staff", "cancelled by hand", "expired"}
          /\ via'[p] = "expired" => due[p]
      BY <2>3 DEF EndsByHand, EndsByClock, Ended, TypeOK
    <3>3. \A q \in Payments \ {p} : status'[q] = status[q] /\ via'[q] = via[q]
      BY <2>3 DEF EndsByHand, EndsByClock, Ended, TypeOK
    <3> QED
      BY <3>1, <3>2, <3>3
  <2>4. ASSUME NEW p \in Payments, NEW s \in Slips, EndsBySlip(p, s) PROVE SettleInv'
    <3>1. /\ s # NoSlip /\ s \in Genuine
          /\ \A q \in Payments : slip[q] # s
          /\ status'[p] = "completed" /\ via'[p] = "slip" /\ slip'[p] = s
      BY <2>4, SlipsAssumption DEF EndsBySlip, Ended, Used, TypeOK
    <3>2. \A q \in Payments \ {p} :
             status'[q] = status[q] /\ via'[q] = via[q] /\ slip'[q] = slip[q]
      BY <2>4 DEF EndsBySlip, Ended, TypeOK
    <3> QED
      BY <2>4, <3>1, <3>2 DEF EndsBySlip, Ended
  <2> QED
    BY <2>1, <2>2, <2>3, <2>4, StepKinds
<1> QED
  BY <1>1, <1>2, PaymentTypes, PTL DEF Spec

(* After each of the four ends of a payment the transfer bell is cleared,  *)
(* with the queue up or down: it rings for a pending payment, or a step    *)
(* that clears it is still to come, unless it rang too late, its clearing  *)
(* threw or was left out, or a save of the seat rang it.                   *)
THEOREM TransferBellEnds == Spec => []TransferBellHasPayment
<1> DEFINE Left(p) == <<p, "unschedule">> \in todo \/ <<p, "clearBell">> \in todo
<1>1. Init => TransferBellHasPayment
  BY DEF Init, TransferBellHasPayment
<1>2. TypeOK /\ TransferBellHasPayment /\ [Next]_vars => TransferBellHasPayment'
  <2> SUFFICES ASSUME TypeOK, TransferBellHasPayment, [Next]_vars, bell' = "transfer", ~stale'
               PROVE  \E p \in Payments : Pending(p)' \/ Left(p)'
    BY DEF TransferBellHasPayment
  <2>1. CASE UNCHANGED <<bell, stale, status>> /\ \A p \in Payments : Left(p) => Left(p)'
    BY <2>1 DEF TransferBellHasPayment, Pending
  <2>2. ASSUME NEW p \in Payments, Create(p) PROVE \E q \in Payments : Pending(q)'
    BY <2>2 DEF Create, Pending, TypeOK
  <2>3. ASSUME NEW p \in Payments, NEW final, NEW way, NEW next \in {"unschedule", "clearBell"},
               Leave(p, final, way, next)
        PROVE  Left(p)'
    BY <2>3 DEF Leave
  <2>4. ASSUME NEW p \in Payments, MarkPaid(p) \/ Cancel(p) PROVE Left(p)'
    BY <2>4, <2>3 DEF MarkPaid, Cancel
  <2>5. ASSUME NEW p \in Payments, NEW s \in Slips, SlipAnswer(p, s), ~Left(p)'
        PROVE  UNCHANGED <<bell, stale, status>> /\ \A q \in Payments : Left(q) => Left(q)'
    BY <2>5, <2>3 DEF SlipAnswer, CompleteFromSlip
  <2>6. ASSUME NEW p \in Payments, RunJob(p), ~Left(p)'
        PROVE  UNCHANGED <<bell, stale, status>> /\ \A q \in Payments : Left(q) => Left(q)'
    BY <2>6, <2>3 DEF RunJob
  <2>7. ASSUME NEW p \in Payments, Schedule(p) \/ TimePasses(p) \/ TellTransfer(p)
        PROVE  UNCHANGED <<bell, stale, status>> /\ \A q \in Payments : Left(q) => Left(q)'
    BY <2>7 DEF Schedule, TimePasses, TellTransfer
  <2>8. ASSUME NEW p \in Payments, NEW s \in Slips, SendSlip(p, s) \/ SlipRefused(p, s)
        PROVE  UNCHANGED <<bell, stale, status>> /\ \A q \in Payments : Left(q) => Left(q)'
    BY <2>8 DEF SendSlip, SlipRefused
  <2>9. ASSUME NEW p \in Payments, Unschedule(p) PROVE Left(p)'
    BY <2>9 DEF Unschedule
  <2>10. ASSUME NEW p \in Payments PROVE ~ClearTransferCall(p) /\ ~Stop(p)
    <3>1. SUFFICES ASSUME ClearTransferCall(p) \/ Stop(p) PROVE FALSE
      OBVIOUS
    <3>2. bell = "transfer" /\ stale' = (stale \/ bell = "transfer")
      BY <3>1 DEF ClearTransferCall, Stop
    <3> QED BY <3>2
  <2>11. ASSUME NEW p \in Payments, RingTransfer(p) PROVE Pending(p)'
    BY <2>11 DEF RingTransfer, Pending
  <2>12. ~CallStaff /\ ~Acknowledge
    BY DEF CallStaff, Acknowledge
  <2>13. CASE Restart
    BY <2>13 DEF Restart, TransferBellHasPayment, Pending
  <2>14. CASE UNCHANGED vars
    BY <2>1, <2>14 DEF vars
  <2>15. CASE LoadSeat \/ SaveSeat
    <3>1. bell = "transfer" /\ ~stale
      <4>1. CASE LoadSeat
        BY <4>1, Zenon DEF LoadSeat
      <4>2. CASE SaveSeat
        BY <4>2, Zenon DEF SaveSeat
      <4> QED BY <2>15, <4>1, <4>2
    <3>2. UNCHANGED <<status, todo>>
      BY <2>15 DEF LoadSeat, SaveSeat
    <3> QED BY <3>1, <3>2 DEF TransferBellHasPayment, Pending
  <2>16. ASSUME NEW p \in Payments, PaymentNext(p)
         PROVE  \E q \in Payments : Pending(q)' \/ Left(q)'
    BY <2>16, <2>1, <2>2, <2>4, <2>5, <2>6, <2>7, <2>8, <2>9, <2>10, <2>11
       DEF PaymentNext, SlipNext, AfterCommit
  <2> QED
    BY <2>12, <2>13, <2>14, <2>15, <2>16 DEF Next
<1> QED
  BY <1>1, <1>2, PaymentTypes, PTL DEF Spec

(* Of the writers that race for a pending payment one wins: whatever       *)
(* answers or fires later leaves its end as it is.                         *)
THEOREM EndsOnce == Spec => SettledIsFinal
<1>1. ASSUME TypeOK, [Next]_vars, NEW p \in Payments, status[p] \in {"completed", "cancelled"}
      PROVE  status'[p] = status[p] /\ via'[p] = via[p] /\ slip'[p] = slip[p]
  BY <1>1, StepKinds
     DEF Untouched, Starts, EndsByHand, EndsByClock, EndsBySlip, Ended, Pending, TypeOK
<1>2. TypeOK /\ [Next]_vars =>
        [\A p \in Payments : status[p] \in {"completed", "cancelled"} =>
            status'[p] = status[p] /\ via'[p] = via[p] /\ slip'[p] = slip[p]]_vars
  BY <1>1
<1> QED
  BY <1>2, PaymentTypes, PTL DEF Spec, SettledIsFinal
-------------------------------------------------------------------------------
(* Keys: types.                                                            *)

USE RequestsAssumption

(* Polls are left to a request that is not answered.                       *)
PollsLeft == \A r \in Requests : pc[r] # "done" => polls[r] < MaxPolls

LEMMA KeyTypes == KeySpec => []KeyTypeOK
<1>1. KeyInit => KeyTypeOK /\ PollsLeft
  <2> SUFFICES ASSUME KeyInit PROVE KeyTypeOK /\ PollsLeft
    OBVIOUS
  <2>1. polls \in [Requests -> 0..MaxPolls] /\ PollsLeft
    BY DEF KeyInit, PollsLeft
  <2>2. key \in [hash : Payloads \cup {Nobody}, body : Bodies]
    BY DEF KeyInit, None, Bodies
  <2> QED
    BY <2>1, <2>2 DEF KeyInit, KeyTypeOK, Bodies, Places
<1>2. KeyTypeOK /\ PollsLeft /\ [KeyNext]_keyVars => KeyTypeOK' /\ PollsLeft'
  <2> SUFFICES ASSUME KeyTypeOK, PollsLeft, [KeyNext]_keyVars PROVE KeyTypeOK' /\ PollsLeft'
    OBVIOUS
  <2> USE DEF KeyTypeOK, PollsLeft, Bodies, Places, Goto, Reply
  <2>1. ASSUME NEW r \in Requests, ReadKey(r) PROVE KeyTypeOK' /\ PollsLeft'
    BY <2>1 DEF ReadKey, FromStored
  <2>2. ASSUME NEW r \in Requests, Claim(r) PROVE KeyTypeOK' /\ PollsLeft'
    BY <2>2 DEF Claim
  <2>3. ASSUME NEW r \in Requests, ReadWinner(r) PROVE KeyTypeOK' /\ PollsLeft'
    BY <2>3 DEF ReadWinner, FromStored
  <2>4. ASSUME NEW r \in Requests, Poll(r) PROVE KeyTypeOK' /\ PollsLeft'
    <3>1. polls[r] \in 0..MaxPolls /\ polls[r] < MaxPolls
      BY <2>4 DEF Poll
    <3>2. polls' \in [Requests -> 0..MaxPolls]
      BY <2>4, <3>1 DEF Poll
    <3>3. pc' \in [Requests -> Places] /\ answer' \in [Requests -> Bodies]
      BY <2>4 DEF Poll
    <3>4. pc'[r] # "done" => polls'[r] < MaxPolls
      BY <2>4, <3>1 DEF Poll, LastPoll
    <3>5. \A q \in Requests \ {r} : pc'[q] = pc[q] /\ polls'[q] = polls[q]
      BY <2>4 DEF Poll
    <3>6. PollsLeft'
      BY <3>4, <3>5
    <3> QED
      BY <2>4, <3>2, <3>3, <3>6 DEF Poll
  <2>5. ASSUME NEW r \in Requests, WriteOrder(r) PROVE KeyTypeOK' /\ PollsLeft'
    BY <2>5 DEF WriteOrder
  <2>6. ASSUME NEW r \in Requests, StoreAnswer(r) PROVE KeyTypeOK' /\ PollsLeft'
    <3>1. key' \in [hash : Payloads \cup {Nobody}, body : Bodies]
      BY <2>6 DEF StoreAnswer
    <3> QED
      BY <2>6, <3>1 DEF StoreAnswer
  <2>7. ASSUME NEW r \in Requests, StoreFails(r) PROVE KeyTypeOK' /\ PollsLeft'
    BY <2>7 DEF StoreFails
  <2>8. ASSUME NEW r \in Requests, LookBeforeDelete(r) \/ DeleteKey(r) PROVE KeyTypeOK' /\ PollsLeft'
    BY <2>8 DEF LookBeforeDelete, DeleteKey, None
  <2>9. ASSUME NEW r \in Requests, RedisFails(r) PROVE KeyTypeOK' /\ PollsLeft'
    BY <2>9 DEF RedisFails, None
  <2>10. CASE ClaimExpires
    BY <2>10 DEF ClaimExpires, None
  <2>11. CASE UNCHANGED keyVars
    BY <2>11 DEF keyVars
  <2> QED
    BY <2>1, <2>2, <2>3, <2>4, <2>5, <2>6, <2>7, <2>8, <2>9, <2>10, <2>11
       DEF KeyNext, Handle, AllDone
<1> QED
  BY <1>1, <1>2, PTL DEF KeySpec

-------------------------------------------------------------------------------
(* What is stored under the key was committed, for what the key stands.    *)

StoredIsWritten == key.body # Nobody => key.body \in written /\ asks[key.body] = key.hash
FinishIsWritten == \A r \in Requests : pc[r] = "finish" => r \in written

AnswerInv == StoredIsWritten /\ FinishIsWritten /\ AnswerIsMine

LEMMA Replayed ==
    ASSUME KeyTypeOK, AnswerInv, NEW r \in Requests, FromStored(r),
           UNCHANGED <<asks, key, written>>
    PROVE  AnswerInv'
BY DEF KeyTypeOK, Bodies, AnswerInv, StoredIsWritten, FinishIsWritten, AnswerIsMine, FromStored, Goto, Reply

(* A request is answered with something that was committed and that it     *)
(* asked for, whatever claims expire and answers are lost.                 *)
THEOREM AnswersAreMine == KeySpec => []AnswerIsMine
<1>1. KeyInit => AnswerInv
  BY DEF KeyInit, None, AnswerInv, StoredIsWritten, FinishIsWritten, AnswerIsMine
<1>2. KeyTypeOK /\ AnswerInv /\ [KeyNext]_keyVars => AnswerInv'
  <2> SUFFICES ASSUME KeyTypeOK, AnswerInv, [KeyNext]_keyVars PROVE AnswerInv'
    OBVIOUS
  <2> USE DEF KeyTypeOK, Bodies, Goto, Reply, AnswerInv, StoredIsWritten, FinishIsWritten, AnswerIsMine
  <2>1. ASSUME NEW r \in Requests, ReadKey(r) \/ ReadWinner(r) PROVE AnswerInv'
    <3>1. CASE FromStored(r)
      BY <2>1, <3>1, Replayed DEF ReadKey, ReadWinner
    <3>2. CASE ~FromStored(r)
      BY <2>1, <3>2 DEF ReadKey, ReadWinner
    <3> QED BY <3>1, <3>2
  <2>2. ASSUME NEW r \in Requests, Claim(r) PROVE AnswerInv'
    BY <2>2 DEF Claim
  <2>3. ASSUME NEW r \in Requests, Poll(r) PROVE AnswerInv'
    BY <2>3 DEF Poll, Answered
  <2>4. ASSUME NEW r \in Requests, WriteOrder(r) PROVE AnswerInv'
    BY <2>4 DEF WriteOrder
  <2>5. ASSUME NEW r \in Requests, StoreAnswer(r) PROVE AnswerInv'
    BY <2>5 DEF StoreAnswer
  <2>6. ASSUME NEW r \in Requests, StoreFails(r) \/ LookBeforeDelete(r) PROVE AnswerInv'
    BY <2>6 DEF StoreFails, LookBeforeDelete
  <2>7. ASSUME NEW r \in Requests, DeleteKey(r) \/ RedisFails(r) PROVE AnswerInv'
    BY <2>7 DEF DeleteKey, RedisFails, None
  <2>8. CASE ClaimExpires
    BY <2>8 DEF ClaimExpires, None
  <2>9. CASE UNCHANGED keyVars
    BY <2>9 DEF keyVars
  <2> QED
    BY <2>1, <2>2, <2>3, <2>4, <2>5, <2>6, <2>7, <2>8, <2>9 DEF KeyNext, Handle, AllDone
<1>3. AnswerInv => AnswerIsMine
  BY DEF AnswerInv
<1> QED
  BY <1>1, <1>2, <1>3, KeyTypes, PTL DEF KeySpec

-------------------------------------------------------------------------------
(* Who works on the write.                                                 *)

(* The key is the claim of the one who works, or its answer when only the  *)
(* reply of the SET was lost; what was written by a request that did not   *)
(* fail is being answered, or stored for good.                             *)
OneOwner ==
    /\ \A r, s \in Requests : Working(r) /\ Working(s) => r = s
    /\ \A r \in Requests : Working(r) =>
          /\ key.hash = asks[r]
          /\ key.body = Nobody \/ (pc[r] = "cancel" /\ key.body = r)
    /\ \A r \in written : Failed(r) \/ pc[r] = "finish" \/ key.body = r
    /\ \A r \in Requests : pc[r] # "done" => answer[r] = Nobody

OwnerInv == ~expired /\ ~unclaimed => OneOwner

LEMMA OwnersStay ==
    ASSUME KeyTypeOK, OwnerInv, NEW r \in Requests, Handle(r) \/ RedisFails(r)
    PROVE  OwnerInv'
<1> SUFFICES ASSUME ~expired', ~unclaimed' PROVE OneOwner'
  BY DEF OwnerInv
<1>1. ~expired /\ ~unclaimed /\ OneOwner
  <2>1. CASE ReadWinner(r)
    <3>1. expired' = expired /\ unclaimed' = (unclaimed \/ key = None)
      BY <2>1 DEF ReadWinner
    <3> QED BY <3>1 DEF OwnerInv
  <2>2. CASE ~ReadWinner(r)
    <3>1. expired' = expired /\ unclaimed' = unclaimed
      BY <2>2 DEF Handle, ReadKey, Claim, Poll, WriteOrder, StoreAnswer, StoreFails,
                  LookBeforeDelete, DeleteKey, RedisFails
    <3> QED BY <3>1 DEF OwnerInv
  <2> QED BY <2>1, <2>2
<1> USE <1>1 DEF KeyTypeOK, OneOwner, Working, Failed, Goto, Reply
<1>2. CASE ReadKey(r)
  BY <1>2 DEF ReadKey, FromStored
<1>3. CASE Claim(r)
  BY <1>3 DEF Claim, None
<1>4. CASE ReadWinner(r)
  <2>1. key # None BY <1>4 DEF ReadWinner
  <2> QED BY <1>4, <2>1 DEF ReadWinner, FromStored
<1>5. CASE Poll(r)
  BY <1>5 DEF Poll, Answered
<1>6. CASE WriteOrder(r)
  BY <1>6 DEF WriteOrder
<1>7. CASE StoreAnswer(r)
  BY <1>7 DEF StoreAnswer
<1>8. CASE StoreFails(r)
  BY <1>8 DEF StoreFails
<1>9. CASE LookBeforeDelete(r)
  BY <1>9 DEF LookBeforeDelete
<1>10. CASE DeleteKey(r) \/ RedisFails(r)
  <2>1. /\ pc' = [pc EXCEPT ![r] = "done"] /\ UNCHANGED <<asks, written, answer>>
        /\ pc[r] # "finish" /\ (key' # key => pc[r] \in {"claim", "delete"})
        /\ pc[r] = "claim" /\ key' # key => key = None
    BY <1>10 DEF DeleteKey, RedisFails
  <2>2. \A q \in Requests : Working(q)' => Working(q) /\ pc'[q] = pc[q] /\ q # r
    BY <2>1
  <2>3. key' # key => key.body = Nobody /\ \A q \in Requests : ~Working(q)'
    <3>1. CASE pc[r] = "delete"
      BY <2>2, <3>1
    <3>2. CASE pc[r] = "claim" /\ key' # key
      <4>1. key.body = Nobody /\ key.hash = Nobody
        BY <2>1, <3>2 DEF None
      <4>2. \A q \in Requests : asks[q] \in Payloads /\ asks[q] # Nobody
        OBVIOUS
      <4> QED BY <2>2, <4>1, <4>2
    <3> QED BY <2>1, <3>1, <3>2
  <2>4. \A q \in written : Failed(q) => Failed(q)'
    <3>1. SUFFICES ASSUME NEW q \in written, Failed(q) PROVE Failed(q)'
      OBVIOUS
    <3>2. CASE q = r
      BY <2>1, <3>1, <3>2
    <3>3. CASE q # r
      BY <2>1, <3>1, <3>3
    <3> QED BY <3>2, <3>3
  <2>5. \A q \in written : Failed(q)' \/ pc'[q] = "finish" \/ key'.body = q
    <3>1. SUFFICES ASSUME NEW q \in written, ~Failed(q)' PROVE pc'[q] = "finish" \/ key'.body = q
      OBVIOUS
    <3>2. q \in Requests /\ q # Nobody /\ (pc[q] = "finish" \/ key.body = q)
      BY <3>1, <2>4
    <3> QED BY <2>1, <2>2, <2>3, <3>2
  <2> QED
    BY <2>1, <2>2, <2>3, <2>5
<1> QED
  BY <1>2, <1>3, <1>4, <1>5, <1>6, <1>7, <1>8, <1>9, <1>10 DEF Handle

(* However many requests carry a key, a second order is written under it   *)
(* only after the request of the first one failed, as long as no claim ran *)
(* out under its owner and no request took the write over without one.     *)
THEOREM KeyIsWrittenOnce == KeySpec => []NoDuplicate
<1>1. KeyInit => OwnerInv
  BY DEF KeyInit, OwnerInv, OneOwner, Working
<1>2. KeyTypeOK /\ OwnerInv /\ [KeyNext]_keyVars => OwnerInv'
  <2> SUFFICES ASSUME KeyTypeOK, OwnerInv, [KeyNext]_keyVars PROVE OwnerInv'
    OBVIOUS
  <2>1. CASE \E r \in Requests : Handle(r) \/ RedisFails(r)
    BY <2>1, OwnersStay
  <2>2. CASE ClaimExpires
    <3>1. SUFFICES ASSUME ~expired', ~unclaimed' PROVE OneOwner'
      BY DEF OwnerInv
    <3>2. OneOwner /\ \A r \in Requests : ~Working(r)
      BY <2>2, <3>1 DEF ClaimExpires, OwnerInv
    <3>3. \A r \in written : key.body # r
      BY <2>2 DEF ClaimExpires, KeyTypeOK
    <3> QED
      BY <2>2, <3>2, <3>3 DEF ClaimExpires, OneOwner, Working, Failed, KeyTypeOK
  <2>3. CASE UNCHANGED keyVars
    BY <2>3 DEF keyVars, OwnerInv, OneOwner, Working, Failed
  <2> QED
    BY <2>1, <2>2, <2>3 DEF KeyNext, AllDone
<1>3. KeyTypeOK /\ OwnerInv => NoDuplicate
  BY DEF KeyTypeOK, OwnerInv, OneOwner, Working, Failed, NoDuplicate
<1> QED
  BY <1>1, <1>2, <1>3, KeyTypes, PTL DEF KeySpec
===============================================================================
