# A verification of the bar management system

TLA+ modules, TLC configurations and TLAPS proofs for the bar management system:
the backend (`src/app/backend`) and those parts of the web client (`src/app/frontend`)
that share state with it. The tab of a table from the QR scan to the
settled bill, the sessions and rights of the staff, the menu under its editors, and the
screens that follow events. The definitions are translated from the source;
`PROJECT.json` gives the lines each one stands for.

Paths below are relative to `src/app/backend/src/modules/` unless they start
with `docs/` or `app/` (then `src/docs/`, `src/app/`).

## 1. The system

A NestJS server over PostgreSQL and Redis, with BullMQ queues (on Redis), a
photo bucket and a web client; `src/app/mobile` is a scaffold so far. Services open a transaction with
`@Transactional()` at READ COMMITTED; the rules that matter are kept by row locks, one
unique index, one advisory lock and re-reading under the lock, not by constraints of the
schema. What follows a commit (events, queue, bell, photo, cache version) is done
after it, in the same request.

| Component | State | Operations | Talks to |
|---|---|---|---|
| Visits and seats (`venue/`) | `table_seat` (active, QR token, bell), `visit.state` | open, attach, claim for an order, close; deactivate, activate, regenerate QR; ring, acknowledge | payments (close is refused under a pending payment), orders, sessions |
| Orders and tickets (`order/`) | `order_record`, `order_ticket.status`, `order_item` | place (staff, guest), accept, ready, send, flag, resolve | visit lock, menu lock, kitchen display switch |
| Void, comp, 86 (`order/`, `menu/`) | `order_item.cancel_kind`, `menu_item.is_available` | adjust one line; mark an item (un)available and void what nobody started | payments, visit, tickets |
| Payments (`payment/`) | `payment`, `payment_order`, the expiry queue | create (PromptPay, cash), mark paid, verify slip, cancel, expire | visit lock, bill, venue account, bell, slip provider |
| Idempotency (`common/idempotency`) | a Redis key per scope and key | begin, finish, cancel, poll | order and guest order controllers |
| Guest sessions (`customer/`) | `guest_session` (seat, visit, age) | scan, resolve (slide or bind), rename, order, pay, call | visits, orders, payments |
| Venue settings (`venue/`) | `venue` | PromptPay account, kitchen display, cutoff | payments |
| Staff sessions (`auth/`) | Redis: refresh, used, family, session, revoked, user index | issue, rotate, revoke family, revoke all | clients, IAM (deactivation) |
| IAM (`iam/`) | staff, groups, policies, memberships, requests, PINs; a Redis version | administration, lockout guard, activity and permission caches, PINs, access requests | every guarded route |
| Menu editing (`menu/`) | items, variants, add-on groups, categories; photos in a bucket | save, toggle, archive, remove, photo | orders, 86 |
| Live screens (`order/` and `venue/` events, `app/frontend`) | the query cache of a screen, a socket | events after commits, refetch, acknowledge | orders, bell |
| Notifications (`notifications/`) | push tokens, a queue | notify, deliver, check receipts | after commits |
| Reports, order queries, health, the other screens, contracts | own tables or none | reads | – |

Hard behaviours: transactions that read each other's rows under row locks;
slow outside calls between a read and a write (slip provider, Redis, bucket); work
after a commit that may be lost or come late; delayed jobs; retries; tokens that
are used twice; caches filled by slow readers; entity saves that write back columns
they only read; events that overtake each other or are lost. The `hazards` of
`PROJECT.json` list them with their lines.

What makes each part correct:

* Tab: one payment in flight per visit, no order charged twice, a bill frozen
  under its QR, no QR on a closed visit, a settled order that owes nothing, a
  closed bill that never moves, a ticket cancelled exactly when it is empty.
* Transactions: each behaves as one step; no deadlock but those of an adjustment; every
  request answered.
* Settlement: a pending payment ends once, a slip backs one payment, nothing
  expires early, a forgotten QR ends, a transfer bell names a payment to look at.
* Retries: one write per key, no foreign answer, no retry hangs.
* Seats: one live visit per seat, none on a dark seat, a closed visit stays closed.
* Guest sessions: a phone belongs to the visit of its own group and ends with it.
* Staff sessions: a refresh token presented twice ends its family, an honest page never does;
  an ended family stays ended; who is deactivated is refused.
* IAM: somebody can always manage the staff; no grant hangs on a deleted row; a request is
  approved once; a PIN tells one approver.
* Menu: no editor overwrites what he did not see; nothing on sale points at what is gone;
  the photos stored are the photos shown.
* Screens: once nothing is on its way, a screen shows what the database holds.

## 2. Modules

`TicketFlow` – the transition rules of a ticket (`ticket-transition.ts`) and
the routing of lines (`order-lines.ts`), as operators. An issue that was
escalated is a status of its own (`escalated`): `issue_escalated_at` is only
read while the ticket is in `issue`.

`Billing` – the core. Visits, orders, lines, tickets, payments, availability
and the kitchen switch; one action per handler, one transaction per action.
Prices are abstracted to sets of lines: `payLines` is the set of lines whose
prices were added up for `payment.amount`; a line in `FreeLines` costs 0. So
"the amount still fits the bill" is an equation of sets. Placing an order
chooses its visit; the lines of an order are given by `OrderOf`. A guest's
first order may open the visit in the same transaction.

`TabLedger` – what the tab promises: an order is due, locked or paid.
`BillingLedger` – the refinement mapping from `Billing`; `ImplementsLedger` is
checked as a property and proved.

`RowLocks` – the same transactions statement by statement: a transaction is a
list of steps, each one a statement that locks, reads or writes; committed rows
(`db`), own writes, held locks. A statement waits while a conflicting lock is
held; a member of a cycle of waits is aborted, as PostgreSQL does. A request is one of the
lists `Place`, `Pay`, `Close`, `Void`, `Comp`, `SoldOut`, `MoveAccount`, or one statement (accept,
send, settle, drop); an 86 lengthens its list as it goes (`NextTicket`, `NextLine`), since
the tickets it visits are those it found. `RowBilling`
reads the committed rows as a state of `Billing` (`VisitOfRows`, `LineOfRows`, …); so the
invariants of `Billing` are checked and proved of the interleaved rows (`RowsInv`), and
`CommitsAreBillingSteps` says that each commit is one step of `Billing`.

`PaymentSettle` – a payment after its creation: the four ways out of pending,
the provider that answers late, the delayed job and its single attempt (a job whose
transaction throws stays `failed`), what is left to do after a commit (`todo`), a restart or
a lost answer of the commit (`Stop`) that leaves it out, and the transfer bell. Clearing the bell may throw (the code logs it), and
a save of the whole seat (`LoadSeat`, `SaveSeat`) may write an old bell back.

`Idempotency` – the requests of one key, one Redis command at a time. A
request is named by what it writes; a stored answer is the request that wrote it. The service
may throw before its commit or after it (reading the order back, binding the guest), storing
the answer may fail, and so may any call to Redis, with or without having arrived.

`SeatVisit` – one seat's life, statement by statement: `FOR SHARE` and
`FOR UPDATE` on the seat, `FOR UPDATE` on the visit, inserts that wait for an
undecided row in the unique index of live visits, the bell cleared after the commit.

`GuestSession` – phones at one seat; visits of the seat are numbered. A request
is guard, then handler; `Load`/`SaveEntity` are TypeORM's `findOne` and `save`,
which writes every column of the entity that differs from the row.

`StaffSession` – the token service. A login is a family of refresh tokens, each
used once (`live`, `used`, the pointer `current`, `session`, the mark `revoked`). A Redis
script (`ROTATE_REFRESH`, `REVOKE_FAMILY`, `REVOKE_ALL_FOR_USER`) is one action; a
login publishes token, session and index in three calls, with the check of
`is_active` before the first. Calls come from pages (`Tabs`): a page shares one
refresh among its requests, two pages do not. A guarded request reads `iam:version`,
looks the answer up under that version, or loads the row and fills the cache. A manager's
deactivation is three steps – commit, bump of the version, end of all sessions – and
the last two may fail. An answer may be lost on its way to the client.

`IamDirectory` – people, groups, policies and memberships (`lasting` or ending
`tonight`), access requests, PINs. A manager's write is one of
`Changes`, made under one advisory lock that the transaction takes first and ended by the
check that someone can still manage the staff. Choosing a PIN and the record of a login without
account are outside the lock: they load an entity and save it whole, so `SavePin` may
write an old `is_active` back.

`MenuEditing` – the item editor reads the item in two queries, saves with the stamp it saw;
the save locks the item `FOR UPDATE`, its category `FOR KEY SHARE` and its groups in
turn. Archiving a group, removing a category and the availability toggle are
requests of their own. A photo is copied before the transaction and the old one
removed after it; a failed save discards its copy; the server may stop in between and
the answer of a commit may be lost.

`LiveBoard` – a screen: two queries (tickets for the orders page, tables for the floor), the
events of commits, which may overtake each other, the socket that goes down and comes
back, page switches, fetches that are cancelled, joined or fail, and the
optimistic answer to a call, from the bell on the page or from a toast. A ticket is ordered,
moved or emptied: the event of an order or a move carries the stamp of the row (`TellWritten`),
that of a void the server's clock before the ticket was written (`TellVoided`,
`order-adjustment.service.ts:55`), and a handler that throws after its commit sends none
(`TellNothing`, `ticket.service.ts:128`). Setting the bell by hand takes the error of the query away (`Set`,
`useStaffCalls.ts:31`).

`MC…` modules instantiate these for TLC; `…Proofs` modules hold the theorems. Two of them
hold those of two modules each: `PaymentProofs` (`PaymentSettle`, `Idempotency`) and `FloorProofs`
(`GuestSession`, `LiveBoard`); so `Idempotency` and `LiveBoard` call their initial states and
steps `KeyInit`, `KeyNext`, `BoardInit`, `BoardNext`, ….

Operators under the comment *Seeded fault* are not used by any specification.
Each is a plausible mistake in the definition that follows (a dropped lock, a
missing check, an off-by-one) and shows that a property can fail: with the
definition replaced by it, the property named in `mutants` is violated.

Variables marked *history* are never read by an action that models code; they record what
a property has to speak of, such as a call that began after a deactivation was announced.

## 3. What the runs check

All runs finish; state counts are distinct states.

| Run | Instance | Shows |
|---|---|---|
| `MCBillingTab` | 1 table visit; order 1 = a beer and a free dish of the kitchen, order 2 = a charge line; 2 payments (1 min) | `NoDoubleCharge`, `PendingFrozen`, `PaidCoversBill`, `CancelledIffEmpty`, `ClosedBillFinal`, `ImplementsLedger` |
| `MCRowLocksAll` | 3 concurrent requests of any kind, 1 order with 2 lines placed, 1 more to place (26 000 states) | `RowsInv`, `QrIsCurrent`, `SoldOutReachesAll`, `OnlyAdjustmentsDeadlock`, `CommitsAreBillingSteps`; TLC's deadlock check: no request is left standing |
| `MCPaymentRaces` | 2 payments, a good and a bad slip, failing queue and jobs, early jobs, restarts, seats saved whole (1.7 million, 3 min) | `SettleInv`, `TransferBellHasPayment`, `SettledIsFinal`, `PendingEnds` |
| `MCIdempotencyRetries` | 3 requests, 2 payloads, 3 polls, claims that expire, throws before and after the commit, Redis calls that fail (157 000) | `NoDuplicate`, `AnswerIsMine`, `EveryRetryAnswered` |
| `MCSeatVisitRows` | 1 seat, 3 concurrent requests, 2 visits (68 000) | `OneLivePerSeat`, `NoGuestsOnDarkSeat`, `ClosedStaysClosed`, `AllAnswered` |
| `MCGuestSessionCap` | 1 phone with 2 requests at a time, 3 visits (35 000) | `PhoneInv`, `CappedStaysOut` |
| `MCStaffSessionOut` | 1 mobile login, 2 calls from 2 pages, 1 manager, 2 tokens, 2 changes, 1 fault (4.5 million, 1½ min) | `FamilyInv`, `ReplayEndsFamily`, `OnePageKeepsItsFamily`, `CacheIsFresh`, `InactiveIsRefused`, `OnlyStraddlersSurvive` |
| `MCStaffSessionDark` | the same with 1 page, 1 token, 1 change (5 s) | `InactiveIsOutInTheEnd` |
| `MCIamDirectoryLockout` | 2 people, 1 group and 1 policy beside those of the system, 2 managers, 1 save, 1 PIN, 4 writes (4.1 million, 1½ min) | `DirectoryInv`, `ManagerRemains`, `ApprovedOnce`, `PinTellsApprover` |
| `MCMenuEditingSaves` | 1 item, 1 category, 1 group, 2 variants, 2 photos, 2 managers, 3 edits, 1 fault (690 000, 1 min) | `MenuInv`, `PhotosMatchRows`, `NoLostEdit` |
| `MCLiveBoardEvents` | 2 tables, 1 ticket, 2 staff, 3 writes of the ticket or 2 calls, 1 fault (4 million, 2½ min) | `OrdersAreCurrent`, `BellsAreCurrent` |
| `MCGuestSessionEnds` | 1 phone, 2 requests | violates `EndsWithVisit`: an expiry slide writes `visit_id` NULL over the binding of the first order (quoted in `findings`) |

Type invariants are conjuncts of `RowsInv`, `PhoneInv`, `FamilyInv`, `DirectoryInv` and
`MenuInv`; those of `Billing`, `PaymentSettle` and `SeatVisit` are proved.

### Properties with an exception

Some properties hold of the code only with a named way out. Each way out is a state the
code really reaches, recorded in a history variable, so that the property says that
nothing *else* breaks the rule.

* `CommitsAreBillingSteps`, `LateSoldOut`: an 86 that skipped a tab for its pending payment may
  commit after that payment ended. The outcome is that of the two one after
  the other, but not in the order of their commits.
* `OnlyAdjustmentsDeadlock`: a void locks line then visit, an 86 visit then line
  (`order.sql:158`; `docs/briefs/BRIEF-027` asks for one order).
* `NoDuplicate`: a request that throws after its commit (`order.service.ts:36`,
  `customer-order.service.ts:67`) or cannot store its answer deletes its key, and the retry
  writes again; so two orders are compared only where neither request has failed. Besides, the
  third of three requests may own the write without a claim, when the owner gives up between
  two of its commands (`idempotency.service.ts:49`, `unclaimed`), and Redis may drop the claim
  of an owner at work (`expired`).
* `TransferBellHasPayment` (`stale`): a phone looks at its payment and rings in two steps; a
  payment that ends in between leaves a late bell (`customer-payment.service.ts:73`). A clear
  that throws is logged and forgotten (`payment.service.ts:320`), a restart or the lost answer
  of a commit leaves it out, and a save of the seat brings the bell back
  (`table-seat.typeorm-repository.ts:84`).
* `PendingEnds`: the job is added for one attempt; when its transaction throws it stays failed
  and the payment waits for staff. So does the payment of a job that fired early.
* `SoldOutReachesAll`: an 86 skips a visit with a payment in flight and does not come back, so a visit
  with any payment is excused.
* `PhoneInv` speaks of earlier groups only: a phone without a visit of its own, younger than
  60 minutes, joins the next group's visit (`guest-session.service.ts:110`).
* `OnlyStraddlersSurvive`: a login that had passed its check of `is_active` before
  the deactivation is indexed after the sessions were ended.
* `ManagerRemains`, `ApprovedOnce`, `PinTellsApprover`: a save of a PIN writes an old
  `is_active` back, a login record an old status; two people choose a PIN at once, or one
  comes back with a PIN that was given away (`docs/briefs/BRIEF-018:28` asks for uniqueness).
* `OrdersAreCurrent`, `BellsAreCurrent`: both speak of a page whose last fetch did not fail
  (`Settled`). Nothing retries a failed one; the orders page shows the error
  (`OrdersBoard.tsx:44`), the floor goes on showing the tables it had. What a page does
  not make up for:
  * a page opened while the socket was down fetches nothing when it comes back
    (`useSocketEvent.ts:36`; `docs/briefs/BRIEF-029:72`), and one opened while an older fetch was
    on its way joins it (`excused`);
  * tickets: a write whose handler threw before its event, and a void whose event carries an
    earlier time than the card on the board, which `useTicketBoard.ts:37` drops (`missed`, until
    the next event that is in time, or the next fetch);
  * bells: an answer that cancelled a fetch and found no call to clear, one that failed, one that
    took away the error of a failed fetch (`setQueryData`), and a save of the seat that brought a
    call back (`excused`, until a fetch reads the tables with the socket up).

Read off the code, without a property: `table-seat.service.ts:76` writes the bell
without looking at the visit, so a phone admitted before a close may ring
after `visit.service.ts:126` cleared the bell; `table-seat.service.ts:123` replaces the
QR token and deletes no session, which `docs/decisions/DR-028-guest-qr-session.md:55` asks for; a
paid line whose ticket is still pending is voided by an 86 (`sold-out.service.ts:84`,
against `docs/decisions/DR-016` lines 40–41).

### Bounds, and why they are enough

* `MCBillingTab`: two orders are the least with one covered and one due, two
  payments the least for a conflict of payments; the three lines are one per
  station rule (bar, kitchen, none) and one of them is free. A second visit
  would share nothing with the first but the menu, and every property of the
  run is proved for any number of visits (section 4). Cook,
  guest and manager need no identity. Payments are interchangeable (`SYMMETRY`).
* `MCRowLocksAll`: three concurrent transactions of every kind meet at every
  statement. Three lines and two tickets give a ticket with two lines (so that
  two voids meet on it) and one that is being placed. All five properties are proved for any
  number of requests, tickets and lines (of the one visit).
* `MCPaymentRaces`: two payments, since a slip used twice and a job that
  outlives its payment need a second one. `MaxChecks` = 2: slips at the provider at once, enough
  for the good one on both payments.
* `MCIdempotencyRetries`: an owner, a retry and a third request that finds the key gone;
  `MaxPolls` (20 in the code) is 3: its value only matters for being reached.
* `MCSeatVisitRows`: seats share no row, so one is enough; `RowLeft` is the bound
  on visit rows (a request only begins when a row id is left for it).
* `MCGuestSession…`: sessions of different phones share no row; what other
  phones do to the seat is `OpenVisit` and `CloseVisit`. Two requests of the
  phone are the least that interleave. `MaxVisits` = 3: before, own, later.
* `MCStaffSessionOut`: families share only their user, so one is enough for what happens in a
  family; two calls are the least for a replay, two tokens for a rotation that
  is rotated again or not, two versions for a deactivation and the taking back. All
  six properties are proved for any of these numbers.
* `MCIamDirectoryLockout`: two managers who remove each other, one ordinary group and policy
  to detach and drop; all four properties are proved for any number. `PinTellsApprover` was
  also checked with two saves at once and two writes.
* `MCMenuEditingSaves`: two managers meet on one item; a photo each; two variants, so that one
  can go off sale with its links. `MaxEdits` = 3: create, save, save over. All three properties
  are proved for any of these numbers.
* `MCLiveBoardEvents`: tickets share a query but no card, so one is enough; two tables, since the
  answer to one call touches the query of the other; two staff are the least whose events overtake
  each other; three writes are an order and two that race on it, two instants give an equal and
  a later stamp. `Loads` bounds how many writes of tickets go with how many calls: tickets
  and bells meet in the socket and the page only, so the run takes three writes without calls and
  two calls without writes, and the proofs cover every mix, for any number of tickets,
  tables, staff, writes and faults.

`CHECK_DEADLOCK FALSE` is given where the instance may be used up: all rows used and
everything settled, all tokens rotated, all writes done.

### Fairness

* `SeatVisit`: weak fairness of `Proceed` per request – the event loop and the
  database carry a request on when nothing blocks it. No fairness of new
  requests. `RowLocks` needs none: its requests are finite lists of steps that
  never go back, so the deadlock check of TLC answers for their end.
* `PaymentSettle`: weak fairness of the clock and of the queue's worker.
  Staff, guests, the provider and what follows a commit promise nothing.
  The worker takes a job in the end, but its transaction may throw; `PendingEnds` speaks of payments whose
  job the queue took.
* `Idempotency`, `GuestSession`: weak fairness of the next step of a request.
* `StaffSession`: weak fairness of the next step of a call and of the end of a cache entry
  (a Redis lifetime of five minutes). Nobody has to log in, write or begin a request, and a
  manager's steps after the commit may all fail.
* `IamDirectory`, `MenuEditing`, `LiveBoard` state safety only and assume no fairness.

## 4. What is proved

For every value of the constants, with TLAPS, from nothing but the named `ASSUME` of each
module:

* `BillingProofs` – `TypeInvariance` and the money properties `OnePaymentAtATime`,
  `NothingChargedTwice`, `BillFrozenUnderQr`, `NoQrOnClosedVisit`, `PaidOrdersOweNothing`, from
  `MoneyInvariance` (`Spec => []MoneyInv`). `MoneyInv` is inductive on top of `TypeOK`.
  None of the five is inductive alone: `PaidCoversBill` needs the bill
  frozen while pending (`PendingFrozen`), which needs at most one pending
  payment and a live visit for it, and all need `RowsLinked` (a payment covers
  placed orders of its own visit; a line exists exactly when its order does),
  so that a new order cannot be covered by an old payment. The lemmas follow the kinds of
  steps: those that leave the money alone, a new order, lines leaving the bill, a new
  payment, the end of a payment. Assumed: `LinesAssumption`, `NoVisitAssumption`.
  Also there: `TicketsFollowLines` (`Spec => []CancelledIffEmpty`) and
  `ClosedBillsAreFinal` (`Spec => ClosedBillFinal`). `CancelledIffEmpty` is
  inductive with `TicketsLinked`: a line that is on a station has a ticket there,
  and a ticket belongs to a placed order, so that a new order meets no old
  ticket. `ClosedBillFinal` follows from `PendingOnLiveVisit` (a payment that can
  still end is on a live visit) and `UnmadePayments` (a row not inserted yet
  belongs to no visit). And `TabIsLedger` (`Spec => ImplementsLedger`): one lemma per kind
  of step. The end of a payment finishes the lock of its visit as a whole because
  there is one pending payment per visit and no order is charged twice.
* `PaymentProofs` – `PaymentTypes`, `SettleInvariance` (a slip backs one
  payment, nothing expires early), `TransferBellEnds`, and `EndsOnce` (`SettledIsFinal`, an
  action property). `StepKinds` sorts the actions into: no payment touched, one
  starts, one ends by hand, by the clock or by a slip. Assumed: `SlipsAssumption`;
  nothing about the queue, restarts, the provider or the clearing of the bell. Of `Idempotency`: `AnswersAreMine` and
  `KeyIsWrittenOnce`. The second rests on `OneOwner`: as long as no claim was dropped or missing, one request
  at most is between its claim and its answer, and the key is its claim; what was
  written by a request that has not failed is being answered, or stored for good.
* `SeatProofs` – `SeatTypes`, `OneVisitPerSeat`, `DarkSeatsAreEmpty`, `ClosedVisitsStay`. The
  invariant says what each request knows at its next statement (`Knows`: which lock it holds
  and what the row it read still says) and that of two requests one has to wait (`Apart`):
  the share lock on the seat keeps a deactivation off, the undecided row in the index keeps
  a second insert off.
* `StaffProofs` – `EndedFamiliesStayEnded`, `ReplaysEndFamilies`, `OnlyLateLoginsSurvive`,
  `CacheStaysFresh`, `InactiveAreRefused`, `OnePageIsNoReplay`. The first three rest on: nobody
  names a family before its login is answered (`Published`), the pointer names the only
  live token (`PointerNamesLiveToken`), every token held anywhere is one the scripts
  find the family by (`TokensKnown`). The cache rests on versions: nothing is
  stored under a version to come, and who read the version of now reads the row of now (`ReadsKnow`).
  One page ends no family because at most one of its refreshes is under way (`Alone`).
* `IamProofs` – `NothingDangles`, `NeverLockedOut`, `ApprovalsStand`, `PinsTell`. Who is between
  check and commit holds the advisory lock, so what it checked still holds at the commit: only
  memberships that end and saves that take no lock come in between, and the check counts
  no membership that ends (`Checked`, `AfterEffect`, `AfterAlike`). `ApprovalsStand` rests on the row
  lock of the request, `PinsTell` on what the look for a taken PIN can see (`LooksUp`).
* `FloorProofs` – of `GuestSession`: `PhonesKeepTheirGroup` and `CappedPhonesStayOut`. What a request carries
  to its next statement, the visit it found or the row it loaded, is of a visit after the scan
  (`Carries`), so writing it back keeps the phone with its group. The second is a safety
  property in temporal form: `Capped` is stable, since no guard lets such a phone in.
  Of `LiveBoard`: `OrdersStayCurrent` and `BellsStayCurrent`. A row that a page does not show is
  made up for by something that is still to come (`OrdersMadeUp`, `BellsMadeUp`): an event on its way, a fetch that
  will read it, or the return of a socket the page saw go down. Nothing is on its way in the
  end, so every row is shown. For tickets this needs that no card and no answer of a fetch is ahead of its row (`NotAhead`) and
  that the event of the last write, if it was told in time, carries a stamp that no card the page may hold
  is past (`News`), or it would be dropped as the older one; `missed` and `excused` are the
  exceptions of section 3. Assumed: `BoardAssumption`, that the bounds are numbers.
* `MenuProofs` – `NothingGoneIsOnSale`, `StoredPhotosAreShown`, `SavesLoseNoEdit`. Of each
  request the invariant says what it saw (`Sees`), what the rows it locked still say
  (`Holds`) and which photo it answers for (`Carries`); of two requests, what one keeps the other
  from (`Apart`). Stamps count the writes of an item, so a stamp that stands under the
  lock means nothing was written since the page was read.
* `RowProofs` – the transactions of `RowLocks`, for any number of requests, tickets and lines.
  `RowInv` is inductive. It says of every transaction that what is left of it is the rest of a
  program of the code (`IsProgram`), what it knows of the committed rows at its next statement
  (`At`: which locks it holds and what the checks behind it found), and what it has written
  when it is about to commit (`Done`). Of two transactions it says that they share a row only
  for reading (`Compatible`). What one knows stays true under the steps of another because the
  other would need a lock it cannot have: `Rely` names what a commit may change beside a
  transaction with given locks, and each kind of commit is shown to keep to it. From this:
  * `CommitsAreEffects` (`[][Effect]_db`): whatever the interleaving, the rows change in ten
    ways only, each the effect of a whole handler on the rows as they are at the commit;
  * `RowLocksMakeTransactions` (`CommitsAreBillingSteps`): each of these is a step of `Billing`
    under the mapping of `RowBilling`, or the `LateSoldOut` of section 3;
  * `RowsAddUp` (`RowsInv`): so the invariants proved of `Billing` hold of the rows. The
    lemmas of `BillingProofs` are used as they stand, through
    `INSTANCE` (`BillStep`: a step keeps them; `MenuAlone`: so does a `LateSoldOut`);
  * `QrNamesTheAccount`: a payment holds the venue shared from reading the account to its
    commit, a move of the account holds it alone and finds no payment in flight;
  * `SoldOutLeavesNothing`: an order that is being placed holds the menu item shared, so an 86
    sees its lines or comes before its check;
  * `OnlyLineBeforeVisitDeadlocks`: in a cycle without an adjustment that waits for its visit
    everyone, since he waits and is waited for, would hold the visit row; a cycle has two
    members and the row one holder;
  * `RowsAreTyped`.

  Assumed: `RowsAssumption` (every ticket has a line, as an order has) and `IdsAssumption`
  (rows of different tables are different). Nothing is assumed of scheduling or of who is
  chosen as the victim of a deadlock.

Every safety property of a passing run is proved. Model-checked only: liveness (`PendingEnds`,
`AllAnswered`, `EveryRetryAnswered`, `InactiveIsOutInTheEnd`), since the prover has no rules for
fairness and `ENABLED`; and the absence of deadlock in the sense of TLC (a state without a
step), which is `ENABLED` too.

## 5. What is abstracted or left out

* Money is sets of lines; quantities, modifiers and discounts only change the
  price of a line, and prices are copied when an order is placed.
* An adjustment assumes its approval (PIN); the audit rows are left out.
* `RowLocks` has one visit, counter seats and one station, and reads a lock as
  shared or exclusive; foreign-key locks (`KEY SHARE`) conflict with none of
  the updates modelled there. Flagging an issue is not a step of `RowLocks`: it
  locks one ticket, like accept and send.
* A request without an idempotency key skips the service; stored answers live
  a day and do not expire in the model.
* `SeatVisit` leaves the payment guard of a close out (it may only refuse; it is
  in `Billing` and `RowLocks`).
* `GuestSession`: the seat stays in service; the purge of dead rows and the
  sockets of the tab are left out.
* `StaffSession`: the 7 days of a family and the 90 days of a login do not pass, Redis is not flushed;
  a save of a PIN that changes `is_active` is in `IamDirectory` only. The exchange with the
  identity provider is an outside step before a login.
* `IamDirectory`: names that are taken, the completion of the system policy at start,
  the rows of the demo login, the throttle of PINs and the permission cache (it works like the
  activity cache of `StaffSession`) are left out.
* `MenuEditing`: writes are as if within one millisecond, the least favourable case for
  stamps; a toggle holds its row for one step; the server stops only where a photo is involved
  (elsewhere the database undoes everything); a race the foreign key stops is answered
  with another status code. Creating, hiding, renaming and ordering categories and groups and
  the options of a group change one row and are left out.
* `LiveBoard`: one screen. The badge of bells (`NotificationBell`, in the top bar) is on every page;
  `BellsAreCurrent` speaks of the floor page only, since the orders page does not
  fetch the tables when the socket comes back. A void that leaves lines on its ticket sends the
  board no event, so what is compared of a ticket is its own row, not its lines. Fetches that a page starts
  after its own actions, and those of `menu.availability_changed`, are left out: they can only
  bring a page nearer to the database. The clock of the server is that of the database, and a
  table has one answer of this screen at a time.
* `MCStaffSessionDark` has one token per family, so it speaks of API calls, not of a refresh.
* Throttles are left out: more calls are possible in the model than in the code.

Not modelled: the daily order number, business date and cutoff; reports and other read-only
queries; push tickets, receipts and tokens; the QR token of a seat
(the save of the seat around it is in `PaymentSettle` and `LiveBoard`); throttles; the draft cart of an order; health; the
contracts; the screens apart from those above. They hold no state that two actors
share beyond a single row. Most of the implementation's lines are of that kind – screens, style
bundles of the design handoff, seeds, schemas and mappers – and hold nothing a state machine
would say more about than the code does.

## 6. Plan

Done, in this order: `TicketFlow`, `Billing`, `TabLedger`/`BillingLedger`,
`BillingProofs` (money), `RowLocks`/`RowBilling`, `PaymentSettle`, `Idempotency`,
`SeatVisit`, `GuestSession`, `PaymentProofs`, `BillingProofs` (tickets, closed bills,
ledger), `StaffSession`, `IamDirectory`, `MenuEditing`, `LiveBoard`, `SeatProofs`,
`PaymentProofs` (keys), `StaffProofs`, `IamProofs`, `FloorProofs` (guests), `MenuProofs`,
`FloorProofs` (screens), `RowProofs`.

Left, most useful first:

1. `OrderNumber` (`order.typeorm-repository` `nextNumber`): numbers of a business
   day without gaps or doubles across the cutoff.
2. `Push`: delivery, receipts and dead tokens of the notification queue.
3. Pure functions against a reference definition: the period of a report, the
   next change of an effective access (`effective-access.ts:34` rounds up and may pass it).
4. Theorems about the routing of lines in `TicketFlow`; the guest session and the seat as one
   abstract specification of who sits where.
