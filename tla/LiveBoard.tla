------------------------------- MODULE LiveBoard -------------------------------
(***************************************************************************)
(* What a POS screen shows of the tickets and of the bells on the tables:  *)
(* the events the server sends after its commits, the socket that loses    *)
(* them, and the two queries a screen refetches (useTicketBoard,           *)
(* useSocketEvent, usePosAlerts, useStaffCalls).                           *)
(*                                                                         *)
(* The order of a handler's commit and its event is kept; two handlers'    *)
(* events may arrive in any order.  Two events that say the same while     *)
(* neither has arrived count as one.                                       *)
(***************************************************************************)
EXTENDS Naturals

CONSTANTS
    Seats, Tickets,
    Staff,             \* who move tickets, each with one request at a time
    MaxTime,           \* bound: milliseconds that pass
    Loads,             \* bound: how many writes of tickets go with how many calls
    MaxFaults          \* bound: disconnects, failed requests, events not sent
ASSUME BoardAssumption ==
    MaxTime \in Nat /\ Loads \subseteq [tickets : Nat, calls : Nat] /\ MaxFaults \in Nat

VARIABLES
    ring,              \* the call on a table, 0 for none
    row,               \* a ticket: its version, 0 before it is ordered, and stamp
    writer,            \* a transaction that has begun: on which ticket, and when
    wire,              \* events that have not arrived
    screen,            \* a query: the data shown and the fetch on its way
    page,              \* the page open, named by the query it shows
    link,              \* the socket; noticed: the page open has seen it down
    toasts,            \* calls this screen heard of; their toasts may still be up
    ack,               \* this screen's answers to calls
    clock, faults,
    writes,            \* of tickets, and calls, so far
    missed,            \* history: tickets whose last write was not told, or too late
    excused            \* history: queries behind, with nothing to make up for it

told      == <<toasts, missed>>
boardVars == <<ring, row, writer, wire, screen, page, link, told, ack, clock, writes, faults, excused>>

Queries == {"tables", "tickets"}
Rows    == [version : Nat, stamp : Nat]
Data(q) == IF q = "tables" THEN [Seats -> Nat] ELSE [Tickets -> Rows]
Shown(q) == [data : Data(q), fetch : {"none", "sent", "read"}, answer : Data(q),
             failed : BOOLEAN]
TicketEvents == [on : Tickets, stamp : Nat, created : BOOLEAN]
NoWrite  == [on |-> "nothing"]
NoAck    == [at |-> "none"]

BoardTypeOK ==
    /\ ring \in [Seats -> Nat] /\ row \in [Tickets -> Rows]
    /\ \A w \in Staff : writer[w] \in [on : Tickets, began : 0..MaxTime] \cup {NoWrite}
    /\ wire \in [tickets : SUBSET TicketEvents, called : SUBSET Seats, cleared : BOOLEAN]
    /\ \A q \in Queries : screen[q] \in Shown(q)
    /\ page \in Queries /\ link \in [up : BOOLEAN, noticed : BOOLEAN]
    /\ \A s \in Seats :
          ack[s] \in [at : {"sent", "lost"}, was : Nat, cut : BOOLEAN] \cup {NoAck}
    /\ clock \in 0..MaxTime /\ faults \in 0..MaxFaults
    /\ writes \in [tickets : Nat, calls : Nat]
    /\ toasts \subseteq Seats /\ missed \subseteq Tickets
    /\ excused \subseteq Queries

Fresh(data) == [data |-> data, fetch |-> "none", answer |-> data, failed |-> FALSE]

BoardInit ==
    /\ ring = [s \in Seats |-> 0]
    /\ row = [t \in Tickets |-> [version |-> 0, stamp |-> 0]]
    /\ writer = [w \in Staff |-> NoWrite]
    /\ wire = [tickets |-> {}, called |-> {}, cleared |-> FALSE]
    /\ screen = [q \in Queries |-> Fresh(IF q = "tables" THEN ring ELSE row)]
    /\ page \in Queries /\ link = [up |-> TRUE, noticed |-> FALSE]
    /\ ack = [s \in Seats |-> NoAck]
    /\ clock = 0 /\ faults = 0 /\ writes = [tickets |-> 0, calls |-> 0]
    /\ toasts = {} /\ missed = {} /\ excused = {}

-------------------------------------------------------------------------------
(* The server.                                                             *)

Allowed(count) ==
    \E load \in Loads : count.tickets <= load.tickets /\ count.calls <= load.calls

(* An order makes its tickets; everybody else knows them already.          *)
Begin(w, t) ==
    /\ row[t].version > 0 \/ \A other \in Staff : writer[other].on # t
    /\ writes' = [writes EXCEPT !.tickets = @ + 1] /\ Allowed(writes') /\ writer[w] = NoWrite
    /\ writer' = [writer EXCEPT ![w] = [on |-> t, began |-> clock]]
    /\ UNCHANGED <<ring, row, wire, screen, page, link, told, ack, clock, faults, excused>>

Later(a, b) == IF a < b THEN b ELSE a

(* Seeded fault (Stamped): the stamp is the start of the transaction.      *)
StampedNow(began, old) == began

(* set_updated_at; the stamp of a new row is the start of its transaction. *)
Stamped(began, old) == Later(began, old.stamp + 1)

(* What the screens hear of a write of t.  The event of a void carries the *)
(* clock of the server, read before the ticket was written (adjustedAt);   *)
(* a handler that throws after its commit sends none.                      *)
Tell(t, stamp) ==
    wire' = [wire EXCEPT !.tickets =
                @ \cup {[on |-> t, stamp |-> stamp, created |-> row[t].version = 0]}]

TellWritten(t, stamp) == Tell(t, stamp) /\ missed' = missed \ {t} /\ UNCHANGED faults

TellVoided(t, at) ==
    /\ row[t].version > 0 /\ Tell(t, at)
    /\ missed' = IF at < row[t].stamp THEN missed \cup {t} ELSE missed \ {t}
    /\ UNCHANGED faults

TellNothing(t) ==
    /\ faults < MaxFaults /\ faults' = faults + 1
    /\ missed' = missed \cup {t} /\ UNCHANGED wire

(* The row is locked, written and committed; the event goes out after.     *)
Commit(w) ==
    LET t     == writer[w].on
        stamp == IF row[t].version = 0 THEN writer[w].began
                 ELSE Stamped(writer[w].began, row[t])
    IN
    /\ writer[w] # NoWrite
    /\ row' = [row EXCEPT ![t] = [version |-> @.version + 1, stamp |-> stamp]]
    /\ writer' = [writer EXCEPT ![w] = NoWrite]
    /\ \/ TellWritten(t, stamp)
       \/ \E at \in writer[w].began..clock : TellVoided(t, at)
       \/ TellNothing(t)
    /\ UNCHANGED <<ring, screen, page, link, toasts, ack, clock, writes, excused>>

(* A newer call overwrites an older one.                                   *)
CallStaff(s) ==
    /\ writes' = [writes EXCEPT !.calls = @ + 1] /\ Allowed(writes')
    /\ ring' = [ring EXCEPT ![s] = writes'.calls]
    /\ wire' = [wire EXCEPT !.called = @ \cup {s}]
    /\ UNCHANGED <<row, writer, screen, page, link, told, ack, clock, faults, excused>>

(* Another screen's answer, a closed visit, a settled payment.             *)
ClearStaffCall(s) ==
    /\ ring[s] # 0 /\ ring' = [ring EXCEPT ![s] = 0]
    /\ wire' = [wire EXCEPT !.cleared = TRUE]
    /\ UNCHANGED <<row, writer, screen, page, link, told, ack, clock, writes, faults, excused>>

(* A save of the whole seat (label, place, QR) writes back the call it     *)
(* read, and sends nothing.                                                *)
SaveSeat(s, call) ==
    /\ faults < MaxFaults /\ faults' = faults + 1
    /\ ring' = [ring EXCEPT ![s] = call] /\ excused' = excused \cup {"tables"}
    /\ UNCHANGED <<row, writer, wire, screen, page, link, told, ack, clock, writes>>

-------------------------------------------------------------------------------
(* The queries of the screen.  A fetch answers with what the server read   *)
(* after it was sent.                                                      *)

(* Seeded fault (Refetched): a fetch on its way is joined.                 *)
RefetchedJoined(q) ==
    IF screen[q].fetch = "none" THEN [screen EXCEPT ![q].fetch = "sent"] ELSE screen

(* invalidateQueries and refetch cancel a fetch on its way and send anew.  *)
Refetched(q) == [screen EXCEPT ![q].fetch = "sent", ![q].answer = screen[q].data]

ReadRows(q) ==
    /\ screen[q].fetch = "sent"
    /\ screen' = [screen EXCEPT ![q].fetch = "read",
                                ![q].answer = IF q = "tables" THEN ring ELSE row]
    /\ missed' = IF q = "tickets" THEN {} ELSE missed
    /\ excused' = IF link.up THEN excused \ {q} ELSE excused
    /\ UNCHANGED <<ring, row, writer, wire, page, link, toasts, ack, clock, writes, faults>>

Show(q) ==
    /\ screen[q].fetch = "read" /\ screen' = [screen EXCEPT ![q] = Fresh(screen[q].answer)]
    /\ UNCHANGED <<ring, row, writer, wire, page, link, told, ack, clock, writes, faults, excused>>

(* No retry: the last data stay, and the query has an error.               *)
Fail(q) ==
    /\ screen[q].fetch # "none" /\ faults < MaxFaults /\ faults' = faults + 1
    /\ screen' = [screen EXCEPT ![q] = [Fresh(@.data) EXCEPT !.failed = TRUE]]
    /\ UNCHANGED <<ring, row, writer, wire, page, link, told, ack, clock, writes, excused>>

(* An event older than the card on the board is not worth a fetch; one of  *)
(* a new order, or of a ticket the board does not have, always is.         *)
IsOlder(event) ==
    LET shown == screen["tickets"].data[event.on] IN
    ~event.created /\ shown.version > 0 /\ event.stamp < shown.stamp

TicketEvent(event) ==
    /\ link.up /\ event \in wire.tickets
    /\ wire' = [wire EXCEPT !.tickets = @ \ {event}]
    /\ screen' = IF IsOlder(event) THEN screen ELSE Refetched("tickets")
    /\ UNCHANGED <<ring, row, writer, page, link, told, ack, clock, writes, faults, excused>>

(* The toast of a call stays up until it is pressed, or for a while.       *)
Called(s) ==
    /\ link.up /\ s \in wire.called
    /\ wire' = [wire EXCEPT !.called = @ \ {s}] /\ toasts' = toasts \cup {s}
    /\ screen' = Refetched("tables")
    /\ UNCHANGED <<ring, row, writer, page, link, ack, clock, writes, faults, missed, excused>>

Cleared ==
    /\ link.up /\ wire.cleared /\ wire' = [wire EXCEPT !.cleared = FALSE]
    /\ screen' = Refetched("tables")
    /\ UNCHANGED <<ring, row, writer, page, link, told, ack, clock, writes, faults, excused>>

(* The floor page fetches its tables on orders, visits and payments too.   *)
OtherEvent ==
    /\ link.up /\ page = "tables" /\ screen' = Refetched("tables")
    /\ UNCHANGED <<ring, row, writer, wire, page, link, told, ack, clock, writes, faults, excused>>

-------------------------------------------------------------------------------
(* The socket.                                                             *)

Disconnect ==
    /\ link.up /\ faults < MaxFaults /\ faults' = faults + 1
    /\ link' = [up |-> FALSE, noticed |-> TRUE]
    /\ UNCHANGED <<ring, row, writer, wire, screen, page, told, ack, clock, writes, excused>>

(* An event sent to a screen that is not there.                            *)
Miss ==
    /\ ~link.up
    /\ \/ \E event \in wire.tickets : wire' = [wire EXCEPT !.tickets = @ \ {event}]
       \/ \E s \in wire.called : wire' = [wire EXCEPT !.called = @ \ {s}]
       \/ wire.cleared /\ wire' = [wire EXCEPT !.cleared = FALSE]
    /\ UNCHANGED <<ring, row, writer, screen, page, link, told, ack, clock, writes, faults, excused>>

ConnectError ==
    /\ ~link.up /\ link' = [link EXCEPT !.noticed = TRUE]
    /\ UNCHANGED <<ring, row, writer, wire, screen, page, told, ack, clock, writes, faults, excused>>

(* The page that saw the socket down fetches its own query, no other.      *)
Reconnect ==
    /\ ~link.up /\ link' = [up |-> TRUE, noticed |-> FALSE]
    /\ screen' = IF link.noticed THEN Refetched(page) ELSE screen
    /\ UNCHANGED <<ring, row, writer, wire, page, told, ack, clock, writes, faults, excused>>

(* A page that opens fetches its query, or joins the fetch on its way, and *)
(* takes the socket to be up.                                              *)
Navigate(q) ==
    /\ page # q /\ page' = q
    /\ link' = [link EXCEPT !.noticed = FALSE]
    /\ screen' = IF screen[q].fetch = "none" THEN [screen EXCEPT ![q].fetch = "sent"] ELSE screen
    /\ excused' = IF link.up /\ screen[q].fetch = "none" THEN excused ELSE excused \cup {q}
    /\ UNCHANGED <<ring, row, writer, wire, told, ack, clock, writes, faults>>

-------------------------------------------------------------------------------
(* Answering a call: the fetch on its way is cancelled, the bell goes at   *)
(* once and comes back if the request fails.                               *)

(* Data that is set by hand takes the error of the query away.             *)
Set(tables, s, call) ==
    [tables EXCEPT !.data = [@ EXCEPT ![s] = call], !.failed = FALSE]

(* From the bell on the page, or from the toast of a call.                 *)
Acknowledge(s) ==
    LET tables == screen["tables"] IN
    /\ ack[s] = NoAck
    /\ \/ tables.data[s] # 0 /\ UNCHANGED toasts
       \/ s \in toasts /\ toasts' = toasts \ {s}
    /\ screen' = [screen EXCEPT !["tables"] = Set(Fresh(tables.data), s, 0)]
    /\ ack' = [ack EXCEPT ![s] = [at |-> "sent", was |-> tables.data[s],
                                  cut |-> tables.fetch # "none"]]
    /\ excused' = IF tables.failed THEN excused \cup {"tables"} ELSE excused
    /\ UNCHANGED <<ring, row, writer, wire, page, link, missed, clock, writes, faults>>

(* A request fails before the server has it, or its answer does.           *)
LoseAck(s) ==
    /\ faults < MaxFaults /\ faults' = faults + 1
    /\ ack' = [ack EXCEPT ![s].at = "lost"]

RequestLost(s) ==
    /\ ack[s] # NoAck /\ ack[s].at = "sent" /\ LoseAck(s)
    /\ UNCHANGED <<ring, row, writer, wire, screen, page, link, told, clock, writes, excused>>

(* clearStaffCall clears the call there is; without one no event goes out, *)
(* and nothing makes up for the fetch that was cancelled.                  *)
Acknowledged(s) ==
    /\ ack[s] # NoAck /\ ack[s].at = "sent" /\ ring' = [ring EXCEPT ![s] = 0]
    /\ wire' = IF ring[s] = 0 THEN wire ELSE [wire EXCEPT !.cleared = TRUE]
    /\ excused' = IF ring[s] = 0 /\ ack[s].cut THEN excused \cup {"tables"} ELSE excused
    /\ \/ ack' = [ack EXCEPT ![s] = NoAck] /\ UNCHANGED faults
       \/ LoseAck(s)
    /\ UNCHANGED <<row, writer, screen, page, link, told, clock, writes>>

(* The mutation's error: the bell that was there is put back.              *)
AnswerFails(s) ==
    /\ ack[s] # NoAck /\ ack[s].at = "lost" /\ ack' = [ack EXCEPT ![s] = NoAck]
    /\ screen' = IF ack[s].was = 0 THEN screen
                 ELSE [screen EXCEPT !["tables"] = Set(@, s, ack[s].was)]
    /\ excused' = excused \cup {"tables"}
    /\ UNCHANGED <<ring, row, writer, wire, page, link, told, clock, writes, faults>>

(* Time matters to nothing but a transaction that has begun.               *)
Tick ==
    /\ clock < MaxTime /\ clock' = clock + 1 /\ \E w \in Staff : writer[w] # NoWrite
    /\ UNCHANGED <<ring, row, writer, wire, screen, page, link, told, ack, writes, faults, excused>>

BoardNext ==
    \/ Tick
    \/ \E w \in Staff : Commit(w) \/ \E t \in Tickets : Begin(w, t)
    \/ \E s \in Seats : \/ CallStaff(s) \/ ClearStaffCall(s)
                        \/ \E call \in 0..writes.calls : SaveSeat(s, call)
                        \/ Called(s) \/ Acknowledge(s)
                        \/ RequestLost(s) \/ Acknowledged(s) \/ AnswerFails(s)
    \/ \E q \in Queries : ReadRows(q) \/ Show(q) \/ Fail(q) \/ Navigate(q)
    \/ \E event \in wire.tickets : TicketEvent(event)
    \/ Cleared \/ OtherEvent
    \/ Disconnect \/ Miss \/ ConnectError \/ Reconnect

BoardSpec == BoardInit /\ [][BoardNext]_boardVars

-------------------------------------------------------------------------------
(* Nothing is on its way to the page that is open, and its last fetch did  *)
(* not fail.  Nobody retries a failed one: the orders page says so, the    *)
(* floor page goes on showing the data it had.                             *)
Settled(q) ==
    /\ page = q /\ link.up /\ screen[q].fetch = "none" /\ ~screen[q].failed
    /\ wire.tickets = {} /\ wire.called = {} /\ ~wire.cleared /\ \A s \in Seats : ack[s] = NoAck

(* When nothing is on its way, the orders page shows every ticket as it    *)
(* is, in whatever order the events of two transactions came and whatever  *)
(* the socket lost (useTicketBoard).  What the screen does not make up     *)
(* for: a write whose handler threw before its event, a void whose event   *)
(* carries an earlier time than the card shows; a page opened while the    *)
(* socket was down, or while an older fetch was on its way.                *)
OrdersAreCurrent ==
    Settled("tickets") /\ "tickets" \notin excused =>
        \A t \in Tickets \ missed : screen["tickets"].data[t] = row[t]

(* When nothing is on its way, the floor page shows the bells that ring,   *)
(* whoever rang, answered or lost the socket in between.  What the screen  *)
(* does not make up for: an answer that cancelled a fetch and found no     *)
(* call to clear, that failed, or that took the error of a failed fetch    *)
(* away (useAcknowledgeCall); a save of the seat that brought a call back; *)
(* a page opened while the socket was down, or while an older fetch was on *)
(* its way.                                                                *)
BellsAreCurrent ==
    Settled("tables") /\ "tables" \notin excused => screen["tables"].data = ring
===============================================================================
