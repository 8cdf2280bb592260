------------------------------ MODULE IamDirectory ------------------------------
(***************************************************************************)
(* Who may manage the staff: people, groups, policies, access requests and *)
(* PINs (IamWriteGuard, StaffAdmin, IamAdmin, StaffPin and their tables).  *)
(*                                                                         *)
(* A write of a manager is one transaction under one advisory lock that    *)
(* ends with the lockout check.  A PIN and the record of a refused login   *)
(* are written outside it, by loading an entity and saving it whole.       *)
(***************************************************************************)
EXTENDS Naturals

CONSTANTS
    People,            \* with an account or asking for one
    Founder,           \* the owner of the first day
    Groups, Owner,     \* Owner: the group no one may change or delete
    Policies, All,     \* All: the policy no one may change or delete
    Pins,
    Writers, Savers,   \* requests of managers; of PINs and logins
    Nobody, NoPin,
    MaxWrites          \* bound: writes of managers

ASSUME DirectoryAssumption ==
    /\ Founder \in People /\ Owner \in Groups /\ All \in Policies
    /\ Nobody \notin Writers /\ NoPin \notin Pins /\ MaxWrites \in Nat

VARIABLES
    db,                \* the rows of staff, groups and policies
    request,           \* status of a person's access request
    pin,               \* pos_pin_hash
    lock,              \* holder of the advisory lock
    writer,            \* a manager's write: its change and how far it is
    saver,             \* a save of an entity: whose, how far, what was loaded
    writes,
    overwrote,         \* history: a save wrote an old is_active back
    reverted,          \* history: people whose decided request a save put back
    unseen             \* history: PINs a choice could not see were taken

vars == <<db, request, pin, lock, writer, saver, writes, overwrote, reverted, unseen>>

(* A membership ends tonight, or has no end date; one that ended counts as *)
(* none, though its row stays.                                             *)
Terms == {"none", "tonight", "lasting"}
Db    == [staff : SUBSET People, active : [People -> BOOLEAN],
          member : [People -> [Groups -> Terms]], own : [People -> SUBSET Policies],
          groups : SUBSET Groups, attached : [Groups -> SUBSET Policies],
          policies : SUBSET Policies, manage : SUBSET Policies]

(* db.manage: the policies that hold staff:manage.                         *)
Changes ==
         [op : {"active"}, who : People, to : BOOLEAN]
    \cup [op : {"memberships", "approve"}, who : People, to : [Groups -> Terms]]
    \cup [op : {"own"}, who : People, to : SUBSET Policies]
    \cup [op : {"create group", "attach"}, group : Groups, to : SUBSET Policies]
    \cup [op : {"drop group"}, group : Groups]
    \cup [op : {"create policy", "codes"}, policy : Policies, to : BOOLEAN]
    \cup [op : {"drop policy"}, policy : Policies]
NoChange == [op |-> "none"]

TypeOK ==
    /\ db \in Db
    /\ request \in [People -> {"none", "pending", "rejected", "approved"}]
    /\ pin \in [People -> Pins \cup {NoPin}]
    /\ lock \in Writers \cup {Nobody}
    /\ writer \in [Writers -> [at : {"idle", "write", "commit"},
                               change : Changes \cup {NoChange}]]
    /\ saver \in [Savers -> [at : {"idle", "unique", "load", "save", "record"}, who : People,
                             pin : Pins \cup {NoPin}, active : BOOLEAN,
                             status : {"none", "pending", "rejected", "approved"}]]
    /\ writes \in 0..MaxWrites
    /\ overwrote \in BOOLEAN /\ reverted \subseteq People /\ unseen \subseteq Pins

Init ==
    /\ db = [staff |-> {Founder}, active |-> [p \in People |-> p = Founder],
             member |-> [p \in People |-> [g \in Groups |->
                            IF p = Founder /\ g = Owner THEN "lasting" ELSE "none"]],
             own |-> [p \in People |-> {}],
             groups |-> {Owner},
             attached |-> [g \in Groups |-> IF g = Owner THEN {All} ELSE {}],
             policies |-> {All}, manage |-> {All}]
    /\ request = [p \in People |-> "none"] /\ pin = [p \in People |-> NoPin]
    /\ lock = Nobody
    /\ writer = [m \in Writers |-> [at |-> "idle", change |-> NoChange]]
    /\ saver = [s \in Savers |-> [at |-> "idle", who |-> Founder, pin |-> NoPin,
                                  active |-> TRUE, status |-> "none"]]
    /\ writes = 0 /\ overwrote = FALSE /\ reverted = {} /\ unseen = {}

(* IamWriteGuard.someoneCanManage.                                         *)
CanManage(d, p) ==
    /\ p \in d.staff /\ d.active[p]
    /\ \/ \E g \in d.groups :
              d.member[p][g] = "lasting" /\ d.attached[g] \cap d.manage # {}
       \/ d.own[p] \cap d.manage # {}
SomeoneCanManage(d) == \E p \in People : CanManage(d, p)

-------------------------------------------------------------------------------
(* The writes of managers.                                                 *)

(* Seeded fault (InUse): only groups are asked.                            *)
InUseByGroups(d, q) == \E g \in d.groups : q \in d.attached[g]

InUse(d, q) == (\E g \in d.groups : q \in d.attached[g]) \/ (\E p \in d.staff : q \in d.own[p])

(* What the handlers refuse before they look at the lockout rule.          *)
Allowed(d, c) ==
    CASE c.op \in {"active", "memberships", "own"} ->
            /\ c.who \in d.staff
            /\ c.op = "memberships" => \A g \in Groups \ d.groups : c.to[g] = "none"
            /\ c.op = "own" => c.to \subseteq d.policies
      [] c.op = "approve" ->
            /\ request[c.who] = "pending"
            /\ \A g \in Groups \ d.groups : c.to[g] = "none"
            /\ c.who \notin d.staff         \* UNIQUE (provider, external_id)
      [] c.op = "create group" -> c.group \notin d.groups /\ c.to \subseteq d.policies
      [] c.op = "attach" -> c.group \in d.groups \ {Owner} /\ c.to \subseteq d.policies
      [] c.op = "drop group" -> c.group \in d.groups \ {Owner}
      [] c.op = "create policy" -> c.policy \notin d.policies
      [] c.op = "codes" -> c.policy \in d.policies \ {All}
      [] c.op = "drop policy" -> c.policy \in d.policies \ {All} /\ ~InUse(d, c.policy)

WithCode(S, q, to) == IF to THEN S \cup {q} ELSE S \ {q}
After(d, c) ==
    CASE c.op = "active" -> [d EXCEPT !.active[c.who] = c.to]
      [] c.op = "memberships" -> [d EXCEPT !.member[c.who] = c.to]
      [] c.op = "approve" ->
            [d EXCEPT !.staff = @ \cup {c.who}, !.active[c.who] = TRUE, !.member[c.who] = c.to]
      [] c.op = "own" -> [d EXCEPT !.own[c.who] = c.to]
      [] c.op = "create group" ->
            [d EXCEPT !.groups = @ \cup {c.group}, !.attached[c.group] = c.to]
      [] c.op = "attach" -> [d EXCEPT !.attached[c.group] = c.to]
      [] c.op = "drop group" ->
            [d EXCEPT !.groups = @ \ {c.group}, !.attached[c.group] = {},
                      !.member = [p \in People |-> [@[p] EXCEPT ![c.group] = "none"]]]
      [] c.op = "create policy" ->
            [d EXCEPT !.policies = @ \cup {c.policy}, !.manage = WithCode(@, c.policy, c.to)]
      [] c.op = "codes" -> [d EXCEPT !.manage = WithCode(@, c.policy, c.to)]
      [] c.op = "drop policy" ->
            [d EXCEPT !.policies = @ \ {c.policy}, !.manage = @ \ {c.policy}]

(* The writes that can take a manager away.                                *)
CheckLockout(c) ==
    \/ c.op \in {"memberships", "own", "attach", "drop group", "codes"}
    \/ c.op = "active" /\ ~c.to

Goes(m, at) == writer' = [writer EXCEPT ![m].at = at]
Ends(m)     == writer' = [writer EXCEPT ![m] = [at |-> "idle", change |-> NoChange]]
Unwritten   == UNCHANGED <<pin, saver, overwrote, reverted>>
SaverFrame  == Unwritten /\ UNCHANGED unseen

(* A manager takes somebody back whose PIN was not looked at meanwhile.    *)
Returning(d, e, p) == IF p \in d.staff /\ e.active[p] /\ ~d.active[p] THEN {pin[p]} \cap Pins ELSE {}

Begin(m, c) ==
    /\ writer[m].at = "idle" /\ writes < MaxWrites
    /\ writes' = writes + 1
    /\ writer' = [writer EXCEPT ![m] = [at |-> "write", change |-> c]]
    /\ UNCHANGED <<db, request>> /\ SaverFrame

(* Seeded fault (TakeLock): the advisory lock is not taken.                *)
TakeLockNever(m, c) == Begin(m, c) /\ UNCHANGED lock

(* The lock is the first statement of the transaction.                     *)
TakeLock(m, c) == lock = Nobody /\ lock' = m /\ Begin(m, c)

(* The write and its check see what is committed and their own change.     *)
Write(m) ==
    LET c == writer[m].change IN
    /\ writer[m].at = "write"
    /\ Allowed(db, c)
    /\ CheckLockout(c) => SomeoneCanManage(After(db, c))
    /\ Goes(m, "commit")
    /\ SaverFrame /\ UNCHANGED <<db, request, lock, writes>>

Refuse(m) ==
    LET c == writer[m].change IN
    /\ writer[m].at = "write"
    /\ ~(Allowed(db, c) /\ (CheckLockout(c) => SomeoneCanManage(After(db, c))))
    /\ lock' = Nobody
    /\ Ends(m)
    /\ SaverFrame /\ UNCHANGED <<db, request, writes>>

Commit(m) ==
    LET c == writer[m].change IN
    /\ writer[m].at = "commit"
    /\ db' = After(db, c)
    /\ request' = IF c.op = "approve" THEN [request EXCEPT ![c.who] = "approved"] ELSE request
    /\ unseen' = unseen \cup UNION {Returning(db, db', p) : p \in People}
    /\ lock' = Nobody
    /\ Ends(m)
    /\ Unwritten /\ UNCHANGED writes

(* Reject and reopen hold the row of the request, not the advisory lock.   *)
Held(p) == \E m \in Writers :
    writer[m].at = "commit" /\ writer[m].change.op = "approve" /\ writer[m].change.who = p

(* Seeded fault (Decide): only the status asked for is looked at.          *)
DecideAny(p, from, to) ==
    /\ request[p] \notin {"none", to} /\ ~Held(p)
    /\ request' = [request EXCEPT ![p] = to]
    /\ SaverFrame /\ UNCHANGED <<db, lock, writer, writes>>

(* A write of a person holds the row of the person (lockUser).             *)
UserHeld(p) == \E m \in Writers :
    /\ writer[m].at = "commit" /\ writer[m].change.op \in {"active", "memberships", "own"}
    /\ writer[m].change.who = p

Decide(p, from, to) ==
    /\ <<from, to>> \in {<<"pending", "rejected">>, <<"rejected", "pending">>}
    /\ request[p] = from /\ ~Held(p)
    /\ request' = [request EXCEPT ![p] = to]
    /\ SaverFrame /\ UNCHANGED <<db, lock, writer, writes>>

Lapse(p, g) ==
    /\ db.member[p][g] = "tonight"
    /\ db' = [db EXCEPT !.member[p][g] = "none"]
    /\ SaverFrame /\ UNCHANGED <<request, lock, writer, writes>>

-------------------------------------------------------------------------------
(* Saves of an entity: findOne, then save(), which compares the entity     *)
(* with the row of now and writes every column that differs.               *)

SaverGoes(s, at) == saver' = [saver EXCEPT ![s].at = at]
Saved(s) == saver' = [saver EXCEPT ![s] = [at |-> "idle", who |-> Founder, pin |-> NoPin,
                                           active |-> TRUE, status |-> "none"]]
WriterFrame == UNCHANGED <<lock, writer, writes>>

(* PUT /me/pin, with the current PIN at hand; DELETE /staff/:id/pin.       *)
SetPin(s, p, n) ==
    /\ saver[s].at = "idle" /\ p \in db.staff /\ n # pin[p]
    /\ n # NoPin => db.active[p]
    /\ saver' = [saver EXCEPT ![s].at = IF n = NoPin THEN "load" ELSE "unique",
                              ![s].who = p, ![s].pin = n]
    /\ WriterFrame /\ UNCHANGED <<db, request, pin, overwrote, reverted, unseen>>

(* Seeded fault (Taken): the people who left are looked at.                *)
TakenInactive(p, n) == \E q \in db.staff \ {p} : ~db.active[q] /\ pin[q] = n

Taken(p, n) == \E q \in db.staff \ {p} : db.active[q] /\ pin[q] = n

AssertPinUnique(s) ==
    LET p == saver[s].who
        n == saver[s].pin
        Choosing(r) == saver[r].at \in {"load", "save"} /\ saver[r].pin = n
    IN
    /\ saver[s].at = "unique"
    /\ IF Taken(p, n) THEN Saved(s) ELSE SaverGoes(s, "load")
    /\ unseen' = unseen \cup (IF \E r \in Savers \ {s} : Choosing(r) THEN {n} ELSE {})
    /\ WriterFrame /\ UNCHANGED <<db, request, pin, overwrote, reverted>>

LoadUser(s) ==
    /\ saver[s].at = "load"
    /\ saver' = [saver EXCEPT ![s].at = "save", ![s].active = db.active[saver[s].who]]
    /\ WriterFrame /\ UNCHANGED <<db, request, pin, overwrote, reverted, unseen>>

SavePin(s) ==
    LET p == saver[s].who IN
    /\ saver[s].at = "save"
    /\ ~UserHeld(p)
    /\ pin' = [pin EXCEPT ![p] = saver[s].pin]
    /\ db' = [db EXCEPT !.active[p] = saver[s].active]
    /\ overwrote' = (overwrote \/ db.active[p] # saver[s].active)
    /\ Saved(s)
    /\ WriterFrame /\ UNCHANGED <<request, reverted, unseen>>

(* A login without an account records a request, or renews its name.       *)
FindRequest(s, p) ==
    /\ saver[s].at = "idle" /\ p \notin db.staff
    /\ saver' = [saver EXCEPT ![s].at = "record", ![s].who = p, ![s].status = request[p]]
    /\ WriterFrame /\ UNCHANGED <<db, request, pin, overwrote, reverted, unseen>>

(* UNIQUE (provider, external_id) refuses a second insert.                 *)
RecordPending(s) ==
    LET p == saver[s].who
        status == IF saver[s].status # "none" THEN saver[s].status
                  ELSE IF request[p] = "none" THEN "pending" ELSE request[p]
    IN /\ saver[s].at = "record" /\ ~Held(p)
       /\ request' = [request EXCEPT ![p] = status]
       /\ reverted' = IF request[p] \notin {"none", status} THEN reverted \cup {p} ELSE reverted
       /\ Saved(s)
       /\ WriterFrame /\ UNCHANGED <<db, pin, overwrote, unseen>>

-------------------------------------------------------------------------------

WriterStep(m) ==
    \/ \E c \in Changes : TakeLock(m, c)
    \/ Write(m) \/ Refuse(m) \/ Commit(m)
SaverStep(s) ==
    \/ \E p \in People, n \in Pins \cup {NoPin} : SetPin(s, p, n)
    \/ AssertPinUnique(s) \/ LoadUser(s) \/ SavePin(s)
    \/ \E p \in People : FindRequest(s, p)
    \/ RecordPending(s)

Next ==
    \/ \E m \in Writers : WriterStep(m)
    \/ \E s \in Savers : SaverStep(s)
    \/ \E p \in People, from, to \in {"pending", "rejected"} : Decide(p, from, to)
    \/ \E p \in People, g \in Groups : Lapse(p, g)

Spec == Init /\ [][Next]_vars

-------------------------------------------------------------------------------
(* Properties.                                                             *)

(* "Without ever locking the bar out of its own system" (BRIEF-054): after *)
(* any order of removals, deactivations, end dates, detached and recoded   *)
(* policies an active person manages the staff for good.  The one way out  *)
(* is a save of a PIN that wrote an old is_active back.                    *)
ManagerRemains == SomeoneCanManage(db) \/ overwrote

(* A person with an account has an approved request or none: an approval   *)
(* is decided once, under the lock of its row.  The way out is a login     *)
(* record that wrote the old status back.                                  *)
ApprovedOnce ==
    \A p \in db.staff \ reverted : request[p] = (IF p = Founder THEN "none" ELSE "approved")

(* What a policy grants never hangs on a deleted row: groups, policies and *)
(* people name only groups and policies that exist.                        *)
NoDanglingGrant ==
    /\ \A g \in Groups : db.attached[g] \subseteq db.policies
    /\ \A p \in People : db.own[p] \subseteq db.policies
    /\ \A p \in People, g \in Groups \ db.groups : db.member[p][g] = "none"
    /\ db.manage \subseteq db.policies

DirectoryInv == TypeOK /\ NoDanglingGrant

(* "PINs are unique among active staff" (BRIEF-018): the PIN alone tells   *)
(* who approved.  It holds but for two cases the look at the active staff  *)
(* cannot see: a PIN somebody brought back, and one that two chose at once.*)
PinTellsApprover ==
    \A p, q \in db.staff :
        p # q /\ db.active[p] /\ db.active[q] /\ pin[p] \notin unseen \cup {NoPin} => pin[p] # pin[q]
===============================================================================
