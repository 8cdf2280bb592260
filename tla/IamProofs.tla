------------------------------- MODULE IamProofs -------------------------------
(***************************************************************************)
(* Proofs about IamDirectory, for any number of people, groups, policies,  *)
(* managers and saves.                                                     *)
(*                                                                         *)
(* Who is between the check and the commit of a write holds the advisory   *)
(* lock, so what it checked (Checked) still holds when it commits: only    *)
(* memberships that end and saves that take no lock come in between, and   *)
(* the check counts no membership that ends.                               *)
(***************************************************************************)
EXTENDS IamDirectory, TLAPS

USE DirectoryAssumption

-------------------------------------------------------------------------------
(* What a write leaves alone.                                              *)

SameStaff(d, e) == e.staff = d.staff
Joins(d, e, p)  == e.staff = d.staff \cup {p}

(* What hangs on a row that is gone is gone.                               *)
Sound(d) ==
    /\ \A g \in Groups : d.attached[g] \subseteq d.policies
    /\ \A p \in People : d.own[p] \subseteq d.policies
    /\ \A p \in People, g \in Groups \ d.groups : d.member[p][g] = "none"
    /\ d.manage \subseteq d.policies
    /\ \A g \in Groups \ d.groups : d.attached[g] = {}
    /\ \A p \in People \ d.staff : d.own[p] = {}

KeepsManager(d, e) == SomeoneCanManage(d) => SomeoneCanManage(e)

LEMMA ActiveWrite ==
    ASSUME NEW d \in Db, NEW p \in People, NEW x \in BOOLEAN, NEW e
    PROVE  e = [d EXCEPT !.active[p] = x]
              => /\ e \in Db /\ SameStaff(d, e)
                 /\ Sound(d) => Sound(e)
                 /\ x => KeepsManager(d, e)
<1> DEFINE Fields == /\ e \in Db
                     /\ e.active = [d.active EXCEPT ![p] = x]
                     /\ e.staff = d.staff /\ e.member = d.member /\ e.own = d.own
                     /\ e.groups = d.groups
                     /\ e.attached = d.attached /\ e.policies = d.policies /\ e.manage = d.manage
<1>1. ASSUME e = [d EXCEPT !.active[p] = x]
      PROVE  Fields
  BY <1>1 DEF Db
<1>2. ASSUME Fields PROVE Sound(d) => Sound(e)
  BY <1>2 DEF Sound, Db
<1>3. ASSUME Fields PROVE x => KeepsManager(d, e)
  BY <1>3 DEF KeepsManager, SomeoneCanManage, CanManage, Db, Sound
<1>4. ASSUME Fields PROVE SameStaff(d, e)
  BY <1>4 DEF SameStaff, Joins
<1> QED
  BY <1>1, <1>2, <1>3, <1>4

LEMMA MembershipsWrite ==
    ASSUME NEW d \in Db, NEW p \in People, NEW x \in [Groups -> Terms], NEW e
    PROVE  e = [d EXCEPT !.member[p] = x]
              => /\ e \in Db /\ SameStaff(d, e)
                 /\ Sound(d) /\ (\A g \in Groups \ d.groups : x[g] = "none") => Sound(e)
<1> DEFINE Fields == /\ e \in Db
                     /\ e.member = [d.member EXCEPT ![p] = x]
                     /\ e.staff = d.staff /\ e.active = d.active /\ e.own = d.own
                     /\ e.groups = d.groups
                     /\ e.attached = d.attached /\ e.policies = d.policies /\ e.manage = d.manage
<1>1. ASSUME e = [d EXCEPT !.member[p] = x]
      PROVE  Fields
  BY <1>1 DEF Db
<1>2. ASSUME Fields PROVE Sound(d) /\ (\A g \in Groups \ d.groups : x[g] = "none") => Sound(e)
  BY <1>2 DEF Sound, Db
<1>3. ASSUME Fields PROVE SameStaff(d, e)
  BY <1>3 DEF SameStaff, Joins
<1> QED
  BY <1>1, <1>2, <1>3

LEMMA ApproveWrite ==
    ASSUME NEW d \in Db, NEW p \in People, NEW x \in [Groups -> Terms], NEW e
    PROVE  e = [d EXCEPT !.staff = @ \cup {p}, !.active[p] = TRUE, !.member[p] = x]
              => /\ e \in Db /\ Joins(d, e, p)
                 /\ Sound(d) /\ (\A g \in Groups \ d.groups : x[g] = "none") => Sound(e)
                 /\ p \notin d.staff => KeepsManager(d, e)
<1> DEFINE Fields == /\ e \in Db
                     /\ e.staff = d.staff \cup {p}
                     /\ e.active = [d.active EXCEPT ![p] = TRUE]
                     /\ e.member = [d.member EXCEPT ![p] = x]
                     /\ e.own = d.own /\ e.groups = d.groups /\ e.attached = d.attached
                     /\ e.policies = d.policies
                     /\ e.manage = d.manage
<1>1. ASSUME e = [d EXCEPT !.staff = @ \cup {p}, !.active[p] = TRUE, !.member[p] = x]
      PROVE  Fields
  BY <1>1 DEF Db
<1>2. ASSUME Fields PROVE Sound(d) /\ (\A g \in Groups \ d.groups : x[g] = "none") => Sound(e)
  BY <1>2 DEF Sound, Db
<1>3. ASSUME Fields PROVE p \notin d.staff => KeepsManager(d, e)
  BY <1>3 DEF KeepsManager, SomeoneCanManage, CanManage, Db, Sound
<1>4. ASSUME Fields PROVE Joins(d, e, p)
  BY <1>4 DEF SameStaff, Joins
<1> QED
  BY <1>1, <1>2, <1>3, <1>4

LEMMA OwnWrite ==
    ASSUME NEW d \in Db, NEW p \in People, NEW x \in SUBSET Policies, NEW e
    PROVE  e = [d EXCEPT !.own[p] = x]
              => /\ e \in Db /\ SameStaff(d, e)
                 /\ Sound(d) /\ p \in d.staff /\ x \subseteq d.policies => Sound(e)
<1> DEFINE Fields == /\ e \in Db
                     /\ e.own = [d.own EXCEPT ![p] = x]
                     /\ e.staff = d.staff /\ e.active = d.active /\ e.member = d.member
                     /\ e.groups = d.groups
                     /\ e.attached = d.attached /\ e.policies = d.policies /\ e.manage = d.manage
<1>1. ASSUME e = [d EXCEPT !.own[p] = x]
      PROVE  Fields
  BY <1>1 DEF Db
<1>2. ASSUME Fields PROVE Sound(d) /\ p \in d.staff /\ x \subseteq d.policies => Sound(e)
  BY <1>2 DEF Sound, Db
<1>3. ASSUME Fields PROVE SameStaff(d, e)
  BY <1>3 DEF SameStaff, Joins
<1> QED
  BY <1>1, <1>2, <1>3

LEMMA CreateGroupWrite ==
    ASSUME NEW d \in Db, NEW g \in Groups, NEW x \in SUBSET Policies, NEW e
    PROVE  e = [d EXCEPT !.groups = @ \cup {g}, !.attached[g] = x]
              => /\ e \in Db /\ SameStaff(d, e)
                 /\ Sound(d) /\ x \subseteq d.policies => Sound(e)
                 /\ g \notin d.groups => KeepsManager(d, e)
<1> DEFINE Fields == /\ e \in Db
                     /\ e.groups = d.groups \cup {g}
                     /\ e.attached = [d.attached EXCEPT ![g] = x]
                     /\ e.staff = d.staff /\ e.active = d.active /\ e.member = d.member
                     /\ e.own = d.own
                     /\ e.policies = d.policies /\ e.manage = d.manage
<1>1. ASSUME e = [d EXCEPT !.groups = @ \cup {g}, !.attached[g] = x]
      PROVE  Fields
  BY <1>1 DEF Db
<1>2. ASSUME Fields PROVE Sound(d) /\ x \subseteq d.policies => Sound(e)
  BY <1>2 DEF Sound, Db
<1>3. ASSUME Fields PROVE g \notin d.groups => KeepsManager(d, e)
  BY <1>3 DEF KeepsManager, SomeoneCanManage, CanManage, Db, Sound
<1>4. ASSUME Fields PROVE SameStaff(d, e)
  BY <1>4 DEF SameStaff, Joins
<1> QED
  BY <1>1, <1>2, <1>3, <1>4

LEMMA AttachWrite ==
    ASSUME NEW d \in Db, NEW g \in Groups, NEW x \in SUBSET Policies, NEW e
    PROVE  e = [d EXCEPT !.attached[g] = x]
              => /\ e \in Db /\ SameStaff(d, e)
                 /\ Sound(d) /\ g \in d.groups /\ x \subseteq d.policies => Sound(e)
<1> DEFINE Fields == /\ e \in Db
                     /\ e.attached = [d.attached EXCEPT ![g] = x]
                     /\ e.staff = d.staff /\ e.active = d.active /\ e.member = d.member
                     /\ e.own = d.own
                     /\ e.groups = d.groups /\ e.policies = d.policies /\ e.manage = d.manage
<1>1. ASSUME e = [d EXCEPT !.attached[g] = x]
      PROVE  Fields
  BY <1>1 DEF Db
<1>2. ASSUME Fields PROVE Sound(d) /\ g \in d.groups /\ x \subseteq d.policies => Sound(e)
  BY <1>2 DEF Sound, Db
<1>3. ASSUME Fields PROVE SameStaff(d, e)
  BY <1>3 DEF SameStaff, Joins
<1> QED
  BY <1>1, <1>2, <1>3

LEMMA DropGroupWrite ==
    ASSUME NEW d \in Db, NEW g \in Groups, NEW e
    PROVE  e = [d EXCEPT !.groups = @ \ {g}, !.attached[g] = {},
                            !.member = [p \in People |-> [@[p] EXCEPT ![g] = "none"]]]
              => /\ e \in Db /\ SameStaff(d, e)
                 /\ Sound(d) => Sound(e)
<1> DEFINE Fields == /\ e \in Db
                     /\ e.groups = d.groups \ {g}
                     /\ e.attached = [d.attached EXCEPT ![g] = {}]
                     /\ e.member = [p \in People |-> [d.member[p] EXCEPT ![g] = "none"]]
                     /\ e.staff = d.staff /\ e.active = d.active /\ e.own = d.own
                     /\ e.policies = d.policies
                     /\ e.manage = d.manage
<1>1. ASSUME e = [d EXCEPT !.groups = @ \ {g}, !.attached[g] = {},
                            !.member = [p \in People |-> [@[p] EXCEPT ![g] = "none"]]]
      PROVE  Fields
  <2>1. "none" \in Terms
    BY DEF Terms
  <2> QED
    BY <1>1, <2>1 DEF Db
<1>2. ASSUME Fields PROVE Sound(d) => Sound(e)
  BY <1>2 DEF Sound, Db
<1>3. ASSUME Fields PROVE SameStaff(d, e)
  BY <1>3 DEF SameStaff, Joins
<1> QED
  BY <1>1, <1>2, <1>3

LEMMA CreatePolicyWrite ==
    ASSUME NEW d \in Db, NEW q \in Policies, NEW x \in BOOLEAN, NEW e
    PROVE  e = [d EXCEPT !.policies = @ \cup {q}, !.manage = WithCode(@, q, x)]
              => /\ e \in Db /\ SameStaff(d, e)
                 /\ Sound(d) => Sound(e)
                 /\ Sound(d) /\ q \notin d.policies => KeepsManager(d, e)
<1> DEFINE Fields == /\ e \in Db
                     /\ e.policies = d.policies \cup {q}
                     /\ e.manage = WithCode(d.manage, q, x)
                     /\ e.staff = d.staff /\ e.active = d.active /\ e.member = d.member
                     /\ e.own = d.own
                     /\ e.groups = d.groups /\ e.attached = d.attached
<1>1. ASSUME e = [d EXCEPT !.policies = @ \cup {q}, !.manage = WithCode(@, q, x)]
      PROVE  Fields
  BY <1>1 DEF Db, WithCode
<1>2. ASSUME Fields PROVE Sound(d) => Sound(e)
  BY <1>2 DEF Sound, Db, WithCode
<1>3. ASSUME Fields PROVE Sound(d) /\ q \notin d.policies => KeepsManager(d, e)
  BY <1>3 DEF KeepsManager, SomeoneCanManage, CanManage, Db, Sound, WithCode
<1>4. ASSUME Fields PROVE SameStaff(d, e)
  BY <1>4 DEF SameStaff, Joins
<1> QED
  BY <1>1, <1>2, <1>3, <1>4

LEMMA CodesWrite ==
    ASSUME NEW d \in Db, NEW q \in Policies, NEW x \in BOOLEAN, NEW e
    PROVE  e = [d EXCEPT !.manage = WithCode(@, q, x)]
              => /\ e \in Db /\ SameStaff(d, e)
                 /\ Sound(d) /\ q \in d.policies => Sound(e)
<1> DEFINE Fields == /\ e \in Db
                     /\ e.manage = WithCode(d.manage, q, x)
                     /\ e.staff = d.staff /\ e.active = d.active /\ e.member = d.member
                     /\ e.own = d.own
                     /\ e.groups = d.groups /\ e.attached = d.attached /\ e.policies = d.policies
<1>1. ASSUME e = [d EXCEPT !.manage = WithCode(@, q, x)]
      PROVE  Fields
  BY <1>1 DEF Db, WithCode
<1>2. ASSUME Fields PROVE Sound(d) /\ q \in d.policies => Sound(e)
  BY <1>2 DEF Sound, Db, WithCode
<1>3. ASSUME Fields PROVE SameStaff(d, e)
  BY <1>3 DEF SameStaff, Joins
<1> QED
  BY <1>1, <1>2, <1>3

LEMMA DropPolicyWrite ==
    ASSUME NEW d \in Db, NEW q \in Policies, NEW e
    PROVE  e = [d EXCEPT !.policies = @ \ {q}, !.manage = @ \ {q}]
              => /\ e \in Db /\ SameStaff(d, e)
                 /\ Sound(d) /\ ~InUse(d, q) => Sound(e)
                 /\ ~InUse(d, q) => KeepsManager(d, e)
<1> DEFINE Fields == /\ e \in Db
                     /\ e.policies = d.policies \ {q}
                     /\ e.manage = d.manage \ {q}
                     /\ e.staff = d.staff /\ e.active = d.active /\ e.member = d.member
                     /\ e.own = d.own
                     /\ e.groups = d.groups /\ e.attached = d.attached
<1>1. ASSUME e = [d EXCEPT !.policies = @ \ {q}, !.manage = @ \ {q}]
      PROVE  Fields
  BY <1>1 DEF Db
<1>2. ASSUME Fields PROVE Sound(d) /\ ~InUse(d, q) => Sound(e)
  BY <1>2 DEF Sound, Db, InUse
<1>3. ASSUME Fields PROVE ~InUse(d, q) => KeepsManager(d, e)
  BY <1>3 DEF KeepsManager, SomeoneCanManage, CanManage, Db, Sound, InUse
<1>4. ASSUME Fields PROVE SameStaff(d, e)
  BY <1>4 DEF SameStaff, Joins
<1> QED
  BY <1>1, <1>2, <1>3, <1>4

(* The same rows, and the same memberships among those that last.          *)
Alike(d, e) ==
    /\ d.staff = e.staff /\ d.active = e.active /\ d.own = e.own /\ d.groups = e.groups
    /\ d.attached = e.attached /\ d.policies = e.policies /\ d.manage = e.manage
    /\ \A p \in People, g \in Groups : d.member[p][g] = "lasting" <=> e.member[p][g] = "lasting"

LEMMA ActiveAlike ==
    ASSUME NEW d \in Db, NEW b \in Db, Alike(d, b), NEW p \in People, NEW x \in BOOLEAN
    PROVE  Alike([d EXCEPT !.active[p] = x],
                 [b EXCEPT !.active[p] = x])
<1>1. ASSUME NEW e, NEW f, e = [d EXCEPT !.active[p] = x],
             f = [b EXCEPT !.active[p] = x]
      PROVE  Alike(e, f)
  BY <1>1 DEF Alike, Db
<1> QED
  BY <1>1

LEMMA MembershipsAlike ==
    ASSUME NEW d \in Db, NEW b \in Db, Alike(d, b), NEW p \in People, NEW x \in [Groups -> Terms]
    PROVE  Alike([d EXCEPT !.member[p] = x],
                 [b EXCEPT !.member[p] = x])
<1>1. ASSUME NEW e, NEW f, e = [d EXCEPT !.member[p] = x],
             f = [b EXCEPT !.member[p] = x]
      PROVE  Alike(e, f)
  BY <1>1 DEF Alike, Db
<1> QED
  BY <1>1

LEMMA ApproveAlike ==
    ASSUME NEW d \in Db, NEW b \in Db, Alike(d, b), NEW p \in People, NEW x \in [Groups -> Terms]
    PROVE  Alike([d EXCEPT !.staff = @ \cup {p}, !.active[p] = TRUE, !.member[p] = x],
                 [b EXCEPT !.staff = @ \cup {p}, !.active[p] = TRUE, !.member[p] = x])
<1>1. ASSUME NEW e, NEW f, e = [d EXCEPT !.staff = @ \cup {p}, !.active[p] = TRUE, !.member[p] = x],
             f = [b EXCEPT !.staff = @ \cup {p}, !.active[p] = TRUE, !.member[p] = x]
      PROVE  Alike(e, f)
  <2>1. /\ e.staff = d.staff \cup {p} /\ e.active = [d.active EXCEPT ![p] = TRUE]
        /\ e.member = [d.member EXCEPT ![p] = x] /\ e.own = d.own /\ e.groups = d.groups
        /\ e.attached = d.attached /\ e.policies = d.policies /\ e.manage = d.manage
    BY <1>1 DEF Db
  <2>2. /\ f.staff = b.staff \cup {p} /\ f.active = [b.active EXCEPT ![p] = TRUE]
        /\ f.member = [b.member EXCEPT ![p] = x] /\ f.own = b.own /\ f.groups = b.groups
        /\ f.attached = b.attached /\ f.policies = b.policies /\ f.manage = b.manage
    BY <1>1 DEF Db
  <2>3. \A q \in People, g \in Groups : e.member[q][g] = "lasting" <=> f.member[q][g] = "lasting"
    <3> SUFFICES ASSUME NEW q \in People, NEW g \in Groups
                 PROVE  e.member[q][g] = "lasting" <=> f.member[q][g] = "lasting"
      OBVIOUS
    <3>1. d.member[q][g] = "lasting" <=> b.member[q][g] = "lasting"
      BY DEF Alike
    <3>2. e.member[q] = IF q = p THEN x ELSE d.member[q]
      BY <2>1 DEF Db
    <3>3. f.member[q] = IF q = p THEN x ELSE b.member[q]
      BY <2>2 DEF Db
    <3> QED
      BY <3>1, <3>2, <3>3
  <2> QED
    BY <2>1, <2>2, <2>3 DEF Alike
<1> QED
  BY <1>1

LEMMA OwnAlike ==
    ASSUME NEW d \in Db, NEW b \in Db, Alike(d, b), NEW p \in People, NEW x \in SUBSET Policies
    PROVE  Alike([d EXCEPT !.own[p] = x],
                 [b EXCEPT !.own[p] = x])
<1>1. ASSUME NEW e, NEW f, e = [d EXCEPT !.own[p] = x],
             f = [b EXCEPT !.own[p] = x]
      PROVE  Alike(e, f)
  BY <1>1 DEF Alike, Db
<1> QED
  BY <1>1

LEMMA CreateGroupAlike ==
    ASSUME NEW d \in Db, NEW b \in Db, Alike(d, b), NEW g \in Groups, NEW x \in SUBSET Policies
    PROVE  Alike([d EXCEPT !.groups = @ \cup {g}, !.attached[g] = x],
                 [b EXCEPT !.groups = @ \cup {g}, !.attached[g] = x])
<1>1. ASSUME NEW e, NEW f, e = [d EXCEPT !.groups = @ \cup {g}, !.attached[g] = x],
             f = [b EXCEPT !.groups = @ \cup {g}, !.attached[g] = x]
      PROVE  Alike(e, f)
  BY <1>1 DEF Alike, Db
<1> QED
  BY <1>1

LEMMA AttachAlike ==
    ASSUME NEW d \in Db, NEW b \in Db, Alike(d, b), NEW g \in Groups, NEW x \in SUBSET Policies
    PROVE  Alike([d EXCEPT !.attached[g] = x],
                 [b EXCEPT !.attached[g] = x])
<1>1. ASSUME NEW e, NEW f, e = [d EXCEPT !.attached[g] = x],
             f = [b EXCEPT !.attached[g] = x]
      PROVE  Alike(e, f)
  BY <1>1 DEF Alike, Db
<1> QED
  BY <1>1

LEMMA DropGroupAlike ==
    ASSUME NEW d \in Db, NEW b \in Db, Alike(d, b), NEW g \in Groups
    PROVE  Alike([d EXCEPT !.groups = @ \ {g}, !.attached[g] = {},
                            !.member = [p \in People |-> [@[p] EXCEPT ![g] = "none"]]],
                 [b EXCEPT !.groups = @ \ {g}, !.attached[g] = {},
                            !.member = [p \in People |-> [@[p] EXCEPT ![g] = "none"]]])
<1>1. ASSUME NEW e, NEW f, e = [d EXCEPT !.groups = @ \ {g}, !.attached[g] = {},
                            !.member = [p \in People |-> [@[p] EXCEPT ![g] = "none"]]],
             f = [b EXCEPT !.groups = @ \ {g}, !.attached[g] = {},
                            !.member = [p \in People |-> [@[p] EXCEPT ![g] = "none"]]]
      PROVE  Alike(e, f)
  <2>1. /\ e.groups = d.groups \ {g} /\ e.attached = [d.attached EXCEPT ![g] = {}]
        /\ e.member = [p \in People |-> [d.member[p] EXCEPT ![g] = "none"]]
        /\ e.staff = d.staff /\ e.active = d.active /\ e.own = d.own
        /\ e.policies = d.policies /\ e.manage = d.manage
    BY <1>1 DEF Db
  <2>2. /\ f.groups = b.groups \ {g} /\ f.attached = [b.attached EXCEPT ![g] = {}]
        /\ f.member = [p \in People |-> [b.member[p] EXCEPT ![g] = "none"]]
        /\ f.staff = b.staff /\ f.active = b.active /\ f.own = b.own
        /\ f.policies = b.policies /\ f.manage = b.manage
    BY <1>1 DEF Db
  <2>3. \A q \in People, h \in Groups : e.member[q][h] = "lasting" <=> f.member[q][h] = "lasting"
    <3> SUFFICES ASSUME NEW q \in People, NEW h \in Groups
                 PROVE  e.member[q][h] = "lasting" <=> f.member[q][h] = "lasting"
      OBVIOUS
    <3>1. d.member[q][h] = "lasting" <=> b.member[q][h] = "lasting"
      BY DEF Alike
    <3>2. e.member[q][h] = IF h = g THEN "none" ELSE d.member[q][h]
      BY <2>1 DEF Db
    <3>3. f.member[q][h] = IF h = g THEN "none" ELSE b.member[q][h]
      BY <2>2 DEF Db
    <3> QED
      BY <3>1, <3>2, <3>3
  <2> QED
    BY <2>1, <2>2, <2>3 DEF Alike
<1> QED
  BY <1>1

LEMMA CreatePolicyAlike ==
    ASSUME NEW d \in Db, NEW b \in Db, Alike(d, b), NEW q \in Policies, NEW x \in BOOLEAN
    PROVE  Alike([d EXCEPT !.policies = @ \cup {q}, !.manage = WithCode(@, q, x)],
                 [b EXCEPT !.policies = @ \cup {q}, !.manage = WithCode(@, q, x)])
<1>1. ASSUME NEW e, NEW f, e = [d EXCEPT !.policies = @ \cup {q}, !.manage = WithCode(@, q, x)],
             f = [b EXCEPT !.policies = @ \cup {q}, !.manage = WithCode(@, q, x)]
      PROVE  Alike(e, f)
  BY <1>1 DEF Alike, Db, WithCode
<1> QED
  BY <1>1

LEMMA CodesAlike ==
    ASSUME NEW d \in Db, NEW b \in Db, Alike(d, b), NEW q \in Policies, NEW x \in BOOLEAN
    PROVE  Alike([d EXCEPT !.manage = WithCode(@, q, x)],
                 [b EXCEPT !.manage = WithCode(@, q, x)])
<1>1. ASSUME NEW e, NEW f, e = [d EXCEPT !.manage = WithCode(@, q, x)],
             f = [b EXCEPT !.manage = WithCode(@, q, x)]
      PROVE  Alike(e, f)
  BY <1>1 DEF Alike, Db, WithCode
<1> QED
  BY <1>1

LEMMA DropPolicyAlike ==
    ASSUME NEW d \in Db, NEW b \in Db, Alike(d, b), NEW q \in Policies
    PROVE  Alike([d EXCEPT !.policies = @ \ {q}, !.manage = @ \ {q}],
                 [b EXCEPT !.policies = @ \ {q}, !.manage = @ \ {q}])
<1>1. ASSUME NEW e, NEW f, e = [d EXCEPT !.policies = @ \ {q}, !.manage = @ \ {q}],
             f = [b EXCEPT !.policies = @ \ {q}, !.manage = @ \ {q}]
      PROVE  Alike(e, f)
  BY <1>1 DEF Alike, Db
<1> QED
  BY <1>1

-------------------------------------------------------------------------------
(* Any write, and the same write after a membership ended.                 *)

LEMMA ChangeFields ==
    ASSUME NEW c \in Changes
    PROVE  /\ c.op \in {"active", "memberships", "approve", "own", "create group", "attach",
                        "drop group", "create policy", "codes", "drop policy"}
           /\ c.op \in {"active", "memberships", "approve", "own"} => c.who \in People
           /\ c.op = "active" => c.to \in BOOLEAN
           /\ c.op \in {"memberships", "approve"} => c.to \in [Groups -> Terms]
           /\ c.op = "own" => c.to \in SUBSET Policies
           /\ c.op \in {"create group", "attach", "drop group"} => c.group \in Groups
           /\ c.op \in {"create group", "attach"} => c.to \in SUBSET Policies
           /\ c.op \in {"create policy", "codes", "drop policy"} => c.policy \in Policies
           /\ c.op \in {"create policy", "codes"} => c.to \in BOOLEAN
BY DEF Changes

(* What a write found the rows to be, the status of a request aside.       *)
Admits(d, c) ==
    /\ c.op \in {"active", "memberships", "own"} => c.who \in d.staff
    /\ c.op \in {"memberships", "approve"} => \A g \in Groups \ d.groups : c.to[g] = "none"
    /\ c.op \in {"own", "create group", "attach"} => c.to \subseteq d.policies
    /\ c.op = "approve" => c.who \notin d.staff
    /\ c.op = "create group" => c.group \notin d.groups
    /\ c.op \in {"attach", "drop group"} => c.group \in d.groups
    /\ c.op = "create policy" => c.policy \notin d.policies
    /\ c.op \in {"codes", "drop policy"} => c.policy \in d.policies
    /\ c.op = "drop policy" => ~InUse(d, c.policy)

LEMMA AllowedAdmits == ASSUME NEW d, NEW c, Allowed(d, c) PROVE Admits(d, c)
BY DEF Allowed, Admits

Effect(d, c, e) ==
    /\ e \in Db
    /\ IF c.op = "approve" THEN Joins(d, e, c.who) ELSE SameStaff(d, e)
    /\ Sound(d) => Sound(e)
    /\ Sound(d) /\ ~CheckLockout(c) => KeepsManager(d, e)

LEMMA AfterEffect ==
    ASSUME NEW d \in Db, NEW c \in Changes, Admits(d, c)
    PROVE  Effect(d, c, After(d, c))
<1>1. CASE c.op = "active"
  <2>1. PICK p \in People, x \in BOOLEAN : c.who = p /\ c.to = x
    BY <1>1, ChangeFields
  <2>2. After(d, c) = [d EXCEPT !.active[p] = x]
    BY <1>1, <2>1 DEF After
  <2> QED
    BY <1>1, <2>1, <2>2, ActiveWrite DEF Effect, Admits, CheckLockout
<1>2. CASE c.op = "memberships"
  <2>1. PICK p \in People, x \in [Groups -> Terms] : c.who = p /\ c.to = x
    BY <1>2, ChangeFields
  <2>2. After(d, c) = [d EXCEPT !.member[p] = x]
    BY <1>2, <2>1 DEF After
  <2> QED
    BY <1>2, <2>1, <2>2, MembershipsWrite DEF Effect, Admits, CheckLockout
<1>3. CASE c.op = "approve"
  <2>1. PICK p \in People, x \in [Groups -> Terms] : c.who = p /\ c.to = x
    BY <1>3, ChangeFields
  <2>2. After(d, c) = [d EXCEPT !.staff = @ \cup {p}, !.active[p] = TRUE, !.member[p] = x]
    BY <1>3, <2>1 DEF After
  <2>3. p \notin d.staff /\ \A g \in Groups \ d.groups : x[g] = "none"
    BY <1>3, <2>1 DEF Admits
  <2>4. /\ After(d, c) \in Db /\ Joins(d, After(d, c), p)
        /\ Sound(d) => Sound(After(d, c)) /\ KeepsManager(d, After(d, c))
    BY <2>2, <2>3, ApproveWrite
  <2> QED
    BY <1>3, <2>1, <2>4 DEF Effect
<1>4. CASE c.op = "own"
  <2>1. PICK p \in People, x \in SUBSET Policies : c.who = p /\ c.to = x
    BY <1>4, ChangeFields
  <2>2. After(d, c) = [d EXCEPT !.own[p] = x]
    BY <1>4, <2>1 DEF After
  <2> QED
    BY <1>4, <2>1, <2>2, OwnWrite DEF Effect, Admits, CheckLockout
<1>5. CASE c.op = "create group"
  <2>1. PICK g \in Groups, x \in SUBSET Policies : c.group = g /\ c.to = x
    BY <1>5, ChangeFields
  <2>2. After(d, c) = [d EXCEPT !.groups = @ \cup {g}, !.attached[g] = x]
    BY <1>5, <2>1 DEF After
  <2> QED
    BY <1>5, <2>1, <2>2, CreateGroupWrite DEF Effect, Admits, CheckLockout
<1>6. CASE c.op = "attach"
  <2>1. PICK g \in Groups, x \in SUBSET Policies : c.group = g /\ c.to = x
    BY <1>6, ChangeFields
  <2>2. After(d, c) = [d EXCEPT !.attached[g] = x]
    BY <1>6, <2>1 DEF After
  <2> QED
    BY <1>6, <2>1, <2>2, AttachWrite DEF Effect, Admits, CheckLockout
<1>7. CASE c.op = "drop group"
  <2>1. PICK g \in Groups : c.group = g
    BY <1>7, ChangeFields
  <2>2. After(d, c) = [d EXCEPT !.groups = @ \ {g}, !.attached[g] = {},
                      !.member = [p \in People |-> [@[p] EXCEPT ![g] = "none"]]]
    BY <1>7, <2>1 DEF After
  <2>3. /\ After(d, c) \in Db /\ SameStaff(d, After(d, c))
        /\ Sound(d) => Sound(After(d, c))
    BY <2>1, <2>2, DropGroupWrite
  <2> QED
    BY <1>7, <2>3 DEF Effect, CheckLockout
<1>8. CASE c.op = "create policy"
  <2>1. PICK q \in Policies, x \in BOOLEAN : c.policy = q /\ c.to = x
    BY <1>8, ChangeFields
  <2>2. After(d, c) = [d EXCEPT !.policies = @ \cup {q}, !.manage = WithCode(@, q, x)]
    BY <1>8, <2>1 DEF After
  <2> QED
    BY <1>8, <2>1, <2>2, CreatePolicyWrite DEF Effect, Admits, CheckLockout
<1>9. CASE c.op = "codes"
  <2>1. PICK q \in Policies, x \in BOOLEAN : c.policy = q /\ c.to = x
    BY <1>9, ChangeFields
  <2>2. After(d, c) = [d EXCEPT !.manage = WithCode(@, q, x)]
    BY <1>9, <2>1 DEF After
  <2> QED
    BY <1>9, <2>1, <2>2, CodesWrite DEF Effect, Admits, CheckLockout
<1>10. CASE c.op = "drop policy"
  <2>1. PICK q \in Policies : c.policy = q
    BY <1>10, ChangeFields
  <2>2. After(d, c) = [d EXCEPT !.policies = @ \ {q}, !.manage = @ \ {q}]
    BY <1>10, <2>1 DEF After
  <2> QED
    BY <1>10, <2>1, <2>2, DropPolicyWrite DEF Effect, Admits, CheckLockout
<1> QED
  BY <1>1, <1>2, <1>3, <1>4, <1>5, <1>6, <1>7, <1>8, <1>9, <1>10, ChangeFields

LEMMA AfterAlike ==
    ASSUME NEW d \in Db, NEW b \in Db, Alike(d, b), NEW c \in Changes
    PROVE  Alike(After(d, c), After(b, c))
<1>1. CASE c.op = "active"
  <2>1. PICK p \in People, x \in BOOLEAN : c.who = p /\ c.to = x
    BY <1>1, ChangeFields
  <2>2. After(d, c) = [d EXCEPT !.active[p] = x]
    BY <1>1, <2>1 DEF After
  <2>3. After(b, c) = [b EXCEPT !.active[p] = x]
    BY <1>1, <2>1 DEF After
  <2>4. Alike([d EXCEPT !.active[p] = x], [b EXCEPT !.active[p] = x])
    BY <2>1, ActiveAlike
  <2> QED
    BY <2>2, <2>3, <2>4
<1>2. CASE c.op = "memberships"
  <2>1. PICK p \in People, x \in [Groups -> Terms] : c.who = p /\ c.to = x
    BY <1>2, ChangeFields
  <2>2. After(d, c) = [d EXCEPT !.member[p] = x]
    BY <1>2, <2>1 DEF After
  <2>3. After(b, c) = [b EXCEPT !.member[p] = x]
    BY <1>2, <2>1 DEF After
  <2>4. Alike([d EXCEPT !.member[p] = x], [b EXCEPT !.member[p] = x])
    BY <2>1, MembershipsAlike
  <2> QED
    BY <2>2, <2>3, <2>4
<1>3. CASE c.op = "approve"
  <2>1. PICK p \in People, x \in [Groups -> Terms] : c.who = p /\ c.to = x
    BY <1>3, ChangeFields
  <2>2. After(d, c) = [d EXCEPT !.staff = @ \cup {p}, !.active[p] = TRUE, !.member[p] = x]
    BY <1>3, <2>1 DEF After
  <2>3. After(b, c) = [b EXCEPT !.staff = @ \cup {p}, !.active[p] = TRUE, !.member[p] = x]
    BY <1>3, <2>1 DEF After
  <2>4. Alike([d EXCEPT !.staff = @ \cup {p}, !.active[p] = TRUE, !.member[p] = x],
              [b EXCEPT !.staff = @ \cup {p}, !.active[p] = TRUE, !.member[p] = x])
    BY <2>1, ApproveAlike
  <2> QED
    BY <2>2, <2>3, <2>4
<1>4. CASE c.op = "own"
  <2>1. PICK p \in People, x \in SUBSET Policies : c.who = p /\ c.to = x
    BY <1>4, ChangeFields
  <2>2. After(d, c) = [d EXCEPT !.own[p] = x]
    BY <1>4, <2>1 DEF After
  <2>3. After(b, c) = [b EXCEPT !.own[p] = x]
    BY <1>4, <2>1 DEF After
  <2>4. Alike([d EXCEPT !.own[p] = x], [b EXCEPT !.own[p] = x])
    BY <2>1, OwnAlike
  <2> QED
    BY <2>2, <2>3, <2>4
<1>5. CASE c.op = "create group"
  <2>1. PICK g \in Groups, x \in SUBSET Policies : c.group = g /\ c.to = x
    BY <1>5, ChangeFields
  <2>2. After(d, c) = [d EXCEPT !.groups = @ \cup {g}, !.attached[g] = x]
    BY <1>5, <2>1 DEF After
  <2>3. After(b, c) = [b EXCEPT !.groups = @ \cup {g}, !.attached[g] = x]
    BY <1>5, <2>1 DEF After
  <2>4. Alike([d EXCEPT !.groups = @ \cup {g}, !.attached[g] = x],
              [b EXCEPT !.groups = @ \cup {g}, !.attached[g] = x])
    BY <2>1, CreateGroupAlike
  <2> QED
    BY <2>2, <2>3, <2>4
<1>6. CASE c.op = "attach"
  <2>1. PICK g \in Groups, x \in SUBSET Policies : c.group = g /\ c.to = x
    BY <1>6, ChangeFields
  <2>2. After(d, c) = [d EXCEPT !.attached[g] = x]
    BY <1>6, <2>1 DEF After
  <2>3. After(b, c) = [b EXCEPT !.attached[g] = x]
    BY <1>6, <2>1 DEF After
  <2>4. Alike([d EXCEPT !.attached[g] = x], [b EXCEPT !.attached[g] = x])
    BY <2>1, AttachAlike
  <2> QED
    BY <2>2, <2>3, <2>4
<1>7. CASE c.op = "drop group"
  <2>1. PICK g \in Groups : c.group = g
    BY <1>7, ChangeFields
  <2>2. After(d, c) = [d EXCEPT !.groups = @ \ {g}, !.attached[g] = {},
                      !.member = [p \in People |-> [@[p] EXCEPT ![g] = "none"]]]
    BY <1>7, <2>1 DEF After
  <2>3. After(b, c) = [b EXCEPT !.groups = @ \ {g}, !.attached[g] = {},
                      !.member = [p \in People |-> [@[p] EXCEPT ![g] = "none"]]]
    BY <1>7, <2>1 DEF After
  <2>4. Alike([d EXCEPT !.groups = @ \ {g}, !.attached[g] = {},
                      !.member = [p \in People |-> [@[p] EXCEPT ![g] = "none"]]],
              [b EXCEPT !.groups = @ \ {g}, !.attached[g] = {},
                      !.member = [p \in People |-> [@[p] EXCEPT ![g] = "none"]]])
    BY <2>1, DropGroupAlike
  <2> QED
    BY <2>2, <2>3, <2>4
<1>8. CASE c.op = "create policy"
  <2>1. PICK q \in Policies, x \in BOOLEAN : c.policy = q /\ c.to = x
    BY <1>8, ChangeFields
  <2>2. After(d, c) = [d EXCEPT !.policies = @ \cup {q}, !.manage = WithCode(@, q, x)]
    BY <1>8, <2>1 DEF After
  <2>3. After(b, c) = [b EXCEPT !.policies = @ \cup {q}, !.manage = WithCode(@, q, x)]
    BY <1>8, <2>1 DEF After
  <2>4. Alike([d EXCEPT !.policies = @ \cup {q}, !.manage = WithCode(@, q, x)],
              [b EXCEPT !.policies = @ \cup {q}, !.manage = WithCode(@, q, x)])
    BY <2>1, CreatePolicyAlike
  <2> QED
    BY <2>2, <2>3, <2>4
<1>9. CASE c.op = "codes"
  <2>1. PICK q \in Policies, x \in BOOLEAN : c.policy = q /\ c.to = x
    BY <1>9, ChangeFields
  <2>2. After(d, c) = [d EXCEPT !.manage = WithCode(@, q, x)]
    BY <1>9, <2>1 DEF After
  <2>3. After(b, c) = [b EXCEPT !.manage = WithCode(@, q, x)]
    BY <1>9, <2>1 DEF After
  <2>4. Alike([d EXCEPT !.manage = WithCode(@, q, x)], [b EXCEPT !.manage = WithCode(@, q, x)])
    BY <2>1, CodesAlike
  <2> QED
    BY <2>2, <2>3, <2>4
<1>10. CASE c.op = "drop policy"
  <2>1. PICK q \in Policies : c.policy = q
    BY <1>10, ChangeFields
  <2>2. After(d, c) = [d EXCEPT !.policies = @ \ {q}, !.manage = @ \ {q}]
    BY <1>10, <2>1 DEF After
  <2>3. After(b, c) = [b EXCEPT !.policies = @ \ {q}, !.manage = @ \ {q}]
    BY <1>10, <2>1 DEF After
  <2>4. Alike([d EXCEPT !.policies = @ \ {q}, !.manage = @ \ {q}],
              [b EXCEPT !.policies = @ \ {q}, !.manage = @ \ {q}])
    BY <2>1, DropPolicyAlike
  <2> QED
    BY <2>2, <2>3, <2>4
<1> QED
  BY <1>1, <1>2, <1>3, <1>4, <1>5, <1>6, <1>7, <1>8, <1>9, <1>10, ChangeFields

LEMMA AlikeManages ==
    ASSUME NEW d \in Db, NEW b \in Db, Alike(d, b), SomeoneCanManage(d)
    PROVE  SomeoneCanManage(b)
<1>1. PICK p \in People : CanManage(d, p)
  BY DEF SomeoneCanManage
<1>2. CASE d.own[p] \cap d.manage # {}
  BY <1>1, <1>2 DEF CanManage, SomeoneCanManage, Alike
<1>3. CASE \E g \in d.groups : d.member[p][g] = "lasting" /\ d.attached[g] \cap d.manage # {}
  BY <1>1, <1>3 DEF CanManage, SomeoneCanManage, Alike, Db
<1> QED
  BY <1>1, <1>2, <1>3 DEF CanManage

LEMMA LapseWrite ==
    ASSUME NEW d \in Db, NEW p \in People, NEW g \in Groups, d.member[p][g] = "tonight", NEW e
    PROVE  e = [d EXCEPT !.member[p][g] = "none"]
              => /\ e \in Db /\ e.staff = d.staff /\ e.active = d.active
                 /\ Alike(d, e)
                 /\ Sound(d) => Sound(e)
<1> SUFFICES ASSUME e = [d EXCEPT !.member[p][g] = "none"]
             PROVE  /\ e \in Db /\ e.staff = d.staff /\ e.active = d.active
                    /\ Alike(d, e)
                    /\ Sound(d) => Sound(e)
  OBVIOUS
<1>1. "none" \in Terms
  BY DEF Terms
<1>2. /\ e \in Db /\ e.member = [d.member EXCEPT ![p][g] = "none"]
      /\ e.staff = d.staff /\ e.active = d.active /\ e.own = d.own /\ e.groups = d.groups
      /\ e.attached = d.attached /\ e.policies = d.policies /\ e.manage = d.manage
  BY <1>1 DEF Db
<1>3. \A q \in People, h \in Groups :
          e.member[q][h] = IF q = p /\ h = g THEN "none" ELSE d.member[q][h]
  BY <1>2 DEF Db
<1>4. Alike(d, e)
  BY <1>2, <1>3 DEF Alike
<1>5. Sound(d) => Sound(e)
  BY <1>2, <1>3 DEF Sound
<1> QED
  BY <1>2, <1>4, <1>5

SameRows(d, e) ==
    /\ e.staff = d.staff /\ e.groups = d.groups /\ e.policies = d.policies
    /\ e.attached = d.attached /\ e.own = d.own

LEMMA SameRowsAdmit ==
    ASSUME NEW d, NEW e, SameRows(d, e), NEW c, Admits(d, c) PROVE Admits(e, c)
BY DEF SameRows, Admits, InUse

LEMMA AlikeAdmits == ASSUME NEW d, NEW e, Alike(d, e), NEW c, Admits(d, c) PROVE Admits(e, c)
BY DEF Alike, Admits, InUse

-------------------------------------------------------------------------------
(* Who holds the lock, and what the check found.                           *)

Statuses == {"none", "pending", "rejected", "approved"}
Jobs     == [at : {"idle", "write", "commit"}, change : Changes \cup {NoChange}]
Saves    == [at : {"idle", "unique", "load", "save", "record"}, who : People,
             pin : Pins \cup {NoPin}, active : BOOLEAN, status : Statuses]

Types ==
    /\ db \in Db
    /\ request \in [People -> Statuses]
    /\ pin \in [People -> Pins \cup {NoPin}]
    /\ lock \in Writers \cup {Nobody}
    /\ writer \in [Writers -> Jobs]
    /\ saver \in [Savers -> Saves]
    /\ writes \in 0..MaxWrites
    /\ overwrote \in BOOLEAN /\ reverted \subseteq People /\ unseen \subseteq Pins

LEMMA TypesAreTypeOK == Types <=> TypeOK
BY DEF Types, TypeOK, Statuses, Jobs, Saves

(* A write holds the lock from its first statement to its last.            *)
Locked ==
    \A m \in Writers : writer[m].at # "idle" => lock = m /\ writer[m].change \in Changes

(* What the check found still holds when the write commits.                *)
Checked ==
    \A m \in Writers : writer[m].at = "commit" =>
        /\ Admits(db, writer[m].change)
        /\ CheckLockout(writer[m].change) =>
               SomeoneCanManage(After(db, writer[m].change)) \/ overwrote

(* Only a PIN is looked up, never its removal.                             *)
LooksUp == \A s \in Savers : saver[s].at = "unique" => saver[s].pin # NoPin

Guarded == Types /\ Sound(db) /\ Locked /\ Checked /\ LooksUp

(* A commit is a write that was checked and admitted.                      *)
LEMMA CommitEffect ==
    ASSUME Guarded, NEW m \in Writers, Commit(m)
    PROVE  /\ writer[m].change \in Changes /\ db' = After(db, writer[m].change)
           /\ Effect(db, writer[m].change, db')
<1>1. writer[m].at = "commit" /\ db' = After(db, writer[m].change)
  BY DEF Commit
<1>2. writer[m].change \in Changes /\ Admits(db, writer[m].change)
  BY <1>1 DEF Guarded, Locked, Checked
<1>3. db \in Db
  BY DEF Guarded, Types
<1> QED
  BY <1>1, <1>2, <1>3, AfterEffect

(* The database after each step that does not commit.                      *)
LEMMA DbSteps ==
    ASSUME Guarded, [Next]_vars
    PROVE  \/ \E m \in Writers : Commit(m)
           \/ UNCHANGED db /\ overwrote' = overwrote
           \/ /\ db' \in Db /\ db'.staff = db.staff /\ (Sound(db) => Sound(db'))
              /\ \A c : Admits(db, c) => Admits(db', c)
              /\ UNCHANGED <<lock, writer, pin, request, saver>>
              /\ Alike(db, db') /\ db'.active = db.active /\ overwrote' = overwrote
           \/ \E s \in Savers : SavePin(s)
<1> USE DEF SaverFrame, Unwritten, WriterFrame
<1>1. ASSUME NEW m \in Writers, WriterStep(m)
      PROVE  Commit(m) \/ (UNCHANGED db /\ overwrote' = overwrote)
  BY <1>1 DEF WriterStep, TakeLock, Begin, Write, Refuse
<1>2. ASSUME NEW s \in Savers, SaverStep(s)
      PROVE  SavePin(s) \/ (UNCHANGED db /\ overwrote' = overwrote)
  BY <1>2 DEF SaverStep, SetPin, AssertPinUnique, LoadUser, FindRequest, RecordPending
<1>3. ASSUME NEW p \in People, NEW from, NEW to, Decide(p, from, to)
      PROVE  UNCHANGED db /\ overwrote' = overwrote
  BY <1>3 DEF Decide
<1>4. ASSUME NEW p \in People, NEW g \in Groups, Lapse(p, g)
      PROVE  /\ db' \in Db /\ db'.staff = db.staff /\ (Sound(db) => Sound(db'))
             /\ \A c : Admits(db, c) => Admits(db', c)
             /\ UNCHANGED <<lock, writer, pin, request, saver>>
             /\ Alike(db, db') /\ db'.active = db.active /\ overwrote' = overwrote
  <2>1. db \in Db /\ db.member[p][g] = "tonight" /\ db' = [db EXCEPT !.member[p][g] = "none"]
    BY <1>4 DEF Lapse, Guarded, Types
  <2>2. /\ db' \in Db /\ db'.staff = db.staff /\ db'.active = db.active
        /\ Alike(db, db') /\ (Sound(db) => Sound(db'))
    BY <2>1, LapseWrite
  <2>3. \A c : Admits(db, c) => Admits(db', c)
    BY <2>2, AlikeAdmits
  <2> QED
    BY <1>4, <2>2, <2>3 DEF Lapse
<1>5. CASE UNCHANGED vars
  BY <1>5 DEF vars
<1> QED
  BY <1>1, <1>2, <1>3, <1>4, <1>5 DEF Next

LEMMA SavePinDb ==
    ASSUME Guarded, NEW s \in Savers, SavePin(s)
    PROVE  /\ saver[s].at = "save" /\ saver[s].who \in People /\ saver[s].active \in BOOLEAN
           /\ db' \in Db /\ db'.staff = db.staff /\ (Sound(db) => Sound(db'))
           /\ db'.active = [db.active EXCEPT ![saver[s].who] = saver[s].active]
           /\ \A c : Admits(db, c) => Admits(db', c)
           /\ (db' = db /\ overwrote' = overwrote) \/ overwrote'
           /\ UNCHANGED <<lock, writer>>
<1>1. /\ saver[s].at = "save" /\ saver[s].who \in People /\ saver[s].active \in BOOLEAN
      /\ db \in Db /\ overwrote \in BOOLEAN
  BY DEF SavePin, Guarded, Types, Saves
<1>2. PICK p \in People, x \in BOOLEAN : p = saver[s].who /\ x = saver[s].active
  BY <1>1
<1>3. /\ db' = [db EXCEPT !.active[p] = x] /\ overwrote' = (overwrote \/ db.active[p] # x)
      /\ UNCHANGED <<lock, writer>>
  BY <1>2 DEF SavePin, WriterFrame
<1>4. /\ db' \in Db /\ db'.active = [db.active EXCEPT ![p] = x] /\ db'.member = db.member
      /\ db'.staff = db.staff /\ db'.own = db.own /\ db'.groups = db.groups
      /\ db'.attached = db.attached /\ db'.policies = db.policies /\ db'.manage = db.manage
  BY <1>1, <1>3 DEF Db
<1>5. Sound(db) => Sound(db')
  BY <1>4 DEF Sound
<1>6. \A c : Admits(db, c) => Admits(db', c)
  BY <1>4, SameRowsAdmit DEF SameRows
<1>7. db.active[p] = x => db' = db
  BY <1>1, <1>3 DEF Db
<1>8. (db' = db /\ overwrote' = overwrote) \/ overwrote'
  BY <1>1, <1>3, <1>7
<1> QED
  BY <1>1, <1>2, <1>3, <1>4, <1>5, <1>6, <1>8

LEMMA TypesHold == Guarded /\ [Next]_vars => Types'
<1> SUFFICES ASSUME Guarded, [Next]_vars PROVE Types'
  OBVIOUS
<1>1. Types
  BY DEF Guarded
<1> USE DEF SaverFrame, Unwritten, WriterFrame
<1>2. ASSUME NEW m \in Writers, NEW c \in Changes, TakeLock(m, c) PROVE Types'
  <2>1. [at |-> "write", change |-> c] \in Jobs
    BY DEF Jobs
  <2>2. writer' \in [Writers -> Jobs] /\ lock' = m /\ writes' \in 0..MaxWrites
    BY <1>1, <1>2, <2>1 DEF TakeLock, Begin, Types
  <2> QED
    BY <1>1, <1>2, <2>2 DEF TakeLock, Begin, Types
<1>3. ASSUME NEW m \in Writers, Write(m) PROVE Types'
  <2>1. writer' \in [Writers -> Jobs]
    BY <1>1, <1>3 DEF Write, Goes, Types, Jobs
  <2> QED
    BY <1>1, <1>3, <2>1 DEF Write, Types
<1>4. ASSUME NEW m \in Writers, Refuse(m) PROVE Types'
  <2>1. [at |-> "idle", change |-> NoChange] \in Jobs
    BY DEF Jobs
  <2>2. writer' \in [Writers -> Jobs]
    BY <1>1, <1>4, <2>1 DEF Refuse, Ends, Types
  <2> QED
    BY <1>1, <1>4, <2>2 DEF Refuse, Types
<1>5. ASSUME NEW m \in Writers, Commit(m) PROVE Types'
  <2>1. [at |-> "idle", change |-> NoChange] \in Jobs
    BY DEF Jobs
  <2>2. writer' \in [Writers -> Jobs] /\ lock' = Nobody
    BY <1>1, <1>5, <2>1 DEF Commit, Ends, Types
  <2>3. db' \in Db
    BY <1>5, CommitEffect DEF Effect
  <2>4. request' \in [People -> Statuses]
    BY <1>1, <1>5 DEF Commit, Types, Statuses
  <2>5. unseen' \subseteq Pins
    BY <1>1, <1>5 DEF Commit, Types, Returning
  <2> QED
    BY <1>1, <1>5, <2>2, <2>3, <2>4, <2>5 DEF Commit, Types
<1>6. ASSUME NEW s \in Savers, NEW p \in People, NEW n \in Pins \cup {NoPin}, SetPin(s, p, n)
      PROVE  Types'
  <2> DEFINE at == IF n = NoPin THEN "load" ELSE "unique"
             new == [saver[s] EXCEPT !.at = at, !.who = p, !.pin = n]
  <2>0. new \in Saves
    BY <1>1 DEF Types, Saves
  <2>1. saver' = [saver EXCEPT ![s] = new]
    BY <1>1, <1>6 DEF SetPin, Types
  <2>2. saver' \in [Savers -> Saves]
    BY <1>1, <2>0, <2>1 DEF Types
  <2> QED
    BY <1>1, <1>6, <2>2 DEF SetPin, Types
<1> DEFINE Idle == [at |-> "idle", who |-> Founder, pin |-> NoPin, active |-> TRUE, status |-> "none"]
<1>7. Idle \in Saves
  BY DEF Saves, Statuses
<1>8. ASSUME NEW s \in Savers, AssertPinUnique(s) PROVE Types'
  <2>1. saver' \in [Savers -> Saves]
    <3>1. CASE Saved(s)
      BY <1>1, <1>7, <3>1 DEF Saved, Types
    <3>2. CASE SaverGoes(s, "load")
      BY <1>1, <3>2 DEF SaverGoes, Types, Saves
    <3> QED
      BY <1>8, <3>1, <3>2 DEF AssertPinUnique
  <2>2. saver[s].pin \in Pins
    BY <1>1, <1>8 DEF AssertPinUnique, Types, Saves, Guarded, LooksUp
  <2>3. unseen' \subseteq Pins
    BY <1>1, <1>8, <2>2 DEF AssertPinUnique, Types
  <2> QED
    BY <1>1, <1>8, <2>1, <2>3 DEF AssertPinUnique, Types
<1>9. ASSUME NEW s \in Savers, LoadUser(s) PROVE Types'
  <2>1. db.active \in [People -> BOOLEAN]
    BY <1>1 DEF Types, Db
  <2>2. PICK x \in BOOLEAN : x = db.active[saver[s].who]
    BY <1>1, <2>1 DEF Types, Saves
  <2> DEFINE new == [saver[s] EXCEPT !.at = "save", !.active = x]
  <2>3. new \in Saves
    BY <1>1 DEF Types, Saves
  <2>4. saver' = [saver EXCEPT ![s] = new]
    BY <1>1, <1>9, <2>2 DEF LoadUser, Types
  <2>5. saver' \in [Savers -> Saves]
    BY <1>1, <2>3, <2>4 DEF Types
  <2> QED
    BY <1>1, <1>9, <2>5 DEF LoadUser, Types
<1>10. ASSUME NEW s \in Savers, SavePin(s) PROVE Types'
  <2>1. db' \in Db
    BY <1>10, SavePinDb
  <2>2. saver' \in [Savers -> Saves]
    BY <1>1, <1>7, <1>10 DEF SavePin, Saved, Types
  <2>3. pin' \in [People -> Pins \cup {NoPin}]
    BY <1>1, <1>10 DEF SavePin, Types, Saves
  <2>4. overwrote' \in BOOLEAN
    BY <1>1, <1>10 DEF SavePin
  <2> QED
    BY <1>1, <1>10, <2>1, <2>2, <2>3, <2>4 DEF SavePin, Types
<1>11. ASSUME NEW s \in Savers, NEW p \in People, FindRequest(s, p) PROVE Types'
  <2> DEFINE new == [saver[s] EXCEPT !.at = "record", !.who = p, !.status = request[p]]
  <2>1. new \in Saves
    BY <1>1 DEF Types, Saves
  <2>2. saver' = [saver EXCEPT ![s] = new]
    BY <1>1, <1>11 DEF FindRequest, Types
  <2>3. saver' \in [Savers -> Saves]
    BY <1>1, <2>1, <2>2 DEF Types
  <2> QED
    BY <1>1, <1>11, <2>3 DEF FindRequest, Types
<1>12. ASSUME NEW s \in Savers, RecordPending(s) PROVE Types'
  <2>1. saver' \in [Savers -> Saves]
    BY <1>1, <1>7, <1>12 DEF RecordPending, Saved, Types
  <2>2. saver[s].who \in People /\ saver[s].status \in Statuses
    BY <1>1 DEF Types, Saves
  <2>3. request' \in [People -> Statuses] /\ reverted' \subseteq People
    BY <1>1, <1>12, <2>2 DEF RecordPending, Types, Statuses
  <2> QED
    BY <1>1, <1>12, <2>1, <2>3 DEF RecordPending, Types
<1>13. ASSUME NEW p \in People, NEW from \in {"pending", "rejected"},
              NEW to \in {"pending", "rejected"},
              Decide(p, from, to)
       PROVE  Types'
  <2>1. request' \in [People -> Statuses]
    BY <1>1, <1>13 DEF Decide, Types, Statuses
  <2> QED
    BY <1>1, <1>13, <2>1 DEF Decide, Types
<1>14. ASSUME NEW p \in People, NEW g \in Groups, Lapse(p, g) PROVE Types'
  <2>1. db' \in Db
    <3>1. db \in Db /\ db.member[p][g] = "tonight" /\ db' = [db EXCEPT !.member[p][g] = "none"]
      BY <1>1, <1>14 DEF Lapse, Types
    <3> QED
      BY <3>1, LapseWrite
  <2> QED
    BY <1>1, <1>14, <2>1 DEF Lapse, Types
<1>15. CASE UNCHANGED vars
  BY <1>1, <1>15 DEF vars, Types
<1> QED
  BY <1>2, <1>3, <1>4, <1>5, <1>6, <1>8, <1>9, <1>10, <1>11, <1>12, <1>13, <1>14, <1>15
  DEF Next, WriterStep, SaverStep

LEMMA LockedHolds == Guarded /\ [Next]_vars => Locked'
<1> SUFFICES ASSUME Guarded, [Next]_vars PROVE Locked'
  OBVIOUS
<1>1. Types /\ Locked
  BY DEF Guarded
<1>2. ASSUME NEW m \in Writers, WriterStep(m) PROVE Locked'
  <2>1. ASSUME NEW c \in Changes, TakeLock(m, c) PROVE Locked'
    BY <1>1, <2>1 DEF Types, Locked, TakeLock, Begin, Jobs
  <2>2. CASE Write(m)
    BY <1>1, <2>2 DEF Types, Locked, Write, Goes, Jobs
  <2>3. CASE Refuse(m)
    BY <1>1, <2>3 DEF Types, Locked, Refuse, Ends, Jobs
  <2>4. CASE Commit(m)
    BY <1>1, <2>4 DEF Types, Locked, Commit, Ends, Jobs
  <2> QED
    BY <1>2, <2>1, <2>2, <2>3, <2>4 DEF WriterStep
<1>3. CASE UNCHANGED <<lock, writer>>
  BY <1>1, <1>3 DEF Locked
<1>4. ASSUME NEW s \in Savers, SaverStep(s) PROVE UNCHANGED <<lock, writer>>
  BY <1>4
  DEF SaverStep, SetPin, AssertPinUnique, LoadUser, SavePin, FindRequest, RecordPending, WriterFrame
<1>5. ASSUME NEW p \in People, NEW from, NEW to, Decide(p, from, to)
      PROVE  UNCHANGED <<lock, writer>>
  BY <1>5 DEF Decide
<1>6. ASSUME NEW p \in People, NEW g \in Groups, Lapse(p, g) PROVE UNCHANGED <<lock, writer>>
  BY <1>6 DEF Lapse
<1> QED
  BY <1>2, <1>3, <1>4, <1>5, <1>6 DEF Next, vars

LEMMA LooksUpHolds == Guarded /\ [Next]_vars => LooksUp'
<1> SUFFICES ASSUME Guarded, [Next]_vars, NEW r \in Savers, saver'[r].at = "unique"
             PROVE  saver'[r].pin # NoPin
  BY DEF LooksUp
<1>1. Types /\ LooksUp
  BY DEF Guarded
<1>2. CASE UNCHANGED saver
  BY <1>1, <1>2 DEF LooksUp
<1>3. ASSUME NEW s \in Savers, SaverStep(s) PROVE saver'[r].pin # NoPin
  <2>1. ASSUME NEW p \in People, NEW n \in Pins \cup {NoPin}, SetPin(s, p, n)
        PROVE  saver'[r].pin # NoPin
    BY <1>1, <2>1 DEF Types, Saves, SetPin, LooksUp
  <2>2. CASE AssertPinUnique(s)
    BY <1>1, <2>2 DEF Types, Saves, AssertPinUnique, Saved, SaverGoes, LooksUp
  <2>3. CASE LoadUser(s)
    BY <1>1, <2>3 DEF Types, Saves, LoadUser, LooksUp
  <2>4. CASE SavePin(s)
    BY <1>1, <2>4 DEF Types, Saves, SavePin, Saved, LooksUp
  <2>5. ASSUME NEW p \in People, FindRequest(s, p) PROVE saver'[r].pin # NoPin
    BY <1>1, <2>5 DEF Types, Saves, FindRequest, LooksUp
  <2>6. CASE RecordPending(s)
    BY <1>1, <2>6 DEF Types, Saves, RecordPending, Saved, LooksUp
  <2> QED
    BY <1>3, <2>1, <2>2, <2>3, <2>4, <2>5, <2>6 DEF SaverStep
<1>4. ASSUME NEW m \in Writers, WriterStep(m) PROVE UNCHANGED saver
  BY <1>4 DEF WriterStep, TakeLock, Begin, Write, Refuse, Commit, SaverFrame, Unwritten
<1>5. ASSUME NEW p \in People, NEW from, NEW to, Decide(p, from, to) PROVE UNCHANGED saver
  BY <1>5 DEF Decide, SaverFrame, Unwritten
<1>6. ASSUME NEW p \in People, NEW g \in Groups, Lapse(p, g) PROVE UNCHANGED saver
  BY <1>6 DEF Lapse, SaverFrame, Unwritten
<1> QED
  BY <1>2, <1>3, <1>4, <1>5, <1>6 DEF Next, vars

(* While a write waits to commit nobody else checks, and what still runs   *)
(* takes no lasting membership away.                                       *)
LEMMA CheckedHolds == Guarded /\ [Next]_vars => Checked'
<1> SUFFICES ASSUME Guarded, [Next]_vars PROVE Checked'
  OBVIOUS
<1>1. Types /\ Locked /\ Checked /\ db \in Db /\ overwrote \in BOOLEAN
  BY DEF Guarded, Types
<1>2. ASSUME NEW m \in Writers, WriterStep(m) PROVE Checked'
  <2>1. ASSUME NEW c \in Changes, TakeLock(m, c) PROVE Checked'
    BY <1>1, <2>1 DEF Types, Locked, Checked, TakeLock, Begin, Jobs
  <2>2. CASE Write(m)
    <3>1. \A n \in Writers \ {m} : writer'[n].at # "commit"
      BY <1>1, <2>2 DEF Types, Locked, Write, Goes, Jobs
    <3>2. /\ writer'[m].change = writer[m].change /\ db' = db
          /\ Allowed(db, writer[m].change)
          /\ CheckLockout(writer[m].change) => SomeoneCanManage(After(db, writer[m].change))
      BY <1>1, <2>2 DEF Types, Write, Goes, Jobs
    <3> QED
      BY <3>1, <3>2, AllowedAdmits DEF Checked
  <2>3. CASE Refuse(m)
    BY <1>1, <2>3 DEF Types, Locked, Checked, Refuse, Ends, Jobs
  <2>4. CASE Commit(m)
    BY <1>1, <2>4 DEF Types, Locked, Checked, Commit, Ends, Jobs
  <2> QED
    BY <1>2, <2>1, <2>2, <2>3, <2>4 DEF WriterStep
<1>3. CASE UNCHANGED <<db, writer, overwrote>>
  BY <1>1, <1>3 DEF Checked
<1>4. ASSUME NEW s \in Savers, SaverStep(s) PROVE Checked'
  <2>1. CASE SavePin(s)
    <3>1. SUFFICES ASSUME NEW m \in Writers, writer'[m].at = "commit"
                   PROVE  /\ Admits(db', writer'[m].change)
                          /\ CheckLockout(writer'[m].change) =>
                                 SomeoneCanManage(After(db', writer'[m].change)) \/ overwrote'
      BY DEF Checked
    <3>2. /\ \A c : Admits(db, c) => Admits(db', c)
          /\ (db' = db /\ overwrote' = overwrote) \/ overwrote'
          /\ writer' = writer
      BY <2>1, SavePinDb
    <3> QED
      BY <1>1, <3>1, <3>2 DEF Checked
  <2>2. CASE ~SavePin(s)
    BY <1>3, <1>4, <2>2
    DEF SaverStep, SetPin, AssertPinUnique, LoadUser, FindRequest, RecordPending, WriterFrame
  <2> QED
    BY <2>1, <2>2
<1>5. ASSUME NEW p \in People, NEW from, NEW to, Decide(p, from, to)
      PROVE  UNCHANGED <<db, writer, overwrote>>
  BY <1>5 DEF Decide, SaverFrame, Unwritten
<1>6. ASSUME NEW p \in People, NEW g \in Groups, Lapse(p, g) PROVE Checked'
  <2>1. db.member[p][g] = "tonight" /\ db' = [db EXCEPT !.member[p][g] = "none"]
    BY <1>6 DEF Lapse
  <2>2. db' \in Db /\ Alike(db, db') /\ writer' = writer /\ overwrote' = overwrote
    BY <1>1, <1>6, <2>1, LapseWrite DEF Lapse, SaverFrame, Unwritten
  <2> SUFFICES ASSUME NEW m \in Writers, writer[m].at = "commit"
               PROVE  /\ Admits(db', writer[m].change)
                      /\ CheckLockout(writer[m].change) =>
                             SomeoneCanManage(After(db', writer[m].change)) \/ overwrote
    BY <2>2 DEF Checked
  <2> DEFINE c == writer[m].change
  <2>3. c \in Changes /\ Admits(db, c)
    BY <1>1 DEF Locked, Checked
  <2>4. Admits(db', c)
    BY <2>2, <2>3, AlikeAdmits
  <2>5. After(db, c) \in Db /\ After(db', c) \in Db
    BY <1>1, <2>2, <2>3, <2>4, AfterEffect DEF Effect
  <2>6. Alike(After(db, c), After(db', c))
    BY <1>1, <2>2, <2>3, AfterAlike
  <2>7. SomeoneCanManage(After(db, c)) => SomeoneCanManage(After(db', c))
    BY <2>5, <2>6, AlikeManages
  <2> QED
    BY <1>1, <2>4, <2>7 DEF Checked
<1> QED
  BY <1>2, <1>3, <1>4, <1>5, <1>6 DEF Next, vars

LEMMA SoundHolds == Guarded /\ [Next]_vars => Sound(db')
<1> SUFFICES ASSUME Guarded, [Next]_vars PROVE Sound(db')
  OBVIOUS
<1>1. Sound(db)
  BY DEF Guarded
<1>2. ASSUME NEW m \in Writers, Commit(m) PROVE Sound(db')
  BY <1>1, <1>2, CommitEffect DEF Effect
<1>3. ASSUME NEW s \in Savers, SavePin(s) PROVE Sound(db')
  BY <1>1, <1>3, SavePinDb
<1> QED
  BY <1>1, <1>2, <1>3, DbSteps

LEMMA GuardedHolds == Spec => []Guarded
<1>1. Init => Guarded
  <2> SUFFICES ASSUME Init PROVE Guarded
    OBVIOUS
  <2>1. db \in Db
    BY DEF Init, Db, Terms
  <2>2. Types
    <3>1. [at |-> "idle", change |-> NoChange] \in Jobs
      BY DEF Jobs
    <3>2. [at |-> "idle", who |-> Founder, pin |-> NoPin, active |-> TRUE, status |-> "none"] \in Saves
      BY DEF Saves, Statuses
    <3>3. writer \in [Writers -> Jobs] /\ saver \in [Savers -> Saves]
      BY <3>1, <3>2 DEF Init
    <3>4. request \in [People -> Statuses] /\ pin \in [People -> Pins \cup {NoPin}]
      BY DEF Init, Statuses
    <3>5. lock = Nobody /\ writes = 0 /\ overwrote = FALSE /\ reverted = {} /\ unseen = {}
      BY DEF Init
    <3>6. /\ lock \in Writers \cup {Nobody} /\ overwrote \in BOOLEAN
          /\ reverted \subseteq People /\ unseen \subseteq Pins
      BY <3>5
    <3>7. writes \in 0..MaxWrites
      BY <3>5
    <3> QED
      BY <2>1, <3>3, <3>4, <3>6, <3>7 DEF Types
  <2>3. Sound(db)
    BY DEF Init, Sound
  <2>4. Locked /\ Checked /\ LooksUp
    BY DEF Init, Locked, Checked, LooksUp
  <2> QED
    BY <2>2, <2>3, <2>4 DEF Guarded
<1>2. Guarded /\ [Next]_vars => Guarded'
  BY TypesHold, LockedHolds, LooksUpHolds, CheckedHolds, SoundHolds DEF Guarded
<1> QED
  BY <1>1, <1>2, PTL DEF Spec

-------------------------------------------------------------------------------
(* The theorems on the directory.                                          *)

(* Groups, policies and people name only groups and policies that exist,   *)
(* whatever is created, detached and deleted: what hangs on a row goes     *)
(* with it, and a policy in use is not deleted.                            *)
THEOREM NothingDangles == Spec => []DirectoryInv
<1>1. Guarded => DirectoryInv
  BY TypesAreTypeOK DEF Guarded, Sound, DirectoryInv, NoDanglingGrant
<1> QED
  BY <1>1, GuardedHolds, PTL

(* Managers who remove, deactivate and recode each other and the policies  *)
(* of each other never lock the bar out: an active person manages the      *)
(* staff for good, unless a save of a PIN wrote an old is_active back.     *)
THEOREM NeverLockedOut == Spec => []ManagerRemains
<1>1. Init => ManagerRemains
  <2>1. ASSUME Init PROVE CanManage(db, Founder)
    BY <2>1 DEF Init, CanManage
  <2> QED
    BY <2>1 DEF ManagerRemains, SomeoneCanManage
<1>2. Guarded /\ ManagerRemains /\ [Next]_vars => ManagerRemains'
  <2> SUFFICES ASSUME Guarded, ManagerRemains, [Next]_vars PROVE ManagerRemains'
    OBVIOUS
  <2>1. Sound(db) /\ Checked /\ db \in Db /\ overwrote \in BOOLEAN
    BY DEF Guarded, Types
  <2>2. ASSUME NEW m \in Writers, Commit(m) PROVE ManagerRemains'
    <3>1. /\ writer[m].at = "commit" /\ overwrote' = overwrote
          /\ db' = After(db, writer[m].change) /\ Effect(db, writer[m].change, db')
      BY <2>2, CommitEffect DEF Commit, Unwritten
    <3>2. CASE CheckLockout(writer[m].change)
      BY <2>1, <3>1, <3>2 DEF Checked, ManagerRemains
    <3>3. CASE ~CheckLockout(writer[m].change)
      BY <2>1, <3>1, <3>3 DEF Effect, KeepsManager, ManagerRemains
    <3> QED
      BY <3>2, <3>3
  <2>3. ASSUME db' \in Db, Alike(db, db'), overwrote' = overwrote PROVE ManagerRemains'
    BY <2>1, <2>3, AlikeManages DEF ManagerRemains
  <2>4. ASSUME NEW s \in Savers, SavePin(s) PROVE ManagerRemains'
    BY <2>4, SavePinDb DEF ManagerRemains
  <2>5. CASE UNCHANGED db /\ overwrote' = overwrote
    BY <2>5 DEF ManagerRemains
  <2> QED
    BY <2>2, <2>3, <2>4, <2>5, DbSteps
<1> QED
  BY <1>1, <1>2, GuardedHolds, PTL DEF Spec

(* A login that looks for its request is of a person without an account.   *)
Records ==
    /\ Founder \in db.staff
    /\ \A s \in Savers : saver[s].at = "record" => saver[s].who # Founder

LEMMA StaffStays ==
    ASSUME Guarded, [Next]_vars
    PROVE  db.staff \subseteq db'.staff
<1>1. ASSUME NEW m \in Writers, Commit(m) PROVE db.staff \subseteq db'.staff
  BY <1>1, CommitEffect DEF Effect, Joins, SameStaff
<1>2. ASSUME NEW s \in Savers, SavePin(s) PROVE db.staff \subseteq db'.staff
  BY <1>2, SavePinDb
<1> QED
  BY <1>1, <1>2, DbSteps

LEMMA RecordsHold == Guarded /\ Records /\ [Next]_vars => Records'
<1> SUFFICES ASSUME Guarded, Records, [Next]_vars PROVE Records'
  OBVIOUS
<1>1. Types /\ Founder \in db'.staff
  BY StaffStays DEF Guarded, Records
<1>2. CASE UNCHANGED saver
  BY <1>1, <1>2 DEF Records
<1>3. ASSUME NEW s \in Savers, SaverStep(s) PROVE Records'
  <2> SUFFICES ASSUME NEW r \in Savers, saver'[r].at = "record" PROVE saver'[r].who # Founder
    BY <1>1 DEF Records
  <2>1. ASSUME NEW p \in People, NEW n \in Pins \cup {NoPin}, SetPin(s, p, n)
        PROVE  saver'[r].who # Founder
    BY <1>1, <2>1 DEF Types, Saves, SetPin, Records
  <2>2. CASE AssertPinUnique(s)
    BY <1>1, <2>2 DEF Types, Saves, AssertPinUnique, Saved, SaverGoes, Records
  <2>3. CASE LoadUser(s)
    BY <1>1, <2>3 DEF Types, Saves, LoadUser, Records
  <2>4. CASE SavePin(s)
    BY <1>1, <2>4 DEF Types, Saves, SavePin, Saved, Records
  <2>5. ASSUME NEW p \in People, FindRequest(s, p) PROVE saver'[r].who # Founder
    BY <1>1, <2>5 DEF Types, Saves, FindRequest, Records
  <2>6. CASE RecordPending(s)
    BY <1>1, <2>6 DEF Types, Saves, RecordPending, Saved, Records
  <2> QED
    BY <1>3, <2>1, <2>2, <2>3, <2>4, <2>5, <2>6 DEF SaverStep
<1>4. ASSUME NEW m \in Writers, WriterStep(m) PROVE UNCHANGED saver
  BY <1>4 DEF WriterStep, TakeLock, Begin, Write, Refuse, Commit, SaverFrame, Unwritten
<1>5. ASSUME NEW p \in People, NEW from, NEW to, Decide(p, from, to) PROVE UNCHANGED saver
  BY <1>5 DEF Decide, SaverFrame, Unwritten
<1>6. ASSUME NEW p \in People, NEW g \in Groups, Lapse(p, g) PROVE UNCHANGED saver
  BY <1>6 DEF Lapse, SaverFrame, Unwritten
<1> QED
  BY <1>2, <1>3, <1>4, <1>5, <1>6 DEF Next, vars

(* A request is approved once: whoever has an account has a request that   *)
(* stays approved through rejections, reopenings and logins, unless a login*)
(* wrote back the status it had read.                                      *)
THEOREM ApprovalsStand == Spec => []ApprovedOnce
<1>1. Init => Records /\ ApprovedOnce
  BY DEF Init, Records, ApprovedOnce
<1>2. Guarded /\ Records /\ ApprovedOnce /\ [Next]_vars => ApprovedOnce'
  <2> SUFFICES ASSUME Guarded, Records, ApprovedOnce, [Next]_vars PROVE ApprovedOnce'
    OBVIOUS
  <2>1. Types
    BY DEF Guarded
  <2>2. ASSUME db'.staff = db.staff, UNCHANGED <<request, reverted>> PROVE ApprovedOnce'
    BY <2>2 DEF ApprovedOnce
  <2>3. ASSUME NEW m \in Writers, Commit(m) PROVE ApprovedOnce'
    <3> DEFINE c == writer[m].change
    <3>1. c \in Changes /\ Effect(db, c, db') /\ UNCHANGED reverted
      BY <2>3, CommitEffect DEF Commit, Unwritten
    <3>2. CASE c.op # "approve"
      BY <2>2, <2>3, <3>1, <3>2 DEF Effect, SameStaff, Commit
    <3>3. CASE c.op = "approve"
      <4>1. request' = [request EXCEPT ![c.who] = "approved"] /\ db'.staff = db.staff \cup {c.who}
        BY <2>3, <3>1, <3>3 DEF Commit, Effect, Joins
      <4>2. c.who \in People /\ c.who \notin db.staff
        BY <2>3, <3>1, <3>3, ChangeFields DEF Guarded, Checked, Admits, Commit
      <4> QED
        BY <2>1, <3>1, <4>1, <4>2 DEF ApprovedOnce, Records, Types
    <3> QED
      BY <3>2, <3>3
  <2>4. ASSUME NEW m \in Writers, WriterStep(m), ~Commit(m) PROVE ApprovedOnce'
    BY <2>2, <2>4 DEF WriterStep, TakeLock, Begin, Write, Refuse, SaverFrame, Unwritten
  <2>5. ASSUME NEW s \in Savers, RecordPending(s) PROVE ApprovedOnce'
    <3>1. saver[s].at = "record" /\ saver[s].who \in People /\ db' = db
      BY <2>1, <2>5 DEF RecordPending, Types, Saves, WriterFrame
    <3>2. saver[s].who # Founder
      BY <3>1 DEF Records
    <3> QED
      BY <2>1, <2>5, <3>1, <3>2 DEF RecordPending, ApprovedOnce, Types
  <2>6. ASSUME NEW s \in Savers, SavePin(s) PROVE ApprovedOnce'
    BY <2>2, <2>6, SavePinDb DEF SavePin
  <2>7. ASSUME NEW s \in Savers, SaverStep(s), ~RecordPending(s), ~SavePin(s) PROVE ApprovedOnce'
    BY <2>2, <2>7 DEF SaverStep, SetPin, AssertPinUnique, LoadUser, FindRequest
  <2>8. ASSUME NEW p \in People, NEW from, NEW to, Decide(p, from, to) PROVE ApprovedOnce'
    BY <2>1, <2>8 DEF Decide, ApprovedOnce, Types, SaverFrame, Unwritten
  <2>9. ASSUME NEW p \in People, NEW g \in Groups, Lapse(p, g) PROVE ApprovedOnce'
    <3>1. db.member[p][g] = "tonight" /\ db' = [db EXCEPT !.member[p][g] = "none"] /\ db \in Db
      BY <2>1, <2>9 DEF Lapse, Types
    <3>2. db'.staff = db.staff
      BY <3>1, LapseWrite
    <3> QED
      BY <2>2, <2>9, <3>2 DEF Lapse, SaverFrame, Unwritten
  <2>10. CASE UNCHANGED vars
    BY <2>2, <2>10 DEF vars
  <2> QED
    BY <2>3, <2>4, <2>5, <2>6, <2>7, <2>8, <2>9, <2>10 DEF Next
<1> QED
  BY <1>1, <1>2, RecordsHold, GuardedHolds, PTL DEF Spec

(* Who chose a PIN that is not yet written was alone with it, or the PIN   *)
(* counts among those the look could not see.                              *)
Choosing(s) == saver[s].at \in {"load", "save"} /\ saver[s].pin # NoPin
Chosen ==
    /\ \A p \in People \ db.staff : pin[p] = NoPin
    /\ \A s \in Savers : saver[s].at \in {"unique", "load", "save"} => saver[s].who \in db.staff
    /\ \A r, s \in Savers : r # s /\ Choosing(r) /\ Choosing(s) /\ saver[r].pin = saver[s].pin
           => saver[s].pin \in unseen
    /\ \A s \in Savers : Choosing(s) /\ saver[s].pin \notin unseen =>
           \A q \in db.staff \ {saver[s].who} : db.active[q] => pin[q] # saver[s].pin

Known == Chosen /\ PinTellsApprover

(* Saves of PINs aside, nobody among the staff becomes active unseen.      *)
Quiet ==
    /\ db.staff \subseteq db'.staff /\ unseen \subseteq unseen'
    /\ db'.active = db.active \/ \A p \in db.staff : Returning(db, db', p) \subseteq unseen'
    /\ UNCHANGED <<pin, saver>>

LEMMA QuietKeeps == Types /\ db' \in Db /\ Known /\ Quiet => Known'
<1> SUFFICES ASSUME Types, db' \in Db, Known, Quiet PROVE Known'
  OBVIOUS
<1>1. \A p \in People : pin[p] \in Pins \cup {NoPin}
  BY DEF Types
<1>2. \A p \in db.staff : db'.active[p] /\ pin[p] \notin unseen' \cup {NoPin} => db.active[p]
  BY <1>1 DEF Quiet, Types, Db, Returning
<1>3. PinTellsApprover'
  <2> SUFFICES ASSUME NEW p \in db'.staff, NEW q \in db'.staff, p # q, db'.active[p], db'.active[q],
                      pin[p] \notin unseen' \cup {NoPin}, pin[p] = pin[q]
               PROVE  FALSE
    BY DEF PinTellsApprover, Quiet
  <2>1. CASE p \in db.staff /\ q \in db.staff
    BY <1>2, <2>1 DEF Known, PinTellsApprover, Quiet
  <2>2. CASE p \notin db.staff \/ q \notin db.staff
    <3>1. p \in People /\ q \in People
      BY DEF Db
    <3> QED
      BY <2>2, <3>1 DEF Known, Chosen
  <2> QED
    BY <2>1, <2>2
<1>4. \A p \in People \ db'.staff : pin'[p] = NoPin
  BY DEF Known, Chosen, Quiet
<1>5. \A s \in Savers : saver'[s].at \in {"unique", "load", "save"} => saver'[s].who \in db'.staff
  BY DEF Known, Chosen, Quiet
<1>6. \A r, s \in Savers : r # s /\ Choosing(r)' /\ Choosing(s)' /\ saver'[r].pin = saver'[s].pin
          => saver'[s].pin \in unseen'
  BY DEF Known, Chosen, Choosing, Quiet
<1>7. \A s \in Savers : Choosing(s)' /\ saver'[s].pin \notin unseen' =>
          \A q \in db'.staff \ {saver'[s].who} : db'.active[q] => pin'[q] # saver'[s].pin
  <2> SUFFICES ASSUME NEW s \in Savers, Choosing(s), saver[s].pin \notin unseen',
                      NEW q \in db'.staff \ {saver[s].who}, db'.active[q], pin[q] = saver[s].pin
               PROVE  FALSE
    BY DEF Quiet, Choosing
  <2>1. q \in People /\ saver[s].pin # NoPin
    BY DEF Db, Choosing
  <2>2. q \in db.staff
    BY <2>1 DEF Known, Chosen
  <2>3. db.active[q]
    BY <1>2, <2>1, <2>2
  <2> QED
    BY <2>2, <2>3 DEF Known, Chosen, Quiet
<1> QED
  BY <1>3, <1>4, <1>5, <1>6, <1>7 DEF Known, Chosen

LEMMA SavesKeepKnown ==
    ASSUME Guarded, Known, NEW s \in Savers, SaverStep(s)
    PROVE  Known'
<1>1. Types /\ Chosen /\ PinTellsApprover
  BY DEF Guarded, Known
<1> DEFINE others == \A r \in Savers \ {s} : saver'[r] = saver[r]
<1>2. ASSUME UNCHANGED <<db, pin>>, unseen \subseteq unseen', others,
             saver'[s].at \in {"unique", "load", "save"} => saver'[s].who \in db.staff,
             Choosing(s)' => \/ Choosing(s) /\ saver'[s].pin = saver[s].pin /\ saver'[s].who = saver[s].who
                             \/ /\ \A r \in Savers \ {s} :
                                       Choosing(r) /\ saver[r].pin = saver'[s].pin => saver'[s].pin \in unseen'
                                /\ \A q \in db.staff \ {saver'[s].who} : db.active[q] => pin[q] # saver'[s].pin
      PROVE  Known'
  <2>1. PinTellsApprover'
    BY <1>1, <1>2 DEF PinTellsApprover
  <2>2. \A p \in People \ db'.staff : pin'[p] = NoPin
    BY <1>1, <1>2 DEF Chosen
  <2>3. \A r \in Savers : saver'[r].at \in {"unique", "load", "save"} => saver'[r].who \in db'.staff
    BY <1>1, <1>2 DEF Chosen
  <2>4. \A r \in Savers \ {s} : (Choosing(r)' <=> Choosing(r)) /\ saver'[r] = saver[r]
    BY <1>2 DEF Choosing
  <2>5. \A r \in Savers \ {s} :
            Choosing(r) /\ Choosing(s)' /\ saver[r].pin = saver'[s].pin => saver'[s].pin \in unseen'
    BY <1>1, <1>2 DEF Chosen
  <2>6. \A r, t \in Savers \ {s} :
            r # t /\ Choosing(r) /\ Choosing(t) /\ saver[r].pin = saver[t].pin => saver[t].pin \in unseen'
    BY <1>1, <1>2 DEF Chosen
  <2>7. \A r, t \in Savers : r # t /\ Choosing(r)' /\ Choosing(t)' /\ saver'[r].pin = saver'[t].pin
            => saver'[t].pin \in unseen'
    BY <2>4, <2>5, <2>6
  <2>8. \A r \in Savers : Choosing(r)' /\ saver'[r].pin \notin unseen' =>
            \A q \in db'.staff \ {saver'[r].who} : db'.active[q] => pin'[q] # saver'[r].pin
    BY <1>1, <1>2, <2>4 DEF Chosen
  <2> QED
    BY <2>1, <2>2, <2>3, <2>7, <2>8 DEF Known, Chosen
<1>3. ASSUME NEW p \in People, NEW n \in Pins \cup {NoPin}, SetPin(s, p, n) PROVE Known'
  <2>1. /\ saver'[s].who = p /\ saver'[s].pin = n /\ p \in db.staff /\ others
        /\ saver'[s].at = IF n = NoPin THEN "load" ELSE "unique"
    BY <1>1, <1>3 DEF SetPin, Types, Saves
  <2>2. ~Choosing(s)'
    BY <2>1 DEF Choosing
  <2> QED
    BY <1>2, <1>3, <2>1, <2>2 DEF SetPin
<1>4. CASE AssertPinUnique(s)
  <2> DEFINE n == saver[s].pin
  <2>1. saver[s].at = "unique" /\ saver[s].who \in db.staff /\ others
    BY <1>1, <1>4 DEF AssertPinUnique, Saved, SaverGoes, Types, Saves, Chosen
  <2>2. CASE saver'[s].at = "idle"
    <3>1. ~Choosing(s)'
      BY <2>2 DEF Choosing
    <3> QED
      BY <1>2, <1>4, <2>1, <2>2, <3>1 DEF AssertPinUnique, WriterFrame
  <2>3. CASE SaverGoes(s, "load") /\ ~Taken(saver[s].who, n)
    <3>1. saver'[s].who = saver[s].who /\ saver'[s].pin = n /\ saver'[s].at = "load"
      BY <1>1, <2>3 DEF SaverGoes, Types, Saves
    <3>2. \A q \in db.staff \ {saver[s].who} : db.active[q] => pin[q] # n
      BY <2>3 DEF Taken
    <3>3. \A r \in Savers \ {s} : Choosing(r) /\ saver[r].pin = n => n \in unseen'
      BY <1>4 DEF AssertPinUnique, Choosing
    <3>4. unseen \subseteq unseen' /\ UNCHANGED <<db, pin>>
      BY <1>4 DEF AssertPinUnique
    <3> QED
      BY <1>2, <2>1, <3>1, <3>2, <3>3, <3>4
  <2>4. Saved(s) => saver'[s].at = "idle"
    BY <1>1 DEF Saved, Types
  <2> QED
    BY <1>4, <2>2, <2>3, <2>4 DEF AssertPinUnique
<1>5. CASE LoadUser(s)
  <2>1. /\ saver'[s].who = saver[s].who /\ saver'[s].pin = saver[s].pin /\ saver'[s].at = "save"
        /\ saver[s].at = "load" /\ saver[s].who \in db.staff /\ others
    BY <1>1, <1>5 DEF LoadUser, Types, Saves, Chosen
  <2>2. Choosing(s)' => Choosing(s)
    BY <2>1 DEF Choosing
  <2> QED
    BY <1>2, <1>5, <2>1, <2>2 DEF LoadUser
<1>6. CASE SavePin(s)
  <2> DEFINE p == saver[s].who
             n == saver[s].pin
  <2>1. /\ p \in db.staff /\ p \in People /\ saver[s].at = "save" /\ others /\ saver'[s].at = "idle"
        /\ pin' = [pin EXCEPT ![p] = n] /\ unseen' = unseen
    BY <1>1, <1>6 DEF SavePin, Saved, Types, Saves, Chosen
  <2>2. db'.staff = db.staff /\ \A q \in People \ {p} : db'.active[q] = db.active[q]
    <3>1. db.active \in [People -> BOOLEAN]
      BY <1>1 DEF Types, Db
    <3> QED
      BY <1>6, <3>1, SavePinDb
  <2>3. pin'[p] = n /\ \A q \in People \ {p} : pin'[q] = pin[q]
    BY <1>1, <2>1 DEF Types
  <2>4. n # NoPin => Choosing(s)
    BY <2>1 DEF Choosing
  <2>5. \A q \in db.staff : q \in People
    BY <1>1 DEF Types, Db
  <2>6. PinTellsApprover'
    <3> SUFFICES ASSUME NEW a \in db.staff, NEW b \in db.staff, a # b, db'.active[a], db'.active[b],
                        pin'[a] \notin unseen \cup {NoPin}, pin'[a] = pin'[b]
                 PROVE  FALSE
      BY <2>1, <2>2 DEF PinTellsApprover
    <3>1. CASE a # p /\ b # p
      BY <1>1, <2>2, <2>3, <2>5, <3>1 DEF PinTellsApprover
    <3>2. CASE a = p
      BY <1>1, <2>2, <2>3, <2>4, <2>5, <3>2 DEF Chosen
    <3>3. CASE b = p
      BY <1>1, <2>2, <2>3, <2>4, <2>5, <3>3 DEF Chosen
    <3> QED
      BY <3>1, <3>2, <3>3
  <2>7. ~Choosing(s)' /\ \A r \in Savers \ {s} : (Choosing(r)' <=> Choosing(r)) /\ saver'[r] = saver[r]
    BY <2>1 DEF Choosing
  <2>8. \A q \in People \ db'.staff : pin'[q] = NoPin
    BY <1>1, <2>1, <2>2, <2>3 DEF Chosen
  <2>9. \A r \in Savers : saver'[r].at \in {"unique", "load", "save"} => saver'[r].who \in db'.staff
    BY <1>1, <2>1, <2>2 DEF Chosen
  <2>10. \A r, t \in Savers : r # t /\ Choosing(r)' /\ Choosing(t)' /\ saver'[r].pin = saver'[t].pin
            => saver'[t].pin \in unseen'
    BY <1>1, <2>1, <2>7 DEF Chosen
  <2>11. \A r \in Savers : Choosing(r)' /\ saver'[r].pin \notin unseen' =>
            \A q \in db'.staff \ {saver'[r].who} : db'.active[q] => pin'[q] # saver'[r].pin
    <3> SUFFICES ASSUME NEW r \in Savers \ {s}, Choosing(r), saver[r].pin \notin unseen,
                        NEW q \in db.staff \ {saver[r].who}, db'.active[q]
                 PROVE  pin'[q] # saver[r].pin
      BY <2>1, <2>2, <2>7
    <3>1. CASE q # p
      BY <1>1, <2>2, <2>3, <2>5, <3>1 DEF Chosen
    <3>2. CASE q = p
      <4>1. saver[r].pin # NoPin
        BY DEF Choosing
      <4> QED
        BY <1>1, <2>3, <2>4, <3>2, <4>1 DEF Chosen
    <3> QED
      BY <3>1, <3>2
  <2> QED
    BY <2>6, <2>8, <2>9, <2>10, <2>11 DEF Known, Chosen
<1>7. ASSUME NEW p \in People, FindRequest(s, p) PROVE Known'
  <2>1. saver'[s].at = "record" /\ others
    BY <1>1, <1>7 DEF FindRequest, Types, Saves
  <2>2. ~Choosing(s)'
    BY <2>1 DEF Choosing
  <2> QED
    BY <1>2, <1>7, <2>1, <2>2 DEF FindRequest
<1>8. CASE RecordPending(s)
  <2>1. saver'[s].at = "idle" /\ others
    BY <1>1, <1>8 DEF RecordPending, Saved, Types
  <2>2. ~Choosing(s)'
    BY <2>1 DEF Choosing
  <2> QED
    BY <1>2, <1>8, <2>1, <2>2 DEF RecordPending, WriterFrame
<1> QED
  BY <1>3, <1>4, <1>5, <1>6, <1>7, <1>8 DEF SaverStep

(* The PIN alone tells who of the active staff approved: the look at the   *)
(* active staff misses only a PIN a manager brought back with its person   *)
(* and one that two chose at once.                                         *)
THEOREM PinsTell == Spec => []PinTellsApprover
<1>1. Init => Known
  <2> SUFFICES ASSUME Init PROVE Known
    OBVIOUS
  <2>1. db.staff = {Founder} /\ pin = [p \in People |-> NoPin] /\ \A s \in Savers : saver[s].at = "idle"
    BY DEF Init
  <2> QED
    BY <2>1 DEF Known, Chosen, Choosing, PinTellsApprover
<1>2. Guarded /\ Known /\ [Next]_vars => Known'
  <2> SUFFICES ASSUME Guarded, Known, [Next]_vars PROVE Known'
    OBVIOUS
  <2>1. Types /\ db' \in Db /\ db.staff \subseteq db'.staff
    BY TypesHold, StaffStays DEF Guarded, Types
  <2>2. ASSUME Quiet PROVE Known'
    BY <2>1, <2>2, QuietKeeps
  <2>3. ASSUME NEW m \in Writers, Commit(m) PROVE Quiet
    <3>1. \A p \in db.staff : Returning(db, db', p) \subseteq unseen'
      BY <2>1, <2>3 DEF Commit, Types, Db
    <3> QED
      BY <2>1, <2>3, <3>1 DEF Quiet, Commit, Unwritten
  <2>4. ASSUME NEW m \in Writers, WriterStep(m), ~Commit(m) PROVE Quiet
    BY <2>4 DEF WriterStep, TakeLock, Begin, Write, Refuse, SaverFrame, Unwritten, Quiet
  <2>5. ASSUME NEW p \in People, NEW from, NEW to, Decide(p, from, to) PROVE Quiet
    BY <2>5 DEF Decide, SaverFrame, Unwritten, Quiet
  <2>6. ASSUME NEW p \in People, NEW g \in Groups, Lapse(p, g) PROVE Quiet
    <3>1. db.member[p][g] = "tonight" /\ db' = [db EXCEPT !.member[p][g] = "none"] /\ db \in Db
      BY <2>1, <2>6 DEF Lapse, Types
    <3>2. db'.active = db.active
      BY <3>1, LapseWrite
    <3> QED
      BY <2>1, <2>6, <3>2 DEF Lapse, SaverFrame, Unwritten, Quiet
  <2>7. ASSUME UNCHANGED vars PROVE Quiet
    BY <2>7 DEF vars, Quiet
  <2> QED
    BY <2>2, <2>3, <2>4, <2>5, <2>6, <2>7, SavesKeepKnown DEF Next
<1> QED
  <2>1. Known => PinTellsApprover
    BY DEF Known
  <2> QED
    BY <1>1, <1>2, <2>1, GuardedHolds, PTL DEF Spec

===============================================================================
