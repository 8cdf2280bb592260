------------------------------ MODULE MenuEditing ------------------------------
(***************************************************************************)
(* The menu under its managers: items with their variants, add-on groups,  *)
(* categories and photos (MenuWriteService, ModifierGroupService,          *)
(* MenuPhotoService and their repositories), and the 86 of an item.        *)
(*                                                                         *)
(* A request is one transaction; what it writes appears at its commit.     *)
(* The photos live in a bucket that no transaction covers.  Row locks are  *)
(* read off the requests: Updating is FOR UPDATE, Sharing FOR KEY SHARE.   *)
(***************************************************************************)
EXTENDS Naturals, FiniteSetsExt

CONSTANTS
    Items, Categories, Groups,
    Variants,          \* price options an item can have
    Photos, NoPhoto,   \* keys of the photos in the bucket
    Managers,          \* each with one page and one request at a time
    MaxEdits,          \* bound: writes of one item
    MaxFaults          \* bound: crashes, lost answers, failed removals

ASSUME MenuAssumption ==
    /\ Categories # {} /\ Variants # {} /\ NoPhoto \notin Photos
    /\ MaxEdits \in Nat /\ MaxFaults \in Nat

VARIABLES
    menu,              \* items that exist, and their rows
    groups,            \* add-on groups that are active
    categories,        \* categories that exist
    bucket,            \* photos stored
    job,               \* what a manager's page and request are doing
    edits,             \* history: writes of an item
    faults,
    stray,             \* history: photos a fault left behind
    unsure             \* history: items whose commit was not heard of

vars == <<menu, groups, categories, bucket, job, edits, faults, stray, unsure>>

Rows   == [category : Categories, photo : Photos \cup {NoPhoto}, stamp : Nat,
           on : SUBSET Variants, links : [Variants -> SUBSET Groups]]
NoRow  == [on |-> {}]
Inputs == [category : Categories, on : (SUBSET Variants) \ {{}}, groups : SUBSET Groups,
           listed : BOOLEAN, photo : {"keep", "remove", "new"}]  \* listed: groups are named
Idle   == [kind |-> "none", at |-> "idle"]

(* The pages and requests.  row and rest: the writes of the item seen by   *)
(* the two reads of a page; photo: the copy made for the request.          *)
Pages    == [kind : {"page"}, at : {"row", "rest"}, item : Items, stamp : Nat,
             row : Nat, rest : Nat]
Saves    == [kind : {"save", "create"}, item : Items, stamp : Nat, row : Nat, rest : Nat,
             at : {"item", "category", "groups", "commit"},
             want : Inputs, photo : Photos \cup {NoPhoto}]
Cleanups == [kind : {"discard", "release"}, at : {"bucket"}, item : Items, photo : Photos]
Toggles  == [kind : {"toggle"}, at : {"item"}, item : Items]
Archives == [kind : {"archive"}, at : {"commit"}, group : Groups]
Removals == [kind : {"remove"}, at : {"category", "commit"}, category : Categories,
             full : BOOLEAN]

TypeOK ==
    /\ menu \in [Items -> Rows \cup {NoRow}]
    /\ groups \subseteq Groups /\ categories \subseteq Categories
    /\ bucket \subseteq Photos
    /\ job \in [Managers -> {Idle} \cup Pages \cup Saves \cup Cleanups
                           \cup Toggles \cup Archives \cup Removals]
    /\ edits \in [Items -> 0..MaxEdits] /\ faults \in 0..MaxFaults
    /\ stray \subseteq Photos /\ unsure \subseteq Items

Init ==
    /\ menu = [i \in Items |-> NoRow] /\ groups = Groups /\ categories = Categories
    /\ bucket = {} /\ job = [m \in Managers |-> Idle]
    /\ edits = [i \in Items |-> 0] /\ faults = 0 /\ stray = {} /\ unsure = {}

OnMenu(i) == menu[i].on # {}
Within(c) == {i \in Items : OnMenu(i) /\ menu[i].category = c}

-------------------------------------------------------------------------------
(* The rows another request holds.                                         *)

IsEdit(m) == job[m].kind \in {"save", "create"}

ItemUpdating(m, i) == \E n \in Managers \ {m} :
    job[n].kind = "save" /\ job[n].at \in {"category", "groups", "commit"} /\ job[n].item = i

CategoryUpdating(m, c) == \E n \in Managers \ {m} :
    job[n].kind = "remove" /\ job[n].at = "commit" /\ job[n].category = c
CategorySharing(m, c) == \E n \in Managers \ {m} :
    IsEdit(n) /\ job[n].at \in {"groups", "commit"} /\ job[n].want.category = c

GroupUpdating(m, g) == \E n \in Managers \ {m} :
    job[n].kind = "archive" /\ job[n].at = "commit" /\ job[n].group = g
GroupSharing(m, g) == \E n \in Managers \ {m} :
    IsEdit(n) /\ job[n].at = "commit" /\ g \in job[n].want.groups

-------------------------------------------------------------------------------
(* The editor page: getItem reads the item's row, then its variants and    *)
(* their groups, in no transaction.  The stamp is of the first read.       *)

Open(m, i) ==
    /\ job[m] = Idle /\ OnMenu(i) /\ edits[i] < MaxEdits
    /\ job' = [job EXCEPT ![m] = [kind |-> "page", at |-> "row", item |-> i,
                  stamp |-> menu[i].stamp, row |-> edits[i], rest |-> 0]]
    /\ UNCHANGED <<menu, groups, categories, bucket, edits, faults, stray, unsure>>

OpenRest(m) ==
    /\ job[m].kind = "page" /\ job[m].at = "row"
    /\ job' = [job EXCEPT ![m].at = "rest", ![m].rest = edits[job[m].item]]
    /\ UNCHANGED <<menu, groups, categories, bucket, edits, faults, stray, unsure>>

PhotosOf(m) ==
    IF job[m].kind \in {"save", "create", "discard", "release"} THEN {job[m].photo} \ {NoPhoto}
    ELSE {}

Unused(p) ==
    /\ p \in Photos \ bucket
    /\ \A i \in Items : OnMenu(i) => menu[i].photo # p
    /\ \A m \in Managers : p \notin PhotosOf(m)

(* The upload is checked and copied to a key of its own before the         *)
(* transaction begins.                                                     *)
Copied(want, p) == IF want.photo = "new" THEN Unused(p) ELSE p = NoPhoto

Send(m, want, p) ==
    /\ job[m].kind = "page" /\ job[m].at = "rest" /\ Copied(want, p)
    /\ want.listed \/ want.groups = {}
    /\ job' = [job EXCEPT ![m] = [kind |-> "save", at |-> "item", item |-> job[m].item,
                  stamp |-> job[m].stamp, row |-> job[m].row, rest |-> job[m].rest,
                  want |-> want, photo |-> p]]
    /\ bucket' = bucket \cup ({p} \ {NoPhoto})
    /\ UNCHANGED <<menu, groups, categories, edits, faults, stray, unsure>>

(* createItem: the id is new, so nobody else can hold or see the row.      *)
SendNew(m, i, want, p) ==
    /\ job[m] = Idle /\ ~OnMenu(i) /\ i \notin unsure /\ edits[i] = 0
    /\ \A n \in Managers : job[n].kind = "create" => job[n].item # i
    /\ want.listed /\ want.photo # "remove" /\ Copied(want, p)
    /\ job' = [job EXCEPT ![m] = [kind |-> "create", at |-> "category", item |-> i,
                  stamp |-> 0, row |-> 0, rest |-> 0,
                  want |-> want, photo |-> p]]
    /\ bucket' = bucket \cup ({p} \ {NoPhoto})
    /\ UNCHANGED <<menu, groups, categories, edits, faults, stray, unsure>>

(* The request failed: the copy is discarded if there is one.              *)
Failed(m) == [job EXCEPT ![m] =
    IF PhotosOf(m) # {}
    THEN [kind |-> "discard", at |-> "bucket", item |-> job[m].item, photo |-> job[m].photo]
    ELSE Idle]

(* requireReferences is given the groups of the request; when it names     *)
(* none, the item keeps those its variants on sale have.                   *)
ActiveGroups(i) == UNION {menu[i].links[v] : v \in menu[i].on}
KeptGroups(m) ==
    [job[m].want EXCEPT !.groups = IF job[m].want.listed THEN @ ELSE ActiveGroups(job[m].item)]

LockItem(m) ==
    /\ job[m].kind = "save" /\ job[m].at = "item" /\ ~ItemUpdating(m, job[m].item)
    /\ \/ job[m].stamp < menu[job[m].item].stamp /\ job' = Failed(m)
       \/ /\ job[m].stamp >= menu[job[m].item].stamp
          /\ job' = [job EXCEPT ![m].at = "category", ![m].want = KeptGroups(m)]
    /\ UNCHANGED <<menu, groups, categories, bucket, edits, faults, stray, unsure>>

HoldCategory(m) ==
    /\ IsEdit(m) /\ job[m].at = "category" /\ ~CategoryUpdating(m, job[m].want.category)
    /\ \/ job[m].want.category \notin categories /\ job' = Failed(m)
       \/ job[m].want.category \in categories /\ job' = [job EXCEPT ![m].at = "groups"]
    /\ UNCHANGED <<menu, groups, categories, bucket, edits, faults, stray, unsure>>

(* Seeded fault (Missing): the lock is not asked for active groups only.   *)
MissingNone(m) == FALSE

(* Kept groups are not asked for again; writing their links waits for an   *)
(* archive all the same (foreign key).                                     *)
Missing(m) == job[m].want.listed /\ ~(job[m].want.groups \subseteq groups)

HoldGroups(m) ==
    /\ IsEdit(m) /\ job[m].at = "groups"
    /\ \A g \in job[m].want.groups : ~GroupUpdating(m, g)
    /\ \/ Missing(m) /\ job' = Failed(m)
       \/ ~Missing(m) /\ job' = [job EXCEPT ![m].at = "commit"]
    /\ UNCHANGED <<menu, groups, categories, bucket, edits, faults, stray, unsure>>

(* Seeded fault (Stamped): the stamp is the time, and the time stands.     *)
StampedNow(i) == menu[i].stamp

(* set_updated_at: the time the transaction began, but later than before.  *)
(* Only the order of an item's stamps is ever asked for, so it is as if    *)
(* all happened within one millisecond.                                    *)
Stamped(i) == menu[i].stamp + 1

NextPhoto(m) ==
    CASE job[m].want.photo = "new"    -> job[m].photo
      [] job[m].want.photo = "remove" -> NoPhoto
      [] job[m].want.photo = "keep"   -> IF job[m].kind = "create" THEN NoPhoto
                                         ELSE menu[job[m].item].photo

(* Listed variants are on sale with these groups; the others are turned    *)
(* off and keep the links they had.                                        *)
Linked(m, i, v) ==
    IF v \in job[m].want.on THEN job[m].want.groups
    ELSE IF job[m].kind = "create" THEN {} ELSE menu[i].links[v]

Written(m, i) ==
    [category |-> job[m].want.category, photo |-> NextPhoto(m), on |-> job[m].want.on,
     stamp |-> IF job[m].kind = "create" THEN 0 ELSE Stamped(i),
     links |-> [v \in Variants |-> Linked(m, i, v)]]

Replaced(m) ==
    IF job[m].kind = "save" /\ menu[job[m].item].photo # NextPhoto(m)
    THEN menu[job[m].item].photo ELSE NoPhoto

(* The commit; when its answer is lost, the handler takes it for a failed  *)
(* write.                                                                  *)
CommitEdit(m, heard) ==
    LET i == job[m].item IN
    /\ IsEdit(m) /\ job[m].at = "commit" /\ edits[i] < MaxEdits
    /\ menu' = [menu EXCEPT ![i] = Written(m, i)]
    /\ edits' = [edits EXCEPT ![i] = @ + 1]
    /\ \/ /\ heard
          /\ job' = [job EXCEPT ![m] = IF Replaced(m) = NoPhoto THEN Idle
                        ELSE [kind |-> "release", at |-> "bucket", item |-> i,
                              photo |-> Replaced(m)]]
          /\ UNCHANGED <<faults, unsure, stray>>
       \/ /\ ~heard /\ faults < MaxFaults /\ faults' = faults + 1
          /\ job' = Failed(m) /\ unsure' = unsure \cup {i}
          /\ stray' = stray \cup ({Replaced(m)} \ {NoPhoto})
    /\ UNCHANGED <<groups, categories, bucket>>

(* Seeded fault (Discard): the photo that was there before is removed with *)
(* the copy of a failed save.                                              *)
DiscardBoth(m) == {job[m].photo} \cup
    (IF OnMenu(job[m].item) THEN {menu[job[m].item].photo} ELSE {})

Discard(m) == {job[m].photo}

(* removeQuietly: a removal that fails is logged and forgotten.            *)
Cleanup(m, works) ==
    LET keys == IF job[m].kind = "discard" THEN Discard(m) ELSE PhotosOf(m) IN
    /\ job[m].kind \in {"discard", "release"}
    /\ \/ works /\ bucket' = bucket \ keys /\ UNCHANGED <<faults, stray>>
       \/ /\ ~works /\ faults < MaxFaults /\ faults' = faults + 1
          /\ stray' = stray \cup keys /\ UNCHANGED bucket
    /\ job' = [job EXCEPT ![m] = Idle]
    /\ UNCHANGED <<menu, groups, categories, edits, unsure>>

-------------------------------------------------------------------------------
(* 86 and un-86: the same row, no stamp asked for.                         *)

SendToggle(m, i) ==
    /\ job[m] = Idle /\ OnMenu(i) /\ edits[i] < MaxEdits
    /\ job' = [job EXCEPT ![m] = [kind |-> "toggle", at |-> "item", item |-> i]]
    /\ UNCHANGED <<menu, groups, categories, bucket, edits, faults, stray, unsure>>

(* It holds the item's row for this one step.                              *)
Toggle(m) ==
    LET i == job[m].item IN
    /\ job[m].kind = "toggle" /\ ~ItemUpdating(m, i) /\ edits[i] < MaxEdits
    /\ menu' = [menu EXCEPT ![i].stamp = Stamped(i)]
    /\ edits' = [edits EXCEPT ![i] = @ + 1]
    /\ job' = [job EXCEPT ![m] = Idle]
    /\ UNCHANGED <<groups, categories, bucket, faults, stray, unsure>>

-------------------------------------------------------------------------------
(* Deleting an add-on group archives it.                                   *)

LockGroup(m, g) ==
    /\ job[m] = Idle /\ g \in groups /\ ~GroupUpdating(m, g) /\ ~GroupSharing(m, g)
    /\ job' = [job EXCEPT ![m] = [kind |-> "archive", at |-> "commit", group |-> g]]
    /\ UNCHANGED <<menu, groups, categories, bucket, edits, faults, stray, unsure>>

(* linkedItemIds counts variants on sale, after the lock.                  *)
LinkedItems(g) == {i \in Items : OnMenu(i) /\ g \in ActiveGroups(i)}

Archive(m) ==
    LET g == job[m].group IN
    /\ job[m].kind = "archive" /\ job[m].at = "commit"
    /\ groups' = IF LinkedItems(g) = {} THEN groups \ {g} ELSE groups
    /\ job' = [job EXCEPT ![m] = Idle]
    /\ UNCHANGED <<menu, categories, bucket, edits, faults, stray, unsure>>

-------------------------------------------------------------------------------
(* Deleting a category: one statement counts its items and locks its row,  *)
(* and the count is of when the statement began.                           *)

SendRemove(m, c) ==
    /\ job[m] = Idle /\ c \in categories
    /\ job' = [job EXCEPT ![m] = [kind |-> "remove", at |-> "category", category |-> c,
                                  full |-> Within(c) # {}]]
    /\ UNCHANGED <<menu, groups, categories, bucket, edits, faults, stray, unsure>>

LockCategory(m) ==
    LET c == job[m].category IN
    /\ job[m].kind = "remove" /\ job[m].at = "category"
    /\ ~CategoryUpdating(m, c) /\ ~CategorySharing(m, c)
    /\ job' = [job EXCEPT ![m] = IF c \in categories /\ ~job[m].full
                                 THEN [job[m] EXCEPT !.at = "commit"] ELSE Idle]
    /\ UNCHANGED <<menu, groups, categories, bucket, edits, faults, stray, unsure>>

(* The foreign key looks again, and waits for an item that is locked.      *)
Referenced(c) == Within(c) # {}

RemoveCategory(m) ==
    LET c == job[m].category IN
    /\ job[m].kind = "remove" /\ job[m].at = "commit"
    /\ \A i \in Within(c) : ~ItemUpdating(m, i)
    /\ categories' = IF Referenced(c) THEN categories ELSE categories \ {c}
    /\ job' = [job EXCEPT ![m] = Idle]
    /\ UNCHANGED <<menu, groups, bucket, edits, faults, stray, unsure>>

(* PostgreSQL ends one of two transactions that wait for each other: a     *)
(* removal that waits for an item whose save waits for the category.       *)
Entangled(m, n) ==
    /\ job[m].kind = "remove" /\ job[m].at = "commit"
    /\ job[n].kind = "save" /\ job[n].at = "category"
    /\ job[n].want.category = job[m].category /\ job[n].item \in Within(job[m].category)

Deadlock(m) ==
    /\ \E n \in Managers : Entangled(m, n) \/ Entangled(n, m)
    /\ job' = Failed(m)
    /\ UNCHANGED <<menu, groups, categories, bucket, edits, faults, stray, unsure>>

-------------------------------------------------------------------------------
(* The server stops in the middle of a request with a photo: the           *)
(* transaction is undone, the copy stays, or the one that was to go.       *)
(* Without a photo nothing is left of it, as if it had not been sent.      *)
Crash(m) ==
    /\ PhotosOf(m) # {} /\ faults < MaxFaults /\ faults' = faults + 1
    /\ stray' = stray \cup PhotosOf(m)
    /\ job' = [job EXCEPT ![m] = Idle]
    /\ UNCHANGED <<menu, groups, categories, bucket, edits, unsure>>

Leave(m) ==
    /\ job[m].kind = "page" /\ job' = [job EXCEPT ![m] = Idle]
    /\ UNCHANGED <<menu, groups, categories, bucket, edits, faults, stray, unsure>>

Step(m) ==
    \/ \E i \in Items : Open(m, i) \/ SendToggle(m, i)
    \/ OpenRest(m) \/ Leave(m)
    \/ \E want \in Inputs, p \in Photos \cup {NoPhoto} :
          Send(m, want, p) \/ \E i \in Items : SendNew(m, i, want, p)
    \/ LockItem(m) \/ HoldCategory(m) \/ HoldGroups(m)
    \/ \E heard \in BOOLEAN : CommitEdit(m, heard)
    \/ \E works \in BOOLEAN : Cleanup(m, works)
    \/ Toggle(m)
    \/ \E g \in Groups : LockGroup(m, g)
    \/ Archive(m)
    \/ \E c \in Categories : SendRemove(m, c)
    \/ LockCategory(m) \/ RemoveCategory(m)
    \/ Deadlock(m) \/ Crash(m)

Next == \E m \in Managers : Step(m)

Spec == Init /\ [][Next]_vars

-------------------------------------------------------------------------------
(* An add-on group that was deleted is on no price option that is on sale: *)
(* an archive and a save that links the group cannot pass each other       *)
(* (DR-024, ModifierGroupService.archiveGroup).                            *)
NoArchivedGroupOnSale ==
    \A i \in Items : OnMenu(i) => ActiveGroups(i) \subseteq groups

(* A save is written only over the item its editor was looking at: nothing *)
(* was written to the item since either read of the page, the 86 included  *)
(* (MENU_ITEM_STALE, DR-023).                                              *)
NoLostEdit == [][\A m \in Managers :
    /\ job[m].kind = "save" /\ job[m].at = "commit"
    /\ edits' # edits /\ job'[m].at # "commit"
    => job[m].row = edits[job[m].item] /\ job[m].rest = edits[job[m].item]]_vars

(* The photo an item names is in the bucket, whatever saves failed around  *)
(* it; only a commit nobody heard of can have lost it (MenuPhotoService).  *)
PhotoExists ==
    \A i \in Items : OnMenu(i) /\ menu[i].photo # NoPhoto /\ i \notin unsure =>
        menu[i].photo \in bucket

(* Every photo in the bucket is on the menu, or a request is going to use  *)
(* or remove it, or a fault kept it there (MenuPhotoService.discard).      *)
NoStrayPhoto ==
    \A p \in bucket \ stray :
        \/ \E i \in Items : OnMenu(i) /\ menu[i].photo = p
        \/ \E m \in Managers : p \in PhotosOf(m)

(* Every item is in a category that exists, though the count that lets a   *)
(* category go may be old (MenuWriteService.removeCategory).               *)
ItemHasCategory == \A i \in Items : OnMenu(i) => menu[i].category \in categories

(* What is on sale points at nothing that is gone.                         *)
MenuInv == TypeOK /\ NoArchivedGroupOnSale /\ ItemHasCategory

(* The photos stored are the photos shown.                                 *)
PhotosMatchRows == PhotoExists /\ NoStrayPhoto
===============================================================================
