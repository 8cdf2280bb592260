------------------------------- MODULE MenuProofs -------------------------------
(***************************************************************************)
(* Proofs about MenuEditing, for any number of items, managers, photos and *)
(* edits: no edit is lost, what is on sale points at nothing that is gone, *)
(* and the photos stored are the photos shown.                             *)
(*                                                                         *)
(* Of each request the invariant says what it saw (Sees), what the rows it *)
(* locked still say (Holds) and which photo it is answerable for (Carries);*)
(* of two requests, what one keeps the other from (Apart).                 *)
(***************************************************************************)
EXTENDS MenuEditing, TLAPS

USE MenuAssumption

Jobs == {Idle} \cup Pages \cup Saves \cup Cleanups \cup Toggles \cup Archives \cup Removals

-------------------------------------------------------------------------------
(* One request.                                                            *)

Item(m)    == job[m].item
Locks(m)   == job[m].kind = "save" /\ job[m].at \in {"category", "groups", "commit"}
Writes(m)  == IsEdit(m) /\ job[m].at = "commit"
Cleans(m)  == job[m].kind \in {"discard", "release"}

(* A page and its save know the stamp of an edit that was made; who locked *)
(* the item knows that it was the last.                                    *)
Sees(m) ==
    /\ job[m].kind \in {"page", "save", "toggle"} => OnMenu(Item(m))
    /\ job[m].kind \in {"page", "save"} =>
          job[m].stamp + 1 = job[m].row /\ job[m].row <= edits[Item(m)]
    /\ job[m].kind = "save" \/ (job[m].kind = "page" /\ job[m].at = "rest") =>
          job[m].row <= job[m].rest /\ job[m].rest <= edits[Item(m)]
    /\ Locks(m) =>
          /\ job[m].row = edits[Item(m)]
          /\ ~job[m].want.listed => job[m].want.groups = ActiveGroups(Item(m))
    /\ job[m].kind = "create" =>
          ~OnMenu(Item(m)) /\ edits[Item(m)] = 0 /\ job[m].want.listed

Holds(m) ==
    /\ IsEdit(m) /\ job[m].at \in {"groups", "commit"} => job[m].want.category \in categories
    /\ Writes(m) => job[m].want.groups \subseteq groups

(* A copy is stored and shown nowhere until its item is written; what is   *)
(* to be removed is shown by no item, but for a commit nobody heard of.    *)
Carries(m) ==
    /\ IsEdit(m) => (job[m].want.photo = "new" <=> job[m].photo # NoPhoto)
    /\ IsEdit(m) /\ job[m].photo # NoPhoto =>
          job[m].photo \in bucket /\ \A i \in Items : OnMenu(i) => menu[i].photo # job[m].photo
    /\ Cleans(m) =>
          job[m].photo # NoPhoto
          /\ \A i \in Items \ unsure : OnMenu(i) => menu[i].photo # job[m].photo

Own(m) == Sees(m) /\ Holds(m) /\ Carries(m)

(* Two requests.                                                           *)
Apart(m, n) ==
    /\ Locks(m) /\ Locks(n) => Item(m) # Item(n)
    /\ job[m].kind = "create" /\ job[n].kind = "create" => Item(m) # Item(n)
    /\ Writes(m) /\ job[n].kind = "archive" => job[n].group \notin job[m].want.groups
    /\ IsEdit(m) /\ job[m].at \in {"groups", "commit"}
       /\ job[n].kind = "remove" /\ job[n].at = "commit" =>
          job[n].category # job[m].want.category
    /\ IsEdit(m) /\ job[m].photo # NoPhoto => job[m].photo \notin PhotosOf(n)

-------------------------------------------------------------------------------
(* The rows.                                                               *)

StampsCount == \A i \in Items : OnMenu(i) => menu[i].stamp + 1 = edits[i]

PhotosDiffer ==
    \A i, j \in Items : OnMenu(i) /\ OnMenu(j) /\ menu[i].photo = menu[j].photo
                        /\ menu[i].photo # NoPhoto => i = j

RowsOK == /\ StampsCount /\ PhotosDiffer /\ NoArchivedGroupOnSale /\ ItemHasCategory
          /\ PhotoExists /\ NoStrayPhoto

MenuProofInv ==
    /\ TypeOK /\ RowsOK
    /\ \A m \in Managers : Own(m)
    /\ \A m, n \in Managers : m # n => Apart(m, n)

-------------------------------------------------------------------------------
(* What is known of a request by its kind.                                 *)
LEMMA Shapes ==
    ASSUME TypeOK, NEW m \in Managers
    PROVE  /\ job[m] \in Jobs
           /\ job[m].kind = "page" => job[m] \in Pages
           /\ IsEdit(m) => job[m] \in Saves
           /\ Cleans(m) => job[m] \in Cleanups
           /\ job[m].kind = "toggle" => job[m] \in Toggles
           /\ job[m].kind = "archive" => job[m] \in Archives
           /\ job[m].kind = "remove" => job[m] \in Removals
           /\ job[m] = Idle => job[m].kind = "none"
BY DEF TypeOK, Jobs, Idle, Pages, Saves, Cleanups, Toggles, Archives, Removals, IsEdit, Cleans

LEMMA MenuInit == Init => MenuProofInv
<1> SUFFICES ASSUME Init PROVE MenuProofInv
  OBVIOUS
<1>1. \A i \in Items : ~OnMenu(i)
  BY DEF Init, OnMenu, NoRow
<1>2. TypeOK
  BY DEF Init, TypeOK
<1>3. \A m \in Managers : job[m] = Idle
  BY DEF Init
<1>4. RowsOK
  BY <1>1 DEF Init, RowsOK, StampsCount, PhotosDiffer, NoArchivedGroupOnSale, ItemHasCategory,
              PhotoExists, NoStrayPhoto
<1>5. \A m \in Managers : Own(m)
  BY <1>3 DEF Own, Sees, Holds, Carries, Idle, IsEdit, Cleans, Locks, Writes
<1>6. \A m, n \in Managers : Apart(m, n)
  BY <1>3 DEF Apart, Idle, IsEdit, Locks, Writes
<1> QED
  BY <1>2, <1>4, <1>5, <1>6 DEF MenuProofInv

-------------------------------------------------------------------------------
(* Steps that write no row.                                                *)

OnlyOf(m) == \A n \in Managers \ {m} : job'[n] = job[n]

(* The photos stored by a step that writes no row.                         *)
Stores(m) ==
    /\ \A n \in Managers \ {m} : IsEdit(n) /\ job[n].photo # NoPhoto => job[n].photo \in bucket'
    /\ PhotoExists' /\ NoStrayPhoto'

LEMMA QuietStep ==
    ASSUME MenuProofInv, NEW m \in Managers, OnlyOf(m), TypeOK',
           UNCHANGED <<menu, groups, categories, edits, unsure>>,
           Stores(m), Own(m)', \A n \in Managers \ {m} : Apart(m, n)' /\ Apart(n, m)'
    PROVE  MenuProofInv'
<1>1. \A n \in Managers \ {m} : Own(n)'
  BY DEF MenuProofInv, OnlyOf, Own, Sees, Holds, Carries, Item, Locks, Writes, Cleans, IsEdit,
         OnMenu, ActiveGroups, Stores
<1>2. \A n, k \in Managers \ {m} : n # k => Apart(n, k)'
  BY DEF MenuProofInv, OnlyOf, Apart, Item, Locks, Writes, IsEdit, PhotosOf
<1>3. StampsCount' /\ PhotosDiffer' /\ NoArchivedGroupOnSale' /\ ItemHasCategory'
  BY DEF MenuProofInv, RowsOK, StampsCount, PhotosDiffer, NoArchivedGroupOnSale,
         ItemHasCategory, OnMenu, ActiveGroups
<1> QED
  BY <1>1, <1>2, <1>3 DEF MenuProofInv, RowsOK, Stores

LEMMA KeepsStored ==
    ASSUME MenuProofInv, NEW m \in Managers, OnlyOf(m),
           UNCHANGED <<menu, groups, categories, bucket, edits, faults, stray, unsure>>,
           PhotosOf(m) \subseteq PhotosOf(m)'
    PROVE  Stores(m)
<1>1. PhotoExists'
  BY DEF MenuProofInv, RowsOK, PhotoExists, OnMenu
<1>2. NoStrayPhoto'
  <2>1. \A n \in Managers : PhotosOf(n) \subseteq PhotosOf(n)'
    BY DEF OnlyOf, PhotosOf
  <2> QED
    BY <2>1 DEF MenuProofInv, RowsOK, NoStrayPhoto, OnMenu
<1>3. \A n \in Managers \ {m} : IsEdit(n) /\ job[n].photo # NoPhoto => job[n].photo \in bucket'
  BY DEF MenuProofInv, Own, Carries
<1> QED
  BY <1>1, <1>2, <1>3 DEF Stores

(* A request that holds nothing yet, and has no photo.                     *)
Light(m) ==
    /\ job[m].kind \in {"none", "page", "toggle", "archive", "remove"}
    /\ Sees(m)
    /\ \A n \in Managers \ {m} :
        /\ job[m].kind = "archive" /\ Writes(n) => job[m].group \notin job[n].want.groups
        /\ job[m].kind = "remove" /\ job[m].at = "commit"
           /\ IsEdit(n) /\ job[n].at \in {"groups", "commit"} =>
              job[m].category # job[n].want.category

LEMMA LightStep ==
    ASSUME MenuProofInv, NEW m \in Managers, OnlyOf(m), TypeOK', PhotosOf(m) = {}, Light(m)',
           UNCHANGED <<menu, groups, categories, bucket, edits, faults, stray, unsure>>
    PROVE  MenuProofInv'
<1>1. Stores(m)
  BY KeepsStored
<1>2. Own(m)'
  BY DEF Light, Own, Holds, Carries, Writes, IsEdit, Cleans
<1>3. ASSUME NEW n \in Managers \ {m}
      PROVE  Apart(m, n)' /\ Apart(n, m)'
  BY DEF Light, Apart, OnlyOf, Locks, Writes, IsEdit, PhotosOf, Item
<1> QED
  BY <1>1, <1>2, <1>3, QuietStep

LEMMA Puts ==
    ASSUME TypeOK, NEW m \in Managers, NEW x \in Jobs, job' = [job EXCEPT ![m] = x],
           UNCHANGED <<menu, groups, categories, bucket, edits, faults, stray, unsure>>
    PROVE  TypeOK' /\ OnlyOf(m) /\ job'[m] = x
BY DEF TypeOK, OnlyOf, Jobs

Quiet == UNCHANGED <<menu, groups, categories, bucket, edits, faults, stray, unsure>>

(* What was written before a request that is only beginning.               *)
LEMMA Begun ==
    ASSUME MenuProofInv, NEW i \in Items
    PROVE  /\ edits[i] \in 0..MaxEdits
           /\ OnMenu(i) => menu[i] \in Rows /\ menu[i].stamp + 1 = edits[i]
BY DEF MenuProofInv, TypeOK, RowsOK, StampsCount, OnMenu, NoRow

LEMMA PageSteps ==
    ASSUME MenuProofInv, NEW m \in Managers,
           OpenRest(m) \/ Leave(m) \/ \E i \in Items : Open(m, i) \/ SendToggle(m, i)
    PROVE  MenuProofInv'
<1> USE DEF MenuProofInv
<1>1. CASE OpenRest(m)
  <2> DEFINE x == [job[m] EXCEPT !.at = "rest", !.rest = edits[Item(m)]]
  <2>1. job[m] \in Pages /\ Sees(m)
    BY <1>1, Shapes DEF OpenRest, Own
  <2>2. edits[Item(m)] \in 0..MaxEdits
    BY <2>1 DEF TypeOK, Pages, Item
  <2>3. job' = [job EXCEPT ![m] = x] /\ Quiet
    BY <1>1 DEF OpenRest, Item, Quiet
  <2>4. /\ x \in Pages /\ x.kind = "page" /\ x.at = "rest" /\ x.rest = edits[Item(m)]
        /\ x.item = Item(m) /\ x.stamp = job[m].stamp /\ x.row = job[m].row
    <3>1. edits[Item(m)] \in Nat
      BY <2>2
    <3> HIDE <2>2
    <3> QED
      BY <2>1, <3>1 DEF Pages, Item
  <2> HIDE DEF x
  <2>5. TypeOK' /\ OnlyOf(m) /\ job'[m] = x
    BY <2>3, <2>4, Puts DEF Jobs, Quiet
  <2>6. Light(m)'
    <3>1. Item(m)' = Item(m) /\ OnMenu(Item(m))' = OnMenu(Item(m))
      BY <2>3, <2>4, <2>5 DEF Item, OnMenu, Quiet
    <3>2. /\ job'[m].kind = "page" /\ job'[m].stamp + 1 = job'[m].row
          /\ job'[m].row <= edits'[Item(m)'] /\ job'[m].row <= job'[m].rest
          /\ job'[m].rest <= edits'[Item(m)']
      BY <2>1, <2>2, <2>3, <2>4, <2>5, <3>1 DEF Sees, Quiet, Pages
    <3> QED
      BY <2>1, <3>1, <3>2 DEF Light, Sees, Locks, Pages
  <2> QED
    BY <1>1, <2>3, <2>5, <2>6, LightStep DEF OpenRest, PhotosOf, Quiet
<1>2. CASE Leave(m)
  <2>1. job' = [job EXCEPT ![m] = Idle] /\ Quiet /\ job[m].kind = "page"
    BY <1>2 DEF Leave, Quiet
  <2>2. TypeOK' /\ OnlyOf(m) /\ job'[m] = Idle
    BY <2>1, Puts DEF Jobs, Quiet
  <2>3. Light(m)'
    BY <2>2 DEF Light, Sees, Locks, Idle
  <2> QED
    BY <2>1, <2>2, <2>3, LightStep DEF PhotosOf, Quiet
<1>3. ASSUME NEW i \in Items, Open(m, i)
      PROVE  MenuProofInv'
  <2> DEFINE x == [kind |-> "page", at |-> "row", item |-> i,
                   stamp |-> menu[i].stamp, row |-> edits[i], rest |-> 0]
  <2>1. job' = [job EXCEPT ![m] = x] /\ Quiet /\ job[m] = Idle /\ OnMenu(i)
    BY <1>3 DEF Open, Quiet
  <2>2. x \in Pages
    BY <2>1, Begun DEF Pages, Rows
  <2>3. TypeOK' /\ OnlyOf(m) /\ job'[m] = x
    BY <2>1, <2>2, Puts DEF Jobs, Quiet
  <2>4. Light(m)'
    BY <2>1, <2>3, Begun DEF Light, Sees, Locks, Item, OnMenu, Quiet
  <2> QED
    BY <2>1, <2>3, <2>4, LightStep DEF PhotosOf, Quiet, Idle
<1>4. ASSUME NEW i \in Items, SendToggle(m, i)
      PROVE  MenuProofInv'
  <2> DEFINE x == [kind |-> "toggle", at |-> "item", item |-> i]
  <2>1. job' = [job EXCEPT ![m] = x] /\ Quiet /\ job[m] = Idle /\ OnMenu(i)
    BY <1>4 DEF SendToggle, Quiet
  <2>2. TypeOK' /\ OnlyOf(m) /\ job'[m] = x
    BY <2>1, Puts DEF Jobs, Toggles, Quiet
  <2>3. Light(m)'
    BY <2>1, <2>2 DEF Light, Sees, Locks, Item, OnMenu, Quiet
  <2> QED
    BY <2>1, <2>2, <2>3, LightStep DEF PhotosOf, Quiet, Idle
<1> QED
  BY <1>1, <1>2, <1>3, <1>4

(* What an archive or a removal locks, no save holds.                      *)
LEMMA LockSteps ==
    ASSUME MenuProofInv, NEW m \in Managers,
           \/ LockCategory(m) \/ \E g \in Groups : LockGroup(m, g)
           \/ \E c \in Categories : SendRemove(m, c)
    PROVE  MenuProofInv'
<1> USE DEF MenuProofInv
<1>1. ASSUME NEW g \in Groups, LockGroup(m, g)
      PROVE  MenuProofInv'
  <2> DEFINE x == [kind |-> "archive", at |-> "commit", group |-> g]
  <2>1. job' = [job EXCEPT ![m] = x] /\ Quiet /\ job[m] = Idle /\ ~GroupSharing(m, g)
    BY <1>1 DEF LockGroup, Quiet
  <2>2. TypeOK' /\ OnlyOf(m) /\ job'[m] = x
    BY <2>1, Puts DEF Jobs, Archives, Quiet
  <2>3. Light(m)'
    BY <2>1, <2>2 DEF Light, Sees, Locks, GroupSharing, Writes, IsEdit, OnlyOf
  <2> QED
    BY <2>1, <2>2, <2>3, LightStep DEF PhotosOf, Quiet, Idle
<1>2. ASSUME NEW c \in Categories, SendRemove(m, c)
      PROVE  MenuProofInv'
  <2> DEFINE x == [kind |-> "remove", at |-> "category", category |-> c, full |-> Within(c) # {}]
  <2>1. job' = [job EXCEPT ![m] = x] /\ Quiet /\ job[m] = Idle
    BY <1>2 DEF SendRemove, Quiet
  <2>2. TypeOK' /\ OnlyOf(m) /\ job'[m] = x
    BY <2>1, Puts DEF Jobs, Removals, Quiet
  <2>3. Light(m)'
    BY <2>1, <2>2 DEF Light, Sees, Locks
  <2> QED
    BY <2>1, <2>2, <2>3, LightStep DEF PhotosOf, Quiet, Idle
<1>3. CASE LockCategory(m)
  <2> DEFINE x == [job[m] EXCEPT !.at = "commit"]
  <2>1. /\ job' = [job EXCEPT ![m] = x] \/ job' = [job EXCEPT ![m] = Idle]
        /\ Quiet /\ job[m].kind = "remove" /\ ~CategorySharing(m, job[m].category)
    BY <1>3 DEF LockCategory, Quiet
  <2>2. job[m] \in Removals /\ x \in Removals /\ x.category = job[m].category /\ x.kind = "remove"
    BY <2>1, Shapes DEF Removals
  <2>3. TypeOK' /\ OnlyOf(m) /\ (job'[m] = x \/ job'[m] = Idle)
    BY <2>1, <2>2, Puts DEF Jobs, Quiet
  <2>4. Light(m)'
    <3>1. CASE job'[m] = Idle
      BY <3>1 DEF Light, Sees, Locks, Idle
    <3>2. CASE job'[m] = x
      BY <2>1, <2>2, <2>3, <3>2 DEF Light, Sees, Locks, CategorySharing, IsEdit, OnlyOf
    <3> QED
      BY <2>3, <3>1, <3>2
  <2> QED
    BY <2>1, <2>3, <2>4, LightStep DEF PhotosOf, Quiet
<1> QED
  BY <1>1, <1>2, <1>3

-------------------------------------------------------------------------------
(* Saves and creations up to their commit.                                 *)

(* The copy of a photo is new to the bucket, the menu and the requests.    *)
LEMMA CopyStep ==
    ASSUME MenuProofInv, NEW m \in Managers, NEW want \in Inputs, NEW p \in Photos \cup {NoPhoto},
           Copied(want, p), PhotosOf(m) = {}, NEW x \in Saves, job' = [job EXCEPT ![m] = x],
           bucket' = bucket \cup ({p} \ {NoPhoto}),
           UNCHANGED <<menu, groups, categories, edits, faults, stray, unsure>>,
           x.want = want, x.photo = p, x.at \in {"item", "category"}, Sees(m)', ~Locks(m)',
           \A n \in Managers \ {m} : x.kind = "create" /\ job[n].kind = "create" =>
              Item(n) # x.item
    PROVE  MenuProofInv'
<1>1. /\ OnlyOf(m) /\ job'[m] = x /\ x.kind \in {"save", "create"}
      /\ job' \in [Managers -> Jobs]
  BY DEF MenuProofInv, TypeOK, Jobs, OnlyOf, Saves
<1>2. TypeOK'
  BY <1>1 DEF MenuProofInv, TypeOK, Jobs
<1>3. /\ want.photo = "new" <=> p # NoPhoto
      /\ p # NoPhoto => /\ p \in bucket' /\ p \notin bucket
                        /\ \A i \in Items : OnMenu(i) => menu[i].photo # p
                        /\ \A n \in Managers : p \notin PhotosOf(n)
  BY DEF Copied, Unused
<1>4. PhotosOf(m)' = {p} \ {NoPhoto}
  BY <1>1 DEF PhotosOf
<1>5. Stores(m)
  <2>1. \A n \in Managers \ {m} : PhotosOf(n)' = PhotosOf(n)
    BY <1>1 DEF OnlyOf, PhotosOf
  <2>2. NoStrayPhoto'
    BY <1>4, <2>1 DEF MenuProofInv, RowsOK, NoStrayPhoto, OnMenu
  <2>3. PhotoExists'
    BY DEF MenuProofInv, RowsOK, PhotoExists, OnMenu
  <2> QED
    BY <2>2, <2>3 DEF Stores, MenuProofInv, Own, Carries
<1>6. Own(m)'
  BY <1>1, <1>3 DEF Own, Holds, Writes, Carries, IsEdit, Cleans, OnMenu
<1>7. ASSUME NEW n \in Managers \ {m}
      PROVE  Apart(m, n)' /\ Apart(n, m)'
  <2>1. job'[n] = job[n] /\ PhotosOf(n)' = PhotosOf(n)
    BY <1>1 DEF OnlyOf, PhotosOf
  <2>2. IsEdit(n) /\ job[n].photo # NoPhoto => job[n].photo \in PhotosOf(n)
    BY DEF IsEdit, PhotosOf
  <2> QED
    BY <1>1, <1>3, <1>4, <2>1, <2>2 DEF Apart, Locks, Writes, IsEdit, Item
<1> QED
  BY <1>1, <1>2, <1>5, <1>6, <1>7, QuietStep

LEMMA SendStep ==
    ASSUME MenuProofInv, NEW m \in Managers, NEW want \in Inputs, NEW p \in Photos \cup {NoPhoto},
           Send(m, want, p)
    PROVE  MenuProofInv'
<1> DEFINE x == [kind |-> "save", at |-> "item", item |-> job[m].item,
                  stamp |-> job[m].stamp, row |-> job[m].row, rest |-> job[m].rest,
                  want |-> want, photo |-> p]
<1>1. job[m] \in Pages /\ Sees(m) /\ job[m].kind = "page" /\ job[m].at = "rest"
  BY Shapes DEF Send, MenuProofInv, Own
<1>2. x \in Saves
  BY <1>1 DEF Pages, Saves
<1>3. /\ job' = [job EXCEPT ![m] = x] /\ bucket' = bucket \cup ({p} \ {NoPhoto})
      /\ UNCHANGED <<menu, groups, categories, edits, faults, stray, unsure>> /\ Copied(want, p)
  BY DEF Send
<1>4. job'[m] = x
  BY <1>3 DEF MenuProofInv, TypeOK
<1>5. Sees(m)' /\ ~Locks(m)'
  BY <1>1, <1>3, <1>4 DEF Sees, Locks, Item, OnMenu
<1>6. PhotosOf(m) = {}
  BY <1>1 DEF PhotosOf
<1> QED
  BY <1>2, <1>3, <1>5, <1>6, CopyStep

LEMMA SendNewStep ==
    ASSUME MenuProofInv, NEW m \in Managers, NEW want \in Inputs, NEW p \in Photos \cup {NoPhoto},
           NEW i \in Items, SendNew(m, i, want, p)
    PROVE  MenuProofInv'
<1> DEFINE x == [kind |-> "create", at |-> "category", item |-> i,
                  stamp |-> 0, row |-> 0, rest |-> 0,
                  want |-> want, photo |-> p]
<1>1. job[m] = Idle /\ ~OnMenu(i) /\ edits[i] = 0 /\ want.listed
  BY DEF SendNew
<1>2. x \in Saves
  BY DEF Saves
<1>3. /\ job' = [job EXCEPT ![m] = x] /\ bucket' = bucket \cup ({p} \ {NoPhoto})
      /\ UNCHANGED <<menu, groups, categories, edits, faults, stray, unsure>> /\ Copied(want, p)
  BY DEF SendNew
<1>4. job'[m] = x
  BY <1>3 DEF MenuProofInv, TypeOK
<1>5. Sees(m)' /\ ~Locks(m)'
  BY <1>1, <1>3, <1>4 DEF Sees, Locks, Item, OnMenu
<1>6. PhotosOf(m) = {}
  BY <1>1 DEF PhotosOf, Idle
<1>7. \A n \in Managers \ {m} : job[n].kind = "create" => Item(n) # i
  BY DEF SendNew, Item
<1> QED
  BY <1>2, <1>3, <1>5, <1>6, <1>7, CopyStep

(* A request that failed is done, or has its copy to discard.              *)
LEMMA FailStep ==
    ASSUME MenuProofInv, NEW m \in Managers, IsEdit(m) \/ job[m].kind = "remove",
           job' = Failed(m), Quiet
    PROVE  MenuProofInv'
<1> DEFINE x == [kind |-> "discard", at |-> "bucket", item |-> job[m].item, photo |-> job[m].photo]
<1>0. TypeOK
  BY DEF MenuProofInv
<1>1. CASE PhotosOf(m) = {}
  <2>1. TypeOK' /\ OnlyOf(m) /\ job'[m] = Idle
    BY <1>0, <1>1, Puts DEF Failed, Jobs, Quiet
  <2>2. Light(m)'
    BY <2>1 DEF Light, Sees, Locks, Idle
  <2> QED
    BY <1>1, <2>1, <2>2, LightStep DEF Quiet
<1>2. CASE PhotosOf(m) # {}
  <2>1. IsEdit(m) /\ job[m] \in Saves /\ job[m].photo # NoPhoto
    BY <1>0, <1>2, Shapes DEF PhotosOf, IsEdit
  <2>2. x \in Cleanups
    BY <2>1 DEF Saves, Cleanups
  <2>3. TypeOK' /\ OnlyOf(m) /\ job'[m] = x
    BY <1>0, <1>2, <2>2, Puts DEF Failed, Jobs, Quiet
  <2>4. PhotosOf(m)' = PhotosOf(m)
    BY <2>1, <2>3 DEF PhotosOf, IsEdit
  <2>5. Stores(m)
    BY <2>3, <2>4, KeepsStored DEF Quiet
  <2>6. Own(m)'
    BY <2>1, <2>3 DEF MenuProofInv, Own, Sees, Holds, Carries, Locks, Writes, IsEdit, Cleans,
                      Quiet, OnMenu
  <2>7. ASSUME NEW n \in Managers \ {m}
        PROVE  Apart(m, n)' /\ Apart(n, m)'
    <3>1. job'[n] = job[n] /\ PhotosOf(n)' = PhotosOf(n)
      BY <2>3 DEF OnlyOf, PhotosOf
    <3>2. Apart(m, n) /\ Apart(n, m)
      BY DEF MenuProofInv
    <3> QED
      BY <2>3, <2>4, <3>1, <3>2 DEF Apart, Locks, Writes, IsEdit, Item
  <2> QED
    BY <2>3, <2>5, <2>6, <2>7, QuietStep DEF Quiet
<1> QED
  BY <1>1, <1>2

(* A request takes one more lock and goes on with the same item and photo. *)
LEMMA HoldStep ==
    ASSUME MenuProofInv, NEW m \in Managers, NEW x \in Saves, IsEdit(m), Quiet,
           job' = [job EXCEPT ![m] = x], x.kind = job[m].kind, x.item = job[m].item,
           x.photo = job[m].photo, x.want.photo = job[m].want.photo,
           Sees(m)', Holds(m)',
           \A n \in Managers \ {m} :
              /\ Locks(m)' /\ Locks(n) => Item(n) # x.item
              /\ Writes(m)' /\ job[n].kind = "archive" => job[n].group \notin x.want.groups
              /\ x.at \in {"groups", "commit"} /\ job[n].kind = "remove" /\ job[n].at = "commit"
                 => job[n].category # x.want.category
    PROVE  MenuProofInv'
<1>1. TypeOK' /\ OnlyOf(m) /\ job'[m] = x
  BY Puts DEF MenuProofInv, Jobs, Quiet
<1>2. PhotosOf(m)' = PhotosOf(m)
  BY <1>1 DEF PhotosOf
<1>3. Stores(m)
  BY <1>1, <1>2, KeepsStored DEF Quiet
<1>4. Carries(m)'
  <2>1. Carries(m)
    BY DEF MenuProofInv, Own
  <2> QED
    BY <1>1, <2>1 DEF Carries, IsEdit, Cleans, OnMenu, Quiet
<1>5. ASSUME NEW n \in Managers \ {m}
      PROVE  Apart(m, n)' /\ Apart(n, m)'
  <2>1. job'[n] = job[n] /\ PhotosOf(n)' = PhotosOf(n)
    BY <1>1 DEF OnlyOf, PhotosOf
  <2>2. Apart(m, n) /\ Apart(n, m)
    BY DEF MenuProofInv
  <2> QED
    BY <1>1, <1>2, <2>1, <2>2 DEF Apart, Locks, Writes, IsEdit, Item
<1> QED
  BY <1>1, <1>3, <1>4, <1>5, QuietStep DEF Own, Quiet

LEMMA LockItemStep ==
    ASSUME MenuProofInv, NEW m \in Managers, LockItem(m)
    PROVE  MenuProofInv'
<1> DEFINE i == Item(m)
           x == [job[m] EXCEPT !.at = "category", !.want = KeptGroups(m)]
<1>0. IsEdit(m) /\ job[m].kind = "save" /\ job[m].at = "item" /\ job[m] \in Saves /\ Quiet
  BY Shapes DEF LockItem, IsEdit, MenuProofInv, Quiet
<1>1. CASE job' = Failed(m)
  BY <1>0, <1>1, FailStep
<1>2. CASE job[m].stamp >= menu[i].stamp /\ job' = [job EXCEPT ![m] = x]
  <2>1. i \in Items /\ OnMenu(i) /\ menu[i] \in Rows /\ menu[i].stamp + 1 = edits[i]
    BY <1>0, Begun DEF MenuProofInv, Own, Sees, Saves, Item
  <2>2. ActiveGroups(i) \in SUBSET Groups
    BY <2>1 DEF ActiveGroups, Rows
  <2>3. KeptGroups(m) \in Inputs /\ KeptGroups(m).photo = job[m].want.photo
        /\ KeptGroups(m).listed = job[m].want.listed
        /\ (~job[m].want.listed => KeptGroups(m).groups = ActiveGroups(i))
    BY <1>0, <2>2 DEF KeptGroups, Inputs, Saves, Item
  <2>4. /\ x \in Saves /\ x.at = "category" /\ x.want = KeptGroups(m) /\ x.kind = job[m].kind
        /\ x.item = job[m].item /\ x.photo = job[m].photo
        /\ x.stamp = job[m].stamp /\ x.row = job[m].row /\ x.rest = job[m].rest
    BY <1>0, <2>3 DEF Saves
  <2> HIDE DEF x
  <2>5. job'[m] = x
    BY <1>2 DEF MenuProofInv, TypeOK
  <2>6. edits[i] \in Nat /\ job[m].row = edits[i] /\ job[m].rest = edits[i]
    <3>1. edits[i] \in Nat /\ menu[i].stamp \in Nat
      BY <2>1, Begun DEF Rows
    <3>2. job[m].stamp \in Nat /\ job[m].row \in Nat /\ job[m].rest \in Nat
      BY <1>0 DEF Saves
    <3>3. job[m].stamp + 1 = job[m].row /\ job[m].row <= job[m].rest /\ job[m].rest <= edits[i]
      BY <1>0 DEF MenuProofInv, Own, Sees
    <3> QED
      BY <1>2, <2>1, <3>1, <3>2, <3>3
  <2>7. Sees(m)'
    <3>1. Item(m)' = i /\ OnMenu(i)' /\ ActiveGroups(i)' = ActiveGroups(i) /\ edits' = edits
      BY <1>0, <2>1, <2>4, <2>5 DEF Item, OnMenu, ActiveGroups, Quiet
    <3>2. job[m].stamp + 1 = job[m].row
      BY <1>0 DEF MenuProofInv, Own, Sees
    <3> QED
      BY <1>0, <2>3, <2>4, <2>5, <2>6, <3>1, <3>2 DEF Sees
  <2>8. Holds(m)'
    BY <2>4, <2>5 DEF Holds, Writes
  <2>9. \A n \in Managers \ {m} : Locks(n) => Item(n) # x.item
    BY <2>4 DEF LockItem, ItemUpdating, Locks, Item
  <2>10. x.want.photo = job[m].want.photo /\ ~Writes(m)' /\ x.at \notin {"groups", "commit"}
    BY <2>3, <2>4, <2>5 DEF Writes
  <2>11. job' = [job EXCEPT ![m] = x]
    BY <1>2
  <2> QED
    BY <1>0, <2>4, <2>7, <2>8, <2>9, <2>10, <2>11, HoldStep
<1> QED
  BY <1>1, <1>2 DEF LockItem, Item

LEMMA HoldSteps ==
    ASSUME MenuProofInv, NEW m \in Managers, HoldCategory(m) \/ HoldGroups(m)
    PROVE  MenuProofInv'
<1>0. IsEdit(m) /\ job[m] \in Saves /\ Quiet /\ Own(m)
  BY Shapes DEF HoldCategory, HoldGroups, MenuProofInv, Quiet
<1>1. CASE job' = Failed(m)
  BY <1>0, <1>1, FailStep
<1>2. CASE /\ HoldCategory(m) /\ job[m].want.category \in categories
           /\ job' = [job EXCEPT ![m].at = "groups"]
  <2> DEFINE x == [job[m] EXCEPT !.at = "groups"]
  <2>1. /\ x \in Saves /\ x.at = "groups" /\ x.want = job[m].want /\ x.kind = job[m].kind
        /\ x.item = job[m].item /\ x.photo = job[m].photo
        /\ x.stamp = job[m].stamp /\ x.row = job[m].row /\ x.rest = job[m].rest
    BY <1>0 DEF Saves
  <2>2. job' = [job EXCEPT ![m] = x] /\ job[m].at = "category"
    BY <1>2 DEF HoldCategory
  <2> HIDE DEF x
  <2>3. job'[m] = x
    BY <2>2 DEF MenuProofInv, TypeOK
  <2>4. Sees(m)' /\ Holds(m)' /\ (Locks(m)' => Locks(m)) /\ ~Writes(m)'
    BY <1>0, <1>2, <2>1, <2>2, <2>3 DEF Own, Sees, Holds, Locks, Writes, IsEdit, Item, OnMenu,
                                  ActiveGroups, Quiet
  <2>5. \A n \in Managers \ {m} :
           /\ Locks(m) /\ Locks(n) => Item(n) # x.item
           /\ job[n].kind = "remove" /\ job[n].at = "commit" => job[n].category # x.want.category
    BY <1>2, <2>1 DEF HoldCategory, CategoryUpdating, MenuProofInv, Apart, Item
  <2> QED
    BY <1>0, <2>1, <2>2, <2>4, <2>5, HoldStep
<1>3. CASE HoldGroups(m) /\ ~Missing(m) /\ job' = [job EXCEPT ![m].at = "commit"]
  <2> DEFINE x == [job[m] EXCEPT !.at = "commit"]
  <2>1. /\ x \in Saves /\ x.at = "commit" /\ x.want = job[m].want /\ x.kind = job[m].kind
        /\ x.item = job[m].item /\ x.photo = job[m].photo
        /\ x.stamp = job[m].stamp /\ x.row = job[m].row /\ x.rest = job[m].rest
    BY <1>0 DEF Saves
  <2>2. job' = [job EXCEPT ![m] = x] /\ job[m].at = "groups"
    BY <1>3 DEF HoldGroups
  <2> HIDE DEF x
  <2>3. job'[m] = x
    BY <2>2 DEF MenuProofInv, TypeOK
  <2>4. job[m].want.groups \subseteq groups
    <3>1. CASE job[m].want.listed
      BY <1>3, <3>1 DEF Missing
    <3>2. CASE ~job[m].want.listed
      <4>1. Locks(m) /\ OnMenu(Item(m)) /\ job[m].want.groups = ActiveGroups(Item(m))
        BY <1>0, <2>2, <3>2 DEF IsEdit, Locks, Own, Sees
      <4>2. Item(m) \in Items
        BY <1>0 DEF Saves, Item
      <4> QED
        BY <4>1, <4>2 DEF MenuProofInv, RowsOK, NoArchivedGroupOnSale
    <3> QED
      BY <3>1, <3>2
  <2>5. Sees(m)' /\ Holds(m)' /\ (Locks(m)' => Locks(m))
    BY <1>0, <2>1, <2>2, <2>3, <2>4 DEF Own, Sees, Holds, Locks, Writes, IsEdit, Item, OnMenu,
                                  ActiveGroups, Quiet
  <2>6. \A n \in Managers \ {m} :
           /\ Locks(m) /\ Locks(n) => Item(n) # x.item
           /\ job[n].kind = "archive" => job[n].group \notin x.want.groups
           /\ job[n].kind = "remove" /\ job[n].at = "commit" => job[n].category # x.want.category
    <3>1. \A n \in Managers \ {m} : job[n].kind = "archive" => job[n].at = "commit"
      BY Shapes DEF MenuProofInv, Archives
    <3> QED
      BY <1>0, <1>3, <2>1, <2>2, <3>1 DEF HoldGroups, GroupUpdating, MenuProofInv, Apart, Item
  <2> QED
    BY <1>0, <2>1, <2>2, <2>5, <2>6, HoldStep
<1> QED
  BY <1>1, <1>2, <1>3 DEF HoldCategory, HoldGroups

(* A request that is over.                                                 *)
LEMMA OverStep ==
    ASSUME MenuProofInv, NEW m \in Managers, TypeOK', job' = [job EXCEPT ![m] = Idle], Stores(m),
           UNCHANGED <<menu, groups, categories, edits, unsure>>
    PROVE  MenuProofInv'
<1>1. OnlyOf(m) /\ job'[m] = Idle
  BY DEF MenuProofInv, TypeOK, OnlyOf
<1>2. Own(m)'
  BY <1>1 DEF Own, Sees, Holds, Carries, Locks, Writes, IsEdit, Cleans, Idle
<1>3. ASSUME NEW n \in Managers \ {m}
      PROVE  Apart(m, n)' /\ Apart(n, m)'
  BY <1>1 DEF Apart, Idle, Locks, Writes, IsEdit, PhotosOf
<1> QED
  BY <1>1, <1>2, <1>3, QuietStep

(* A photo is removed that no item shows and no save carries, or a fault   *)
(* leaves it behind.                                                       *)
LEMMA CleanSteps ==
    ASSUME MenuProofInv, NEW m \in Managers,
           Crash(m) \/ \E works \in BOOLEAN : Cleanup(m, works)
    PROVE  MenuProofInv'
<1> DEFINE p == job[m].photo
<1>1. \A n \in Managers \ {m} : job' = [job EXCEPT ![m] = Idle] => PhotosOf(n)' = PhotosOf(n)
  BY DEF MenuProofInv, TypeOK, PhotosOf
<1>2. PhotosOf(m) \subseteq Photos
  BY Shapes DEF PhotosOf, MenuProofInv, IsEdit, Cleans, Saves, Cleanups
<1>3. CASE /\ job' = [job EXCEPT ![m] = Idle] /\ stray' = stray \cup PhotosOf(m)
           /\ faults < MaxFaults /\ faults' = faults + 1
           /\ UNCHANGED <<menu, groups, categories, bucket, edits, unsure>>
  <2>1. TypeOK'
    BY <1>2, <1>3 DEF MenuProofInv, TypeOK
  <2>2. NoStrayPhoto'
    BY <1>1, <1>3 DEF MenuProofInv, RowsOK, NoStrayPhoto, OnMenu
  <2>3. Stores(m)
    BY <1>3, <2>2 DEF Stores, MenuProofInv, Own, Carries, RowsOK, PhotoExists, OnMenu
  <2> QED
    BY <1>3, <2>1, <2>3, OverStep
<1>4. CASE /\ job' = [job EXCEPT ![m] = Idle] /\ Cleans(m) /\ bucket' = bucket \ {p}
           /\ UNCHANGED <<menu, groups, categories, edits, faults, stray, unsure>>
  <2>1. TypeOK'
    BY <1>4 DEF MenuProofInv, TypeOK
  <2>2. PhotosOf(m) = {p} /\ p # NoPhoto
    BY <1>4 DEF MenuProofInv, Own, Carries, PhotosOf, Cleans
  <2>3. NoStrayPhoto'
    BY <1>1, <1>4, <2>2 DEF MenuProofInv, RowsOK, NoStrayPhoto, OnMenu
  <2>4. PhotoExists'
    BY <1>4 DEF MenuProofInv, Own, Carries, RowsOK, PhotoExists, OnMenu
  <2>5. \A n \in Managers \ {m} : IsEdit(n) /\ job[n].photo # NoPhoto => job[n].photo \in bucket'
    BY <1>4, <2>2 DEF MenuProofInv, Own, Carries, Apart
  <2> QED
    BY <1>4, <2>1, <2>3, <2>4, <2>5, OverStep DEF Stores
<1>5. CASE Crash(m)
  BY <1>3, <1>5 DEF Crash
<1>6. ASSUME NEW works \in BOOLEAN, Cleanup(m, works)
      PROVE  MenuProofInv'
  <2>1. Cleans(m) /\ PhotosOf(m) = {p} /\ Discard(m) = {p}
    BY <1>6 DEF Cleanup, MenuProofInv, Own, Carries, PhotosOf, Cleans, Discard
  <2> QED
    BY <1>3, <1>4, <1>6, <2>1 DEF Cleanup
<1> QED
  BY <1>5, <1>6

-------------------------------------------------------------------------------
(* Steps that write an item.                                               *)

(* The item was locked by nobody else, and its new photo is the one it had *)
(* or the copy of this request.                                            *)
LEMMA RowStep ==
    ASSUME MenuProofInv, NEW m \in Managers, NEW i \in Items, NEW w \in Rows,
           menu' = [menu EXCEPT ![i] = w], edits' = [edits EXCEPT ![i] = @ + 1],
           UNCHANGED <<groups, categories, bucket>>, unsure \subseteq unsure', TypeOK', OnlyOf(m),
           w.on # {}, w.stamp = edits[i], w.category \in categories,
           \A v \in w.on : w.links[v] \subseteq groups,
           \A n \in Managers \ {m} :
              (Locks(n) \/ job[n].kind = "create") => Item(n) # i,
           \/ w.photo = NoPhoto
           \/ OnMenu(i) /\ w.photo = menu[i].photo
           \/ IsEdit(m) /\ w.photo = job[m].photo,
           job'[m].kind \in {"none", "discard", "release"}, Carries(m)',
           \A n \in Managers \ {m} : IsEdit(n) /\ job[n].photo # NoPhoto =>
              job[n].photo \notin PhotosOf(m)',
           NoStrayPhoto'
    PROVE  MenuProofInv'
<1>1. /\ edits[i] \in Nat /\ edits'[i] = edits[i] + 1 /\ menu'[i] = w /\ OnMenu(i)'
      /\ \A j \in Items \ {i} : menu'[j] = menu[j] /\ edits'[j] = edits[j]
      /\ \A j \in Items \ {i} : OnMenu(j)' = OnMenu(j) /\ ActiveGroups(j)' = ActiveGroups(j)
  BY DEF MenuProofInv, TypeOK, OnMenu, ActiveGroups
<1>2. ASSUME NEW n \in Managers \ {m}
      PROVE  job'[n] = job[n] /\ PhotosOf(n)' = PhotosOf(n) /\ Own(n)
  BY DEF MenuProofInv, OnlyOf, PhotosOf
<1>3. ASSUME NEW n \in Managers \ {m}
      PROVE  Sees(n)'
  <2>0. /\ job'[n] = job[n] /\ Sees(n)
        /\ Item(n) = i => ~Locks(n) /\ job[n].kind # "create"
    BY <1>2 DEF Own
  <2>1. CASE job[n].kind \in {"page", "save", "toggle", "create"}
    <3>1. Item(n) \in Items
      BY <2>1, Shapes DEF MenuProofInv, IsEdit, Item, Pages, Saves, Toggles
    <3>2. CASE Item(n) # i
      BY <1>1, <2>0, <3>1, <3>2 DEF Sees, Item, Locks
    <3>3. CASE Item(n) = i
      <4>1. job[n].kind \in {"page", "save"} =>
               job[n].row \in Nat /\ job[n].rest \in Nat
        BY Shapes DEF MenuProofInv, IsEdit, Pages, Saves
      <4>2. Item(n)' = i /\ ~Locks(n)'
        BY <2>0, <3>3 DEF Item, Locks
      <4>3. job[n].kind \in {"page", "save"} => job[n].row <= edits'[i]
        BY <1>1, <2>0, <3>3, <4>1 DEF Sees
      <4>4. job[n].kind = "save" \/ (job[n].kind = "page" /\ job[n].at = "rest") =>
               job[n].row <= job[n].rest /\ job[n].rest <= edits'[i]
        BY <1>1, <2>0, <3>3, <4>1 DEF Sees
      <4> QED
        BY <1>1, <2>0, <3>3, <4>2, <4>3, <4>4 DEF Sees
    <3> QED
      BY <3>2, <3>3
  <2>2. CASE job[n].kind \notin {"page", "save", "toggle", "create"}
    BY <2>0, <2>2 DEF Sees, Locks
  <2> QED
    BY <2>1, <2>2
<1>4. ASSUME NEW n \in Managers \ {m}
      PROVE  Holds(n)' /\ Carries(n)'
  <2>1. Holds(n)'
    BY <1>2 DEF Own, Holds, Writes, IsEdit
  <2>2. IsEdit(m) /\ job[m].photo # NoPhoto => job[m].photo \in PhotosOf(m)
    BY DEF IsEdit, PhotosOf
  <2>3. IsEdit(n) /\ job[n].photo # NoPhoto => job[n].photo # w.photo
    BY <1>2, <2>2 DEF Own, Carries, MenuProofInv, Apart
  <2>4. Cleans(n) => job[n].photo \in PhotosOf(n)
    BY <1>2 DEF Own, Carries, Cleans, PhotosOf
  <2>5. Cleans(n) /\ i \notin unsure => job[n].photo # w.photo
    BY <1>2, <2>4 DEF Own, Carries, MenuProofInv, Apart
  <2>6. Carries(n)'
    BY <1>1, <1>2, <2>3, <2>5 DEF Own, Carries, IsEdit, Cleans
  <2> QED
    BY <2>1, <2>6
<1>5. Sees(m)' /\ Holds(m)'
  BY DEF Sees, Holds, Locks, Writes, IsEdit
<1>6. ASSUME NEW n \in Managers \ {m}
      PROVE  Apart(m, n)' /\ Apart(n, m)'
  BY <1>2 DEF Apart, Locks, Writes, IsEdit
<1>7. \A n, k \in Managers \ {m} : n # k => Apart(n, k)'
  BY <1>2 DEF MenuProofInv, Apart, Item, Locks, Writes, IsEdit
<1>8. StampsCount' /\ ItemHasCategory'
  BY <1>1 DEF MenuProofInv, RowsOK, StampsCount, ItemHasCategory
<1>9. NoArchivedGroupOnSale'
  <2>1. ActiveGroups(i)' \subseteq groups
    BY <1>1 DEF ActiveGroups
  <2> QED
    BY <1>1, <2>1 DEF MenuProofInv, RowsOK, NoArchivedGroupOnSale
<1>10. PhotosDiffer'
  <2>1. \A j \in Items \ {i} : OnMenu(j) /\ w.photo # NoPhoto => menu[j].photo # w.photo
    BY DEF MenuProofInv, RowsOK, PhotosDiffer, Own, Carries
  <2> QED
    BY <1>1, <2>1 DEF MenuProofInv, RowsOK, PhotosDiffer
<1>11. PhotoExists'
  <2>1. w.photo # NoPhoto /\ i \notin unsure => w.photo \in bucket
    BY DEF MenuProofInv, RowsOK, PhotoExists, Own, Carries
  <2> QED
    BY <1>1, <2>1 DEF MenuProofInv, RowsOK, PhotoExists
<1> QED
  BY <1>3, <1>4, <1>5, <1>6, <1>7, <1>8, <1>9, <1>10, <1>11 DEF MenuProofInv, RowsOK, Own

LEMMA ToggleStep ==
    ASSUME MenuProofInv, NEW m \in Managers, Toggle(m)
    PROVE  MenuProofInv'
<1> DEFINE i == job[m].item
           w == [menu[i] EXCEPT !.stamp = menu[i].stamp + 1]
<1>1. job[m].kind = "toggle" /\ i \in Items /\ OnMenu(i)
  BY Shapes DEF Toggle, MenuProofInv, Toggles, Own, Sees, Item
<1>2. menu[i] \in Rows /\ menu[i].stamp + 1 = edits[i] /\ edits[i] \in 0..MaxEdits
  BY <1>1, Begun
<1>3. /\ menu' = [menu EXCEPT ![i] = w] /\ edits' = [edits EXCEPT ![i] = @ + 1]
      /\ edits[i] < MaxEdits /\ job' = [job EXCEPT ![m] = Idle]
      /\ UNCHANGED <<groups, categories, bucket, faults, stray, unsure>>
  BY DEF Toggle, Stamped
<1>4. /\ w \in Rows /\ w.on = menu[i].on /\ w.stamp = edits[i] /\ w.category = menu[i].category
      /\ w.photo = menu[i].photo /\ w.links = menu[i].links
  BY <1>2 DEF Rows
<1> HIDE DEF w
<1>5. TypeOK'
  BY <1>1, <1>2, <1>3, <1>4 DEF MenuProofInv, TypeOK
<1>6. OnlyOf(m) /\ job'[m] = Idle
  BY <1>3 DEF OnlyOf, MenuProofInv, TypeOK
<1>7. /\ w.on # {} /\ w.category \in categories
      /\ \A v \in w.on : w.links[v] \subseteq groups
  BY <1>1, <1>4 DEF MenuProofInv, RowsOK, ItemHasCategory, NoArchivedGroupOnSale,
                    ActiveGroups, OnMenu
<1>8. \A n \in Managers \ {m} : (Locks(n) \/ job[n].kind = "create") => Item(n) # i
  BY <1>1 DEF Toggle, ItemUpdating, Locks, Item, MenuProofInv, Own, Sees
<1>9. PhotosOf(m)' = {} /\ Carries(m)'
  BY <1>6 DEF PhotosOf, Carries, IsEdit, Cleans, Idle
<1>10. NoStrayPhoto'
  <2>1. \A n \in Managers : PhotosOf(n)' = PhotosOf(n)
    BY <1>1, <1>6, <1>9 DEF OnlyOf, PhotosOf
  <2>2. \A j \in Items : OnMenu(j) => OnMenu(j)' /\ menu'[j].photo = menu[j].photo
    BY <1>1, <1>3, <1>4 DEF OnMenu, MenuProofInv, TypeOK
  <2> QED
    BY <1>3, <2>1, <2>2 DEF MenuProofInv, RowsOK, NoStrayPhoto
<1>11. job'[m].kind = "none" /\ unsure \subseteq unsure'
  BY <1>3, <1>6 DEF Idle
<1>12. OnMenu(i) /\ w.photo = menu[i].photo
  BY <1>1, <1>4
<1>13. UNCHANGED <<groups, categories, bucket>>
  BY <1>3
<1> HIDE DEF i
<1> QED
  BY <1>1, <1>3, <1>4, <1>5, <1>6, <1>7, <1>8, <1>9, <1>10, <1>11, <1>12, <1>13, RowStep

(* What a commit writes.                                                   *)
Sound(m, i, w) ==
    /\ w.on # {} /\ w.stamp = edits[i] /\ w.category \in categories
    /\ \A v \in w.on : w.links[v] \subseteq groups
    /\ w.photo = NextPhoto(m)
    /\ IF job[m].photo # NoPhoto THEN w.photo = job[m].photo
       ELSE w.photo = NoPhoto \/ (OnMenu(i) /\ w.photo = menu[i].photo)
    /\ OnMenu(i) => job[m].kind = "save"

LEMMA WrittenRow ==
    ASSUME MenuProofInv, NEW m \in Managers, Writes(m)
    PROVE  Written(m, Item(m)) \in Rows /\ Sound(m, Item(m), Written(m, Item(m)))
<1> DEFINE i == Item(m)
           w == Written(m, i)
<1>1. job[m] \in Saves /\ job[m].want \in Inputs /\ i \in Items /\ Own(m)
  BY Shapes DEF MenuProofInv, Writes, Saves, Item
<1>2. CASE job[m].kind = "create"
  <2>1. ~OnMenu(i) /\ edits[i] = 0
    BY <1>1, <1>2 DEF Own, Sees
  <2>2. NextPhoto(m) \in Photos \cup {NoPhoto}
    BY <1>1, <1>2 DEF NextPhoto, Inputs, Saves
  <2>3. IF job[m].photo # NoPhoto THEN NextPhoto(m) = job[m].photo ELSE NextPhoto(m) = NoPhoto
    BY <1>1, <1>2 DEF NextPhoto, Inputs, Saves, Own, Carries, IsEdit
  <2>4. \A v \in Variants : Linked(m, i, v) \in SUBSET Groups
    BY <1>1, <1>2 DEF Linked, Inputs
  <2>5. w = [category |-> job[m].want.category, photo |-> NextPhoto(m), on |-> job[m].want.on,
             stamp |-> 0, links |-> [v \in Variants |-> Linked(m, i, v)]]
    BY <1>2 DEF Written
  <2>6. w \in Rows
    BY <1>1, <2>2, <2>4, <2>5 DEF Rows, Inputs
  <2>7. \A v \in w.on : w.links[v] \subseteq groups
    BY <1>1, <2>5 DEF Linked, Own, Holds, Writes, Inputs
  <2>8. job[m].want.on # {} /\ job[m].want.category \in categories
    <3>1. job[m].want.on # {}
      BY <1>1 DEF Inputs
    <3>2. job[m].want.category \in categories
      BY <1>1 DEF Own, Holds, Writes
    <3> QED
      BY <3>1, <3>2
  <2>9. w.on # {} /\ w.stamp = edits[i] /\ w.photo = NextPhoto(m) /\ w.category \in categories
    BY <2>1, <2>5, <2>8
  <2> QED
    BY <2>1, <2>3, <2>6, <2>7, <2>9 DEF Sound
<1>3. CASE job[m].kind = "save"
  <2>1. OnMenu(i) /\ menu[i] \in Rows /\ menu[i].stamp + 1 = edits[i]
    BY <1>1, <1>3, Begun DEF Own, Sees
  <2>2. NextPhoto(m) \in Photos \cup {NoPhoto}
    BY <1>1, <2>1 DEF NextPhoto, Inputs, Saves, Item, Rows
  <2>3. IF job[m].photo # NoPhoto THEN NextPhoto(m) = job[m].photo
        ELSE NextPhoto(m) = NoPhoto \/ NextPhoto(m) = menu[i].photo
    BY <1>1, <1>3 DEF NextPhoto, Inputs, Saves, Own, Carries, IsEdit, Item
  <2>4. \A v \in Variants : Linked(m, i, v) \in SUBSET Groups
    BY <1>1, <2>1 DEF Linked, Inputs, Rows
  <2>5. w = [category |-> job[m].want.category, photo |-> NextPhoto(m), on |-> job[m].want.on,
             stamp |-> menu[i].stamp + 1, links |-> [v \in Variants |-> Linked(m, i, v)]]
    BY <1>3 DEF Written, Stamped
  <2>6. w \in Rows
    <3>1. menu[i].stamp + 1 \in Nat
      BY <2>1 DEF Rows
    <3> QED
      BY <1>1, <2>2, <2>4, <2>5, <3>1 DEF Rows, Inputs
  <2>7. \A v \in w.on : w.links[v] \subseteq groups
    BY <1>1, <2>5 DEF Linked, Own, Holds, Writes, Inputs
  <2>8. job[m].want.on # {} /\ job[m].want.category \in categories
    <3>1. job[m].want.on # {}
      BY <1>1 DEF Inputs
    <3>2. job[m].want.category \in categories
      BY <1>1 DEF Own, Holds, Writes
    <3> QED
      BY <3>1, <3>2
  <2>9. w.on # {} /\ w.stamp = edits[i] /\ w.photo = NextPhoto(m) /\ w.category \in categories
    BY <2>1, <2>5, <2>8
  <2> QED
    BY <1>3, <2>1, <2>3, <2>6, <2>7, <2>9 DEF Sound
<1> QED
  BY <1>2, <1>3 DEF Writes, IsEdit

(* The photo an item had is released, or the copy of an unheard commit     *)
(* discarded; no other request carries either.                             *)
LEMMA CommitStep ==
    ASSUME MenuProofInv, NEW m \in Managers, NEW heard \in BOOLEAN, CommitEdit(m, heard)
    PROVE  MenuProofInv'
<1>0. PICK i \in Items : i = Item(m)
  BY Shapes DEF CommitEdit, MenuProofInv, Saves, Item
<1> DEFINE w == Written(m, i)
           p == job[m].photo
           q == Replaced(m)
           release == [kind |-> "release", at |-> "bucket", item |-> i, photo |-> q]
           discard == [kind |-> "discard", at |-> "bucket", item |-> i, photo |-> p]
<1>1. /\ Writes(m) /\ edits[i] < MaxEdits
      /\ menu' = [menu EXCEPT ![i] = w] /\ edits' = [edits EXCEPT ![i] = @ + 1]
      /\ UNCHANGED <<groups, categories, bucket>>
  BY <1>0 DEF CommitEdit, Writes, Item
<1>2. job[m] \in Saves /\ i \in Items /\ Own(m) /\ TypeOK
  BY <1>1, Shapes DEF MenuProofInv, Writes, Saves, Item
<1>3. w \in Rows /\ Sound(m, i, w)
  BY <1>0, <1>1, WrittenRow
<1>4. edits[i] \in 0..MaxEdits /\ (OnMenu(i) => menu[i] \in Rows)
  BY <1>2, Begun
<1>5. q = NoPhoto \/ /\ q \in Photos /\ q = menu[i].photo /\ q # w.photo
                     /\ OnMenu(i) /\ job[m].kind = "save"
  BY <1>0, <1>2, <1>3, <1>4 DEF Replaced, Sound, Item, Rows, Own, Sees
<1>5a. OnMenu(i) /\ menu[i].photo # w.photo => q = menu[i].photo
  BY <1>0, <1>3 DEF Replaced, Sound, Item
<1>6. PhotosOf(m) = {p} \ {NoPhoto} /\ p \in Photos \cup {NoPhoto}
  BY <1>1, <1>2 DEF PhotosOf, Writes, IsEdit, Saves
<1>7. \/ /\ q = NoPhoto /\ job' = [job EXCEPT ![m] = Idle]
         /\ UNCHANGED <<faults, unsure, stray>>
      \/ /\ q # NoPhoto /\ job' = [job EXCEPT ![m] = release]
         /\ UNCHANGED <<faults, unsure, stray>>
      \/ /\ \/ p = NoPhoto /\ job' = [job EXCEPT ![m] = Idle]
            \/ p # NoPhoto /\ job' = [job EXCEPT ![m] = discard]
         /\ faults < MaxFaults /\ faults' = faults + 1
         /\ unsure' = unsure \cup {i} /\ stray' = stray \cup ({q} \ {NoPhoto})
  BY <1>0, <1>6 DEF CommitEdit, Failed, Item
<1> HIDE DEF w, p, q
<1>8. release \in Jobs \/ q = NoPhoto
  BY <1>2, <1>5 DEF Jobs, Cleanups
<1>9. discard \in Jobs \/ p = NoPhoto
  BY <1>2, <1>6 DEF Jobs, Cleanups
<1>10. PICK x \in Jobs :
          /\ job' = [job EXCEPT ![m] = x]
          /\ \/ x = Idle /\ (q = NoPhoto \/ q \in stray') /\ (p = NoPhoto \/ unsure' = unsure)
             \/ x = release /\ q # NoPhoto
             \/ x = discard /\ p # NoPhoto /\ unsure' = unsure \cup {i}
                /\ (q = NoPhoto \/ q \in stray')
  BY <1>7, <1>8, <1>9 DEF Jobs
<1>11. TypeOK'
  <2>1. job' \in [Managers -> Jobs]
    BY <1>2, <1>10 DEF TypeOK, Jobs
  <2>2. menu' \in [Items -> Rows \cup {NoRow}] /\ edits' \in [Items -> 0..MaxEdits]
    BY <1>1, <1>2, <1>3, <1>4 DEF TypeOK
  <2>3. faults' \in 0..MaxFaults /\ stray' \subseteq Photos /\ unsure' \subseteq Items
    BY <1>2, <1>5, <1>7 DEF TypeOK
  <2> QED
    BY <1>1, <1>2, <2>1, <2>2, <2>3 DEF TypeOK, Jobs
<1>12. OnlyOf(m) /\ job'[m] = x /\ unsure \subseteq unsure' /\ stray \subseteq stray'
  BY <1>2, <1>7, <1>10 DEF OnlyOf, TypeOK
<1>13. PhotosOf(m)' = IF x = Idle THEN {} ELSE IF x = release THEN {q} \ {NoPhoto}
                      ELSE {p} \ {NoPhoto}
  BY <1>10, <1>12 DEF PhotosOf, Idle
<1>14. x.kind \in {"none", "discard", "release"}
  BY <1>10 DEF Idle
<1>15. \A n \in Managers \ {m} : (Locks(n) \/ job[n].kind = "create") => Item(n) # i
  BY <1>0, <1>1, <1>2 DEF MenuProofInv, Own, Sees, Apart, Locks, Writes, IsEdit
<1>16. \A j \in Items \ {i} : /\ OnMenu(j)' = OnMenu(j) /\ menu'[j] = menu[j]
  BY <1>1, <1>2 DEF OnMenu, TypeOK
<1>17. OnMenu(i)' /\ menu'[i] = w
  <2>1. menu'[i] = w
    BY <1>1, <1>2 DEF TypeOK
  <2> QED
    BY <1>3, <2>1 DEF OnMenu, Sound
<1>18. Carries(m)'
  <2>1. ~IsEdit(m)'
    BY <1>12, <1>14 DEF IsEdit
  <2>2. CASE x = Idle
    BY <1>12, <2>1, <2>2 DEF Carries, Cleans, Idle
  <2>3. CASE x = release /\ q # NoPhoto
    <3>1. \A j \in Items : OnMenu(j)' => menu'[j].photo # q
      BY <1>2, <1>5, <1>16, <1>17, <2>3 DEF MenuProofInv, RowsOK, PhotosDiffer
    <3> QED
      BY <1>12, <2>1, <2>3, <3>1 DEF Carries
  <2>4. CASE x = discard /\ p # NoPhoto /\ unsure' = unsure \cup {i}
    <3>1. \A j \in Items \ {i} : OnMenu(j)' => menu'[j].photo # p
      BY <1>1, <1>2, <1>16, <2>4 DEF Own, Carries, Writes, p
    <3> QED
      BY <1>12, <2>1, <2>4, <3>1 DEF Carries
  <2> QED
    BY <1>10, <2>2, <2>3, <2>4
<1>19. \A n \in Managers \ {m} : IsEdit(n) /\ job[n].photo # NoPhoto =>
          job[n].photo \notin PhotosOf(m)'
  <2>1. \A n \in Managers \ {m} : IsEdit(n) /\ job[n].photo # NoPhoto => job[n].photo # p
    BY <1>6 DEF MenuProofInv, Apart
  <2>2. \A n \in Managers \ {m} : IsEdit(n) /\ job[n].photo # NoPhoto /\ q # NoPhoto =>
           job[n].photo # q
    BY <1>2, <1>5 DEF MenuProofInv, Own, Carries
  <2> QED
    BY <1>13, <2>1, <2>2
<1>20. NoStrayPhoto'
  <2>1. \A n \in Managers \ {m} : PhotosOf(n)' = PhotosOf(n)
    BY <1>12 DEF OnlyOf, PhotosOf
  <2>2. p # NoPhoto => w.photo = p
    BY <1>3 DEF Sound, p
  <2>3. OnMenu(i) => menu[i].photo \in {w.photo, q}
    BY <1>5a
  <2>4. q # NoPhoto => q \in stray' \/ q \in PhotosOf(m)'
    BY <1>10, <1>13 DEF Idle
  <2> SUFFICES ASSUME NEW k \in bucket \ stray'
               PROVE  \/ \E j \in Items : OnMenu(j)' /\ menu'[j].photo = k
                      \/ \E n \in Managers : k \in PhotosOf(n)'
    BY <1>1 DEF NoStrayPhoto
  <2>5. CASE \E n \in Managers \ {m} : k \in PhotosOf(n)
    BY <2>1, <2>5
  <2>6. CASE k \in PhotosOf(m)
    <3>1. menu'[i].photo = k
      BY <1>6, <1>17, <2>2, <2>6
    <3> QED
      BY <1>2, <1>17, <3>1
  <2>7. CASE \E j \in Items : OnMenu(j) /\ menu[j].photo = k
    <3>1. PICK j \in Items : OnMenu(j) /\ menu[j].photo = k
      BY <2>7
    <3>2. k # NoPhoto
      BY <1>2 DEF TypeOK
    <3>3. CASE j # i
      BY <1>16, <3>1, <3>3
    <3>4. CASE j = i /\ k = w.photo
      BY <1>2, <1>17, <3>4
    <3>5. CASE j = i /\ k = q
      BY <2>4, <3>2, <3>5
    <3> QED
      BY <2>3, <3>1, <3>3, <3>4, <3>5
  <2> QED
    BY <1>12, <2>5, <2>6, <2>7 DEF MenuProofInv, RowsOK, NoStrayPhoto
<1>21. w.photo = NoPhoto \/ (OnMenu(i) /\ w.photo = menu[i].photo)
       \/ (IsEdit(m) /\ w.photo = job[m].photo)
  BY <1>1, <1>3 DEF Sound, Writes
<1> QED
  BY <1>1, <1>2, <1>3, <1>11, <1>12, <1>14, <1>15, <1>18, <1>19, <1>20, <1>21, RowStep DEF Sound

-------------------------------------------------------------------------------
(* What goes is named by nothing that is on sale, nor by a save that has   *)
(* looked at it.                                                           *)
LEMMA RemovalSteps ==
    ASSUME MenuProofInv, NEW m \in Managers, Archive(m) \/ RemoveCategory(m)
    PROVE  MenuProofInv'
<1>1. /\ job' = [job EXCEPT ![m] = Idle] /\ groups' \subseteq groups
      /\ categories' \subseteq categories
      /\ UNCHANGED <<menu, bucket, edits, faults, stray, unsure>>
      /\ \A i \in Items : OnMenu(i) => /\ menu[i].category \in categories'
                                       /\ ActiveGroups(i) \subseteq groups'
      /\ \A n \in Managers \ {m} :
            /\ Writes(n) => job[n].want.groups \subseteq groups'
            /\ IsEdit(n) /\ job[n].at \in {"groups", "commit"} =>
                  job[n].want.category \in categories'
  <2>0. RowsOK /\ \A n \in Managers \ {m} : Holds(n) /\ Apart(n, m)
    BY DEF MenuProofInv, Own
  <2>1. CASE Archive(m)
    BY <2>0, <2>1 DEF Archive, LinkedItems, RowsOK, NoArchivedGroupOnSale, ItemHasCategory,
                      Holds, Apart
  <2>2. CASE RemoveCategory(m)
    BY <2>0, <2>2 DEF RemoveCategory, Referenced, Within, RowsOK, NoArchivedGroupOnSale,
                      ItemHasCategory, Holds, Apart
  <2> QED
    BY <2>1, <2>2
<1>2. TypeOK' /\ OnlyOf(m) /\ job'[m] = Idle
  BY <1>1 DEF MenuProofInv, TypeOK, OnlyOf
<1>3. PhotosOf(m) = {} /\ PhotosOf(m)' = {} /\ \A n \in Managers : PhotosOf(n)' = PhotosOf(n)
  BY <1>2 DEF Archive, RemoveCategory, PhotosOf, Idle, OnlyOf
<1>4. Own(m)'
  BY <1>2 DEF Own, Sees, Holds, Carries, Locks, Writes, IsEdit, Cleans, Idle
<1>5. ASSUME NEW n \in Managers \ {m}
      PROVE  Own(n)'
  <2>1. Own(n) /\ job'[n] = job[n]
    BY <1>2 DEF MenuProofInv, OnlyOf
  <2> QED
    BY <1>1, <2>1 DEF Own, Sees, Holds, Carries, Locks, Writes, IsEdit, Cleans, Item, OnMenu,
                      ActiveGroups
<1>6. ASSUME NEW n \in Managers, NEW k \in Managers, n # k
      PROVE  Apart(n, k)'
  <2>1. CASE n # m /\ k # m
    BY <1>2, <1>3, <2>1, <1>6 DEF MenuProofInv, OnlyOf, Apart, Item, Locks, Writes, IsEdit
  <2>2. CASE n = m
    BY <1>2, <2>2 DEF Apart, Idle, Locks, Writes, IsEdit
  <2>3. CASE k = m
    BY <1>2, <1>3, <2>3 DEF Apart, Idle, Locks, Writes, IsEdit
  <2> QED
    BY <2>1, <2>2, <2>3
<1>7. RowsOK'
  BY <1>1, <1>3 DEF MenuProofInv, RowsOK, StampsCount, PhotosDiffer, NoArchivedGroupOnSale,
                    ItemHasCategory, PhotoExists, NoStrayPhoto, OnMenu, ActiveGroups
<1> QED
  BY <1>2, <1>4, <1>5, <1>6, <1>7 DEF MenuProofInv

-------------------------------------------------------------------------------
LEMMA MenuInvariance == Spec => []MenuProofInv
<1>1. MenuProofInv /\ [Next]_vars => MenuProofInv'
  <2> SUFFICES ASSUME MenuProofInv, [Next]_vars PROVE MenuProofInv'
    OBVIOUS
  <2>1. CASE UNCHANGED vars
    <3> USE <2>1 DEF vars, MenuProofInv
    <3>1. TypeOK'
      BY DEF TypeOK
    <3>2. RowsOK'
      BY DEF RowsOK, StampsCount, PhotosDiffer, NoArchivedGroupOnSale, ItemHasCategory,
             PhotoExists, NoStrayPhoto, OnMenu, ActiveGroups, PhotosOf
    <3>3. \A m \in Managers : Own(m)'
      BY DEF Own, Sees, Holds, Carries, Locks, Writes, IsEdit, Cleans, Item, OnMenu, ActiveGroups
    <3>4. \A m, n \in Managers : m # n => Apart(m, n)'
      BY DEF Apart, Locks, Writes, IsEdit, Item, PhotosOf
    <3> QED
      BY <3>1, <3>2, <3>3, <3>4
  <2>2. ASSUME NEW m \in Managers, Step(m)
        PROVE  MenuProofInv'
    <3>1. CASE Deadlock(m)
      <4>1. IsEdit(m) \/ job[m].kind = "remove"
        BY <3>1 DEF Deadlock, Entangled, IsEdit
      <4> QED
        BY <3>1, <4>1, FailStep DEF Deadlock, Quiet
    <3>2. CASE OpenRest(m) \/ Leave(m) \/ \E i \in Items : Open(m, i) \/ SendToggle(m, i)
      BY <3>2, PageSteps
    <3>3. CASE \E want \in Inputs, p \in Photos \cup {NoPhoto} :
                  Send(m, want, p) \/ \E i \in Items : SendNew(m, i, want, p)
      BY <3>3, SendStep, SendNewStep
    <3>4. CASE LockItem(m) \/ HoldCategory(m) \/ HoldGroups(m)
      BY <3>4, LockItemStep, HoldSteps
    <3>5. CASE \E heard \in BOOLEAN : CommitEdit(m, heard)
      BY <3>5, CommitStep
    <3>6. CASE Crash(m) \/ \E works \in BOOLEAN : Cleanup(m, works)
      BY <3>6, CleanSteps
    <3>7. CASE \/ LockCategory(m) \/ \E g \in Groups : LockGroup(m, g)
               \/ \E c \in Categories : SendRemove(m, c)
      BY <3>7, LockSteps
    <3>8. CASE Toggle(m) \/ Archive(m) \/ RemoveCategory(m)
      BY <3>8, ToggleStep, RemovalSteps
    <3> QED
      BY <2>2, <3>1, <3>2, <3>3, <3>4, <3>5, <3>6, <3>7, <3>8 DEF Step
  <2> QED
    BY <2>1, <2>2 DEF Next
<1> QED
  BY <1>1, MenuInit, PTL DEF Spec

(* An archived group is on nothing that is sold, and every item is in a    *)
(* category that exists, however archives, removals and saves of items     *)
(* interleave (MenuInv).                                                   *)
THEOREM NothingGoneIsOnSale == Spec => []MenuInv
<1>1. MenuProofInv => MenuInv
  BY DEF MenuProofInv, RowsOK, MenuInv
<1> QED
  BY <1>1, MenuInvariance, PTL

(* The photos in the bucket are those the items show, but for copies that  *)
(* requests are answerable for and for what faults left (PhotosMatchRows). *)
THEOREM StoredPhotosAreShown == Spec => []PhotosMatchRows
<1>1. MenuProofInv => PhotosMatchRows
  BY DEF MenuProofInv, RowsOK, PhotosMatchRows
<1> QED
  BY <1>1, MenuInvariance, PTL

(* A save is written over what its editor saw: the stamp of the page was   *)
(* looked at under the lock of the item, and every write moved the stamp   *)
(* (NoLostEdit).                                                           *)
THEOREM SavesLoseNoEdit == Spec => NoLostEdit
<1>1. ASSUME MenuProofInv, NEW m \in Managers, job[m].kind = "save", job[m].at = "commit"
      PROVE  job[m].row = edits[job[m].item] /\ job[m].rest = edits[job[m].item]
  <2>1. job[m] \in Saves /\ Sees(m) /\ Locks(m)
    BY <1>1, Shapes DEF MenuProofInv, Own, IsEdit, Locks
  <2>2. edits[job[m].item] \in Nat /\ job[m].row \in Nat /\ job[m].rest \in Nat
    BY <1>1, <2>1, Begun DEF Saves
  <2> QED
    BY <1>1, <2>1, <2>2 DEF Sees, Item
<1>2. MenuProofInv /\ [Next]_vars =>
        [\A m \in Managers :
            /\ job[m].kind = "save" /\ job[m].at = "commit"
            /\ edits' # edits /\ job'[m].at # "commit"
            => job[m].row = edits[job[m].item] /\ job[m].rest = edits[job[m].item]]_vars
  BY <1>1
<1> QED
  BY <1>2, MenuInvariance, PTL DEF Spec, NoLostEdit
===============================================================================
