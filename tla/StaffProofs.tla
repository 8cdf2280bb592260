------------------------------ MODULE StaffProofs ------------------------------
(***************************************************************************)
(* Proofs about StaffSession, for any number of people, logins, pages,     *)
(* requests and managers, and any bound on tokens, versions and faults.    *)
(*                                                                         *)
(* A family is named by nobody before its login is answered (Published),   *)
(* and every token a client or a request holds is one the scripts that end *)
(* a family find it by (TokensKnown).  The cache rests on versions: nothing*)
(* is stored under a version to come, and who read the version of now read *)
(* the row of now (ReadsKnow).                                             *)
(***************************************************************************)
EXTENDS StaffSession, FiniteSetTheorems, TLAPS

USE SessionAssumption

-------------------------------------------------------------------------------
(* Type correctness, part by part.                                         *)

UnderWay(c)  == call[c].at # "idle"
Refreshes(c) == UnderWay(c) /\ call[c].op = "refresh"
Family(c)    == call[c].fam

FamilyTypes ==
    /\ login \in [Families -> {"out", "code", "token", "session", "index", "in"}]
    /\ live \in [Families -> SUBSET Tokens] /\ used \in [Families -> SUBSET Tokens]
    /\ current \in [Families -> Tokens] /\ jar \in [Families -> Tokens]
    /\ session \in [Families -> BOOLEAN] /\ revoked \in [Families -> BOOLEAN]
    /\ index \subseteq Families

CallTypes ==
    /\ tab \in [Calls -> Tabs]
    /\ call \in [Calls -> Requests \cup {Idle}]
    /\ barred \subseteq Calls

UserTypes ==
    /\ active \in [Users -> BOOLEAN]
    /\ version \in Versions
    /\ cached \in [Users -> [Versions -> {"none", "yes", "no"}]]
    /\ writer \in [Managers -> [at : {"idle", "bump", "revoke"}, user : Users, to : BOOLEAN]]

PastTypes ==
    /\ faults \in 0..MaxFaults
    /\ unannounced \subseteq Users /\ ended \subseteq Users
    /\ replayed \subseteq Families /\ spared \subseteq Families /\ lost \subseteq Families
    /\ straddling \subseteq Families

Types == FamilyTypes /\ CallTypes /\ UserTypes /\ PastTypes

LEMMA TypesAreTypeOK == Types <=> TypeOK
BY DEF Types, FamilyTypes, CallTypes, UserTypes, PastTypes, TypeOK

(* What each kind of request asks of Redis, and with which token.          *)
Asked ==
    \A c \in Calls : UnderWay(c) =>
        /\ call[c].op = "refresh" => call[c].tok < MaxToken /\ call[c].at # "session"
        /\ call[c].op = "logout" => call[c].at \in {"revoke", "refuse"}
        /\ call[c].op = "api" => call[c].at \notin {"rotate", "revoke"}

(* What keeps the version in its range.                                    *)
Room == version + Cardinality(Pending) <= MaxVersion

(* A step of the request of a call leaves the other calls alone and does   *)
(* not change what its own is about.                                       *)
Moves(c) ==
    /\ call' = [call EXCEPT ![c] = call'[c]]
    /\ \/ call'[c] = Idle
       \/ /\ call[c] \in Requests /\ call'[c] \in Requests
          /\ call'[c].op = call[c].op /\ call'[c].fam = call[c].fam
          /\ call'[c].tok = call[c].tok

LEMMA AtWork ==
    ASSUME CallTypes, NEW c \in Calls
    PROVE  (call[c].at # "idle" <=> call[c] \in Requests) /\ (call[c].at = "idle" <=> call[c] = Idle)
BY DEF CallTypes, Idle, Requests, Steps

LEMMA CallsMove ==
    ASSUME Types, NEW c \in Calls, Continue(c) \/ CallFault(c)
    PROVE  Moves(c)
<1> USE DEF Moves
<1>0. call \in [Calls -> Requests \cup {Idle}] /\ version \in Versions /\ active \in [Users -> BOOLEAN]
  BY DEF Types, CallTypes, UserTypes
<1>1. \A at \in Steps : call[c].at # "idle" /\ Goes(c, at) => Moves(c)
  <2> TAKE at \in Steps
  <2> HAVE call[c].at # "idle" /\ Goes(c, at)
  <2>1. call[c] \in Requests
    BY AtWork DEF Types
  <2>2. call' = [call EXCEPT ![c] = call'[c]] /\ call'[c] = [call[c] EXCEPT !.at = at]
    BY <1>0 DEF Goes
  <2>3. call'[c] \in Requests
    BY <2>1, <2>2 DEF Requests
  <2> QED
    BY <2>1, <2>2, <2>3 DEF Requests
<1>2. \A yes \in BOOLEAN : call[c].at # "idle" /\ Decide(c, yes) => Moves(c)
  <2> TAKE yes \in BOOLEAN
  <2> HAVE call[c].at # "idle" /\ Decide(c, yes)
  <2>1. call[c] \in Requests
    BY AtWork DEF Types
  <2>2. Verdict(c, yes) \in Steps
    BY DEF Verdict, Steps
  <2>3. call'[c] = [call[c] EXCEPT !.at = Verdict(c, yes), !.ver = NoVersion, !.seen = FALSE]
    BY <1>0 DEF Decide
  <2>4. call'[c] \in Requests
    BY <2>1, <2>2, <2>3 DEF Requests
  <2> QED
    BY <1>0, <2>1, <2>3, <2>4 DEF Decide, Requests
<1>3. Finish(c) => Moves(c)
  BY <1>0 DEF Finish
<1>4. CASE Rotate(c) \/ RevokeFamily(c) \/ FindSession(c) \/ RevokeFails(c) \/ AnswerLost(c)
        \/ Accept(c) \/ Refuse(c)
  BY <1>4, <1>1, <1>3 DEF Steps, Rotate, RevokeFamily, FindSession, RevokeFails, AnswerLost, Accept, Refuse
<1>5. CASE ReadVersion(c)
  <2>1. CASE call' = [call EXCEPT ![c].at = "look", ![c].ver = version]
    <3>1. call[c] \in Requests
      BY <1>5, AtWork DEF Types, ReadVersion
    <3>2. call' = [call EXCEPT ![c] = call'[c]]
          /\ call'[c] = [call[c] EXCEPT !.at = "look", !.ver = version]
      BY <1>0, <2>1
    <3>3. call'[c] \in Requests
      BY <3>1, <3>2, <1>0 DEF Requests, Steps
    <3> QED
      BY <3>1, <3>2, <3>3 DEF Requests
  <2> QED
    BY <1>5, <2>1, <1>1 DEF ReadVersion, Steps
<1>6. CASE LookInCache(c)
  BY <1>6, <1>1, <1>2 DEF LookInCache, Steps
<1>7. CASE Load(c)
  <2>1. CASE call' = [call EXCEPT ![c].at = "fill", ![c].seen = active[User(c)]]
    <3>1. call[c] \in Requests
      BY <1>7, AtWork DEF Types, Load
    <3>2. active[User(c)] \in BOOLEAN
      BY <3>1, <1>0 DEF User, Requests
    <3>3. call' = [call EXCEPT ![c] = call'[c]]
          /\ call'[c] = [call[c] EXCEPT !.at = "fill", !.seen = active[User(c)]]
      BY <1>0, <2>1
    <3>4. call'[c] \in Requests
      BY <3>1, <3>2, <3>3 DEF Requests, Steps
    <3> QED
      BY <3>1, <3>3, <3>4 DEF Requests
  <2>2. CASE Decide(c, active[User(c)])
    <3>1. call[c] \in Requests
      BY <1>7, AtWork DEF Types, Load
    <3>2. active[User(c)] \in BOOLEAN
      BY <3>1, <1>0 DEF User, Requests
    <3> QED
      BY <2>2, <3>2, <1>2, <1>7 DEF Load
  <2> QED
    BY <1>7, <2>1, <2>2 DEF Load
<1>8. CASE Fill(c)
  <2>1. call[c].seen \in BOOLEAN
    BY <1>8, AtWork DEF Types, Fill, Requests
  <2> QED
    BY <1>8, <2>1, <1>2 DEF Fill
<1> QED
  BY <1>4, <1>5, <1>6, <1>7, <1>8 DEF Continue, CallFault

LEMMA CallTypesHold ==
    ASSUME Types, [Next]_vars
    PROVE  CallTypes'
<1> USE DEF Types, CallTypes
<1>1. ASSUME NEW c \in Calls, NEW f \in Families, Refresh(c, f) \/ Logout(c, f) \/ UseApi(c, f)
      PROVE  CallTypes'
  <2>1. PICK op \in {"refresh", "logout", "api"}, at \in {"rotate", "revoke", "session"} : Begin(c, op, f, at)
    BY <1>1 DEF Refresh, Logout, UseApi
  <2>2. jar[f] \in Tokens /\ 0 \in Tokens
    BY DEF FamilyTypes, Tokens
  <2> DEFINE q == [at |-> at, op |-> op, fam |-> f, tok |-> IF op = "api" THEN 0 ELSE jar[f],
                   ver |-> NoVersion, seen |-> FALSE]
  <2>3. q \in Requests
    BY <2>2 DEF Requests, Steps
  <2>4. call' = [call EXCEPT ![c] = q] /\ barred' \subseteq Calls /\ tab' = tab
    BY <2>1 DEF Begin
  <2> QED
    BY <2>3, <2>4
<1>2. ASSUME NEW c \in Calls, Continue(c) \/ CallFault(c) PROVE CallTypes'
  <2>1. call' \in [Calls -> Requests \cup {Idle}]
    BY <1>2, CallsMove DEF Moves
  <2>2. tab' = tab /\ barred' \subseteq Calls
    BY <1>2 DEF Continue, CallFault, Rotate, RevokeFamily, RevokeFails, FindSession, ReadVersion,
                LookInCache, Load, Fill, Accept, Refuse, AnswerLost, ActivityFrame, CallFrame, Finish
  <2> QED
    BY <2>1, <2>2
<1>3. ASSUME NEW f \in Families, LoginStep(f) PROVE CallTypes'
  BY <1>3 DEF LoginStep, Check, ExchangeCode, CodeLapses, StoreRefresh, StoreSession, IndexFamily, LoginFrame
<1>4. ASSUME NEW m \in Managers, WriterStep(m) PROVE CallTypes'
  <2>1. tab' = tab /\ call' = call /\ barred' \subseteq barred
    BY <1>4 DEF WriterStep, Commit, Bump, BumpFails, RevokeAll, RevokeAllFails, WriteFrame
  <2> QED
    BY <2>1
<1>5. CASE OtherWrite
  BY <1>5 DEF OtherWrite, WriteFrame
<1>6. ASSUME NEW u \in Users, NEW v \in Versions, CacheExpires(u, v) PROVE CallTypes'
  BY <1>6 DEF CacheExpires
<1>7. CASE UNCHANGED vars
  BY <1>7 DEF vars
<1> QED
  BY <1>1, <1>2, <1>3, <1>4, <1>5, <1>6, <1>7 DEF Next, Start

LEMMA AskedHolds ==
    ASSUME Types, Asked, [Next]_vars
    PROVE  Asked'
<1> USE DEF Types, Asked, UnderWay
<1>0. call \in [Calls -> Requests \cup {Idle}]
  BY DEF CallTypes
<1>1. ASSUME NEW c \in Calls, NEW f \in Families, Refresh(c, f) \/ Logout(c, f) \/ UseApi(c, f)
      PROVE  Asked'
  <2>1. CASE Refresh(c, f)
    BY <2>1, <1>0 DEF Refresh, Begin
  <2>2. CASE Logout(c, f)
    BY <2>2, <1>0 DEF Logout, Begin
  <2>3. CASE UseApi(c, f)
    BY <2>3, <1>0 DEF UseApi, Begin
  <2> QED
    BY <1>1, <2>1, <2>2, <2>3
<1>2. ASSUME NEW c \in Calls, Continue(c) \/ CallFault(c) PROVE Asked'
  <2>1. Moves(c)
    BY <1>2, CallsMove
  <2>2. ASSUME call'[c].at # "idle"
        PROVE  /\ call[c].op = "refresh" => call'[c].at # "session"
               /\ call[c].op = "logout" => call'[c].at \in {"revoke", "refuse"}
               /\ call[c].op = "api" => call'[c].at \notin {"rotate", "revoke"}
    <3>1. call[c] \in Requests
      BY <2>1, <2>2 DEF Moves, Idle
    <3>2. CASE Rotate(c)
      BY <3>1, <3>2, <1>0, AtWork DEF Rotate, Goes, Requests
    <3>3. CASE RevokeFamily(c)
      BY <3>1, <3>3, <1>0, AtWork DEF RevokeFamily, Goes, Requests
    <3>4. CASE FindSession(c)
      BY <3>1, <3>4, <1>0, AtWork DEF FindSession, Goes, Requests
    <3>5. CASE ReadVersion(c)
      BY <3>1, <3>5, <1>0, AtWork DEF ReadVersion, Goes, Requests
    <3>6. CASE LookInCache(c)
      BY <3>1, <3>6, <1>0, AtWork DEF LookInCache, Goes, Decide, Verdict, Requests
    <3>7. CASE Load(c)
      BY <3>1, <3>7, <1>0, AtWork DEF Load, Goes, Decide, Verdict, Requests
    <3>8. CASE Fill(c)
      BY <3>1, <3>8, <1>0, AtWork DEF Fill, Decide, Verdict, Requests
    <3>9. CASE Accept(c) \/ Refuse(c) \/ RevokeFails(c) \/ AnswerLost(c)
      BY <2>2, <3>9, <1>0 DEF Accept, Refuse, RevokeFails, AnswerLost, Finish, Idle
    <3> QED
      BY <1>2, <3>2, <3>3, <3>4, <3>5, <3>6, <3>7, <3>8, <3>9 DEF Continue, CallFault
  <2>3. \A d \in Calls \ {c} : call'[d] = call[d]
    BY <2>1, <1>0 DEF Moves
  <2>4. call'[c].at # "idle" => call[c].at # "idle" /\ call'[c].op = call[c].op /\ call'[c].tok = call[c].tok
    BY <2>1, AtWork DEF Moves, Idle
  <2> QED
    BY <2>2, <2>3, <2>4
<1>3. CASE UNCHANGED call
  BY <1>3
<1> QED
  BY <1>1, <1>2, <1>3 DEF Next, Start, vars, LoginStep, WriterStep, OtherWrite, CacheExpires,
       Check, ExchangeCode, CodeLapses, StoreRefresh, StoreSession, IndexFamily, LoginFrame,
       Commit, Bump, BumpFails, RevokeAll, RevokeAllFails, WriteFrame

LEMMA FamilyTypesHold ==
    ASSUME Types, Asked, [Next]_vars
    PROVE  FamilyTypes'
<1> USE DEF Types, FamilyTypes
<1>0. 0 \in Tokens /\ 1 \in Tokens
  BY DEF Tokens
<1>1. CASE UNCHANGED <<login, redis, jar>>
  BY <1>1 DEF redis
<1>2. ASSUME NEW c \in Calls, Rotate(c) PROVE FamilyTypes'
  <2>1. call[c] \in Requests
    BY <1>2, AtWork DEF Rotate
  <2>2. call[c].tok \in Tokens /\ call[c].fam \in Families
    BY <2>1 DEF Requests
  <2>3. call[c].tok + 1 \in Tokens
    <3>1. call[c].op = "refresh"
      BY <1>2, <2>1 DEF Asked, UnderWay, Requests, Rotate
    <3> QED
      BY <1>2, <2>2, <3>1 DEF Asked, UnderWay, Rotate, Tokens
  <2>4. CASE UNCHANGED redis
    BY <2>4, <1>2 DEF Rotate, CallFrame, redis
  <2>5. CASE ~UNCHANGED redis
    BY <2>2, <2>3, <2>5, <1>2 DEF Rotate, Replace, CallFrame
  <2> QED
    BY <2>4, <2>5
<1>3. ASSUME NEW F, NEW given, Empty(F, given), UNCHANGED <<login, used, jar>>, index' \subseteq index
      PROVE  FamilyTypes'
  BY <1>3, <1>0 DEF Empty
<1>4. ASSUME NEW c \in Calls, RevokeFamily(c) PROVE FamilyTypes'
  BY <1>4, <1>3 DEF RevokeFamily, CallFrame, redis
<1>5. ASSUME NEW c \in Calls, Accept(c) \/ Refuse(c) PROVE FamilyTypes'
  <2>1. call[c] \in Requests
    BY <1>5, AtWork DEF Accept, Refuse
  <2>2. call[c].tok \in Tokens /\ call[c].op = "refresh" => call[c].tok + 1 \in Tokens
    BY <2>1, <1>5 DEF Requests, Asked, UnderWay, Accept, Refuse, Tokens
  <2>3. Accept(c) => call[c].op # "logout"
    BY <2>1 DEF Asked, UnderWay, Accept
  <2>4. jar' \in [Families -> Tokens]
    BY <1>0, <1>5, <2>1, <2>2, <2>3 DEF Accept, Refuse, Requests
  <2> QED
    BY <1>5, <2>4 DEF Accept, Refuse, CallFrame, redis
<1>6. ASSUME NEW f \in Families, LoginStep(f) PROVE FamilyTypes'
  <2>1. CASE Check(f) \/ ExchangeCode(f) \/ CodeLapses(f)
    BY <2>1 DEF Check, ExchangeCode, CodeLapses, LoginGoes, redis
  <2>2. CASE StoreRefresh(f)
    BY <2>2, <1>0 DEF StoreRefresh, LoginGoes
  <2>3. CASE StoreSession(f)
    BY <2>3 DEF StoreSession, LoginGoes
  <2>4. CASE IndexFamily(f)
    BY <2>4, <1>0 DEF IndexFamily, LoginGoes
  <2> QED
    BY <1>6, <2>1, <2>2, <2>3, <2>4 DEF LoginStep
<1>7. ASSUME NEW m \in Managers, RevokeAll(m) PROVE FamilyTypes'
  BY <1>7, <1>3 DEF RevokeAll, WriteFrame
<1>8. ASSUME NEW c \in Calls, Start(c) \/ Continue(c) \/ CallFault(c) PROVE FamilyTypes'
  <2>1. CASE Rotate(c) \/ RevokeFamily(c) \/ Accept(c) \/ Refuse(c)
    BY <2>1, <1>2, <1>4, <1>5
  <2>2. CASE Start(c)
    BY <2>2, <1>1 DEF Start, Refresh, Logout, UseApi, Begin
  <2>3. CASE RevokeFails(c) \/ AnswerLost(c) \/ FindSession(c)
    BY <2>3, <1>1 DEF RevokeFails, AnswerLost, FindSession, CallFrame
  <2>4. CASE ReadVersion(c) \/ LookInCache(c) \/ Load(c) \/ Fill(c)
    BY <2>4, <1>1 DEF ReadVersion, LookInCache, Load, Fill, ActivityFrame, CallFrame
  <2> QED
    BY <1>8, <2>1, <2>2, <2>3, <2>4 DEF Continue, CallFault
<1>9. ASSUME NEW m \in Managers, WriterStep(m) PROVE FamilyTypes'
  BY <1>9, <1>1, <1>7 DEF WriterStep, Commit, Bump, BumpFails, RevokeAllFails, WriteFrame
<1>10. CASE OtherWrite \/ (\E u \in Users, v \in Versions : CacheExpires(u, v)) \/ UNCHANGED vars
  BY <1>10, <1>1 DEF OtherWrite, WriteFrame, CacheExpires, vars
<1> QED
  BY <1>6, <1>8, <1>9, <1>10 DEF Next

LEMMA UserTypesHold ==
    ASSUME Types, Room, [Next]_vars
    PROVE  UserTypes' /\ Room'
<1> USE DEF Types, UserTypes, Versions
<1>0. Pending \subseteq Managers /\ IsFiniteSet(Pending) /\ Cardinality(Pending) \in Nat
  BY FS_Subset, FS_CardinalityType DEF Pending
<1>1. CASE UNCHANGED <<active, version, cached, writer>>
  BY <1>1 DEF Room, Pending
<1>2. ASSUME NEW c \in Calls, Fill(c) PROVE UserTypes' /\ Room'
  <2>1. call[c] \in Requests
    BY <1>2, AtWork DEF Fill
  <2>2. User(c) \in Users
    BY <2>1 DEF User, Requests
  <2>3. cached' \in [Users -> [Versions -> {"none", "yes", "no"}]]
    BY <2>1, <2>2, <1>2 DEF Fill, Store
  <2> QED
    BY <2>3, <1>2 DEF Fill, ActivityFrame, CallFrame, presence, Room, Pending
<1>3. ASSUME NEW u \in Users, NEW v \in Versions, CacheExpires(u, v) PROVE UserTypes' /\ Room'
  BY <1>3 DEF CacheExpires, presence, Room, Pending
<1>4. ASSUME NEW m \in Managers, NEW u \in Users, NEW to \in BOOLEAN, Commit(m, u, to)
      PROVE  UserTypes' /\ Room'
  <2>1. UserTypes'
    BY <1>4 DEF Commit, WriteFrame
  <2>2. Pending' = Pending \cup {m} /\ m \notin Pending
    BY <1>4 DEF Commit, Pending
  <2>3. Cardinality(Pending') = Cardinality(Pending) + 1
    BY <1>0, <2>2, FS_AddElement
  <2> QED
    BY <1>0, <1>4, <2>1, <2>3 DEF Commit, RoomForAWrite, Room
<1>5. ASSUME NEW m \in Managers, Bump(m) \/ BumpFails(m) PROVE UserTypes' /\ Room'
  <2>1. m \in Pending /\ Pending' = Pending \ {m}
    BY <1>5 DEF Bump, BumpFails, Pending
  <2>2. Cardinality(Pending') = Cardinality(Pending) - 1 /\ Cardinality(Pending') \in Nat
    <3>1. IsFiniteSet(Pending')
      BY <1>0, <2>1, FS_RemoveElement
    <3> QED
      BY <1>0, <2>1, <3>1, FS_RemoveElement, FS_CardinalityType
  <2>3. active' = active /\ cached' = cached /\ version' \in {version, version + 1}
    BY <1>5 DEF Bump, BumpFails, Announce, WriteFrame, presence
  <2>4. PICK at \in {"idle", "revoke"} : writer' = [writer EXCEPT ![m].at = at]
    BY <1>5 DEF Bump, BumpFails
  <2>5. writer' \in [Managers -> [at : {"idle", "bump", "revoke"}, user : Users, to : BOOLEAN]]
    BY <2>4
  <2> QED
    BY <1>0, <2>2, <2>3, <2>5 DEF Room
<1>6. ASSUME NEW m \in Managers, RevokeAll(m) \/ RevokeAllFails(m) PROVE UserTypes' /\ Room'
  <2>1. Pending' = Pending
    BY <1>6 DEF RevokeAll, RevokeAllFails, Pending
  <2>2. active' = active /\ cached' = cached /\ version' = version
    BY <1>6 DEF RevokeAll, RevokeAllFails, WriteFrame, presence
  <2>3. writer' = [writer EXCEPT ![m].at = "idle"]
    BY <1>6 DEF RevokeAll, RevokeAllFails
  <2>4. writer' \in [Managers -> [at : {"idle", "bump", "revoke"}, user : Users, to : BOOLEAN]]
    BY <2>3
  <2> QED
    BY <2>1, <2>2, <2>4 DEF Room
<1>7. CASE OtherWrite
  BY <1>0, <1>7 DEF OtherWrite, Announce, WriteFrame, RoomForAWrite, Room, Pending
<1>8. ASSUME NEW c \in Calls, Start(c) \/ Continue(c) \/ CallFault(c) PROVE UserTypes' /\ Room'
  <2>1. CASE Start(c)
    BY <2>1, <1>1 DEF Start, Refresh, Logout, UseApi, Begin, presence
  <2>2. CASE Rotate(c) \/ RevokeFamily(c) \/ Accept(c) \/ Refuse(c)
    BY <2>2, <1>1 DEF Rotate, RevokeFamily, Accept, Refuse, CallFrame, presence
  <2>3. CASE RevokeFails(c) \/ AnswerLost(c) \/ FindSession(c)
    BY <2>3, <1>1 DEF RevokeFails, AnswerLost, FindSession, CallFrame, presence
  <2>4. CASE ReadVersion(c) \/ LookInCache(c) \/ Load(c)
    BY <2>4, <1>1 DEF ReadVersion, LookInCache, Load, ActivityFrame, CallFrame, presence
  <2> QED
    BY <1>2, <1>8, <2>1, <2>2, <2>3, <2>4 DEF Continue, CallFault
<1>9. ASSUME NEW f \in Families, LoginStep(f) PROVE UserTypes' /\ Room'
  BY <1>9, <1>1 DEF LoginStep, Check, ExchangeCode, CodeLapses, StoreRefresh, StoreSession,
                    IndexFamily, LoginFrame, presence
<1>10. CASE UNCHANGED vars
  BY <1>10, <1>1 DEF vars, presence
<1> QED
  BY <1>3, <1>4, <1>5, <1>6, <1>7, <1>8, <1>9, <1>10 DEF Next, WriterStep

LEMMA PastTypesHold ==
    ASSUME Types, [Next]_vars
    PROVE  PastTypes'
<1> USE DEF Types, PastTypes
<1>1. CASE UNCHANGED <<faults, unannounced, ended, history, straddling>>
  BY <1>1 DEF history
<1>2. ASSUME NEW c \in Calls, Start(c) \/ Continue(c) \/ CallFault(c) PROVE PastTypes'
  <2>1. CASE Start(c)
    BY <2>1 DEF Start, Refresh, Logout, UseApi, Begin, presence, history
  <2>2. CASE Rotate(c)
    <3>1. call[c] \in Requests
      BY <2>2, AtWork DEF Rotate
    <3>2. call[c].fam \in Families
      BY <3>1 DEF Requests
    <3> QED
      BY <2>2, <3>2 DEF Rotate, CallFrame, presence
  <2>3. CASE RevokeFamily(c) \/ Accept(c) \/ Refuse(c) \/ FindSession(c)
    BY <2>3 DEF RevokeFamily, Accept, Refuse, FindSession, CallFrame, presence, history
  <2>4. CASE RevokeFails(c) \/ AnswerLost(c)
    <3>1. call[c] \in Requests
      BY <2>4, AtWork DEF RevokeFails, AnswerLost
    <3>2. call[c].fam \in Families
      BY <3>1 DEF Requests
    <3>3. faults' \in 0..MaxFaults
      BY <2>4 DEF RevokeFails, AnswerLost, Fails
    <3> QED
      BY <2>4, <3>2, <3>3 DEF RevokeFails, AnswerLost, CallFrame, presence
  <2>5. CASE ReadVersion(c) \/ LookInCache(c) \/ Load(c) \/ Fill(c)
    <3>1. faults' \in 0..MaxFaults
      BY <2>5 DEF ReadVersion, LookInCache, Load, Fill, Fails, Works
    <3> QED
      BY <2>5, <3>1 DEF ReadVersion, LookInCache, Load, Fill, ActivityFrame, CallFrame, presence, history
  <2> QED
    BY <1>2, <2>1, <2>2, <2>3, <2>4, <2>5 DEF Continue, CallFault
<1>3. ASSUME NEW m \in Managers, WriterStep(m) PROVE PastTypes'
  <2>1. ASSUME NEW u \in Users, NEW to \in BOOLEAN, Commit(m, u, to) PROVE PastTypes'
    BY <2>1 DEF Commit, WriteFrame, history, InLogin
  <2>2. CASE Bump(m) \/ BumpFails(m)
    <3>1. faults' \in 0..MaxFaults
      BY <2>2 DEF Bump, BumpFails, Fails
    <3> QED
      BY <2>2, <3>1 DEF Bump, BumpFails, Announce, WriteFrame, presence, history
  <2>3. CASE RevokeAll(m) \/ RevokeAllFails(m)
    <3>1. faults' \in 0..MaxFaults
      BY <2>3 DEF RevokeAll, RevokeAllFails, Fails
    <3>2. writer[m].user \in Users
      BY DEF UserTypes
    <3> QED
      BY <2>3, <3>1, <3>2 DEF RevokeAll, RevokeAllFails, WriteFrame, presence, history
  <2> QED
    BY <1>3, <2>1, <2>2, <2>3 DEF WriterStep
<1>4. ASSUME NEW f \in Families, LoginStep(f) PROVE PastTypes'
  BY <1>4, <1>1 DEF LoginStep, Check, ExchangeCode, CodeLapses, StoreRefresh, StoreSession,
                    IndexFamily, LoginFrame, presence
<1>5. CASE OtherWrite
  BY <1>5 DEF OtherWrite, Announce, WriteFrame, history
<1>6. CASE (\E u \in Users, v \in Versions : CacheExpires(u, v)) \/ UNCHANGED vars
  BY <1>6, <1>1 DEF CacheExpires, presence, vars
<1> QED
  BY <1>2, <1>3, <1>4, <1>5, <1>6 DEF Next

(* The invariant the other proofs start from.                              *)
Typed == Types /\ Asked /\ Room

LEMMA StaffTypes == Spec => []Typed
<1>1. Init => Typed
  <2> SUFFICES ASSUME Init PROVE Typed
    OBVIOUS
  <2> USE DEF Init
  <2>1. FamilyTypes
    BY DEF FamilyTypes, Tokens
  <2>2. CallTypes /\ Asked
    BY DEF CallTypes, Idle, Asked, UnderWay
  <2>3. (CHOOSE u \in Users : TRUE) \in Users
    OBVIOUS
  <2>4. UserTypes
    <3>1. writer \in [Managers -> [at : {"idle", "bump", "revoke"}, user : Users, to : BOOLEAN]]
      BY <2>3
    <3> QED
      BY <3>1 DEF UserTypes, Versions
  <2>5. PastTypes
    BY DEF PastTypes
  <2>6. Pending = {}
    BY DEF Pending
  <2>7. Room
    BY <2>6, FS_EmptySet DEF Room
  <2> QED
    BY <2>1, <2>2, <2>4, <2>5, <2>7 DEF Typed, Types
<1>2. Typed /\ [Next]_vars => Typed'
  BY CallTypesHold, FamilyTypesHold, UserTypesHold, PastTypesHold, AskedHolds DEF Typed, Types
<1> QED
  BY <1>1, <1>2, PTL DEF Spec

-------------------------------------------------------------------------------
(* Families of refresh tokens.                                             *)

(* Nothing names a family before its login is answered.                    *)
Published ==
    /\ \A f \in Families : login[f] # "in" =>
           jar[f] = 0 /\ used[f] = {} /\ ~revoked[f] /\ f \notin index
    /\ \A f \in Families : login[f] \in {"out", "code", "token"} => live[f] = {} /\ current[f] = 0
    /\ \A f \in Families : login[f] \in {"out", "code", "token", "session"} => ~session[f]
    /\ \A c \in Calls : UnderWay(c) => login[Family(c)] = "in"

Sealed == Published /\ PointerNamesLiveToken /\ RevokedStaysEmpty

(* A step of a call of family f touches no other family.                   *)
LEMMA RotateSeals ==
    ASSUME Types, Asked, Sealed, NEW c \in Calls, Rotate(c)
    PROVE  PointerNamesLiveToken' /\ RevokedStaysEmpty'
<1> USE DEF Types, FamilyTypes, PointerNamesLiveToken, RevokedStaysEmpty, Sealed
<1>1. call[c].fam \in Families /\ call[c].tok \in Tokens
  BY AtWork DEF Rotate, Requests
<1>2. CASE UNCHANGED redis
  BY <1>2 DEF redis
<1>3. CASE ~UNCHANGED redis
  <2> DEFINE f == call[c].fam
             t == call[c].tok
  <2>1. /\ t \in live[f] /\ ~revoked[f]
        /\ live' = [live EXCEPT ![f] = (@ \ {t}) \cup {t + 1}]
        /\ current' = [current EXCEPT ![f] = t + 1]
        /\ session' = session /\ revoked' = revoked
    BY <1>3 DEF Rotate, Replace, Rotates
  <2>2. live[f] = {t}
    BY <1>1, <2>1
  <2>3. live'[f] = {t + 1} /\ current'[f] = t + 1 /\ t + 1 # 0
    BY <1>1, <2>1, <2>2 DEF Tokens
  <2>4. \A g \in Families \ {f} : live'[g] = live[g] /\ current'[g] = current[g]
    BY <2>1
  <2>5. PointerNamesLiveToken'
    BY <2>3, <2>4
  <2>6. RevokedStaysEmpty'
    BY <2>1, <2>4
  <2> QED
    BY <2>5, <2>6
<1> QED
  BY <1>2, <1>3

LEMMA EmptySeals ==
    ASSUME Types, Sealed, NEW F, NEW given, Empty(F, given)
    PROVE  PointerNamesLiveToken' /\ RevokedStaysEmpty'
BY DEF Types, FamilyTypes, PointerNamesLiveToken, RevokedStaysEmpty, Sealed, Empty

(* The steps that leave the families alone.                                *)
LEMMA QuietSteps ==
    ASSUME NEW c \in Calls,
           Start(c) \/ (Continue(c) /\ ~Rotate(c) /\ ~RevokeFamily(c)) \/ CallFault(c)
    PROVE  UNCHANGED <<login, live, current, used, session, revoked, index, tab, version>>
<1>1. CASE Start(c)
  BY <1>1 DEF Start, Refresh, Logout, UseApi, Begin, redis
<1>2. CASE CallFault(c)
  BY <1>2 DEF CallFault, RevokeFails, AnswerLost, CallFrame, redis
<1>3. CASE FindSession(c) \/ Accept(c) \/ Refuse(c)
  BY <1>3 DEF FindSession, Accept, Refuse, CallFrame, redis
<1>4. CASE ReadVersion(c) \/ LookInCache(c) \/ Load(c) \/ Fill(c)
  BY <1>4 DEF ReadVersion, LookInCache, Load, Fill, ActivityFrame, CallFrame, redis
<1> QED
  BY <1>1, <1>2, <1>3, <1>4 DEF Continue

LEMMA CacheSteps ==
    ASSUME OtherWrite \/ (\E u \in Users, v \in Versions : CacheExpires(u, v)) \/ UNCHANGED vars
    PROVE  /\ UNCHANGED <<login, live, current, used, session, revoked, index, jar, tab, call>>
           /\ UNCHANGED <<active, replayed, spared, lost, ended, straddling, barred, writer>>
BY DEF OtherWrite, WriteFrame, CacheExpires, vars, redis, history, presence

LEMMA WritersOfRows ==
    ASSUME NEW m \in Managers, WriterStep(m)
    PROVE  /\ UNCHANGED <<login, cached, jar, tab, call, used, replayed, spared, lost>>
           /\ RevokeAll(m) \/ UNCHANGED <<live, current, session, revoked, index>>
BY DEF WriterStep, Commit, Bump, BumpFails, RevokeAll, RevokeAllFails, WriteFrame, redis, history

(* What a call does to the cookies.                                        *)
LEMMA JarsOfPublished ==
    ASSUME Types, NEW c \in Calls, Continue(c) \/ CallFault(c) \/ Start(c)
    PROVE  \A f \in Families : jar'[f] # jar[f] => UnderWay(c) /\ f = Family(c)
<1> USE DEF Types, FamilyTypes, UnderWay, Family
<1>1. CASE Accept(c) \/ Refuse(c)
  BY <1>1 DEF Accept, Refuse
<1>2. CASE ~Accept(c) /\ ~Refuse(c)
  <2>1. jar' = jar
    <3>1. CASE Start(c)
      BY <3>1 DEF Start, Refresh, Logout, UseApi, Begin
    <3>2. CASE CallFault(c) \/ FindSession(c) \/ Rotate(c) \/ RevokeFamily(c)
      BY <3>2 DEF CallFault, RevokeFails, AnswerLost, FindSession, Rotate, RevokeFamily
    <3>3. CASE ReadVersion(c) \/ LookInCache(c) \/ Load(c) \/ Fill(c)
      BY <3>3 DEF ReadVersion, LookInCache, Load, Fill, ActivityFrame
    <3> QED
      BY <1>2, <3>1, <3>2, <3>3 DEF Continue
  <2> QED
    BY <2>1
<1> QED
  BY <1>1, <1>2

LEMMA PublishedHolds ==
    ASSUME Types, Asked, Published, [Next]_vars
    PROVE  Published'
<1> USE DEF Published, UnderWay, Family
<1>0. /\ call \in [Calls -> Requests \cup {Idle}]
      /\ login \in [Families -> {"out", "code", "token", "session", "index", "in"}]
  BY DEF Types, CallTypes, FamilyTypes
<1>1. ASSUME NEW c \in Calls, Start(c) PROVE Published'
  <2>1. PICK f \in Families : Refresh(c, f) \/ Logout(c, f) \/ UseApi(c, f)
    BY <1>1 DEF Start
  <2>2. login[f] = "in"
    BY <2>1 DEF Refresh, Logout, UseApi
  <2>3. /\ UNCHANGED <<login, live, current, used, session, revoked, index, jar>>
        /\ \A d \in Calls : d # c => call'[d] = call[d]
        /\ call'[c].fam = f
    BY <2>1, <1>0 DEF Refresh, Logout, UseApi, Begin, redis
  <2> QED
    BY <2>2, <2>3
<1>2. ASSUME NEW c \in Calls, Continue(c) \/ CallFault(c) PROVE Published'
  <2>1. UNCHANGED login
    BY <1>2, QuietSteps DEF Rotate, RevokeFamily, CallFrame
  <2>2. \A d \in Calls : call'[d].at # "idle" => call[d].at # "idle" /\ call'[d].fam = call[d].fam
    BY <1>2, CallsMove, AtWork, <1>0 DEF Moves, Idle, Types
  <2>3. call[c] \in Requests
    BY <1>2, AtWork DEF Types, Continue, CallFault, Rotate, RevokeFamily, FindSession, ReadVersion, LookInCache,
           Load, Fill, Accept, Refuse, RevokeFails, AnswerLost
  <2>4. call[c].fam \in Families /\ login[call[c].fam] = "in"
    BY <2>3, AtWork DEF Types, Requests
  <2>5. \A f \in Families : login[f] # "in" => jar'[f] = jar[f]
    BY <1>2, <2>4, JarsOfPublished
  <2>6. \A f \in Families : login[f] # "in" =>
            /\ live'[f] = live[f] /\ current'[f] = current[f] /\ used'[f] = used[f]
            /\ session'[f] = session[f] /\ (revoked'[f] <=> revoked[f]) /\ (f \in index' <=> f \in index)
    <3>1. CASE Rotate(c)
      BY <3>1, <2>4 DEF Types, FamilyTypes, Rotate, Replace, redis
    <3>2. CASE RevokeFamily(c)
      BY <3>2, <2>4 DEF Types, FamilyTypes, RevokeFamily, Empty, redis
    <3>3. CASE ~Rotate(c) /\ ~RevokeFamily(c)
      BY <3>3, <1>2, QuietSteps
    <3> QED
      BY <3>1, <3>2, <3>3
  <2> QED
    BY <2>1, <2>2, <2>5, <2>6
<1>3. ASSUME NEW f \in Families, LoginStep(f) PROVE Published'
  <2>0. call' = call /\ login[f] # "in" /\ \A d \in Calls : call[d].at # "idle" => call[d].fam # f
    BY <1>3, <1>0 DEF LoginStep, Check, ExchangeCode, CodeLapses, StoreRefresh, StoreSession,
                      IndexFamily, LoginFrame
  <2>1. CASE Check(f) \/ ExchangeCode(f) \/ CodeLapses(f)
    <3>1. PICK place \in {"out", "code", "token"} : login' = [login EXCEPT ![f] = place]
      BY <2>1 DEF Check, ExchangeCode, CodeLapses, LoginGoes
    <3>2. login[f] \in {"out", "code"} /\ UNCHANGED <<live, current, used, session, revoked, index, jar>>
      BY <2>1 DEF Check, ExchangeCode, CodeLapses, redis
    <3>3. login'[f] \in {"out", "code", "token"} /\ \A g \in Families \ {f} : login'[g] = login[g]
      BY <3>1, <1>0
    <3>4. \A g \in Families : login'[g] # "in" <=> login[g] # "in"
      BY <2>0, <3>3
    <3>5. \A g \in Families : login'[g] \in {"out", "code", "token"} =>
              login[g] \in {"out", "code", "token"}
      BY <3>2, <3>3
    <3>6. \A g \in Families : login'[g] \in {"out", "code", "token", "session"} =>
              login[g] \in {"out", "code", "token", "session"}
      BY <3>2, <3>3
    <3>7. \A c \in Calls : UnderWay(c)' => login'[call[c].fam] = "in"
      BY <2>0, <3>3, AtWork DEF Types, Requests
    <3> QED
      BY <2>0, <3>2, <3>4, <3>5, <3>6, <3>7
  <2>2. CASE StoreRefresh(f)
    BY <2>0, <2>2, <1>0 DEF StoreRefresh, LoginGoes, Types, FamilyTypes
  <2>3. CASE StoreSession(f)
    BY <2>0, <2>3, <1>0 DEF StoreSession, LoginGoes, Types, FamilyTypes
  <2>4. CASE IndexFamily(f)
    BY <2>0, <2>4, <1>0 DEF IndexFamily, LoginGoes, Types, FamilyTypes
  <2> QED
    BY <1>3, <2>1, <2>2, <2>3, <2>4 DEF LoginStep
<1>4. ASSUME NEW m \in Managers, WriterStep(m) PROVE Published'
  <2>1. CASE RevokeAll(m)
    <3>1. \A f \in Families : f \notin index => f \notin Indexed(writer[m].user)
      BY DEF Indexed
    <3> QED
      BY <2>1, <3>1, <1>4, WritersOfRows DEF RevokeAll, Empty, Types, FamilyTypes
  <2> QED
    BY <2>1, <1>4, WritersOfRows
<1>5. CASE OtherWrite \/ (\E u \in Users, v \in Versions : CacheExpires(u, v)) \/ UNCHANGED vars
  BY <1>5, CacheSteps
<1> QED
  BY <1>1, <1>2, <1>3, <1>4, <1>5 DEF Next

LEMMA FamiliesSealed == Spec => []Sealed
<1>1. Init => Sealed
  BY DEF Init, Sealed, Published, PointerNamesLiveToken, RevokedStaysEmpty, UnderWay, Idle
<1>2. Typed /\ Sealed /\ [Next]_vars => Sealed'
  <2> SUFFICES ASSUME Types, Asked, Sealed, [Next]_vars PROVE PointerNamesLiveToken' /\ RevokedStaysEmpty'
    BY PublishedHolds DEF Typed, Sealed
  <2>0. CASE UNCHANGED <<live, current, session, revoked>>
    BY <2>0 DEF Sealed, PointerNamesLiveToken, RevokedStaysEmpty
  <2>1. ASSUME NEW c \in Calls, Start(c) \/ Continue(c) \/ CallFault(c)
        PROVE  PointerNamesLiveToken' /\ RevokedStaysEmpty'
    <3>1. CASE RevokeFamily(c)
      BY <3>1, <2>0, EmptySeals DEF RevokeFamily, redis
    <3> QED
      BY <2>0, <2>1, <3>1, RotateSeals, QuietSteps
  <2>2. ASSUME NEW f \in Families, LoginStep(f) PROVE PointerNamesLiveToken' /\ RevokedStaysEmpty'
    <3> USE DEF Types, FamilyTypes, Sealed, PointerNamesLiveToken, RevokedStaysEmpty
    <3>1. CASE Check(f) \/ ExchangeCode(f) \/ CodeLapses(f) \/ IndexFamily(f)
      BY <3>1, <2>0 DEF Check, ExchangeCode, CodeLapses, IndexFamily, redis
    <3>2. CASE StoreRefresh(f)
      <4>1. ~revoked[f]
        BY <3>2 DEF StoreRefresh, Published
      <4>2. live' = [live EXCEPT ![f] = {1}] /\ current' = [current EXCEPT ![f] = 1]
            /\ session' = session /\ revoked' = revoked
        BY <3>2 DEF StoreRefresh
      <4>3. live'[f] = {current'[f]} /\ current'[f] # 0
        BY <4>2
      <4>4. \A g \in Families \ {f} : live'[g] = live[g] /\ current'[g] = current[g]
        BY <4>2
      <4>5. PointerNamesLiveToken'
        BY <4>3, <4>4
      <4>6. RevokedStaysEmpty'
        BY <4>1, <4>2, <4>4
      <4> QED
        BY <4>5, <4>6
    <3>3. CASE StoreSession(f)
      BY <3>3 DEF StoreSession, Published
    <3> QED
      BY <2>2, <3>1, <3>2, <3>3 DEF LoginStep
  <2>3. ASSUME NEW m \in Managers, WriterStep(m) PROVE PointerNamesLiveToken' /\ RevokedStaysEmpty'
    BY <2>0, <2>3, WritersOfRows, EmptySeals DEF RevokeAll
  <2>4. CASE OtherWrite \/ (\E u \in Users, v \in Versions : CacheExpires(u, v)) \/ UNCHANGED vars
    BY <2>0, <2>4, CacheSteps
  <2> QED
    BY <2>1, <2>2, <2>3, <2>4 DEF Next
<1> QED
  BY <1>1, <1>2, StaffTypes, PTL DEF Spec

(* A family that was ended stays ended, and an end of a family misses none *)
(* of its tokens: no refresh, login or second end brings one back.         *)
THEOREM EndedFamiliesStayEnded == Spec => []FamilyInv
<1>1. Typed /\ Sealed => FamilyInv
  BY TypesAreTypeOK DEF Typed, Sealed, FamilyInv
<1> QED
  BY <1>1, StaffTypes, FamiliesSealed, PTL

-------------------------------------------------------------------------------
(* Replays.                                                                *)

(* Either script that ends a family finds it by this token.                *)
Known(f, t) == revoked[f] \/ t \in live[f] \cup used[f]

KnownNext(f, t) == revoked'[f] \/ t \in live'[f] \cup used'[f]

Checking == {"version", "look", "load", "fill", "accept"}

TokensKnown ==
    /\ \A f \in Families : jar[f] # 0 => Known(f, jar[f])
    /\ \A f \in Families : login[f] \in {"session", "index"} => Known(f, 1)
    /\ \A c \in Calls : UnderWay(c) /\ call[c].op # "api" => Known(Family(c), call[c].tok)
    /\ \A c \in Calls : UnderWay(c) /\ call[c].op = "refresh" /\ call[c].at \in Checking =>
           Known(Family(c), call[c].tok + 1)

LEMMA EmptyKnows ==
    ASSUME Types, NEW F, NEW given, Empty(F, given), UNCHANGED used,
           NEW f \in Families, NEW t, Known(f, t)
    PROVE  Known(f, t)'
BY DEF Types, FamilyTypes, Empty, Known

LEMMA KnownStays ==
    ASSUME Types, Sealed, [Next]_vars, NEW f \in Families, NEW t, Known(f, t)
    PROVE  Known(f, t)'
<1>0. CASE UNCHANGED <<live, used, revoked>>
  BY <1>0 DEF Known
<1>1. ASSUME NEW c \in Calls, Start(c) \/ Continue(c) \/ CallFault(c) PROVE Known(f, t)'
  <2>1. CASE Rotate(c) /\ UNCHANGED redis
    BY <1>0, <2>1 DEF redis
  <2>2. CASE Rotate(c) /\ ~UNCHANGED redis
    BY <2>2 DEF Rotate, Replace, Known, Types, FamilyTypes
  <2>3. CASE RevokeFamily(c)
    BY <1>0, <2>3, EmptyKnows DEF RevokeFamily, redis
  <2> QED
    BY <1>0, <1>1, <2>1, <2>2, <2>3, QuietSteps
<1>2. ASSUME NEW g \in Families, LoginStep(g) PROVE Known(f, t)'
  <2>1. CASE StoreRefresh(g)
    <3>1. g # f
      BY <2>1 DEF StoreRefresh, Sealed, Published, Known
    <3> QED
      BY <2>1, <3>1 DEF StoreRefresh, Known, Types, FamilyTypes
  <2>2. CASE ~StoreRefresh(g)
    BY <1>0, <1>2, <2>2 DEF LoginStep, Check, ExchangeCode, CodeLapses, StoreSession, IndexFamily, redis
  <2> QED
    BY <2>1, <2>2
<1>3. ASSUME NEW m \in Managers, WriterStep(m) PROVE Known(f, t)'
  BY <1>0, <1>3, WritersOfRows, EmptyKnows DEF RevokeAll
<1>4. CASE OtherWrite \/ (\E u \in Users, v \in Versions : CacheExpires(u, v)) \/ UNCHANGED vars
  BY <1>0, <1>4, CacheSteps
<1> QED
  BY <1>1, <1>2, <1>3, <1>4 DEF Next

(* Where a request may go from where it is.                                *)
LEMMA CallPath ==
    ASSUME Types, NEW c \in Calls, Continue(c) \/ CallFault(c)
    PROVE  /\ call[c] \in Requests
           /\ call[c].at = "revoke" => RevokeFamily(c) \/ RevokeFails(c)
           /\ call'[c].at \in Checking =>
                  \/ call[c].at \in {"version", "look", "load", "fill", "session"}
                  \/ Rotate(c) /\ call[c].tok + 1 \in live'[Family(c)]
           /\ call'[c].at \notin {"rotate", "session"}
           /\ call'[c].at = "idle" => Accept(c) \/ Refuse(c) \/ RevokeFails(c) \/ AnswerLost(c)
<1> USE DEF Types, CallTypes, Checking, Family
<1>1. call[c] \in Requests
  BY AtWork DEF Continue, CallFault, Rotate, RevokeFamily, FindSession, ReadVersion, LookInCache,
         Load, Fill, Accept, Refuse, RevokeFails, AnswerLost
<1>0. \A at \in Steps : Goes(c, at) => call'[c].at = at
  BY <1>1 DEF Goes, Requests
<1>2. CASE Rotate(c)
  <2>1. call[c].at = "rotate" /\ call[c].fam \in Families
    BY <1>1, <1>2 DEF Rotate, Requests
  <2>2. CASE Goes(c, "version") /\ Replace(call[c].fam, call[c].tok)
    <3>1. call'[c].at = "version"
      BY <1>0, <2>2 DEF Steps
    <3>2. call[c].tok + 1 \in live'[call[c].fam]
      BY <2>1, <2>2 DEF Replace, FamilyTypes
    <3> QED
      BY <1>1, <1>2, <2>1, <3>1, <3>2
  <2>3. CASE Goes(c, "revoke") \/ Goes(c, "refuse")
    <3>1. call'[c].at \in {"revoke", "refuse"}
      BY <1>0, <2>3 DEF Steps
    <3> QED
      BY <1>1, <2>1, <3>1
  <2> QED
    BY <1>1, <1>2, <2>2, <2>3 DEF Rotate
<1>3. CASE RevokeFamily(c)
  BY <1>0, <1>1, <1>3 DEF RevokeFamily, Steps
<1>4. CASE FindSession(c)
  BY <1>0, <1>1, <1>4 DEF FindSession, Steps
<1>5. CASE ReadVersion(c)
  <2>1. call'[c].at \in {"look", "load"} /\ call[c].at = "version"
    BY <1>0, <1>1, <1>5 DEF ReadVersion, Steps, Requests
  <2> QED
    BY <1>1, <2>1
<1>6. \A yes : Decide(c, yes) => call'[c].at \in {"accept", "refuse", "revoke"}
  BY <1>1 DEF Decide, Verdict, Requests
<1>7. CASE LookInCache(c) \/ Fill(c)
  <2>1. call'[c].at \in {"load", "accept", "refuse", "revoke"} /\ call[c].at \in {"look", "fill"}
    BY <1>0, <1>6, <1>7 DEF LookInCache, Fill, Steps
  <2> QED
    BY <1>1, <2>1
<1>8. CASE Load(c)
  <2>1. call'[c].at \in {"fill", "accept", "refuse", "revoke"} /\ call[c].at = "load"
    BY <1>1, <1>6, <1>8 DEF Load, Requests
  <2> QED
    BY <1>1, <2>1
<1>9. CASE Accept(c) \/ Refuse(c) \/ RevokeFails(c) \/ AnswerLost(c)
  <2>1. call'[c] = Idle
    BY <1>9, <1>1 DEF Accept, Refuse, RevokeFails, AnswerLost, Finish
  <2> QED
    BY <1>1, <1>9, <2>1 DEF Accept, Refuse, RevokeFails, AnswerLost, Idle
<1> QED
  BY <1>2, <1>3, <1>4, <1>5, <1>7, <1>8, <1>9 DEF Continue, CallFault

LEMMA TokensKnownHolds ==
    ASSUME Types, Asked, Sealed, TokensKnown, [Next]_vars
    PROVE  TokensKnown'
<1> USE DEF TokensKnown, UnderWay, Family
<1>0. /\ call \in [Calls -> Requests \cup {Idle}]
      /\ login \in [Families -> {"out", "code", "token", "session", "index", "in"}]
      /\ jar \in [Families -> Tokens]
  BY DEF Types, CallTypes, FamilyTypes
<1>1. \A f \in Families : \A t : Known(f, t) => KnownNext(f, t)
  BY KnownStays DEF Known, KnownNext
<1>2. ASSUME NEW c \in Calls, Start(c) PROVE TokensKnown'
  <2>1. PICK f \in Families : Refresh(c, f) \/ Logout(c, f) \/ UseApi(c, f)
    BY <1>2 DEF Start
  <2>2. /\ UNCHANGED <<login, jar>>
        /\ \A d \in Calls : d # c => call'[d] = call[d]
        /\ call'[c].fam = f /\ call'[c].at \in {"rotate", "revoke", "session"}
        /\ call'[c].op # "api" => call'[c].tok = jar[f] /\ jar[f] # 0
    BY <2>1, <1>0 DEF Refresh, Logout, UseApi, Begin
  <2>3. \A d \in Calls : call[d].at # "idle" => call[d].fam \in Families
    BY AtWork DEF Types, Requests
  <2>4. \A d \in Calls : call'[d].at # "idle" /\ call'[d].op # "api" => KnownNext(call'[d].fam, call'[d].tok)
    BY <1>1, <2>1, <2>2, <2>3
  <2>5. \A d \in Calls : call'[d].at # "idle" /\ call'[d].op = "refresh" /\ call'[d].at \in Checking
            => KnownNext(call'[d].fam, call'[d].tok + 1)
    BY <1>1, <2>2, <2>3 DEF Checking
  <2> QED
    BY <1>1, <2>2, <2>4, <2>5 DEF Known, KnownNext
<1>3. ASSUME NEW c \in Calls, Continue(c) \/ CallFault(c) PROVE TokensKnown'
  <2>1. call[c] \in Requests /\ call[c].fam \in Families
    BY <1>3, CallPath DEF Requests
  <2>2. login' = login
    BY <1>3, QuietSteps DEF Rotate, RevokeFamily, CallFrame
  <2>3. \A d \in Calls : call'[d].at # "idle" =>
            /\ call[d].at # "idle" /\ call[d].fam \in Families
            /\ call'[d].op = call[d].op /\ call'[d].fam = call[d].fam /\ call'[d].tok = call[d].tok
    <3>1. \A d \in Calls : call[d].at # "idle" => call[d].fam \in Families
      BY AtWork DEF Types, Requests
    <3> QED
      BY <1>0, <1>3, <3>1, CallsMove, AtWork DEF Moves, Idle, Types
  <2>4. \A d \in Calls : call'[d].at # "idle" /\ call'[d].op # "api" => KnownNext(call'[d].fam, call'[d].tok)
    BY <1>1, <2>3
  <2>5. call[c].op = "refresh" /\ call'[c].at \in Checking => KnownNext(call[c].fam, call[c].tok + 1)
    <3>1. CASE call[c].at \in {"version", "look", "load", "fill"}
      BY <1>1, <2>1, <3>1 DEF Checking
    <3>2. CASE call[c].at = "session"
      BY <3>2 DEF Asked
    <3>3. CASE call[c].tok + 1 \in live'[call[c].fam]
      BY <3>3 DEF KnownNext
    <3> QED
      BY <1>3, <3>1, <3>2, <3>3, CallPath
  <2>6. \A d \in Calls \ {c} : call'[d] = call[d]
    BY <1>0, <1>3, CallsMove DEF Moves
  <2>7. \A d \in Calls : call'[d].at # "idle" /\ call'[d].op = "refresh" /\ call'[d].at \in Checking
            => KnownNext(call'[d].fam, call'[d].tok + 1)
    BY <1>1, <2>3, <2>5, <2>6
  <2>8. \A f \in Families : jar'[f] # 0 => KnownNext(f, jar'[f])
    <3>1. CASE jar' = jar
      BY <1>1, <3>1
    <3>2. CASE Accept(c)
      <4>1. call[c].op # "api" => call[c].op = "refresh"
        BY <2>1, <3>2 DEF Accept, Asked, Requests
      <4>2. call[c].op = "refresh" => KnownNext(call[c].fam, call[c].tok + 1)
        BY <1>1, <2>1, <3>2 DEF Accept, Checking
      <4> QED
        BY <1>0, <1>1, <2>1, <3>2, <4>1, <4>2 DEF Accept
    <3>3. CASE Refuse(c)
      BY <1>0, <1>1, <3>3 DEF Refuse
    <3>4. jar' = jar \/ Accept(c) \/ Refuse(c)
      BY <1>3 DEF Continue, CallFault, FindSession, Rotate, RevokeFamily, RevokeFails, AnswerLost,
                  ReadVersion, LookInCache, Load, Fill, ActivityFrame
    <3> QED
      BY <3>1, <3>2, <3>3, <3>4
  <2> QED
    BY <1>1, <2>2, <2>4, <2>7, <2>8 DEF Known, KnownNext
<1>4. ASSUME NEW f \in Families, LoginStep(f) PROVE TokensKnown'
  <2>1. call' = call
    BY <1>4 DEF LoginStep, Check, ExchangeCode, CodeLapses, StoreRefresh, StoreSession, IndexFamily, LoginFrame
  <2>2. \A d \in Calls : call[d].at # "idle" => call[d].fam \in Families
    BY AtWork DEF Types, Requests
  <2>3. \A g \in Families : jar'[g] # 0 => KnownNext(g, jar'[g])
    <3>1. CASE IndexFamily(f)
      <4>1. Known(f, 1)
        BY <3>1 DEF IndexFamily
      <4> QED
        BY <1>0, <1>1, <3>1, <4>1 DEF IndexFamily
    <3>2. CASE ~IndexFamily(f)
      BY <1>1, <1>4, <3>2 DEF LoginStep, Check, ExchangeCode, CodeLapses, StoreRefresh, StoreSession
    <3> QED
      BY <3>1, <3>2
  <2>4. \A g \in Families : login'[g] \in {"session", "index"} => KnownNext(g, 1)
    <3>1. CASE StoreRefresh(f)
      <4>1. 1 \in live'[f]
        BY <3>1 DEF StoreRefresh, Types, FamilyTypes
      <4> QED
        BY <1>0, <1>1, <3>1, <4>1 DEF StoreRefresh, LoginGoes, KnownNext
    <3>2. CASE ~StoreRefresh(f)
      <4>1. login'[f] \in {"session", "index"} => login[f] \in {"session", "index"}
        BY <1>0, <1>4, <3>2 DEF LoginStep, Check, ExchangeCode, CodeLapses, StoreSession, IndexFamily, LoginGoes
      <4>2. \A g \in Families \ {f} : login'[g] = login[g]
        BY <1>0, <1>4 DEF LoginStep, Check, ExchangeCode, CodeLapses, StoreRefresh, StoreSession,
                          IndexFamily, LoginGoes
      <4> QED
        BY <1>1, <4>1, <4>2
    <3> QED
      BY <3>1, <3>2
  <2> QED
    BY <1>1, <2>1, <2>2, <2>3, <2>4 DEF Known, KnownNext
<1>5. CASE UNCHANGED <<login, jar, call>>
  <2>1. \A d \in Calls : call[d].at # "idle" => call[d].fam \in Families
    BY AtWork DEF Types, Requests
  <2> QED
    BY <1>1, <1>5, <2>1 DEF Known, KnownNext
<1> QED
  BY <1>2, <1>3, <1>4, <1>5, CacheSteps, WritersOfRows DEF Next

(* A refresh token presented twice ends its family, although the discovery *)
(* and the end are two calls to Redis and the family may be rotated, ended *)
(* or taken up by another request in between.                              *)
THEOREM ReplaysEndFamilies == Spec => []ReplayEndsFamily
<1>1. Init => TokensKnown /\ ReplayEndsFamily
  BY DEF Init, TokensKnown, ReplayEndsFamily, UnderWay, Idle
<1>2. Types /\ Asked /\ TokensKnown /\ ReplayEndsFamily /\ [Next]_vars => ReplayEndsFamily'
  <2> SUFFICES ASSUME Types, Asked, TokensKnown, ReplayEndsFamily, [Next]_vars PROVE ReplayEndsFamily'
    OBVIOUS
  <2> USE DEF ReplayEndsFamily
  <2>0. /\ call \in [Calls -> Requests \cup {Idle}] /\ revoked \in [Families -> BOOLEAN]
        /\ replayed \subseteq Families
    BY DEF Types, CallTypes, FamilyTypes, PastTypes
  <2>1. ASSUME NEW c \in Calls, Start(c) PROVE ReplayEndsFamily'
    <3>1. call[c].at = "idle" /\ \A d \in Calls \ {c} : call'[d] = call[d]
      BY <2>0, <2>1 DEF Start, Refresh, Logout, UseApi, Begin, Idle
    <3>2. UNCHANGED <<replayed, spared, revoked>>
      BY <2>1 DEF Start, Refresh, Logout, UseApi, Begin, history, redis
    <3> QED
      BY <3>1, <3>2
  <2>2. ASSUME NEW c \in Calls, Continue(c) \/ CallFault(c) PROVE ReplayEndsFamily'
    <3>1. call[c] \in Requests /\ call[c].fam \in Families
      BY <2>2, CallPath DEF Requests
    <3>2. \A d \in Calls \ {c} : call'[d] = call[d]
      BY <2>0, <2>2, CallsMove DEF Moves
    <3>3. CASE RevokeFamily(c)
      <4>1. Known(call[c].fam, call[c].tok)
        BY <3>1, <3>3 DEF RevokeFamily, TokensKnown, UnderWay, Family, Asked, Requests
      <4>2. \A f \in Families : revoked[f] => revoked'[f]
        BY <3>3 DEF RevokeFamily, Empty, redis
      <4>3. revoked'[call[c].fam]
        BY <2>0, <3>1, <3>3, <4>1, <4>2 DEF RevokeFamily, Empty, Known, redis
      <4>4. replayed' = replayed /\ spared' = spared
        BY <3>3 DEF RevokeFamily, history
      <4> QED
        BY <2>0, <3>2, <4>2, <4>3, <4>4
    <3>4. CASE RevokeFails(c)
      BY <3>1, <3>2, <3>4 DEF RevokeFails, CallFrame, redis
    <3>5. CASE Rotate(c)
      <4>1. revoked' = revoked /\ spared' = spared /\ call[c].at = "rotate"
        BY <3>5 DEF Rotate, redis
      <4>2. CASE replayed' = replayed
        BY <3>2, <4>1, <4>2
      <4>3. CASE replayed' = replayed \cup {call[c].fam} /\ Goes(c, "revoke")
        <5>1. call'[c].at = "revoke" /\ call'[c].fam = call[c].fam
          BY <2>0, <3>1, <4>3 DEF Goes, Requests
        <5> QED
          BY <3>2, <4>1, <4>3, <5>1
      <4> QED
        BY <3>5, <4>2, <4>3 DEF Rotate
    <3>6. CASE ~RevokeFamily(c) /\ ~RevokeFails(c) /\ ~Rotate(c)
      <4>1. call[c].at # "revoke" /\ revoked' = revoked
        BY <2>2, <3>6, CallPath, QuietSteps
      <4>2. replayed' = replayed /\ spared' = spared
        BY <2>2, <3>6 DEF Continue, CallFault, FindSession, Accept, Refuse, AnswerLost, history,
                          ReadVersion, LookInCache, Load, Fill, ActivityFrame
      <4> QED
        BY <3>2, <4>1, <4>2
    <3> QED
      BY <3>3, <3>4, <3>5, <3>6
  <2>3. ASSUME NEW f \in Families, LoginStep(f) PROVE ReplayEndsFamily'
    <3>1. UNCHANGED <<call, replayed, spared, revoked>>
      BY <2>3 DEF LoginStep, Check, ExchangeCode, CodeLapses, StoreRefresh, StoreSession, IndexFamily,
                  LoginFrame, history, redis
    <3> QED
      BY <3>1
  <2>4. ASSUME NEW m \in Managers, WriterStep(m) PROVE ReplayEndsFamily'
    <3>1. UNCHANGED <<call, replayed, spared>>
      BY <2>4, WritersOfRows
    <3>2. \A f \in Families : revoked[f] => revoked'[f]
      BY <2>4, WritersOfRows DEF RevokeAll, Empty
    <3> QED
      BY <2>0, <3>1, <3>2
  <2>5. CASE OtherWrite \/ (\E u \in Users, v \in Versions : CacheExpires(u, v)) \/ UNCHANGED vars
    BY <2>5, CacheSteps
  <2> QED
    BY <2>1, <2>2, <2>3, <2>4, <2>5 DEF Next
<1>3. Typed /\ Sealed /\ TokensKnown /\ [Next]_vars => TokensKnown'
  BY TokensKnownHolds DEF Typed
<1> QED
  BY <1>1, <1>2, <1>3, StaffTypes, FamiliesSealed, PTL DEF Spec, Typed

-------------------------------------------------------------------------------
(* What an end of all sessions misses.                                     *)

(* A login under way belongs to an active person or is known to straddle   *)
(* the deactivation, and one that was answered is in the index.            *)
Straddlers ==
    /\ \A u \in ended : ~active[u]
    /\ \A f \in InLogin : ~active[OwnerOf[f]] => f \in straddling
    /\ \A f \in Families : login[f] = "in" /\ session[f] => f \in index

Reached == Straddlers /\ OnlyStraddlersSurvive

LEMMA ReachedHolds ==
    ASSUME Types, Published, Reached, [Next]_vars
    PROVE  Reached'
<1> USE DEF Reached, Straddlers, OnlyStraddlersSurvive, InLogin
<1>0. /\ login \in [Families -> {"out", "code", "token", "session", "index", "in"}]
      /\ session \in [Families -> BOOLEAN] /\ active \in [Users -> BOOLEAN]
      /\ \A f \in Families : OwnerOf[f] \in Users
      /\ \A f \in Families : login[f] \in {"out", "code", "token", "session"} => ~session[f]
      /\ ended \subseteq Users /\ straddling \subseteq Families
  BY DEF Types, FamilyTypes, UserTypes, PastTypes, Published
<1>1. ASSUME UNCHANGED <<active, login, ended, straddling>>, index \subseteq index',
             \A f \in Families : session'[f] => session[f]
      PROVE  Reached'
  BY <1>0, <1>1
<1>2. ASSUME NEW c \in Calls, Start(c) \/ Continue(c) \/ CallFault(c) PROVE Reached'
  <2>1. UNCHANGED <<active, login, ended, straddling>>
    <3>1. CASE Start(c)
      BY <3>1 DEF Start, Refresh, Logout, UseApi, Begin, presence
    <3>2. CASE CallFault(c) \/ FindSession(c) \/ Accept(c) \/ Refuse(c) \/ Rotate(c) \/ RevokeFamily(c)
      BY <3>2 DEF CallFault, RevokeFails, AnswerLost, FindSession, Accept, Refuse, Rotate,
                  RevokeFamily, CallFrame, presence
    <3>3. CASE ReadVersion(c) \/ LookInCache(c) \/ Load(c) \/ Fill(c)
      BY <3>3 DEF ReadVersion, LookInCache, Load, Fill, ActivityFrame, CallFrame, presence
    <3> QED
      BY <1>2, <3>1, <3>2, <3>3 DEF Continue
  <2>2. CASE Rotate(c)
    BY <1>1, <2>1, <2>2 DEF Rotate, redis
  <2>3. CASE RevokeFamily(c)
    BY <1>1, <2>1, <2>3 DEF RevokeFamily, Empty, redis
  <2> QED
    BY <1>1, <1>2, <2>1, <2>2, <2>3, QuietSteps
<1>3. ASSUME NEW f \in Families, LoginStep(f) PROVE Reached'
  <2>1. UNCHANGED <<active, ended, straddling>>
    BY <1>3 DEF LoginStep, Check, ExchangeCode, CodeLapses, StoreRefresh, StoreSession,
                IndexFamily, LoginFrame, presence
  <2>2. PICK place \in {"out", "code", "token", "session", "index", "in"} :
            /\ login' = [login EXCEPT ![f] = place]
            /\ place \in {"code", "token", "session", "index"} =>
                   active[OwnerOf[f]] \/ f \in InLogin
    BY <1>3, <1>0 DEF LoginStep, Check, ExchangeCode, CodeLapses, StoreRefresh, StoreSession,
                      IndexFamily, LoginGoes
  <2>3. \A g \in InLogin' : ~active'[OwnerOf[g]] => g \in straddling'
    BY <1>0, <2>1, <2>2
  <2>4. CASE Check(f) \/ ExchangeCode(f) \/ CodeLapses(f) \/ StoreRefresh(f)
    <3>1. session' = session /\ index' = index /\ login'[f] # "in"
      BY <1>0, <2>4 DEF Check, ExchangeCode, CodeLapses, StoreRefresh, LoginGoes, redis
    <3> QED
      BY <1>0, <2>1, <2>2, <2>3, <3>1
  <2>5. CASE StoreSession(f)
    <3>1. session' = [session EXCEPT ![f] = TRUE] /\ index' = index /\ login'[f] = "index"
      BY <1>0, <2>5 DEF StoreSession, LoginGoes
    <3>2. \A g \in Families \ {f} : session'[g] = session[g] /\ login'[g] = login[g]
      BY <1>0, <2>2, <3>1
    <3>3. OwnerOf[f] \in ended => f \in straddling
      BY <1>0, <2>5 DEF StoreSession
    <3> QED
      BY <1>0, <2>1, <2>3, <3>1, <3>2, <3>3
  <2>6. CASE IndexFamily(f)
    <3>1. session' = session /\ index' = index \cup {f}
      BY <2>6 DEF IndexFamily
    <3> QED
      BY <1>0, <2>1, <2>2, <2>3, <3>1
  <2> QED
    BY <1>3, <2>4, <2>5, <2>6 DEF LoginStep
<1>4. ASSUME NEW m \in Managers, NEW u \in Users, NEW to \in BOOLEAN, Commit(m, u, to) PROVE Reached'
  <2>1. /\ active' = [active EXCEPT ![u] = to]
        /\ UNCHANGED <<login, session, index>>
    BY <1>4 DEF Commit, WriteFrame, redis
  <2>2. CASE to
    <3>1. ended' = ended \ {u} /\ straddling' = straddling
      BY <1>4, <2>2 DEF Commit
    <3> QED
      BY <1>0, <2>1, <2>2, <3>1
  <2>3. CASE ~to /\ ~active[u]
    <3>1. ended' = ended /\ straddling' = straddling
      BY <1>4, <2>3 DEF Commit
    <3> QED
      BY <1>0, <2>1, <2>3, <3>1
  <2>4. CASE ~to /\ active[u]
    <3>1. /\ ended' = ended
          /\ straddling' = {f \in InLogin : OwnerOf[f] = u} \cup {f \in straddling : OwnerOf[f] # u}
      BY <1>4, <2>4 DEF Commit
    <3>2. u \notin ended
      BY <2>4
    <3>3. \A f \in InLogin : ~active'[OwnerOf[f]] => f \in straddling'
      BY <1>0, <2>1, <3>1
    <3>4. \A f \in Families : OwnerOf[f] \in ended' /\ session'[f] => f \in straddling'
      BY <1>0, <2>1, <3>1, <3>2
    <3> QED
      BY <1>0, <2>1, <2>4, <3>1, <3>3, <3>4
  <2> QED
    BY <2>2, <2>3, <2>4
<1>5. ASSUME NEW m \in Managers, RevokeAll(m) PROVE Reached'
  <2> DEFINE u == writer[m].user
  <2>1. /\ UNCHANGED <<active, login, straddling>>
        /\ session' = [f \in Families |-> session[f] /\ f \notin Indexed(u)]
        /\ index' = {f \in index : OwnerOf[f] # u}
        /\ ended' \subseteq ended \cup {u} /\ (active[u] => ended' = ended)
    BY <1>5 DEF RevokeAll, Empty, WriteFrame
  <2>2. \A f \in Families : OwnerOf[f] = u /\ session'[f] => f \notin index /\ session[f]
    BY <2>1 DEF Indexed
  <2>3. \A f \in Families : session'[f] => session[f]
    BY <2>1
  <2>4. \A f \in Families : OwnerOf[f] = u /\ session'[f] => f \in InLogin
    BY <1>0, <2>2
  <2>5. \A f \in Families : OwnerOf[f] \in ended' /\ session'[f] => f \in straddling'
    BY <1>0, <2>1, <2>3, <2>4
  <2>6. \A f \in Families : login'[f] = "in" /\ session'[f] => f \in index'
    BY <2>1, <2>2, <2>3
  <2>7. \A v \in ended' : ~active'[v]
    BY <2>1
  <2> QED
    BY <2>1, <2>5, <2>6, <2>7
<1>6. ASSUME NEW m \in Managers, Bump(m) \/ BumpFails(m) \/ RevokeAllFails(m) PROVE Reached'
  BY <1>1, <1>6 DEF Bump, BumpFails, RevokeAllFails, WriteFrame, presence, redis
<1>7. CASE OtherWrite \/ (\E u \in Users, v \in Versions : CacheExpires(u, v)) \/ UNCHANGED vars
  BY <1>1, <1>7, CacheSteps
<1> QED
  BY <1>2, <1>3, <1>4, <1>5, <1>6, <1>7 DEF Next, WriterStep

(* An end of all sessions misses only logins that had passed their check   *)
(* when the person was deactivated.                                        *)
THEOREM OnlyLateLoginsSurvive == Spec => []OnlyStraddlersSurvive
<1>1. Init => Reached
  BY DEF Init, Reached, Straddlers, OnlyStraddlersSurvive, InLogin
<1>2. Typed /\ Sealed /\ Reached /\ [Next]_vars => Reached'
  BY ReachedHolds DEF Typed, Sealed
<1>3. Reached => OnlyStraddlersSurvive
  BY DEF Reached
<1> QED
  BY <1>1, <1>2, <1>3, StaffTypes, FamiliesSealed, PTL DEF Spec

-------------------------------------------------------------------------------
(* The activity cache.                                                     *)

(* Nothing is stored under a version to come, and a request that read the  *)
(* version of now read the row of now.                                     *)
ReadsKnow ==
    /\ \A u \in Users, v \in Versions : v > version => cached[u][v] = "none"
    /\ \A c \in Calls : UnderWay(c) => call[c].ver <= version
    /\ \A c \in Calls : UnderWay(c) /\ call[c].at \in {"look", "fill"} => call[c].ver \in Versions
    /\ \A c \in Calls : UnderWay(c) /\ call[c].at = "fill" /\ call[c].ver = version
                        /\ User(c) \notin unannounced => call[c].seen = active[User(c)]

Fresh == ReadsKnow /\ CacheIsFresh

(* A change of the database or of the version, for both proofs below.      *)
LEMMA WritersOfCache ==
    ASSUME Types, OtherWrite \/ \E m \in Managers : WriterStep(m)
    PROVE  /\ cached' = cached /\ call' = call
           /\ \/ /\ version' = version /\ unannounced \subseteq unannounced'
                 /\ \A u \in Users \ unannounced' : active'[u] = active[u]
              \/ version' = version + 1 /\ unannounced' = {} /\ active' = active
<1> USE DEF Types, UserTypes
<1>1. CASE OtherWrite
  BY <1>1 DEF OtherWrite, Announce, WriteFrame
<1>2. ASSUME NEW m \in Managers, NEW u \in Users, NEW to \in BOOLEAN, Commit(m, u, to)
      PROVE  /\ cached' = cached /\ call' = call
             /\ version' = version /\ unannounced \subseteq unannounced'
             /\ \A w \in Users \ unannounced' : active'[w] = active[w]
  BY <1>2 DEF Commit, WriteFrame
<1>3. ASSUME NEW m \in Managers, Bump(m)
      PROVE  /\ cached' = cached /\ call' = call
             /\ version' = version + 1 /\ unannounced' = {} /\ active' = active
  BY <1>3 DEF Bump, Announce, WriteFrame
<1>4. ASSUME NEW m \in Managers, BumpFails(m) \/ RevokeAll(m) \/ RevokeAllFails(m)
      PROVE  UNCHANGED <<cached, call, version, unannounced, active>>
  BY <1>4 DEF BumpFails, RevokeAll, RevokeAllFails, WriteFrame, presence
<1> QED
  BY <1>1, <1>2, <1>3, <1>4 DEF WriterStep

LEMMA CallsReadRows ==
    ASSUME NEW c \in Calls, Start(c) \/ Continue(c) \/ CallFault(c)
    PROVE  /\ UNCHANGED <<version, active, unannounced>>
           /\ Fill(c) \/ cached' = cached
<1>1. CASE Start(c)
  BY <1>1 DEF Start, Refresh, Logout, UseApi, Begin, presence
<1>2. CASE CallFault(c) \/ FindSession(c) \/ Accept(c) \/ Refuse(c) \/ Rotate(c) \/ RevokeFamily(c)
  BY <1>2 DEF CallFault, RevokeFails, AnswerLost, FindSession, Accept, Refuse, Rotate, RevokeFamily,
              CallFrame, presence
<1>3. CASE ReadVersion(c) \/ LookInCache(c) \/ Load(c) \/ Fill(c)
  BY <1>3 DEF ReadVersion, LookInCache, Load, Fill, ActivityFrame, CallFrame, presence
<1> QED
  BY <1>1, <1>2, <1>3 DEF Continue

(* What a request has read after its next step.                            *)
LEMMA CallReads ==
    ASSUME Types, Fresh, NEW c \in Calls, Continue(c) \/ CallFault(c)
    PROVE  call'[c].at # "idle" =>
               /\ call'[c].ver <= version
               /\ call'[c].at \in {"look", "fill"} => call'[c].ver \in Versions
               /\ call'[c].at = "fill" => Load(c) /\ call'[c].seen = active[User(c)]
<1> USE DEF Types, CallTypes, UserTypes, Fresh, ReadsKnow, UnderWay
<1>1. call[c] \in Requests
  BY CallPath
<1>0. /\ \A at \in Steps : Goes(c, at) => call'[c] = [call[c] EXCEPT !.at = at]
      /\ call[c].ver <= version
  BY <1>1, AtWork DEF Goes
<1>2. CASE Rotate(c) \/ RevokeFamily(c) \/ FindSession(c)
  <2>1. PICK at \in {"version", "revoke", "refuse"} : Goes(c, at)
    BY <1>2 DEF Rotate, RevokeFamily, FindSession
  <2>2. call[c].at # "idle"
    BY <1>2 DEF Rotate, RevokeFamily, FindSession
  <2>3. call'[c].at = at /\ call'[c].ver = call[c].ver
    BY <1>0, <1>1, <2>1 DEF Requests, Steps
  <2> QED
    BY <1>0, <2>1, <2>2, <2>3
<1>3. CASE ReadVersion(c)
  <2>1. call[c].at # "idle" /\ version \in Nat
    BY <1>3 DEF ReadVersion, Versions
  <2>2. CASE call' = [call EXCEPT ![c].at = "look", ![c].ver = version]
    <3>1. call'[c].at = "look" /\ call'[c].ver = version
      BY <1>1, <2>2 DEF Requests
    <3> QED
      BY <2>1, <3>1
  <2>3. CASE Goes(c, "load")
    <3>1. call'[c].at = "load" /\ call'[c].ver = call[c].ver
      BY <1>0, <1>1, <2>3 DEF Requests, Steps
    <3> QED
      BY <1>0, <2>1, <3>1
  <2> QED
    BY <1>3, <2>2, <2>3 DEF ReadVersion
<1>4. ASSUME NEW yes, Decide(c, yes)
      PROVE  call'[c].at \in {"accept", "refuse", "revoke"} /\ call'[c].ver = NoVersion
  BY <1>1, <1>4 DEF Decide, Verdict, Requests
<1>5. version \in Nat /\ NoVersion <= version
  BY DEF Versions, NoVersion
<1>6. CASE LookInCache(c) \/ Fill(c)
  <2>1. call[c].at # "idle"
    BY <1>6 DEF LookInCache, Fill
  <2>2. CASE Goes(c, "load")
    <3>1. call'[c].at = "load" /\ call'[c].ver = call[c].ver
      BY <1>0, <1>1, <2>2 DEF Requests, Steps
    <3> QED
      BY <1>0, <2>1, <3>1
  <2>3. CASE \E yes : Decide(c, yes)
    BY <1>4, <1>5, <2>3
  <2> QED
    BY <1>6, <2>2, <2>3 DEF LookInCache, Fill
<1>7. CASE Load(c)
  <2>1. call[c].at # "idle"
    BY <1>7 DEF Load
  <2>2. CASE call[c].ver # NoVersion
    <3>1. call'[c] = [call[c] EXCEPT !.at = "fill", !.seen = active[User(c)]]
      BY <1>1, <1>7, <2>2 DEF Load
    <3>2. /\ call'[c].at = "fill" /\ call'[c].ver = call[c].ver
          /\ call'[c].seen = active[User(c)] /\ call[c].ver \in Versions
      BY <1>1, <2>2, <3>1 DEF Requests
    <3> QED
      BY <1>0, <1>7, <2>1, <3>2
  <2>3. CASE Decide(c, active[User(c)])
    BY <1>4, <1>5, <2>3
  <2> QED
    BY <1>7, <2>2, <2>3 DEF Load
<1>8. CASE Accept(c) \/ Refuse(c) \/ RevokeFails(c) \/ AnswerLost(c)
  BY <1>8 DEF Accept, Refuse, RevokeFails, AnswerLost, Finish, Idle
<1> QED
  BY <1>2, <1>3, <1>6, <1>7, <1>8 DEF Continue, CallFault

LEMMA VersionsAreIntegers ==
    ASSUME Types
    PROVE  \A d \in Calls : call[d].at # "idle" => call[d].ver \in Int
<1>1. \A d \in Calls : call[d].at # "idle" => call[d].ver \in Versions \cup {NoVersion}
  BY AtWork DEF Types, Requests
<1>2. Versions \cup {NoVersion} \subseteq Int
  BY DEF Versions, NoVersion
<1> QED
  BY <1>1, <1>2

LEMMA FreshHolds ==
    ASSUME Types, Room, Fresh, [Next]_vars
    PROVE  Fresh'
<1> USE DEF Fresh, ReadsKnow, CacheIsFresh, UnderWay, User
<1>0. /\ call \in [Calls -> Requests \cup {Idle}] /\ active \in [Users -> BOOLEAN]
      /\ version \in Versions /\ Versions \subseteq Nat
      /\ cached \in [Users -> [Versions -> {"none", "yes", "no"}]]
      /\ \A d \in Calls : call[d].at # "idle" => call[d] \in Requests /\ OwnerOf[call[d].fam] \in Users
  BY AtWork DEF Types, CallTypes, UserTypes, Versions, Requests
<1>1. ASSUME NEW c \in Calls, Start(c) PROVE Fresh'
  <2>1. /\ \A d \in Calls \ {c} : call'[d] = call[d]
        /\ call'[c].ver = NoVersion /\ call'[c].at \in {"rotate", "revoke", "session"}
    BY <1>0, <1>1 DEF Start, Refresh, Logout, UseApi, Begin
  <2>2. UNCHANGED <<version, active, unannounced, cached>>
    BY <1>1, CallsReadRows DEF Fill, Start, Refresh, Logout, UseApi, Begin
  <2>3. NoVersion <= version
    BY <1>0 DEF NoVersion
  <2>4. \A d \in Calls : call'[d].at # "idle" => call'[d].ver <= version
    BY <2>1, <2>3
  <2>5. \A d \in Calls : call'[d].at \in {"look", "fill"} => call'[d] = call[d]
    BY <2>1
  <2> QED
    BY <2>2, <2>4, <2>5
<1>2. ASSUME NEW c \in Calls, Continue(c) \/ CallFault(c) PROVE Fresh'
  <2>1. \A d \in Calls \ {c} : call'[d] = call[d]
    BY <1>0, <1>2, CallsMove DEF Moves
  <2>2. UNCHANGED <<version, active, unannounced>> /\ (Fill(c) \/ cached' = cached)
    BY <1>2, CallsReadRows
  <2>3. call'[c].at # "idle" => call[c].at # "idle" /\ call'[c].fam = call[c].fam
    BY <1>2, CallsMove, AtWork DEF Moves, Idle, Types
  <2>4. call'[c].at # "idle" =>
               /\ call'[c].ver <= version
               /\ call'[c].at \in {"look", "fill"} => call'[c].ver \in Versions
               /\ call'[c].at = "fill" => call'[c].seen = active[User(c)]
    BY <1>2, CallReads
  <2>5. CASE cached' = cached
    BY <2>1, <2>2, <2>3, <2>4, <2>5
  <2>6. CASE Fill(c) /\ cached' # cached
    <3> DEFINE u == OwnerOf[call[c].fam]
               w == call[c].ver
    <3>1. call[c].at = "fill" /\ Store(c, w)
      BY <2>6 DEF Fill
    <3>2. u \in Users /\ w \in Versions /\ w <= version
      BY <1>0, <3>1
    <3>3. cached'[u][w] = IF call[c].seen THEN "yes" ELSE "no"
      BY <1>0, <3>1, <3>2 DEF Store
    <3>4. \A x \in Users, v \in Versions : <<x, v>> # <<u, w>> => cached'[x][v] = cached[x][v]
      BY <1>0, <3>1, <3>2 DEF Store
    <3>5. \A x \in Users, v \in Versions : v > version => cached'[x][v] = "none"
      BY <1>0, <3>2, <3>4
    <3>6. u \notin unannounced /\ w = version => call[c].seen = active[u]
      BY <3>1
    <3>7. \A x \in Users \ unannounced :
              cached'[x][version] \in {"none", IF active[x] THEN "yes" ELSE "no"}
      BY <1>0, <3>2, <3>3, <3>4, <3>6
    <3> QED
      BY <2>1, <2>2, <2>3, <2>4, <3>5, <3>7
  <2> QED
    BY <2>2, <2>5, <2>6
<1>3. CASE OtherWrite \/ \E m \in Managers : WriterStep(m)
  <2>1. /\ cached' = cached /\ call' = call
        /\ \/ /\ version' = version /\ unannounced \subseteq unannounced'
              /\ \A u \in Users \ unannounced' : active'[u] = active[u]
           \/ version' = version + 1 /\ unannounced' = {} /\ active' = active
    BY <1>3, WritersOfCache
  <2>2. CASE version' = version
    BY <1>0, <2>1, <2>2
  <2>3. CASE version' = version + 1
    <3>1. version' \in Versions /\ version' > version
      BY <1>0, <2>3, UserTypesHold DEF UserTypes
    <3>2. \A u \in Users : cached[u][version'] = "none"
      BY <1>0, <3>1
    <3>3. \A u \in Users, v \in Versions : v > version' => cached[u][v] = "none"
      BY <1>0, <3>1
    <3>4. \A d \in Calls : call[d].at # "idle" => call[d].ver <= version' /\ call[d].ver # version'
      <4>1. \A d \in Calls : call[d].at # "idle" => call[d].ver \in Int
        BY VersionsAreIntegers
      <4> QED
        BY <1>0, <2>3, <4>1
    <3> QED
      BY <2>1, <2>3, <3>2, <3>3, <3>4
  <2> QED
    BY <2>1, <2>2, <2>3
<1>4. ASSUME NEW u \in Users, NEW v \in Versions, CacheExpires(u, v) PROVE Fresh'
  <2>1. UNCHANGED <<call, version, active, unannounced>>
    BY <1>4 DEF CacheExpires, presence
  <2>2. \A x \in Users, w \in Versions : cached'[x][w] \in {"none", cached[x][w]}
    BY <1>0, <1>4 DEF CacheExpires
  <2> QED
    BY <1>0, <2>1, <2>2
<1>5. ASSUME NEW f \in Families, LoginStep(f) PROVE Fresh'
  <2>1. UNCHANGED <<call, version, active, unannounced, cached>>
    BY <1>5 DEF LoginStep, Check, ExchangeCode, CodeLapses, StoreRefresh, StoreSession, IndexFamily,
                LoginFrame, presence
  <2> QED
    BY <2>1
<1>6. CASE UNCHANGED vars
  BY <1>6 DEF vars, presence
<1> QED
  BY <1>1, <1>2, <1>3, <1>4, <1>5, <1>6 DEF Next

LEMMA StaysFresh == Spec => []Fresh
<1>1. Init => Fresh
  <2> SUFFICES ASSUME Init PROVE Fresh
    OBVIOUS
  <2>1. 0 \in Versions /\ version = 0 /\ \A u \in Users, v \in Versions : cached[u][v] = "none"
    BY DEF Init, Versions
  <2>2. \A c \in Calls : call[c].at = "idle"
    BY DEF Init, Idle
  <2> QED
    BY <2>1, <2>2 DEF Fresh, ReadsKnow, CacheIsFresh, UnderWay
<1>2. Typed /\ Fresh /\ [Next]_vars => Fresh'
  BY FreshHolds DEF Typed
<1> QED
  BY <1>1, <1>2, StaffTypes, PTL DEF Spec

(* The cache under a current version is never behind the database once the *)
(* last change was announced, whatever slow readers store and when.        *)
THEOREM CacheStaysFresh == Spec => []CacheIsFresh
<1>1. Fresh => CacheIsFresh
  BY DEF Fresh
<1> QED
  BY <1>1, StaysFresh, PTL

-------------------------------------------------------------------------------
(* A deactivated person.                                                   *)

(* No yes is stored for u under version v, or about to be.                 *)
NoYes(u, v) ==
    /\ cached[u][v] # "yes"
    /\ \A d \in Calls : UnderWay(d) /\ User(d) = u /\ call[d].at = "fill" /\ call[d].ver = v
           => ~call[d].seen

NoYesNext(u, v) ==
    /\ cached'[u][v] # "yes"
    /\ \A d \in Calls : UnderWay(d)' /\ User(d)' = u /\ call'[d].at = "fill" /\ call'[d].ver = v
           => ~call'[d].seen

BarredOut ==
    \A c \in barred :
        /\ UnderWay(c) /\ ~active[User(c)] /\ call[c].at # "accept"
        /\ NoYes(User(c), version)
        /\ call[c].ver # NoVersion => NoYes(User(c), call[c].ver)

LEMMA CallsLeaveNoYes ==
    ASSUME Types, Fresh, NEW c \in Calls, Start(c) \/ Continue(c) \/ CallFault(c),
           NEW u \in Users, ~active[u], NEW v \in Versions, NoYes(u, v)
    PROVE  NoYesNext(u, v)
<1> USE DEF NoYes, NoYesNext, UnderWay, User
<1>0. /\ call \in [Calls -> Requests \cup {Idle}]
      /\ cached \in [Users -> [Versions -> {"none", "yes", "no"}]]
      /\ \A d \in Calls : call[d].at # "idle" => call[d] \in Requests /\ OwnerOf[call[d].fam] \in Users
  BY AtWork DEF Types, CallTypes, UserTypes, Requests
<1>1. cached'[u][v] # "yes"
  <2>1. CASE Fill(c)
    <3>1. call[c].at = "fill" /\ (cached' = cached \/ Store(c, call[c].ver))
      BY <2>1 DEF Fill
    <3>2. call[c].ver \in Versions
      BY <3>1 DEF Fresh, ReadsKnow
    <3> QED
      BY <1>0, <3>1, <3>2 DEF Store
  <2> QED
    BY <2>1, CallsReadRows
<1>2. \A d \in Calls \ {c} : call'[d] = call[d]
  <2>1. CASE Start(c)
    BY <1>0, <2>1 DEF Start, Refresh, Logout, UseApi, Begin
  <2> QED
    BY <1>0, <2>1, CallsMove DEF Moves
<1>3. call'[c].at = "fill" => call'[c].fam = call[c].fam /\ call'[c].seen = active[User(c)]
  <2>1. CASE Start(c)
    BY <1>0, <2>1 DEF Start, Refresh, Logout, UseApi, Begin
  <2> QED
    BY <2>1, CallsMove, CallReads DEF Moves, Idle
<1> QED
  BY <1>1, <1>2, <1>3

(* An answer under way never turns into a yes.                             *)
LEMMA BarredNeverPass ==
    ASSUME Types, Fresh, BarredOut, NEW c \in barred, c \in Calls, Continue(c) \/ CallFault(c)
    PROVE  call'[c].at # "accept" /\ (call'[c].at # "idle" =>
               call'[c].ver \in {NoVersion, version, call[c].ver})
<1> USE DEF BarredOut, NoYes, UnderWay
<1>0. call[c] \in Requests /\ call \in [Calls -> Requests \cup {Idle}]
  BY CallPath DEF Types, CallTypes
<1>1. /\ ~active[User(c)] /\ call[c].at # "accept"
      /\ call[c].ver # NoVersion => cached[User(c)][call[c].ver] # "yes"
      /\ call[c].at = "fill" => ~call[c].seen
      /\ call[c].at = "look" => call[c].ver # NoVersion
  <2>1. call[c].at \in {"look", "fill"} => call[c].ver # NoVersion
    BY DEF Fresh, ReadsKnow, Versions, NoVersion
  <2> QED
    BY <2>1
<1>2. ASSUME NEW at \in Steps, Goes(c, at) PROVE call'[c].at = at /\ call'[c].ver = call[c].ver
  BY <1>0, <1>2 DEF Goes, Requests
<1>3. ASSUME NEW yes, Decide(c, yes), ~yes
      PROVE  call'[c].at \in {"refuse", "revoke"} /\ call'[c].ver = NoVersion
  BY <1>0, <1>3 DEF Decide, Verdict, Requests
<1>4. CASE Rotate(c) \/ RevokeFamily(c) \/ FindSession(c)
  <2>1. PICK at \in {"version", "revoke", "refuse"} : Goes(c, at)
    BY <1>4 DEF Rotate, RevokeFamily, FindSession
  <2> QED
    BY <1>2, <2>1 DEF Steps
<1>5. CASE ReadVersion(c)
  <2>1. CASE Goes(c, "load")
    BY <1>2, <2>1 DEF Steps
  <2>2. CASE call' = [call EXCEPT ![c].at = "look", ![c].ver = version]
    <3>1. call'[c].at = "look" /\ call'[c].ver = version
      BY <1>0, <2>2 DEF Requests
    <3> QED
      BY <3>1
  <2> QED
    BY <1>5, <2>1, <2>2 DEF ReadVersion
<1>6. CASE LookInCache(c)
  <2>1. CASE Goes(c, "load")
    BY <1>2, <2>1 DEF Steps
  <2>2. CASE Decide(c, cached[User(c)][call[c].ver] = "yes")
    <3>1. ~(cached[User(c)][call[c].ver] = "yes")
      BY <1>1, <1>6 DEF LookInCache
    <3> QED
      BY <1>3, <2>2, <3>1
  <2> QED
    BY <1>6, <2>1, <2>2 DEF LookInCache
<1>7. CASE Load(c)
  <2>1. CASE call[c].ver = NoVersion
    BY <1>1, <1>3, <1>7, <2>1 DEF Load
  <2>2. CASE call[c].ver # NoVersion
    BY <1>0, <1>7, <2>2 DEF Load, Requests
  <2> QED
    BY <2>1, <2>2
<1>8. CASE Fill(c)
  BY <1>1, <1>3, <1>8 DEF Fill
<1>9. CASE Accept(c) \/ Refuse(c) \/ RevokeFails(c) \/ AnswerLost(c)
  BY <1>9, <1>0 DEF Accept, Refuse, RevokeFails, AnswerLost, Finish, Idle
<1> QED
  BY <1>4, <1>5, <1>6, <1>7, <1>8, <1>9 DEF Continue, CallFault

LEMMA BarredHolds ==
    ASSUME Types, Room, Fresh, BarredOut, [Next]_vars
    PROVE  BarredOut'
<1>0. /\ call \in [Calls -> Requests \cup {Idle}] /\ active \in [Users -> BOOLEAN]
      /\ version \in Versions /\ barred \subseteq Calls
      /\ \A d \in Calls : call[d].at # "idle" =>
             /\ call[d] \in Requests /\ User(d) \in Users
             /\ call[d].ver \in Versions \cup {NoVersion}
  BY AtWork DEF Types, CallTypes, UserTypes, Requests, User
<1>1. ASSUME UNCHANGED <<call, version, active>>, barred' \subseteq barred,
             \A u \in Users, v \in Versions : cached'[u][v] \in {"none", cached[u][v]}
      PROVE  BarredOut'
  BY <1>0, <1>1 DEF BarredOut, NoYes, UnderWay, User
<1>2. ASSUME NEW c \in Calls, Start(c) PROVE BarredOut'
  <2>1. PICK f \in Families, op \in {"refresh", "logout", "api"}, at \in {"rotate", "revoke", "session"} :
            Begin(c, op, f, at)
    BY <1>2 DEF Start, Refresh, Logout, UseApi
  <2>2. /\ call[c].at = "idle" /\ \A d \in Calls \ {c} : call'[d] = call[d]
        /\ call'[c].at = at /\ call'[c].fam = f /\ call'[c].ver = NoVersion
        /\ UNCHANGED <<version, cached, active, unannounced>>
    BY <1>0, <2>1 DEF Begin, Idle, presence
  <2>3. \A u \in Users, v \in Versions : ~active[u] /\ NoYes(u, v) => NoYesNext(u, v)
    BY <1>2, CallsLeaveNoYes
  <2>4. c \in barred' => ~active[OwnerOf[f]] /\ OwnerOf[f] \notin unannounced
    BY <2>1, <2>2 DEF Begin, BarredOut, UnderWay
  <2>5. OwnerOf[f] \notin unannounced /\ ~active[OwnerOf[f]] => NoYes(OwnerOf[f], version)
    BY <1>0 DEF Fresh, ReadsKnow, CacheIsFresh, NoYes
  <2>6. barred' \subseteq barred \cup {c}
    BY <2>1 DEF Begin
  <2> QED
    BY <1>0, <2>2, <2>3, <2>4, <2>5, <2>6 DEF BarredOut, NoYes, NoYesNext, UnderWay, User
<1>3. ASSUME NEW c \in Calls, Continue(c) \/ CallFault(c) PROVE BarredOut'
  <2>1. \A d \in Calls \ {c} : call'[d] = call[d]
    BY <1>0, <1>3, CallsMove DEF Moves
  <2>2. UNCHANGED <<version, active>>
    BY <1>3, CallsReadRows
  <2>3. \A u \in Users, v \in Versions : ~active[u] /\ NoYes(u, v) => NoYesNext(u, v)
    BY <1>3, CallsLeaveNoYes
  <2>4. barred' \subseteq barred /\ (c \in barred' => call'[c].at # "idle")
    <3>1. CASE Accept(c) \/ Refuse(c) \/ CallFault(c)
      BY <3>1 DEF Accept, Refuse, CallFault, RevokeFails, AnswerLost, Finish
    <3>2. CASE ~Accept(c) /\ ~Refuse(c) /\ ~CallFault(c)
      <4>1. barred' = barred
        BY <1>3, <3>2 DEF Continue, Rotate, RevokeFamily, FindSession, ReadVersion, LookInCache,
                          Load, Fill, ActivityFrame
      <4>2. call'[c].at # "idle"
        BY <1>3, <3>2, CallPath DEF CallFault
      <4> QED
        BY <4>1, <4>2
    <3> QED
      BY <3>1, <3>2
  <2>5. call'[c].at # "idle" => call[c].at # "idle" /\ call'[c].fam = call[c].fam
    BY <1>3, CallsMove, AtWork DEF Moves, Idle, Types
  <2>6. c \in barred => call'[c].at # "accept" /\ (call'[c].at # "idle" =>
            call'[c].ver \in {NoVersion, version, call[c].ver})
    BY <1>3, BarredNeverPass
  <2> QED
    BY <1>0, <2>1, <2>2, <2>3, <2>4, <2>5, <2>6 DEF BarredOut, NoYes, NoYesNext, UnderWay, User
<1>4. ASSUME NEW m \in Managers, NEW u \in Users, NEW to \in BOOLEAN, Commit(m, u, to) PROVE BarredOut'
  <2>1. /\ UNCHANGED <<call, version, cached>> /\ active' = [active EXCEPT ![u] = to]
        /\ barred' = IF to THEN {c \in barred : User(c) # u} ELSE barred
    BY <1>4 DEF Commit, WriteFrame
  <2>2. \A c \in barred' : c \in barred /\ ~active'[User(c)]
    BY <1>0, <2>1 DEF BarredOut
  <2> QED
    BY <2>1, <2>2 DEF BarredOut, NoYes, UnderWay, User
<1>5. ASSUME version' = version + 1, UNCHANGED <<call, cached, active, barred>>, version' \in Versions
      PROVE  BarredOut'
  <2>1. \A u \in Users : NoYes(u, version')
    <3>1. \A u \in Users : cached[u][version'] = "none"
      BY <1>0, <1>5 DEF Fresh, ReadsKnow, Versions
    <3>2. \A d \in Calls : call[d].at # "idle" => call[d].ver # version'
      BY <1>0, <1>5, VersionsAreIntegers DEF Fresh, ReadsKnow, Versions, UnderWay
    <3> QED
      BY <3>1, <3>2 DEF NoYes, UnderWay
  <2> QED
    BY <1>0, <1>5, <2>1 DEF BarredOut, NoYes, UnderWay, User
<1>6. ASSUME NEW m \in Managers, WriterStep(m) PROVE BarredOut'
  <2>1. CASE Bump(m)
    <3>1. version' \in Versions
      BY UserTypesHold DEF UserTypes
    <3> QED
      BY <1>5, <2>1, <3>1 DEF Bump, Announce, WriteFrame
  <2>2. CASE BumpFails(m) \/ RevokeAll(m) \/ RevokeAllFails(m)
    BY <1>1, <2>2 DEF BumpFails, RevokeAll, RevokeAllFails, WriteFrame, presence
  <2> QED
    BY <1>4, <1>6, <2>1, <2>2 DEF WriterStep
<1>7. CASE OtherWrite
  <2>1. version' \in Versions
    BY UserTypesHold DEF UserTypes
  <2> QED
    BY <1>5, <1>7, <2>1 DEF OtherWrite, Announce, WriteFrame
<1>8. ASSUME NEW u \in Users, NEW v \in Versions, CacheExpires(u, v) PROVE BarredOut'
  <2>1. \A x \in Users, w \in Versions : cached'[x][w] \in {"none", cached[x][w]}
    BY <1>8 DEF CacheExpires, Types, UserTypes
  <2> QED
    BY <1>1, <1>8, <2>1 DEF CacheExpires, presence
<1>9. ASSUME NEW f \in Families, LoginStep(f) PROVE BarredOut'
  BY <1>1, <1>9 DEF LoginStep, Check, ExchangeCode, CodeLapses, StoreRefresh, StoreSession,
                    IndexFamily, LoginFrame, presence
<1>10. CASE UNCHANGED vars
  BY <1>1, <1>10 DEF vars, presence
<1> QED
  BY <1>2, <1>3, <1>6, <1>7, <1>8, <1>9, <1>10 DEF Next

(* A request begun after a deactivation was announced is refused, on every *)
(* token and through every answer of the cache.                            *)
THEOREM InactiveAreRefused == Spec => []InactiveIsRefused
<1>1. Init => BarredOut
  BY DEF Init, BarredOut
<1>2. Typed /\ Fresh /\ BarredOut /\ [Next]_vars => BarredOut'
  BY BarredHolds DEF Typed
<1>3. BarredOut => InactiveIsRefused
  BY DEF BarredOut, InactiveIsRefused
<1> QED
  BY <1>1, <1>2, <1>3, StaffTypes, StaysFresh, PTL DEF Spec

-------------------------------------------------------------------------------
(* One page, one refresh.                                                  *)

SamePage == \A c, d \in Calls : tab[c] = tab[d]
Sound    == Families \ (lost \cup spared)

UsedBelow == \A f \in Families : current[f] # 0 => \A t \in used[f] : t < current[f]

(* The cookie of a sound family was not used up, unless by the one refresh *)
(* that is about to replace it.                                            *)
Alone ==
    /\ \A c, d \in Calls : Refreshes(c) /\ Refreshes(d) /\ Family(c) = Family(d) => c = d
    /\ \A f \in Sound : f \notin replayed
    /\ \A f \in Sound : jar[f] # 0 /\ jar[f] \in used[f] =>
           \E c \in Calls : Refreshes(c) /\ Family(c) = f /\ call[c].at # "rotate"
    /\ \A c \in Calls : Refreshes(c) /\ Family(c) \in Sound =>
           /\ call[c].at = "rotate" => call[c].tok \notin used[Family(c)]
           /\ call[c].at \in Checking => call[c].tok + 1 \notin used[Family(c)]

OnePage == UsedBelow /\ (SamePage => Alone)

LEMMA RotateAlone ==
    ASSUME Types, Asked, Sealed, UsedBelow, NEW c \in Calls, Rotate(c)
    PROVE  UsedBelow' /\ (Alone => Alone')
<1> USE DEF Refreshes, UnderWay, Family, Checking
<1> DEFINE f == call[c].fam
           t == call[c].tok
<1>0. /\ call \in [Calls -> Requests \cup {Idle}] /\ f \in Families /\ t \in Nat
      /\ current \in [Families -> Tokens] /\ used \in [Families -> SUBSET Tokens] /\ Tokens \subseteq Nat
      /\ call[c].at = "rotate" /\ call[c].op = "refresh"
  <2>1. call[c] \in Requests
    BY CallPath DEF Continue
  <2>2. call[c].at = "rotate"
    BY DEF Rotate
  <2>3. call[c].op = "refresh"
    BY <2>1, <2>2 DEF Asked, Requests
  <2> QED
    BY <2>1, <2>2, <2>3 DEF Types, CallTypes, FamilyTypes, Requests, Tokens
<1>1. /\ \A d \in Calls \ {c} : call'[d] = call[d]
      /\ UNCHANGED <<jar, lost, spared>>
      /\ call'[c].op = "refresh" /\ call'[c].fam = f /\ call'[c].tok = t
  <2>1. \A d \in Calls \ {c} : call'[d] = call[d]
    BY <1>0, CallsMove DEF Moves, Continue
  <2>2. UNCHANGED <<jar, lost, spared>>
    BY DEF Rotate
  <2>3. call'[c] # Idle
    <3>1. PICK at \in Steps : Goes(c, at)
      BY DEF Rotate, Steps
    <3>2. call'[c].at = at
      BY <1>0, <3>1, AtWork DEF Goes, Requests, Types
    <3> QED
      BY <3>2 DEF Idle, Steps
  <2> QED
    BY <1>0, <2>1, <2>2, <2>3, CallsMove DEF Moves, Continue
<1>2. CASE /\ Rotates(f, t) /\ Replace(f, t) /\ Goes(c, "version")
          /\ current' = [current EXCEPT ![f] = t + 1] /\ replayed' = replayed
  <2>1. /\ t \in live[f] /\ used' = [used EXCEPT ![f] = @ \cup {t}]
        /\ current' = [current EXCEPT ![f] = t + 1] /\ replayed' = replayed
        /\ Goes(c, "version")
    BY <1>2 DEF Replace, Rotates
  <2>2. current[f] = t /\ t # 0
    BY <1>0, <2>1 DEF Sealed, PointerNamesLiveToken
  <2>3. \A s \in used[f] : s < t
    BY <1>0, <2>2 DEF UsedBelow
  <2>4. \A g \in Families \ {f} : used'[g] = used[g] /\ current'[g] = current[g]
    BY <1>0, <2>1
  <2>5. used'[f] = used[f] \cup {t} /\ current'[f] = t + 1
    BY <1>0, <2>1
  <2>6. t + 1 \notin used'[f] /\ \A s \in used'[f] : s < t + 1
    <3>1. \A s \in used[f] : s \in Nat /\ s < t
      BY <1>0, <2>3
    <3>2. \A s \in used'[f] : s \in Nat /\ s < t + 1
      <4>1. ASSUME NEW s \in used[f] PROVE s \in Nat /\ s < t + 1
        BY <1>0, <3>1
      <4>2. t \in Nat /\ t < t + 1
        BY <1>0
      <4> QED
        BY <2>5, <4>1, <4>2
    <3> QED
      BY <1>0, <3>2
  <2>7. UsedBelow'
    BY <2>4, <2>5, <2>6 DEF UsedBelow
  <2>8. call'[c].at = "version"
    BY <1>0, <2>1, AtWork DEF Goes, Requests, Types
  <2>9. ASSUME Alone PROVE Alone'
    <3> USE DEF Alone, Sound
    <3>1. \A d, e \in Calls : Refreshes(d)' /\ Refreshes(e)' /\ call'[d].fam = call'[e].fam => d = e
      BY <1>0, <1>1, <2>9
    <3>2. \A g \in Sound' : g \notin replayed'
      BY <1>1, <2>1, <2>9
    <3>3. \A g \in Sound' : jar'[g] # 0 /\ jar'[g] \in used'[g] =>
              \E d \in Calls : Refreshes(d)' /\ call'[d].fam = g /\ call'[d].at # "rotate"
      BY <1>0, <1>1, <2>4, <2>8, <2>9
    <3>4. \A d \in Calls : Refreshes(d)' /\ call'[d].fam \in Sound' =>
              /\ call'[d].at = "rotate" => call'[d].tok \notin used'[call'[d].fam]
              /\ call'[d].at \in Checking => call'[d].tok + 1 \notin used'[call'[d].fam]
      <4>1. \A d \in Calls \ {c} : Refreshes(d)' => call'[d].fam # f
        BY <1>0, <1>1, <2>9
      <4>2. \A d \in Calls \ {c} : Refreshes(d)' /\ call'[d].fam \in Sound' =>
                /\ call'[d].at = "rotate" => call'[d].tok \notin used'[call'[d].fam]
                /\ call'[d].at \in Checking => call'[d].tok + 1 \notin used'[call'[d].fam]
        BY <1>1, <2>4, <2>9, <4>1
      <4> QED
        BY <1>0, <1>1, <2>6, <2>8, <4>2
    <3> QED
      BY <3>1, <3>2, <3>3, <3>4
  <2> QED
    BY <2>7, <2>9
<1>3. CASE /\ UNCHANGED redis
          /\ \/ t \in used[f] /\ replayed' = replayed \cup {f} /\ Goes(c, "revoke")
             \/ replayed' = replayed /\ Goes(c, "refuse")
  <2>1. UNCHANGED <<used, current>>
    BY <1>3 DEF redis
  <2>2. call'[c].at \in {"revoke", "refuse"}
    BY <1>0, <1>3, AtWork DEF Goes, Requests, Types
  <2>3. UsedBelow'
    BY <2>1 DEF UsedBelow
  <2>4. ASSUME Alone PROVE Alone'
    <3> USE DEF Alone, Sound
    <3>1. \A d, e \in Calls : Refreshes(d)' /\ Refreshes(e)' /\ call'[d].fam = call'[e].fam => d = e
      BY <1>0, <1>1, <2>4
    <3>2. \A g \in Sound' : g \notin replayed'
      BY <1>0, <1>1, <1>3, <2>4
    <3>3. \A g \in Sound' : jar'[g] # 0 /\ jar'[g] \in used'[g] =>
              \E d \in Calls : Refreshes(d)' /\ call'[d].fam = g /\ call'[d].at # "rotate"
      BY <1>0, <1>1, <2>1, <2>2, <2>4
    <3>4. \A d \in Calls : Refreshes(d)' /\ call'[d].fam \in Sound' =>
              /\ call'[d].at = "rotate" => call'[d].tok \notin used'[call'[d].fam]
              /\ call'[d].at \in Checking => call'[d].tok + 1 \notin used'[call'[d].fam]
      BY <1>0, <1>1, <2>1, <2>2, <2>4
    <3> QED
      BY <3>1, <3>2, <3>3, <3>4
  <2> QED
    BY <2>3, <2>4
<1> QED
  BY <1>2, <1>3 DEF Rotate

(* A call that does not rotate: what its step leaves of the family.        *)
LEMMA CallAlone ==
    ASSUME Types, Asked, Alone, NEW c \in Calls, Continue(c) \/ CallFault(c), ~Rotate(c)
    PROVE  Alone'
<1> USE DEF Refreshes, UnderWay, Family, Checking
<1> DEFINE f == call[c].fam
<1>0. /\ call \in [Calls -> Requests \cup {Idle}] /\ call[c] \in Requests /\ f \in Families
      /\ jar \in [Families -> Tokens] /\ Tokens \subseteq Nat
  BY CallPath DEF Types, CallTypes, FamilyTypes, Requests, Tokens
<1>1. /\ \A d \in Calls \ {c} : call'[d] = call[d]
      /\ call'[c].at # "idle" => call'[c].op = call[c].op /\ call'[c].fam = f /\ call'[c].tok = call[c].tok
      /\ call'[c].at \notin {"rotate", "session"}
      /\ call'[c].at \in Checking => call[c].at \in Checking \/ call[c].op # "refresh"
  <2>1. call'[c].at \in Checking => call[c].at \in {"version", "look", "load", "fill", "session"}
    BY CallPath
  <2>2. call[c].at = "session" => call[c].op # "refresh"
    BY DEF Asked
  <2> QED
    BY <1>0, <2>1, <2>2, CallsMove, CallPath DEF Moves, Idle
<1>2. used' = used
  <2>1. CASE RevokeFamily(c)
    BY <2>1 DEF RevokeFamily, redis
  <2> QED
    BY <2>1, QuietSteps
<1>3. replayed' = replayed /\ lost \subseteq lost' /\ spared \subseteq spared'
  <2>1. CASE RevokeFails(c) \/ AnswerLost(c)
    BY <2>1 DEF RevokeFails, AnswerLost
  <2>2. CASE ~RevokeFails(c) /\ ~AnswerLost(c)
    BY <2>2 DEF Continue, CallFault, RevokeFamily, FindSession, Accept, Refuse, history,
                ReadVersion, LookInCache, Load, Fill, ActivityFrame
  <2> QED
    BY <2>1, <2>2
<1> USE DEF Alone, Sound
<1>8. \A d \in Calls : Refreshes(d)' => Refreshes(d) /\ call'[d].fam = call[d].fam
  <2>1. call[c].at # "idle"
    BY <1>0 DEF Requests, Steps
  <2> QED
    BY <1>1, <2>1
<1>4. \A d, e \in Calls : Refreshes(d)' /\ Refreshes(e)' /\ call'[d].fam = call'[e].fam => d = e
  <2> TAKE d, e \in Calls
  <2> QED
    BY <1>8
<1>5. \A d \in Calls : Refreshes(d)' /\ call'[d].fam \in Sound' =>
          /\ call'[d].at = "rotate" => call'[d].tok \notin used'[call'[d].fam]
          /\ call'[d].at \in Checking => call'[d].tok + 1 \notin used'[call'[d].fam]
  BY <1>0, <1>1, <1>2, <1>3
<1>6. \A g \in Sound' : jar'[g] # 0 /\ jar'[g] \in used'[g] =>
          \E d \in Calls : Refreshes(d)' /\ call'[d].fam = g /\ call'[d].at # "rotate"
  <2>1. CASE jar' = jar /\ call'[c].at # "idle"
    <3>1. \A d \in Calls : Refreshes(d) /\ call[d].at # "rotate" =>
              Refreshes(d)' /\ call'[d].fam = call[d].fam /\ call'[d].at # "rotate"
      BY <1>0, <1>1, <2>1
    <3> QED
      BY <1>2, <1>3, <2>1, <3>1
  <2>2. CASE RevokeFails(c) \/ AnswerLost(c)
    <3>1. jar' = jar /\ f \notin Sound'
      BY <2>2 DEF RevokeFails, AnswerLost
    <3>2. \A d \in Calls \ {c} : Refreshes(d) /\ call[d].at # "rotate" =>
              Refreshes(d)' /\ call'[d].fam = call[d].fam /\ call'[d].at # "rotate"
      BY <1>0, <1>1
    <3> QED
      BY <1>2, <1>3, <3>1, <3>2
  <2>3. CASE Accept(c)
    <3>1. \A d \in Calls \ {c} : Refreshes(d) /\ call[d].at # "rotate" =>
              Refreshes(d)' /\ call'[d].fam = call[d].fam /\ call'[d].at # "rotate"
      BY <1>0, <1>1
    <3>2. CASE call[c].op = "refresh"
      <4>1. jar' = [jar EXCEPT ![f] = call[c].tok + 1] /\ (f \in Sound => call[c].tok + 1 \notin used[f])
        BY <1>0, <2>3, <3>2 DEF Accept
      <4>2. jar'[f] = call[c].tok + 1 /\ \A g \in Families \ {f} : jar'[g] = jar[g]
        BY <1>0, <4>1
      <4> QED
        BY <1>2, <1>3, <3>1, <4>1, <4>2
    <3>3. CASE call[c].op # "refresh"
      <4>1. jar' = jar
        BY <1>0, <2>3, <3>3 DEF Accept, Asked, Requests
      <4> QED
        BY <1>2, <1>3, <3>1, <3>3, <4>1
    <3> QED
      BY <3>2, <3>3
  <2>4. CASE Refuse(c)
    <3>1. \A d \in Calls \ {c} : Refreshes(d) /\ call[d].at # "rotate" =>
              Refreshes(d)' /\ call'[d].fam = call[d].fam /\ call'[d].at # "rotate"
      BY <1>0, <1>1
    <3>2. CASE call[c].op # "api"
      <4>1. jar'[f] = 0 /\ \A g \in Families \ {f} : jar'[g] = jar[g]
        BY <1>0, <2>4, <3>2 DEF Refuse
      <4> QED
        BY <1>2, <1>3, <3>1, <4>1
    <3>3. CASE call[c].op = "api"
      <4>1. jar' = jar
        BY <2>4, <3>3 DEF Refuse
      <4> QED
        BY <1>2, <1>3, <3>1, <3>3, <4>1
    <3> QED
      BY <3>2, <3>3
  <2>5. CASE ~RevokeFails(c) /\ ~AnswerLost(c) /\ ~Accept(c) /\ ~Refuse(c)
    <3>1. call'[c].at # "idle"
      BY <2>5, CallPath
    <3>2. jar' = jar
      BY <2>5 DEF Continue, CallFault, RevokeFamily, FindSession, ReadVersion, LookInCache, Load,
                  Fill, ActivityFrame
    <3> QED
      BY <2>1, <3>1, <3>2
  <2> QED
    BY <2>2, <2>3, <2>4, <2>5
<1>7. \A g \in Sound' : g \notin replayed'
  BY <1>3
<1> QED
  BY <1>4, <1>5, <1>6, <1>7

LEMMA StartAlone ==
    ASSUME Types, SamePage, Alone, NEW c \in Calls, Start(c)
    PROVE  Alone'
<1> USE DEF Refreshes, UnderWay, Family, Checking, Alone, Sound
<1>1. PICK f \in Families : Refresh(c, f) \/ Logout(c, f) \/ UseApi(c, f)
  BY DEF Start
<1>0. call \in [Calls -> Requests \cup {Idle}]
  BY DEF Types, CallTypes
<1>2. /\ call[c].at = "idle" /\ \A d \in Calls \ {c} : call'[d] = call[d]
      /\ call'[c].at \in {"rotate", "revoke", "session"} /\ call'[c].fam = f
      /\ call'[c].op = "refresh" => Refresh(c, f) /\ call'[c].at = "rotate" /\ call'[c].tok = jar[f]
      /\ UNCHANGED <<jar, used, replayed, lost, spared>>
  BY <1>0, <1>1 DEF Refresh, Logout, UseApi, Begin, Idle, redis, history
<1>3. Refresh(c, f) => jar[f] # 0 /\ \A d \in Calls : Refreshes(d) => call[d].fam # f
  BY DEF Refresh, Refreshing, SamePage
<1>4. \A d, e \in Calls : Refreshes(d)' /\ Refreshes(e)' /\ call'[d].fam = call'[e].fam => d = e
  BY <1>2, <1>3
<1>5. \A g \in Sound' : jar'[g] # 0 /\ jar'[g] \in used'[g] =>
          \E d \in Calls : Refreshes(d)' /\ call'[d].fam = g /\ call'[d].at # "rotate"
  BY <1>2
<1>6. \A d \in Calls : Refreshes(d)' /\ call'[d].fam \in Sound' =>
          /\ call'[d].at = "rotate" => call'[d].tok \notin used'[call'[d].fam]
          /\ call'[d].at \in Checking => call'[d].tok + 1 \notin used'[call'[d].fam]
  BY <1>2, <1>3
<1> QED
  BY <1>2, <1>4, <1>5, <1>6

LEMMA OnePageHolds ==
    ASSUME Types, Asked, Sealed, OnePage, [Next]_vars
    PROVE  OnePage'
<1> USE DEF OnePage
<1>0. ASSUME tab' = tab PROVE SamePage' = SamePage
  BY <1>0 DEF SamePage
<1>1. ASSUME UNCHANGED <<used, current>>, tab' = tab, SamePage => Alone' PROVE OnePage'
  BY <1>0, <1>1 DEF UsedBelow
<1>2. ASSUME UNCHANGED <<call, used, jar, replayed, lost, spared>>, SamePage PROVE Alone'
  BY <1>2 DEF Alone, Sound, Refreshes, UnderWay, Family
<1>3. ASSUME NEW c \in Calls, Start(c) PROVE OnePage'
  BY <1>1, <1>3, StartAlone, QuietSteps
<1>4. ASSUME NEW c \in Calls, Continue(c) \/ CallFault(c) PROVE OnePage'
  <2>1. CASE Rotate(c)
    <3>1. tab' = tab
      BY <2>1 DEF Rotate, CallFrame
    <3> QED
      BY <1>0, <2>1, <3>1, RotateAlone
  <2>2. CASE RevokeFamily(c)
    <3>1. tab' = tab /\ used' = used /\ \A f \in Families : current'[f] # 0 => current'[f] = current[f]
      BY <2>2 DEF RevokeFamily, CallFrame, Empty, redis
    <3>2. ~Rotate(c)
      BY <2>2 DEF Rotate, RevokeFamily
    <3> QED
      BY <1>0, <1>4, <3>1, <3>2, CallAlone DEF UsedBelow
  <2>3. CASE ~Rotate(c) /\ ~RevokeFamily(c)
    BY <1>1, <1>4, <2>3, QuietSteps, CallAlone
  <2> QED
    BY <2>1, <2>2, <2>3
<1>5. ASSUME NEW f \in Families, LoginStep(f) PROVE OnePage'
  <2>1. UNCHANGED <<call, used, tab, replayed, lost, spared>>
    BY <1>5 DEF LoginStep, Check, ExchangeCode, CodeLapses, StoreRefresh, StoreSession, IndexFamily,
                LoginFrame, history, redis
  <2>2. used[f] = {}
    BY <1>5 DEF Sealed, Published, LoginStep, Check, ExchangeCode, CodeLapses, StoreRefresh,
                StoreSession, IndexFamily
  <2>3. \A g \in Families \ {f} : jar'[g] = jar[g] /\ current'[g] = current[g]
    BY <1>5 DEF Types, FamilyTypes, LoginStep, Check, ExchangeCode, CodeLapses, StoreRefresh,
                StoreSession, IndexFamily, redis
  <2>4. UsedBelow'
    BY <2>1, <2>2, <2>3 DEF UsedBelow
  <2>5. Alone => Alone'
    BY <2>1, <2>2, <2>3 DEF Alone, Sound, Refreshes, UnderWay, Family
  <2> QED
    BY <1>0, <2>1, <2>4, <2>5
<1>6. ASSUME NEW m \in Managers, WriterStep(m) PROVE OnePage'
  <2>1. UNCHANGED <<call, used, tab, jar, replayed, lost, spared>>
    BY <1>6, WritersOfRows
  <2>2. \A f \in Families : current'[f] # 0 => current'[f] = current[f]
    BY <1>6, WritersOfRows DEF RevokeAll, Empty
  <2> QED
    BY <1>0, <1>2, <2>1, <2>2 DEF UsedBelow
<1>7. CASE OtherWrite \/ (\E u \in Users, v \in Versions : CacheExpires(u, v)) \/ UNCHANGED vars
  BY <1>1, <1>2, <1>7, CacheSteps
<1> QED
  BY <1>3, <1>4, <1>5, <1>6, <1>7 DEF Next

(* A login used from one page is never ended as a replay, unless an answer *)
(* was lost or an end of it failed.                                        *)
THEOREM OnePageIsNoReplay == Spec => []OnePageKeepsItsFamily
<1>1. Init => OnePage
  BY DEF Init, OnePage, UsedBelow, Alone, Sound, Refreshes, UnderWay, Idle
<1>2. Typed /\ Sealed /\ OnePage /\ [Next]_vars => OnePage'
  BY OnePageHolds DEF Typed
<1>3. Typed /\ OnePage => OnePageKeepsItsFamily
  BY DEF Typed, Types, PastTypes, OnePage, SamePage, Alone, Sound, OnePageKeepsItsFamily
<1> QED
  BY <1>1, <1>2, <1>3, StaffTypes, FamiliesSealed, PTL DEF Spec

===============================================================================
