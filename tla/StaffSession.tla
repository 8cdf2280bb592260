------------------------------ MODULE StaffSession ------------------------------
(***************************************************************************)
(* The sessions of staff (TokenService, its Redis scripts, StaffActivity): *)
(* a login starts a family of refresh tokens, each used once; a second use *)
(* ends the family; a deactivated person is out on every token.            *)
(*                                                                         *)
(* Redis runs one script at a time; everything between two calls to Redis  *)
(* or the database is a gap other requests run in.  The week a family may  *)
(* lie idle does not pass here; the five minutes of the activity cache do. *)
(***************************************************************************)
EXTENDS Integers, FiniteSets

CONSTANTS
    Users, Families,   \* a family per login
    OwnerOf,           \* whose login it is
    Mobile,            \* logins of the app: a one-time code comes in between
    Calls, Tabs,       \* requests under way, and the pages they may come from
    Managers,
    MaxToken,          \* bound: refresh tokens of a family
    MaxVersion,        \* bound: writes to IAM
    MaxFaults          \* bound: lost answers and failed calls to Redis

ASSUME SessionAssumption ==
    /\ OwnerOf \in [Families -> Users] /\ Mobile \subseteq Families
    /\ Users # {} /\ IsFiniteSet(Managers)
    /\ MaxToken \in Nat \ {0} /\ MaxVersion \in Nat /\ MaxFaults \in Nat

VARIABLES
    active,            \* staff_user.is_active
    version,           \* iam:version
    cached,            \* staff-active:<user>:v<version>
    login,             \* the next step of the login
    live, current, used, session, revoked,   \* a family in Redis
    index,             \* user-families: those an end of all sessions reaches
    jar,               \* the refresh token the client holds (0: none)
    tab,               \* the page of a call, chosen once
    call,              \* a request of a client
    writer,            \* a manager's change of is_active
    faults,
    unannounced,       \* history: users changed since the last bump
    replayed, spared, lost,   \* history: families replayed; not revoked for a
                       \* failed call; whose new token never reached the client
    barred,            \* history: calls begun while their user was known inactive
    ended,             \* history: users inactive whose sessions were all ended
    straddling         \* history: logins past their check at a deactivation

redis    == <<live, current, used, session, revoked, index>>
history  == <<replayed, spared, lost>>
presence == <<active, unannounced, ended, straddling>>
vars == <<version, cached, login, redis, jar, tab, call, writer, faults,
          presence, history, barred>>

Versions  == 0..MaxVersion
NoVersion == -1
Tokens    == 0..MaxToken
Steps     == {"rotate", "session", "version", "look", "load", "fill",
              "revoke", "accept", "refuse"}
Idle      == [at |-> "idle", op |-> "none"]
Requests  == [at : Steps, op : {"refresh", "logout", "api"}, fam : Families,
              tok : Tokens, ver : Versions \cup {NoVersion}, seen : BOOLEAN]

TypeOK ==
    /\ active \in [Users -> BOOLEAN]
    /\ version \in Versions
    /\ cached \in [Users -> [Versions -> {"none", "yes", "no"}]]
    /\ login \in [Families -> {"out", "code", "token", "session", "index", "in"}]
    /\ live \in [Families -> SUBSET Tokens] /\ used \in [Families -> SUBSET Tokens]
    /\ current \in [Families -> Tokens] /\ jar \in [Families -> Tokens]
    /\ session \in [Families -> BOOLEAN] /\ revoked \in [Families -> BOOLEAN]
    /\ index \subseteq Families
    /\ tab \in [Calls -> Tabs]
    /\ call \in [Calls -> Requests \cup {Idle}]
    /\ writer \in [Managers -> [at : {"idle", "bump", "revoke"}, user : Users, to : BOOLEAN]]
    /\ faults \in 0..MaxFaults
    /\ unannounced \subseteq Users /\ ended \subseteq Users
    /\ replayed \subseteq Families /\ spared \subseteq Families /\ lost \subseteq Families
    /\ straddling \subseteq Families /\ barred \subseteq Calls

Init ==
    /\ active = [u \in Users |-> TRUE] /\ version = 0
    /\ cached = [u \in Users |-> [v \in Versions |-> "none"]]
    /\ login = [f \in Families |-> "out"]
    /\ live = [f \in Families |-> {}] /\ used = [f \in Families |-> {}]
    /\ current = [f \in Families |-> 0] /\ jar = [f \in Families |-> 0]
    /\ session = [f \in Families |-> FALSE] /\ revoked = [f \in Families |-> FALSE]
    /\ index = {}
    /\ tab \in [Calls -> Tabs]
    /\ call = [c \in Calls |-> Idle]
    /\ writer \in [Managers -> [at : {"idle"}, user : {CHOOSE u \in Users : TRUE}, to : {TRUE}]]
    /\ faults = 0
    /\ unannounced = {} /\ ended = {} /\ straddling = {}
    /\ replayed = {} /\ spared = {} /\ lost = {} /\ barred = {}

Fails == faults < MaxFaults /\ faults' = faults + 1
Works == UNCHANGED faults

-------------------------------------------------------------------------------
(* A login.  Nobody knows the token before the answer, so the token and    *)
(* the pointer to it are stored in one step.                               *)

LoginGoes(f, place) == login' = [login EXCEPT ![f] = place]
LoginFrame == UNCHANGED <<version, cached, tab, call, writer, faults, presence, history, barred>>

(* Seeded fault (Check): a deactivated person passes the check.            *)
CheckNothing(f) ==
    /\ login[f] = "out"
    /\ LoginGoes(f, IF f \in Mobile THEN "code" ELSE "token")
    /\ LoginFrame /\ UNCHANGED <<redis, jar>>

Check(f) ==
    /\ login[f] = "out" /\ active[OwnerOf[f]]
    /\ LoginGoes(f, IF f \in Mobile THEN "code" ELSE "token")
    /\ LoginFrame /\ UNCHANGED <<redis, jar>>

ExchangeCode(f) ==
    /\ login[f] = "code"
    /\ LoginGoes(f, "token")
    /\ LoginFrame /\ UNCHANGED <<redis, jar>>

(* The code lives 60 seconds.                                              *)
CodeLapses(f) ==
    /\ login[f] = "code"
    /\ LoginGoes(f, "out")
    /\ LoginFrame /\ UNCHANGED <<redis, jar>>

(* Seeded fault (StoreRefresh): the family is indexed first.               *)
StoreRefreshIndexed(f) ==
    /\ login[f] = "token"
    /\ live' = [live EXCEPT ![f] = {1}] /\ current' = [current EXCEPT ![f] = 1]
    /\ index' = index \cup {f}
    /\ LoginGoes(f, "session")
    /\ LoginFrame /\ UNCHANGED <<used, session, revoked, jar>>

StoreRefresh(f) ==
    /\ login[f] = "token"
    /\ live' = [live EXCEPT ![f] = {1}] /\ current' = [current EXCEPT ![f] = 1]
    /\ LoginGoes(f, "session")
    /\ LoginFrame /\ UNCHANGED <<used, session, revoked, index, jar>>

StoreSession(f) ==
    /\ login[f] = "session"
    /\ session' = [session EXCEPT ![f] = TRUE]
    /\ LoginGoes(f, "index")
    /\ LoginFrame /\ UNCHANGED <<live, current, used, revoked, index, jar>>

IndexFamily(f) ==
    /\ login[f] = "index"
    /\ index' = index \cup {f}
    /\ jar' = [jar EXCEPT ![f] = 1]
    /\ LoginGoes(f, "in")
    /\ LoginFrame /\ UNCHANGED <<live, current, used, session, revoked>>

-------------------------------------------------------------------------------
(* A request of a client: a refresh, a logout, or a call of the API with   *)
(* an access token of the family, which outlives the cookies.              *)

Begin(c, op, f, at) ==
    /\ call[c] = Idle
    /\ call' = [call EXCEPT ![c] = [at |-> at, op |-> op, fam |-> f,
                     tok |-> IF op = "api" THEN 0 ELSE jar[f],
                     ver |-> NoVersion, seen |-> FALSE]]
    /\ barred' = IF active[OwnerOf[f]] \/ OwnerOf[f] \in unannounced
                 THEN barred ELSE barred \cup {c}
    /\ UNCHANGED <<version, cached, login, redis, jar, tab, writer, faults, presence, history>>

Goes(c, at)   == call' = [call EXCEPT ![c].at = at]
Finish(c)     == call' = [call EXCEPT ![c] = Idle] /\ barred' = barred \ {c}
CallFrame     == UNCHANGED <<version, login, tab, writer, presence>>

(* Seeded fault (Refreshing): every 401 starts a refresh of its own.       *)
RefreshingNever(t, f) == FALSE

(* One refresh at a time for a page (recover, refreshPromise).             *)
Refreshing(t, f) ==
    \E c \in Calls : tab[c] = t /\ call[c].op = "refresh" /\ call[c].fam = f

Refresh(c, f) ==
    /\ jar[f] # 0 /\ jar[f] < MaxToken
    /\ ~Refreshing(tab[c], f)
    /\ Begin(c, "refresh", f, "rotate")
Logout(c, f)  == jar[f] # 0 /\ Begin(c, "logout", f, "revoke")
UseApi(c, f)  == login[f] = "in" /\ Begin(c, "api", f, "session")

(* ROTATE_REFRESH, one script.                                             *)
Replace(f, t) ==
    /\ live' = [live EXCEPT ![f] = (@ \ {t}) \cup {t + 1}]
    /\ used' = [used EXCEPT ![f] = @ \cup {t}]

Rotates(f, t) == t \in live[f] /\ ~revoked[f] /\ session[f]
Rotate(c) ==
    LET f == call[c].fam
        t == call[c].tok
    IN /\ call[c].at = "rotate"
       /\ \/ /\ Rotates(f, t)
             /\ Replace(f, t)
             /\ current' = [current EXCEPT ![f] = t + 1]
             /\ index' = index \cup {f}
             /\ Goes(c, "version")
             /\ UNCHANGED <<session, revoked, replayed>>
          \/ /\ t \notin live[f] /\ t \in used[f]
             /\ replayed' = replayed \cup {f}
             /\ Goes(c, "revoke")
             /\ UNCHANGED redis
          \/ /\ ~Rotates(f, t) /\ (t \in live[f] \/ t \notin used[f])
             /\ Goes(c, "refuse")
             /\ UNCHANGED <<redis, replayed>>
       /\ CallFrame /\ UNCHANGED <<cached, jar, faults, spared, lost, barred>>

(* What both revoking scripts do to families F: delete the token each      *)
(* pointer names (and those given), the pointer and the session, and mark. *)
Empty(F, given) ==
    /\ live' = [f \in Families |->
                   IF f \in F THEN live[f] \ ({current[f]} \cup given) ELSE live[f]]
    /\ current' = [f \in Families |-> IF f \in F THEN 0 ELSE current[f]]
    /\ session' = [f \in Families |-> session[f] /\ f \notin F]
    /\ revoked' = [f \in Families |-> revoked[f] \/ f \in F]

(* Seeded fault (RevokeFamily): only a live token names its family.        *)
RevokeFamilyLive(c) ==
    LET f == call[c].fam IN
    /\ call[c].at = "revoke"
    /\ IF call[c].tok \in live[f]
       THEN Empty({f}, {}) /\ UNCHANGED <<used, index>>
       ELSE UNCHANGED redis
    /\ Goes(c, "refuse")
    /\ CallFrame /\ UNCHANGED <<cached, jar, faults, history, barred>>

(* REVOKE_FAMILY, one script, named by any token of the family.            *)
RevokeFamily(c) ==
    LET f == call[c].fam
        t == call[c].tok
    IN /\ call[c].at = "revoke"
       /\ IF t \in live[f] \cup used[f]
          THEN Empty({f}, {t}) /\ UNCHANGED <<used, index>>
          ELSE UNCHANGED redis
       /\ Goes(c, "refuse")
       /\ CallFrame /\ UNCHANGED <<cached, jar, faults, history, barred>>

(* Redis fails instead: the answer is a 500 and the cookies stay.          *)
RevokeFails(c) ==
    /\ call[c].at = "revoke" /\ Fails
    /\ spared' = spared \cup {call[c].fam}
    /\ Finish(c)
    /\ CallFrame /\ UNCHANGED <<cached, redis, jar, replayed, lost>>

(* Seeded fault (FindSession): the session is enough, as before BRIEF-054.  *)
FindSessionOnly(c) ==
    /\ call[c].at = "session"
    /\ Goes(c, IF session[call[c].fam] THEN "accept" ELSE "refuse")
    /\ CallFrame /\ UNCHANGED <<cached, redis, jar, faults, history, barred>>

FindSession(c) ==
    /\ call[c].at = "session"
    /\ Goes(c, IF session[call[c].fam] THEN "version" ELSE "refuse")
    /\ CallFrame /\ UNCHANGED <<cached, redis, jar, faults, history, barred>>

(* StaffActivity.isActive: Redis is only a cache, the database decides.    *)
User(c) == OwnerOf[call[c].fam]
Verdict(c, yes) == CASE yes -> "accept"
                     [] ~yes /\ call[c].op = "api" -> "refuse"
                     [] OTHER -> "revoke"
Decide(c, yes) == call' = [call EXCEPT ![c].at = Verdict(c, yes),
                                       ![c].ver = NoVersion, ![c].seen = FALSE]
ActivityFrame == CallFrame /\ UNCHANGED <<redis, jar, history, barred>>

ReadVersion(c) ==
    /\ call[c].at = "version"
    /\ \/ Works /\ call' = [call EXCEPT ![c].at = "look", ![c].ver = version]
       \/ Fails /\ Goes(c, "load")
    /\ ActivityFrame /\ UNCHANGED cached

LookInCache(c) ==
    LET entry == cached[User(c)][call[c].ver] IN
    /\ call[c].at = "look"
    /\ \/ entry # "none" /\ Works /\ Decide(c, entry = "yes")
       \/ entry = "none" /\ Works /\ Goes(c, "load")
       \/ entry # "none" /\ Fails /\ Goes(c, "load")
    /\ ActivityFrame /\ UNCHANGED cached

Load(c) ==
    /\ call[c].at = "load"
    /\ IF call[c].ver = NoVersion
       THEN Decide(c, active[User(c)])
       ELSE call' = [call EXCEPT ![c].at = "fill", ![c].seen = active[User(c)]]
    /\ ActivityFrame /\ UNCHANGED <<cached, faults>>

Store(c, v) ==
    cached' = [cached EXCEPT ![User(c)][v] = IF call[c].seen THEN "yes" ELSE "no"]
(* Seeded fault (Fill): stored under the version of now.                   *)
FillLate(c) ==
    /\ call[c].at = "fill"
    /\ Store(c, version)
    /\ Decide(c, call[c].seen)
    /\ ActivityFrame /\ UNCHANGED faults

Fill(c) ==
    /\ call[c].at = "fill"
    /\ \/ Works /\ Store(c, call[c].ver)
       \/ Fails /\ UNCHANGED cached
    /\ Decide(c, call[c].seen)
    /\ ActivityFrame

(* The answer: a refresh brings the new token, and a refused refresh or a  *)
(* logout takes the old one.                                               *)
Accept(c) ==
    /\ call[c].at = "accept"
    /\ jar' = IF call[c].op = "api" THEN jar
              ELSE [jar EXCEPT ![call[c].fam] = call[c].tok + 1]
    /\ Finish(c)
    /\ CallFrame /\ UNCHANGED <<cached, redis, faults, history>>

Refuse(c) ==
    /\ call[c].at = "refuse"
    /\ jar' = IF call[c].op = "api" THEN jar ELSE [jar EXCEPT ![call[c].fam] = 0]
    /\ Finish(c)
    /\ CallFrame /\ UNCHANGED <<cached, redis, faults, history>>

AnswerLost(c) ==
    /\ call[c].at \in {"accept", "refuse"} /\ call[c].op # "api" /\ Fails
    /\ lost' = lost \cup {call[c].fam}
    /\ Finish(c)
    /\ CallFrame /\ UNCHANGED <<cached, redis, jar, replayed, spared>>

-------------------------------------------------------------------------------
(* Staff administration: the row commits, the version is bumped, and only  *)
(* then are the sessions ended.                                            *)

WriteFrame == UNCHANGED <<cached, login, jar, tab, call, history>>
Pending    == {m \in Managers : writer[m].at = "bump"}
RoomForAWrite == version + Cardinality(Pending) < MaxVersion
InLogin    == {f \in Families : login[f] \in {"code", "token", "session", "index"}}

Commit(m, u, to) ==
    /\ writer[m].at = "idle"
    /\ RoomForAWrite
    /\ active' = [active EXCEPT ![u] = to]
    /\ writer' = [writer EXCEPT ![m] = [at |-> "bump", user |-> u, to |-> to]]
    /\ unannounced' = unannounced \cup {u}
    /\ ended' = IF to THEN ended \ {u} ELSE ended
    /\ straddling' = IF to \/ ~active[u] THEN straddling
                     ELSE {f \in InLogin : OwnerOf[f] = u} \cup {f \in straddling : OwnerOf[f] # u}
    /\ barred' = IF to THEN {c \in barred : User(c) # u} ELSE barred
    /\ WriteFrame /\ UNCHANGED <<version, redis, faults>>

Announce == version' = version + 1 /\ unannounced' = {}

Bump(m) ==
    /\ writer[m].at = "bump"
    /\ Announce
    /\ writer' = [writer EXCEPT ![m].at = IF writer[m].to THEN "idle" ELSE "revoke"]
    /\ WriteFrame /\ UNCHANGED <<active, redis, faults, ended, straddling, barred>>

(* Redis fails: the request ends there, the sessions are left alone.       *)
BumpFails(m) ==
    /\ writer[m].at = "bump" /\ Fails
    /\ writer' = [writer EXCEPT ![m].at = "idle"]
    /\ WriteFrame /\ UNCHANGED <<version, redis, presence, barred>>

(* REVOKE_ALL_FOR_USER, one script over the index.                         *)
Indexed(u) == {f \in index : OwnerOf[f] = u}

RevokeAll(m) ==
    LET u == writer[m].user IN
    /\ writer[m].at = "revoke"
    /\ Empty(Indexed(u), {})
    /\ index' = {f \in index : OwnerOf[f] # u}
    /\ ended' = IF active[u] THEN ended ELSE ended \cup {u}
    /\ writer' = [writer EXCEPT ![m].at = "idle"]
    /\ WriteFrame
    /\ UNCHANGED <<active, version, used, faults, unannounced, straddling, barred>>

RevokeAllFails(m) ==
    /\ writer[m].at = "revoke" /\ Fails
    /\ writer' = [writer EXCEPT ![m].at = "idle"]
    /\ WriteFrame /\ UNCHANGED <<version, redis, presence, barred>>

(* Any other write to IAM, a demo login included, bumps as well.           *)
OtherWrite ==
    /\ RoomForAWrite
    /\ Announce
    /\ WriteFrame
    /\ UNCHANGED <<active, redis, faults, ended, straddling, barred, writer>>

(* Seeded fault (CacheExpires): a positive entry has no lifetime.          *)
CacheExpiresNegative(u, v) ==
    /\ cached[u][v] = "no"
    /\ cached' = [cached EXCEPT ![u][v] = "none"]
    /\ UNCHANGED <<version, login, redis, jar, tab, call, writer, faults,
                   presence, history, barred>>

(* An entry of the activity cache lives five minutes.                      *)
CacheExpires(u, v) ==
    /\ cached[u][v] # "none"
    /\ cached' = [cached EXCEPT ![u][v] = "none"]
    /\ UNCHANGED <<version, login, redis, jar, tab, call, writer, faults,
                   presence, history, barred>>

-------------------------------------------------------------------------------

LoginStep(f) ==
    \/ Check(f) \/ ExchangeCode(f) \/ CodeLapses(f)
    \/ StoreRefresh(f) \/ StoreSession(f) \/ IndexFamily(f)
Start(c) == \E f \in Families : Refresh(c, f) \/ Logout(c, f) \/ UseApi(c, f)
Continue(c) ==
    \/ Rotate(c) \/ RevokeFamily(c) \/ FindSession(c) \/ ReadVersion(c)
    \/ LookInCache(c) \/ Load(c) \/ Fill(c) \/ Accept(c) \/ Refuse(c)
CallFault(c) == RevokeFails(c) \/ AnswerLost(c)
WriterStep(m) ==
    \/ \E u \in Users, to \in BOOLEAN : Commit(m, u, to)
    \/ Bump(m) \/ BumpFails(m) \/ RevokeAll(m) \/ RevokeAllFails(m)

Next ==
    \/ \E f \in Families : LoginStep(f)
    \/ \E c \in Calls : Start(c) \/ Continue(c) \/ CallFault(c)
    \/ \E m \in Managers : WriterStep(m)
    \/ OtherWrite
    \/ \E u \in Users, v \in Versions : CacheExpires(u, v)

(* A request under way is answered and a cache entry runs out; nobody has  *)
(* to log in, to write or to begin a request.                              *)
Fairness ==
    /\ \A c \in Calls : WF_vars(Continue(c))
    /\ \A u \in Users, v \in Versions : WF_vars(CacheExpires(u, v))

Spec == Init /\ [][Next]_vars /\ Fairness

-------------------------------------------------------------------------------
(* Properties.                                                             *)

(* The pointer of a family names its only live token, so that an end of    *)
(* the family, which reads the pointer, misses none (REVOKE_FAMILY and     *)
(* REVOKE_ALL_FOR_USER against StoreRefresh and ROTATE_REFRESH).           *)
PointerNamesLiveToken ==
    \A f \in Families : live[f] = IF current[f] = 0 THEN {} ELSE {current[f]}

(* "A revoked family publishes nothing, so logout cannot lose the race"    *)
(* (token.scripts.ts): no refresh, no login and no second writer brings a  *)
(* token or a session back to a family that was ended.                     *)
RevokedStaysEmpty ==
    \A f \in Families : revoked[f] => live[f] = {} /\ ~session[f]

FamilyInv == TypeOK /\ PointerNamesLiveToken /\ RevokedStaysEmpty

(* A refresh token that was presented twice ends its family, although the  *)
(* discovery and the end are two calls; only a failed second call spares   *)
(* it.                                                                     *)
ReplayEndsFamily ==
    \A f \in replayed \ spared :
        revoked[f] \/ \E c \in Calls : call[c].at = "revoke" /\ call[c].fam = f

(* "One refresh for every parallel 401. A second refresh revokes the token *)
(* family" (client.ts): a login used from one page is never ended as a     *)
(* replay unless an answer was lost or an end of it failed.                *)
OnePageKeepsItsFamily ==
    (\A c, d \in Calls : tab[c] = tab[d]) => replayed \subseteq lost \cup spared

(* The activity cache under the current version is never behind the        *)
(* database once the last change was announced, whatever a slow reader     *)
(* stores (StaffActivity.isActive against StaffAdminService.update).       *)
CacheIsFresh ==
    \A u \in Users \ unannounced :
        cached[u][version] \in {"none", IF active[u] THEN "yes" ELSE "no"}

(* "Inactive = logged out on every token": a request begun after a         *)
(* deactivation was announced is refused, until a manager takes it back.   *)
InactiveIsRefused == \A c \in barred : call[c].at # "accept"

(* Ending all sessions of a deactivated person misses only logins that had *)
(* passed their check before the deactivation (issueSession indexes last). *)
OnlyStraddlersSurvive ==
    \A f \in Families : OwnerOf[f] \in ended /\ session[f] => f \in straddling

(* Also when the bump and the end of the sessions fail, a deactivated      *)
(* person is out in the end: the cached answer runs out.                   *)
InactiveIsOutInTheEnd ==
    \A u \in Users :
        <>[](~active[u]) => <>[](\A c \in Calls :
                                  call[c].at = "accept" => User(c) # u)
===============================================================================
