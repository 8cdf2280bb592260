------------------------------- MODULE Idempotency -------------------------------
(***************************************************************************)
(* Retries of one Idempotency-Key (IdempotencyService and the controllers  *)
(* that use it).  The key lives in Redis, the order in PostgreSQL: a       *)
(* request reads the key, claims it, writes, and stores its answer under   *)
(* the key, each in a step of its own.                                     *)
(***************************************************************************)
EXTENDS FiniteSets, Naturals

CONSTANTS
    Requests,   \* requests that carry the key; also the id of what one writes
    Payloads,   \* hashes of what a request may ask for
    MaxPolls,   \* reads of the key while another request works (20 in the code)
    Nobody

ASSUME RequestsAssumption ==
    Nobody \notin Requests \cup Payloads /\ MaxPolls \in Nat \ {0}

VARIABLES
    asks,     \* what each request asks for; the phone decides
    expired,  \* history: Redis dropped a claim under its owner
    unclaimed, \* history: a request owned the write without a claim
    key,      \* the Redis value: none, or [hash, body]
    written,  \* requests whose write committed
    pc,       \* where a request is
    polls,    \* times a request read the key in vain
    answer    \* the body a request answered with, or Nobody

keyVars == <<asks, expired, unclaimed, key, written, pc, polls, answer>>

None == [hash |-> Nobody, body |-> Nobody]
Bodies == Requests \cup {Nobody}
Places == {"start", "claim", "refused", "write", "finish", "cancel", "delete", "poll", "done"}

KeyTypeOK ==
    /\ asks \in [Requests -> Payloads] /\ expired \in BOOLEAN /\ unclaimed \in BOOLEAN
    /\ key \in [hash : Payloads \cup {Nobody}, body : Bodies]
    /\ written \subseteq Requests
    /\ pc \in [Requests -> Places]
    /\ polls \in [Requests -> 0..MaxPolls]
    /\ answer \in [Requests -> Bodies]

KeyInit ==
    /\ asks \in [Requests -> Payloads]
    /\ expired = FALSE /\ unclaimed = FALSE
    /\ key = None
    /\ written = {}
    /\ pc = [r \in Requests |-> "start"]
    /\ polls = [r \in Requests |-> 0]
    /\ answer = [r \in Requests |-> Nobody]

Goto(r, place) == pc' = [pc EXCEPT ![r] = place]
Reply(r, body) == Goto(r, "done") /\ answer' = [answer EXCEPT ![r] = body]

(* Seeded fault (FromStored): the payload is not compared.                 *)
FromStoredAnyHash(r) ==
    \/ key.body # Nobody /\ Reply(r, key.body)
    \/ key.body = Nobody /\ Goto(r, "poll") /\ UNCHANGED answer

(* What a request does with the value it finds under the key: another      *)
(* payload is refused, a stored answer replayed, a running claim polled.   *)
FromStored(r) ==
    \/ key.hash # asks[r] /\ Reply(r, Nobody)
    \/ key.hash = asks[r] /\ key.body # Nobody /\ Reply(r, key.body)
    \/ key.hash = asks[r] /\ key.body = Nobody /\ Goto(r, "poll") /\ UNCHANGED answer

ReadKey(r) ==
    /\ pc[r] = "start"
    /\ \/ key = None /\ Goto(r, "claim") /\ UNCHANGED answer
       \/ key # None /\ FromStored(r)
    /\ UNCHANGED <<asks, expired, unclaimed, key, written, polls>>

(* Seeded fault (Claim): SET without NX.                                   *)
ClaimOverwrites(r) ==
    /\ pc[r] = "claim"
    /\ key' = [hash |-> asks[r], body |-> Nobody]
    /\ Goto(r, "write")
    /\ UNCHANGED <<asks, expired, unclaimed, written, polls, answer>>

(* SET NX.                                                                 *)
Claim(r) ==
    /\ pc[r] = "claim"
    /\ IF key = None
       THEN key' = [hash |-> asks[r], body |-> Nobody] /\ Goto(r, "write")
       ELSE Goto(r, "refused") /\ UNCHANGED key
    /\ UNCHANGED <<asks, expired, unclaimed, written, polls, answer>>

(* The claim failed: read the key of the winner.  When it is gone by now   *)
(* the request owns the write without having claimed it.                   *)
ReadWinner(r) ==
    /\ pc[r] = "refused"
    /\ unclaimed' = (unclaimed \/ key = None)
    /\ \/ key = None /\ Goto(r, "write") /\ UNCHANGED answer
       \/ key # None /\ FromStored(r)
    /\ UNCHANGED <<asks, expired, key, written, polls>>

(* A poll that finds the claim gone, or another payload under the key,     *)
(* gives up at once; one that finds the claim running, after MaxPolls.     *)
Answered(r) == key.hash = asks[r] /\ key.body # Nobody

LastPoll(r) == polls[r] + 1 = MaxPolls

(* Seeded fault (Poll): the retry polls until somebody has an answer.      *)
PollForever(r) ==
    /\ pc[r] = "poll"
    /\ IF Answered(r) THEN Reply(r, key.body) ELSE UNCHANGED <<pc, answer>>
    /\ UNCHANGED <<asks, expired, unclaimed, key, written, polls>>

Poll(r) ==
    /\ pc[r] = "poll"
    /\ polls' = [polls EXCEPT ![r] = @ + 1]
    /\ IF Answered(r) THEN Reply(r, key.body)
       ELSE IF key.hash # asks[r] \/ LastPoll(r) THEN Reply(r, Nobody)
       ELSE UNCHANGED <<pc, answer>>
    /\ UNCHANGED <<asks, expired, unclaimed, key, written>>

(* The transaction throws (sold out, visit closed, ...) or commits; what   *)
(* comes after the commit (reading the order, binding the guest) may throw *)
(* as well, and the caller cannot tell one from the other.                 *)
WriteOrder(r) ==
    /\ pc[r] = "write"
    /\ \/ UNCHANGED written /\ Goto(r, "cancel")
       \/ written' = written \cup {r} /\ (Goto(r, "finish") \/ Goto(r, "cancel"))
    /\ UNCHANGED <<asks, expired, unclaimed, key, polls, answer>>

StoreAnswer(r) ==
    /\ pc[r] = "finish"
    /\ key' = [hash |-> asks[r], body |-> r]
    /\ Reply(r, r)
    /\ UNCHANGED <<asks, expired, unclaimed, written, polls>>

(* The catch around write and finish treats both failures alike; the SET   *)
(* may have arrived when only its reply is lost.                           *)
StoreFails(r) ==
    /\ pc[r] = "finish"
    /\ Goto(r, "cancel")
    /\ \/ UNCHANGED key
       \/ key' = [hash |-> asks[r], body |-> r]
    /\ UNCHANGED <<asks, expired, unclaimed, written, polls, answer>>

(* cancel: look, then delete what has no body.                             *)
LookBeforeDelete(r) ==
    /\ pc[r] = "cancel"
    /\ \/ key.body # Nobody /\ Goto(r, "done")
       \/ key.body = Nobody /\ Goto(r, "delete")
    /\ UNCHANGED <<asks, expired, unclaimed, key, written, polls, answer>>

DeleteKey(r) ==
    /\ pc[r] = "delete"
    /\ key' = None
    /\ Goto(r, "done")
    /\ UNCHANGED <<asks, expired, unclaimed, written, polls, answer>>

(* A call to Redis throws, and with it the request; it may have arrived.   *)
RedisFails(r) ==
    /\ pc[r] \in {"start", "claim", "refused", "poll", "cancel", "delete"}
    /\ Goto(r, "done")
    /\ \/ UNCHANGED key
       \/ pc[r] = "claim" /\ key = None /\ key' = [hash |-> asks[r], body |-> Nobody]
       \/ pc[r] = "delete" /\ key' = None
    /\ UNCHANGED <<asks, expired, unclaimed, written, polls, answer>>

(* Between its claim and the end of its request.                           *)
Working(r) == pc[r] \in {"write", "finish", "cancel", "delete"}

(* Redis drops a claim after PENDING_SECONDS; stored answers live a day,   *)
(* longer than any retry modelled here.                                    *)
ClaimExpires ==
    /\ key # None /\ key.body = Nobody
    /\ key' = None
    /\ expired' = (expired \/ \E r \in Requests : Working(r))
    /\ UNCHANGED <<asks, unclaimed, written, pc, polls, answer>>

Handle(r) ==
    \/ ReadKey(r) \/ Claim(r) \/ ReadWinner(r) \/ Poll(r) \/ WriteOrder(r)
    \/ StoreAnswer(r) \/ StoreFails(r) \/ LookBeforeDelete(r) \/ DeleteKey(r)

AllDone == (\A r \in Requests : pc[r] = "done") /\ UNCHANGED keyVars

KeyNext == AllDone \/ ClaimExpires \/ \E r \in Requests : Handle(r) \/ RedisFails(r)

(* Every request is carried on by the event loop; Redis need not fail.     *)
KeySpec == KeyInit /\ [][KeyNext]_keyVars /\ \A r \in Requests : WF_keyVars(Handle(r))

-------------------------------------------------------------------------------
(* A request that is giving up, or gave its caller an error.               *)
Failed(r) == pc[r] \in {"cancel", "delete"} \/ (pc[r] = "done" /\ answer[r] = Nobody)

(* BRIEF-048: a replay of the key makes no duplicate.  In the code a       *)
(* second order is written only after the request of the first one failed: *)
(* it threw after its commit, or could not store its answer, and gave up   *)
(* the key.  Redis and the database share no transaction, so this rests on *)
(* who owns the write, and the code has nothing to rest it on once Redis   *)
(* drops a claim that is being worked on, or when a third request finds    *)
(* the claim it lost to given up by now.                                   *)
NoDuplicate ==
    ~expired /\ ~unclaimed => \A r, s \in written : r = s \/ Failed(r) \/ Failed(s)

(* A request is answered with something that was committed and that it     *)
(* asked for, its own or the one it repeats.                               *)
AnswerIsMine ==
    \A r \in Requests : answer[r] # Nobody =>
        answer[r] \in written /\ asks[answer[r]] = asks[r]

(* No retry hangs, not even behind a request that gave up its claim.       *)
EveryRetryAnswered == \A r \in Requests : <>(pc[r] = "done")
===============================================================================
