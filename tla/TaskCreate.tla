----------------------------- MODULE TaskCreate -----------------------------
(***************************************************************************)
(* POST /tasks/create: TaskService.create_task, run by any number of       *)
(* concurrent requests over two uvicorn workers that share Redis, MySQL    *)
(* and the RCS.  Each stage of pc is one await of the handler; a client's  *)
(* retry is another request with the same key.                             *)
(***************************************************************************)
EXTENDS TaskStore

CONSTANTS Payloads,     \* request bodies, up to equality of their fingerprint
          Resolvable,   \* the payloads whose robotType has a row
          NoCode, NoRequest,
          NoEntry,      \* Redis holds no entry for the key
          Expired       \* the TTL removed the entry: reads as NoEntry does

ASSUME CreateAssumption ==
  /\ Resolvable \subseteq Payloads
  /\ NoCode \notin Codes
  /\ NoRow \notin Row
  /\ NoRequest \notin [key : ColumnKeys, payload : Payloads] \cup ColumnKeys
  /\ {NoEntry, Expired} \cap [payload : Payloads, code : Codes] = {}

VARIABLES pc,         \* the stage each handler is in
          req,        \* key and body of each request
          code,       \* local robot_task_code
          resp,       \* the HTTP answer
          cache,      \* Redis idempotency:{key} -> fingerprint and response
          inflight,   \* submits on the wire to the RCS
          rcsTasks    \* tasks the RCS has accepted, and for which request

vars == <<rows, txn, pc, req, code, resp, cache, inflight, rcsTasks>>
external == <<cache, inflight, rcsTasks>>

Active == {"lookup", "resolve", "await", "create", "commit", "save"}
Stage == {"new", "answered", "crashed"} \cup Active

Request == [key : ColumnKeys, payload : Payloads]
Entry == [payload : Payloads, code : Codes]

Kinds == {"none", "created", "duplicate", "notFound", "rcsError", "internal"}
Response == [kind : Kinds, code : Codes \cup {NoCode}, cached : BOOLEAN]

Failure(kind) == [kind |-> kind, code |-> NoCode, cached |-> FALSE]
Created(c, fromCache) == [kind |-> "created", code |-> c, cached |-> fromCache]
Unanswered == Failure("none")

Truthy(k) == k \in Keys
RowOf(r) == [code |-> code[r], key |-> req[r].key]

Init ==
  /\ rows = {}
  /\ txn = [r \in Requests |-> NoRow]
  /\ pc = [r \in Requests |-> "new"]
  /\ req = [r \in Requests |-> NoRequest]
  /\ code = [r \in Requests |-> NoCode]
  /\ resp = [r \in Requests |-> Unanswered]
  /\ cache = [k \in Keys |-> NoEntry]
  /\ inflight = {}
  /\ rcsTasks = {}

-----------------------------------------------------------------------------
Goto(r, from, to) == pc[r] = from /\ pc' = [pc EXCEPT ![r] = to]

Answer(r, from, answer) ==
  /\ Goto(r, from, "answered")
  /\ resp' = [resp EXCEPT ![r] = answer]

Arrive(r) ==
  /\ Goto(r, "new", "lookup")
  /\ \E q \in Request : req' = [req EXCEPT ![r] = q]
  /\ UNCHANGED <<rows, txn, code, resp, external>>

(* _lookup_idempotency: no key, or no entry, goes on; an entry answers. *)
CacheHit(k) == Truthy(k) /\ cache[k] \in Entry

LookupMiss(r) ==
  /\ Goto(r, "lookup", "resolve")
  /\ ~CacheHit(req[r].key)
  /\ UNCHANGED <<rows, txn, req, code, resp, external>>

(* Mutant: the fingerprint is not compared. *)
AnyFingerprint(r) == TRUE

SameFingerprint(r) == cache[req[r].key].payload = req[r].payload

LookupHit(r) ==
  /\ pc[r] = "lookup"
  /\ CacheHit(req[r].key)
  /\ Answer(r, "lookup", IF SameFingerprint(r)
                         THEN Created(cache[req[r].key].code, TRUE)
                         ELSE Failure("duplicate"))
  /\ UNCHANGED <<rows, txn, req, code, external>>

ResolveKnown(r) ==
  /\ Goto(r, "resolve", "await")
  /\ req[r].payload \in Resolvable
  /\ inflight' = inflight \cup {r}
  /\ UNCHANGED <<rows, txn, req, code, resp, cache, rcsTasks>>

ResolveUnknown(r) ==
  /\ Answer(r, "resolve", Failure("notFound"))
  /\ req[r].payload \notin Resolvable
  /\ UNCHANGED <<rows, txn, req, code, external>>

(* Mutant: an answer without a code is not an error. *)
SubmitUnchecked(r) ==
  /\ Goto(r, "await", "create")
  /\ UNCHANGED <<rows, txn, req, code, resp, external>>

(* submit_task answered with a code: _extract_task_code succeeds. *)
SubmitAccepted(r) ==
  /\ Goto(r, "await", "create")
  /\ \E t \in rcsTasks : t.by = r /\ code' = [code EXCEPT ![r] = t.code]
  /\ UNCHANGED <<rows, txn, req, resp, external>>

(* Mutant: a failed submit is sent again. *)
SubmitRetried(r) ==
  /\ Goto(r, "await", "await")
  /\ inflight' = inflight \cup {r}
  /\ UNCHANGED <<rows, txn, req, code, resp, cache, rcsTasks>>

(* Timeout, refusal or malformed answer: RCSClientError.  A 5xx from the   *)
(* RCS is no RCSClientError and reaches the catch-all handler.  In either  *)
(* case the RCS may have accepted the task, or may still accept it.        *)
SubmitFailed(r) ==
  /\ \E kind \in {"rcsError", "internal"} : Answer(r, "await", Failure(kind))
  /\ UNCHANGED <<rows, txn, req, code, external>>

Create(r) ==
  /\ Goto(r, "create", "commit")
  /\ InsertFlushed(r, RowOf(r))
  /\ UNCHANGED <<req, code, resp, external>>

(* The flush meets a committed row with its code or its key. *)
CreateDuplicate(r) ==
  /\ Answer(r, "create", Failure("internal"))
  /\ ClashesWithCommitted(RowOf(r))
  /\ RollbackTxn(r)
  /\ UNCHANGED <<req, code, external>>

Commit(r) ==
  /\ Goto(r, "commit", "save")
  /\ CommitTxn(r)
  /\ UNCHANGED <<req, code, resp, external>>

(* The handler rolls back on any exception; a commit whose answer is lost  *)
(* leaves the row in the table all the same.                               *)
DbError(r) ==
  /\ \E from \in {"resolve", "create", "commit"} :
        Answer(r, from, Failure("internal"))
  /\ \/ RollbackTxn(r)
     \/ pc[r] = "commit" /\ CommitTxn(r)
  /\ UNCHANGED <<req, code, external>>

Remember(r) ==
  IF Truthy(req[r].key)
  THEN [cache EXCEPT ![req[r].key] =
          [payload |-> req[r].payload, code |-> code[r]]]
  ELSE cache

Save(r) ==
  /\ Answer(r, "save", Created(code[r], FALSE))
  /\ cache' = Remember(r)
  /\ UNCHANGED <<rows, txn, req, code, inflight, rcsTasks>>

(* Redis refuses, or its answer is lost after it stored the entry. *)
RedisError(r) ==
  /\ \/ Answer(r, "lookup", Failure("internal")) /\ UNCHANGED cache
     \/ /\ Answer(r, "save", Failure("internal"))
        /\ cache' \in {cache, Remember(r)}
  /\ Truthy(req[r].key)
  /\ UNCHANGED <<rows, txn, req, code, inflight, rcsTasks>>

(* The process serving r dies: its connection drops, its transaction rolls *)
(* back, what it put on the wire stays there.                              *)
Crash(r) ==
  /\ pc[r] \in Active
  /\ pc' = [pc EXCEPT ![r] = "crashed"]
  /\ RollbackTxn(r)
  /\ UNCHANGED <<req, code, resp, external>>

-----------------------------------------------------------------------------
(* The RCS takes a submit under a code it never used, or drops it. *)
RcsAccept(r) ==
  /\ r \in inflight
  /\ inflight' = inflight \ {r}
  /\ \E c \in Codes \ {t.code : t \in rcsTasks} :
        rcsTasks' = rcsTasks \cup {[code |-> c, by |-> r]}
  /\ UNCHANGED <<rows, txn, pc, req, code, resp, cache>>

RcsRefuse(r) ==
  /\ r \in inflight
  /\ inflight' = inflight \ {r}
  /\ UNCHANGED <<rows, txn, pc, req, code, resp, cache, rcsTasks>>

(* IDEMPOTENCY_KEY_TTL_SECONDS elapse, or Redis loses the entry. *)
Expire(k) ==
  /\ cache[k] \in Entry
  /\ cache' = [cache EXCEPT ![k] = Expired]
  /\ UNCHANGED <<rows, txn, pc, req, code, resp, inflight, rcsTasks>>

-----------------------------------------------------------------------------
Advance(r) ==
  \/ LookupMiss(r) \/ LookupHit(r) \/ ResolveKnown(r) \/ ResolveUnknown(r)
  \/ SubmitAccepted(r) \/ SubmitFailed(r) \/ Create(r) \/ CreateDuplicate(r)
  \/ Commit(r) \/ Save(r)

Next ==
  \/ \E r \in Requests :
        \/ Arrive(r) \/ Advance(r) \/ DbError(r) \/ RedisError(r) \/ Crash(r)
        \/ RcsAccept(r) \/ RcsRefuse(r)
  \/ \E k \in Keys : Expire(k)

Spec == Init /\ [][Next]_vars

(* The event loop runs every handler whose await is over, and the HTTP     *)
(* client's timeout ends a submit: no fairness for the RCS, for arrivals,  *)
(* for failures or for expiry.                                             *)
FairSpec == Spec /\ \A r \in Requests : WF_vars(Advance(r))

-----------------------------------------------------------------------------
TypeOK ==
  /\ rows \subseteq Row
  /\ txn \in [Requests -> Row \cup {NoRow}]
  /\ pc \in [Requests -> Stage]
  /\ req \in [Requests -> Request \cup {NoRequest}]
  /\ code \in [Requests -> Codes \cup {NoCode}]
  /\ resp \in [Requests -> Response]
  /\ cache \in [Keys -> Entry \cup {NoEntry, Expired}]
  /\ inflight \subseteq Requests
  /\ rcsTasks \subseteq [code : Codes, by : Requests]

(* Correctness of the cache against the table: an entry names a task that  *)
(* is committed under its key and that the RCS holds for a request with    *)
(* the entry's body, whatever expired, failed or crashed in between.       *)
TaskOf(c, payload) ==
  \E t \in rcsTasks : t.code = c /\ req[t.by].payload = payload

CacheBacked ==
  \A k \in Keys : CacheHit(k) =>
    /\ [code |-> cache[k].code, key |-> k] \in rows
    /\ TaskOf(cache[k].code, cache[k].payload)

(* Every 201, fresh or cached, names a committed task that the RCS got     *)
(* with the very body of the request it answers.                           *)
Succeeded(r) == resp[r].kind = "created"

AnswerOwnTask ==
  \A r \in Requests : Succeeded(r) =>
    /\ [code |-> resp[r].code, key |-> req[r].key] \in rows
    /\ TaskOf(resp[r].code, req[r].payload)

(* Two 201s under one Idempotency-Key name the same task, across the       *)
(* entry's expiry, failed saves, crashes and concurrent requests.          *)
AnswersAgree ==
  \A q, r \in Requests :
    Succeeded(q) /\ Succeeded(r) /\ Truthy(req[q].key) /\ req[q].key = req[r].key
      => resp[q].code = resp[r].code

(* A request that is answered from the cache, as a collision or as an      *)
(* unknown robot type never reaches the RCS; none reaches it twice.        *)
Touched(r) == r \in inflight \/ \E t \in rcsTasks : t.by = r

RcsSpared ==
  /\ \A r \in Requests :
        resp[r].cached \/ resp[r].kind \in {"duplicate", "notFound"} => ~Touched(r)
  /\ \A t, u \in rcsTasks : t.by = u.by => t = u

(* Every request that arrives is answered or dies with its process: no     *)
(* handler leaves a lock behind that blocks the others.                    *)
EveryRequestEnds ==
  \A r \in Requests : pc[r] \in Active ~> pc[r] \in {"answered", "crashed"}

(* create_task implements the registry of recorded tasks. *)
AskedKey(r) == IF req[r] = NoRequest THEN NoRequest ELSE req[r].key

Registry == INSTANCE TaskRegistry WITH
  NotAsked <- NoRequest,
  registry <- rows,
  asked <- [r \in Requests |-> AskedKey(r)],
  answer <- [r \in Requests |-> resp[r].code]

ImplementsRegistry == Registry!Spec
=============================================================================
