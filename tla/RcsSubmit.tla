----------------------------- MODULE RcsSubmit -----------------------------
(***************************************************************************)
(* POST /tasks/rcs-submit: RcsSubmitService.submit_raw over the signed and *)
(* plain requests of RCS2000Client.  It keeps its own cache of answers but *)
(* stores its keys in the column that task creation uses as well, so the   *)
(* other endpoint appears here as inserts into the shared table.           *)
(***************************************************************************)
EXTENDS TaskStore, Naturals

CONSTANTS Payloads,     \* method, path, body and sendSigned, by fingerprint
          Allowed,      \* payloads with a path under RCS_PATH_PREFIX
          Gets, Signed, \* payloads by method and by mode
          MaxAttempts,  \* stop_after_attempt: 3 in the code
          NoCode, NoRequest, NoEntry,
          Silent,       \* the RCS has not answered
          Elsewhere     \* the submitter of tasks made by task creation

ASSUME SubmitAssumption ==
  /\ Allowed \cup Gets \cup Signed \subseteq Payloads
  /\ MaxAttempts \in Nat \ {0}
  /\ NoCode \notin Codes /\ Silent \notin Codes \cup {NoCode}
  /\ {"5xx", "garbled", "oddJson", "oddData", "refused", "notStarted"}
        \cap (Codes \cup {NoCode, Silent}) = {}
  /\ NoRow \notin Row
  /\ NoRequest \notin [key : ColumnKeys, payload : Payloads, persist : BOOLEAN]
  /\ NoEntry \notin [payload : Payloads, code : Codes \cup {NoCode},
                     persisted : BOOLEAN]
  /\ Elsewhere \notin Requests

VARIABLES pc, req, attempts,
          heard,      \* the RCS's answer to the current attempt
          code, persisted, resp, cache,
          inflight,   \* requests whose attempt is on the wire
          rcsTasks

vars == <<rows, txn, pc, req, attempts, heard, code, persisted, resp, cache,
          inflight, rcsTasks>>
store == <<rows, txn>>
rcs == <<heard, inflight, rcsTasks>>
local == <<req, attempts, code, persisted>>

Active == {"lookup", "await", "create", "commit", "save"}
Stage == {"new", "answered", "crashed"} \cup Active
Request == [key : ColumnKeys, payload : Payloads, persist : BOOLEAN]
OptCode == Codes \cup {NoCode}
Entry == [payload : Payloads, code : OptCode, persisted : BOOLEAN]

(* What the RCS can say other than a code: an HTTP 5xx; a body that is not *)
(* JSON, or not an object, or whose data is not an object; a business code *)
(* in the envelope, of which Err_TaskNotStart has an error of its own.     *)
Refusals == {"refused", "notStarted"}
Errors == Refusals \cup {"5xx", "garbled", "oddJson", "oddData"}

Kinds == {"none", "ok", "badPath", "duplicate", "internal", "network",
          "upstream5xx", "rcsError"} \cup Refusals
Response == [kind : Kinds, code : OptCode, persisted : BOOLEAN]

Failure(kind) == [kind |-> kind, code |-> NoCode, persisted |-> FALSE]
Result(c, p) == [kind |-> "ok", code |-> c, persisted |-> p]
Truthy(k) == k \in Keys
RowOf(r) == [code |-> code[r], key |-> req[r].key]

Init ==
  /\ rows = {}
  /\ txn = [r \in Requests |-> NoRow]
  /\ pc = [r \in Requests |-> "new"]
  /\ req = [r \in Requests |-> NoRequest]
  /\ attempts = [r \in Requests |-> 0]
  /\ heard = [r \in Requests |-> Silent]
  /\ code = [r \in Requests |-> NoCode]
  /\ persisted = [r \in Requests |-> FALSE]
  /\ resp = [r \in Requests |-> Failure("none")]
  /\ cache = [k \in Keys |-> NoEntry]
  /\ inflight = {}
  /\ rcsTasks = {}

-----------------------------------------------------------------------------
Goto(r, from, to) == pc[r] = from /\ pc' = [pc EXCEPT ![r] = to]

Answer(r, from, answer) ==
  /\ Goto(r, from, "answered")
  /\ resp' = [resp EXCEPT ![r] = answer]

(* The path is checked before anything is awaited. *)
Arrive(r) ==
  /\ \E q \in Request :
       /\ req' = [req EXCEPT ![r] = q]
       /\ \/ /\ q.payload \in Allowed
             /\ Goto(r, "new", "lookup")
             /\ UNCHANGED resp
          \/ /\ q.payload \notin Allowed
             /\ Answer(r, "new", Failure("badPath"))
  /\ UNCHANGED <<store, attempts, code, persisted, cache, rcs>>

(* Mutant: the fingerprint is not compared. *)
AnyFingerprint(r) == TRUE

SameFingerprint(r) == cache[req[r].key].payload = req[r].payload

CacheHit(k) == Truthy(k) /\ cache[k] \in Entry

(* An attempt goes out, signed or plain, and hears only its own answer. *)
Send(r) ==
  /\ attempts' = [attempts EXCEPT ![r] = @ + 1]
  /\ heard' = [heard EXCEPT ![r] = Silent]
  /\ inflight' = inflight \cup {r}

LookupMiss(r) ==
  /\ Goto(r, "lookup", "await")
  /\ ~CacheHit(req[r].key)
  /\ Send(r)
  /\ UNCHANGED <<store, req, code, persisted, resp, cache, rcsTasks>>

(* The entry answers as it was saved: with its persisted, cached false. *)
LookupHit(r) ==
  /\ pc[r] = "lookup"
  /\ CacheHit(req[r].key)
  /\ LET entry == cache[req[r].key]
     IN Answer(r, "lookup", IF SameFingerprint(r)
                            THEN Result(entry.code, entry.persisted)
                            ELSE Failure("duplicate"))
  /\ UNCHANGED <<store, local, cache, rcs>>

(* Mutant: submits are retried too. *)
AnyRetryable(p) == TRUE

(* signed_request retries a GET; plain_request and any POST go once. *)
Retryable(p) == p \in Gets \cap Signed

(* Mutant: one attempt too few. *)
CanRetryLess(r) == Retryable(req[r].payload) /\ attempts[r] + 1 < MaxAttempts

(* Mutant: the attempts are not counted. *)
CanRetryUncounted(r) == Retryable(req[r].payload)

CanRetry(r) == Retryable(req[r].payload) /\ attempts[r] < MaxAttempts

(* An attempt ends in an exception of the network that is retried, in      *)
(* another one of the HTTP library, in one of Redis while the address is   *)
(* resolved, or in what the RCS said.                                      *)
Outcome(r) == IF heard[r] = Silent THEN {"network", "http", "unresolved"}
              ELSE Errors \cap {heard[r]}
Transient == {"network", "5xx"}

SubmitRetry(r) ==
  /\ Goto(r, "await", "await")
  /\ CanRetry(r)
  /\ Outcome(r) \cap Transient # {}
  /\ Send(r)
  /\ UNCHANGED <<store, req, code, persisted, resp, cache, rcsTasks>>

(* An exception that is not of the client's own leaves submit_raw as a     *)
(* network error: that of a 5xx which is not retried is one of them.       *)
Raised(r, o) ==
  IF o \in Refusals THEN o
  ELSE IF o = "5xx" /\ Retryable(req[r].payload) THEN "upstream5xx"
  ELSE IF o \in {"http", "garbled"} THEN "rcsError"
  ELSE IF o = "oddData" THEN "internal" ELSE "network"

SubmitFailed(r) ==
  /\ pc[r] = "await"
  /\ \E o \in Outcome(r) : /\ o \in Transient => ~CanRetry(r)
                           /\ Answer(r, "await", Failure(Raised(r, o)))
  /\ UNCHANGED <<store, local, cache, rcs>>

SubmitAnswered(r) ==
  /\ heard[r] \in OptCode
  /\ Goto(r, "await", IF req[r].persist /\ heard[r] # NoCode THEN "create" ELSE "save")
  /\ code' = [code EXCEPT ![r] = heard[r]]
  /\ UNCHANGED <<store, req, attempts, persisted, resp, cache, rcs>>

Create(r) ==
  /\ Goto(r, "create", "commit")
  /\ InsertFlushed(r, RowOf(r))
  /\ UNCHANGED <<local, resp, cache, rcs>>

CreateDuplicate(r) ==
  /\ Answer(r, "create", Failure("internal"))
  /\ ClashesWithCommitted(RowOf(r))
  /\ RollbackTxn(r)
  /\ UNCHANGED <<local, cache, rcs>>

Commit(r) ==
  /\ Goto(r, "commit", "save")
  /\ CommitTxn(r)
  /\ persisted' = [persisted EXCEPT ![r] = TRUE]
  /\ UNCHANGED <<req, attempts, code, resp, cache, rcs>>

DbError(r) ==
  /\ \E from \in {"create", "commit"} : Answer(r, from, Failure("internal"))
  /\ \/ RollbackTxn(r)
     \/ pc[r] = "commit" /\ CommitTxn(r)
  /\ UNCHANGED <<local, cache, rcs>>

Remember(r) ==
  IF Truthy(req[r].key)
  THEN [cache EXCEPT ![req[r].key] =
          [payload |-> req[r].payload, code |-> code[r], persisted |-> persisted[r]]]
  ELSE cache

Save(r) ==
  /\ Answer(r, "save", Result(code[r], persisted[r]))
  /\ cache' = Remember(r)
  /\ UNCHANGED <<store, local, rcs>>

RedisError(r) ==
  /\ \/ Answer(r, "lookup", Failure("internal")) /\ UNCHANGED cache
     \/ /\ Answer(r, "save", Failure("internal"))
        /\ cache' \in {cache, Remember(r)}
  /\ Truthy(req[r].key)
  /\ UNCHANGED <<store, local, rcs>>

Crash(r) ==
  /\ pc[r] \in Active
  /\ pc' = [pc EXCEPT ![r] = "crashed"]
  /\ heard' = [heard EXCEPT ![r] = Silent]
  /\ RollbackTxn(r)
  /\ UNCHANGED <<local, resp, cache, inflight, rcsTasks>>

-----------------------------------------------------------------------------
(* The RCS.  Any POST under the prefix is passed on, one that makes a task *)
(* and one like task/cancel alike, so it may make one task or none, and    *)
(* its answer, like that of a GET, may carry the code of any task.  A POST *)
(* refused with a business code makes none; with another error it may.     *)
Made == {t.code : t \in rcsTasks}
Unused == Codes \ Made

(* The answer, unless it is lost or nobody waits for it any longer. *)
Hears(r, answers) ==
  heard' \in {heard} \cup
    {[heard EXCEPT ![r] = h] : h \in IF pc[r] = "await" THEN answers ELSE {}}

RcsServes(r) ==
  /\ r \in inflight
  /\ inflight' = inflight \ {r}
  /\ \/ /\ Hears(r, {NoCode} \cup Made \cup Errors)
        /\ UNCHANGED rcsTasks
     \/ /\ req[r].payload \notin Gets
        /\ \E c \in Unused :
             /\ rcsTasks' = rcsTasks \cup {[code |-> c, by |-> r]}
             /\ Hears(r, {c, NoCode} \cup Made \cup (Errors \ Refusals))
  /\ UNCHANGED <<store, pc, local, resp, cache>>

(* Task creation records a task of its own under a key. *)
CreatedElsewhere ==
  /\ \E c \in Unused, k \in ColumnKeys :
       LET row == [code |-> c, key |-> k] IN
       /\ ~ClashesWithCommitted(row)
       /\ \A q \in Requests : txn[q] \in Row => ~Clash(row, txn[q])
       /\ rows' = rows \cup {row}
       /\ rcsTasks' = rcsTasks \cup {[code |-> c, by |-> Elsewhere]}
  /\ UNCHANGED <<txn, pc, local, resp, cache, heard, inflight>>

Expire(k) ==
  /\ cache[k] # NoEntry
  /\ cache' = [cache EXCEPT ![k] = NoEntry]
  /\ UNCHANGED <<store, pc, local, resp, rcs>>

-----------------------------------------------------------------------------
Advance(r) ==
  \/ LookupMiss(r) \/ LookupHit(r) \/ SubmitRetry(r) \/ SubmitFailed(r)
  \/ SubmitAnswered(r) \/ Create(r) \/ CreateDuplicate(r) \/ Commit(r) \/ Save(r)

Next ==
  \/ \E r \in Requests :
        \/ Arrive(r) \/ Advance(r) \/ DbError(r) \/ RedisError(r) \/ Crash(r)
        \/ RcsServes(r)
  \/ CreatedElsewhere
  \/ \E k \in Keys : Expire(k)

Spec == Init /\ [][Next]_vars

-----------------------------------------------------------------------------
TypeOK ==
  /\ rows \subseteq Row
  /\ txn \in [Requests -> Row \cup {NoRow}]
  /\ pc \in [Requests -> Stage]
  /\ req \in [Requests -> Request \cup {NoRequest}]
  /\ attempts \in [Requests -> 0..MaxAttempts]
  /\ heard \in [Requests -> OptCode \cup Errors \cup {Silent}]
  /\ code \in [Requests -> OptCode]
  /\ persisted \in [Requests -> BOOLEAN]
  /\ resp \in [Requests -> Response]
  /\ cache \in [Keys -> Entry \cup {NoEntry}]
  /\ inflight \subseteq Requests
  /\ rcsTasks \subseteq [code : Codes, by : Requests \cup {Elsewhere}]

Succeeded(r) == resp[r].kind = "ok"

(* persisted = true is never a lie, fresh or from the cache: a row holds   *)
(* the code under the key, whatever task creation inserted meanwhile.      *)
PersistedIsRow ==
  /\ \A r \in Requests : resp[r].persisted =>
       [code |-> resp[r].code, key |-> req[r].key] \in rows
  /\ \A k \in Keys : CacheHit(k) /\ cache[k].persisted =>
       [code |-> cache[k].code, key |-> k] \in rows

(* A success says what the RCS said: to the request's own attempt or, when *)
(* it sent none, to an earlier request with its key, method, path, body    *)
(* and mode.  It is never the answer to another submit under the key, and  *)
(* never the code of an attempt before the last.                           *)
AnswerOwnSubmit ==
  \A r \in Requests : Succeeded(r) =>
    \/ heard[r] = resp[r].code
    \/ /\ attempts[r] = 0 /\ Truthy(req[r].key)
       /\ \E q \in Requests : /\ req[q].key = req[r].key
                             /\ req[q].payload = req[r].payload
                             /\ heard[q] = resp[r].code

(* Two persisted answers under one key name one task; the unique column,   *)
(* which task creation shares, decides it, not the cache.                  *)
PersistedAgree ==
  \A q, r \in Requests :
    /\ resp[q].persisted /\ resp[r].persisted
    /\ Truthy(req[q].key) /\ req[q].key = req[r].key
    => resp[q].code = resp[r].code

(* A submit goes out once: no POST is attempted twice or makes two tasks.  *)
PostedOnce ==
  /\ \A r \in Requests :
        req[r] # NoRequest /\ req[r].payload \notin Gets => attempts[r] <= 1
  /\ \A t, u \in rcsTasks : t.by = u.by /\ t.by # Elsewhere => t = u

(* An error says what happened.  After a refusal, of the RCS or of the     *)
(* service, there is no task of this request, and the caller may submit    *)
(* again; "5xx" and a network error are not such answers.  A 5xx is        *)
(* reported as one only when the RCS failed a GET on its last attempt.     *)
ErrorsFaithful ==
  \A r \in Requests :
    /\ resp[r].kind \in Refusals \cup {"badPath", "duplicate"} =>
         \A t \in rcsTasks : t.by # r
    /\ resp[r].kind \in {"badPath", "duplicate"} => attempts[r] = 0
    /\ resp[r].kind = "upstream5xx" =>
         heard[r] = "5xx" /\ attempts[r] = MaxAttempts
=============================================================================
