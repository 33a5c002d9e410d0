-------------------------- MODULE RcsSubmit_proofs --------------------------
(***************************************************************************)
(* Theorems about RcsSubmit, for any sets of requests, keys, codes and     *)
(* payloads and any number of attempts.                                    *)
(***************************************************************************)
EXTENDS RcsSubmit, TLAPS

(* A handler's locals are set before the stages that read them; only a     *)
(* handler at its commit has an uncommitted row, its own; persisted is set *)
(* by the commit and the attempts are counted from the first one on.       *)
Filled ==
  \A r \in Requests :
    /\ pc[r] # "new" => req[r] \in Request
    /\ pc[r] = "new" => req[r] = NoRequest
    /\ pc[r] \in {"new", "lookup"} => attempts[r] = 0
    /\ pc[r] \in {"create", "commit"} => code[r] \in Codes
    /\ pc[r] = "commit" => txn[r] = RowOf(r)
    /\ pc[r] # "commit" => txn[r] = NoRow
    /\ persisted[r] => pc[r] \in {"save", "answered", "crashed"}
    /\ pc[r] # "answered" => resp[r] = Failure("none")

Typed == TypeOK /\ Filled

LEMMA RowOfTyped ==
  ASSUME NEW r \in Requests, req[r] \in Request, code[r] \in Codes
  PROVE  RowOf(r) \in Row
BY DEF RowOf, Row, Request

LEMMA RememberTyped ==
  ASSUME Typed, NEW r \in Requests, pc[r] # "new"
  PROVE  Remember(r) \in [Keys -> Entry \cup {NoEntry}]
BY DEF Typed, TypeOK, Filled, Remember, Truthy, Entry, Request

(* A retryable attempt is within the limit, and so is the first.           *)
LEMMA SendTyped ==
  ASSUME Typed, NEW r \in Requests, Send(r), attempts[r] < MaxAttempts
  PROVE  /\ attempts' \in [Requests -> 0..MaxAttempts]
         /\ heard' \in [Requests -> OptCode \cup Errors \cup {Silent}]
         /\ inflight' \subseteq Requests
BY SubmitAssumption DEF Typed, TypeOK, Send

LEMMA HearsTyped ==
  ASSUME Typed, NEW r \in Requests, NEW answers, Hears(r, answers),
         answers \subseteq OptCode \cup Errors
  PROVE  heard' \in [Requests -> OptCode \cup Errors \cup {Silent}]
BY DEF Typed, TypeOK, Hears

LEMMA TypeInit == Init => Typed
BY SubmitAssumption
DEF Init, Typed, TypeOK, Filled, Stage, Response, Kinds, Failure, OptCode

LEMMA TypeStep == Typed /\ [Next]_vars => Typed'
<1> SUFFICES ASSUME Typed, [Next]_vars PROVE Typed'
  OBVIOUS
<1> USE DEF Typed, TypeOK, Filled, Stage, Active, RowOf, local, store, rcs
<1>1. ASSUME NEW r \in Requests, Arrive(r) PROVE Typed'
  <2>1. PICK q \in Request :
          /\ pc[r] = "new" /\ req' = [req EXCEPT ![r] = q]
          /\ \/ pc' = [pc EXCEPT ![r] = "lookup"] /\ resp' = resp
             \/ /\ pc' = [pc EXCEPT ![r] = "answered"]
                /\ resp' = [resp EXCEPT ![r] = Failure("badPath")]
    BY <1>1 DEF Arrive, Answer, Goto
  <2>2. Failure("badPath") \in Response
    BY DEF Failure, Response, Kinds, OptCode
  <2>3. UNCHANGED <<rows, txn, attempts, code, persisted, cache, heard, inflight, rcsTasks>>
    BY <1>1 DEF Arrive
  <2> QED
    BY <2>1, <2>2, <2>3
<1>2. ASSUME NEW r \in Requests, LookupMiss(r) PROVE Typed'
  <2>1. attempts[r] < MaxAttempts
    BY <1>2, SubmitAssumption DEF LookupMiss, Goto
  <2> QED
    BY <1>2, <2>1, SendTyped DEF LookupMiss, Send, Goto
<1>3. ASSUME NEW r \in Requests, LookupHit(r) PROVE Typed'
  <2>1. cache[req[r].key] \in Entry
    BY <1>3 DEF LookupHit, CacheHit
  <2>2. resp' \in [Requests -> Response]
    BY <1>3, <2>1 DEF LookupHit, Answer, Result, Failure, Response, Kinds, Entry, OptCode
  <2> QED
    BY <1>3, <2>2 DEF LookupHit, Answer, Goto
<1>4. ASSUME NEW r \in Requests, SubmitRetry(r) PROVE Typed'
  BY <1>4, SendTyped DEF SubmitRetry, CanRetry, Send, Goto
<1>5. ASSUME NEW r \in Requests, SubmitFailed(r) PROVE Typed'
  <2>1. PICK o \in Outcome(r) : Answer(r, "await", Failure(Raised(r, o)))
    BY <1>5 DEF SubmitFailed
  <2>2. Raised(r, o) \in Kinds
    BY DEF Raised, Kinds
  <2>3. resp' \in [Requests -> Response]
    BY <2>1, <2>2 DEF Answer, Failure, Response, OptCode
  <2> QED
    BY <1>5, <2>1, <2>3 DEF SubmitFailed, Answer, Goto
<1>6. ASSUME NEW r \in Requests, SubmitAnswered(r) PROVE Typed'
  <2>1. code' \in [Requests -> OptCode]
    BY <1>6 DEF SubmitAnswered
  <2> QED
    BY <1>6, <2>1 DEF SubmitAnswered, Goto, OptCode
<1>7. ASSUME NEW r \in Requests, Create(r) PROVE Typed'
  <2>1. RowOf(r) \in Row
    BY <1>7, RowOfTyped DEF Create, Goto
  <2> QED
    BY <1>7, <2>1 DEF Create, InsertFlushed, Goto
<1>8. ASSUME NEW r \in Requests, CreateDuplicate(r) PROVE Typed'
  BY <1>8 DEF CreateDuplicate, Answer, RollbackTxn, Goto, Failure, Response, Kinds, OptCode
<1>9. ASSUME NEW r \in Requests, Commit(r) PROVE Typed'
  <2>1. txn[r] \in Row
    BY <1>9, RowOfTyped DEF Commit, Goto
  <2> QED
    BY <1>9, <2>1 DEF Commit, CommitTxn, Goto
<1>10. ASSUME NEW r \in Requests, DbError(r) PROVE Typed'
  <2>1. /\ pc[r] \in {"create", "commit"}
        /\ pc' = [pc EXCEPT ![r] = "answered"]
        /\ resp' = [resp EXCEPT ![r] = Failure("internal")]
        /\ txn' = [txn EXCEPT ![r] = NoRow]
    BY <1>10 DEF DbError, Answer, Goto, RollbackTxn, CommitTxn
  <2>2. rows' \subseteq Row
    <3>1. CASE rows' = rows
      BY <3>1
    <3>2. CASE pc[r] = "commit" /\ rows' = rows \cup {txn[r]}
      BY <3>2, RowOfTyped
    <3> QED
      BY <1>10, <3>1, <3>2 DEF DbError, RollbackTxn, CommitTxn
  <2> QED
    BY <1>10, <2>1, <2>2 DEF DbError, Failure, Response, Kinds, OptCode
<1>11. ASSUME NEW r \in Requests, Save(r) PROVE Typed'
  <2>1. cache' \in [Keys -> Entry \cup {NoEntry}]
    BY <1>11, RememberTyped DEF Save, Answer, Goto
  <2>2. resp' \in [Requests -> Response]
    BY <1>11 DEF Save, Answer, Result, Response, Kinds
  <2> QED
    BY <1>11, <2>1, <2>2 DEF Save, Answer, Goto
<1>12. ASSUME NEW r \in Requests, RedisError(r) PROVE Typed'
  <2>1. /\ pc[r] \in {"lookup", "save"}
        /\ pc' = [pc EXCEPT ![r] = "answered"]
        /\ resp' = [resp EXCEPT ![r] = Failure("internal")]
        /\ cache' \in {cache, Remember(r)}
    BY <1>12 DEF RedisError, Answer, Goto
  <2>2. cache' \in [Keys -> Entry \cup {NoEntry}]
    BY <2>1, RememberTyped
  <2> QED
    BY <1>12, <2>1, <2>2 DEF RedisError, Failure, Response, Kinds, OptCode
<1>13. ASSUME NEW r \in Requests, Crash(r) PROVE Typed'
  BY <1>13 DEF Crash, RollbackTxn
<1>14. ASSUME NEW r \in Requests, RcsServes(r) PROVE Typed'
  <2>1. heard' \in [Requests -> OptCode \cup Errors \cup {Silent}]
    <3>1. Made \subseteq Codes
      BY DEF Made
    <3>2. CASE Hears(r, {NoCode} \cup Made \cup Errors)
      <4>1. {NoCode} \cup Made \cup Errors \subseteq OptCode \cup Errors
        BY <3>1 DEF OptCode
      <4> QED
        BY <3>2, <4>1, HearsTyped
    <3>3. ASSUME NEW c \in Unused, Hears(r, {c, NoCode} \cup Made \cup (Errors \ Refusals))
          PROVE  heard' \in [Requests -> OptCode \cup Errors \cup {Silent}]
      <4>1. {c, NoCode} \cup Made \cup (Errors \ Refusals) \subseteq OptCode \cup Errors
        BY <3>1 DEF Unused, OptCode
      <4> QED
        BY <3>3, <4>1, HearsTyped
    <3> QED
      BY <1>14, <3>2, <3>3 DEF RcsServes
  <2>2. rcsTasks' \subseteq [code : Codes, by : Requests \cup {Elsewhere}]
    <3>1. rcsTasks' = rcsTasks
            \/ \E c \in Codes : rcsTasks' = rcsTasks \cup {[code |-> c, by |-> r]}
      BY <1>14 DEF RcsServes, Unused
    <3> QED
      BY <3>1
  <2>3. UNCHANGED <<rows, txn, pc, req, attempts, code, persisted, resp, cache>>
        /\ inflight' \subseteq inflight
    BY <1>14 DEF RcsServes
  <2> QED
    BY <2>1, <2>2, <2>3
<1>15. CASE CreatedElsewhere
  BY <1>15 DEF CreatedElsewhere, Unused, Row
<1>16. ASSUME NEW k \in Keys, Expire(k) PROVE Typed'
  BY <1>16 DEF Expire
<1>17. CASE UNCHANGED vars
  BY <1>17 DEF vars
<1> QED
  BY <1>1, <1>2, <1>3, <1>4, <1>5, <1>6, <1>7, <1>8, <1>9, <1>10, <1>11, <1>12, <1>13,
     <1>14, <1>15, <1>16, <1>17 DEF Next, Advance

(* A raw submit never leaves the types of its state: no stage is reached   *)
(* without the locals it reads, and no attempt is made beyond the limit.   *)
THEOREM TypeCorrect == Spec => []TypeOK
<1>1. Spec => []Typed
  BY TypeInit, TypeStep, PTL DEF Spec
<1>2. Typed => TypeOK
  BY DEF Typed
<1> QED
  BY <1>1, <1>2, PTL

-----------------------------------------------------------------------------
(* The unique indexes hold among committed rows, those of task creation    *)
(* included, and against every uncommitted one.                            *)
RowsUnique == \A x, y \in rows : Clash(x, y) => x = y

TxnFree ==
  \A r \in Requests : txn[r] \in Row =>
    /\ ~ClashesWithCommitted(txn[r])
    /\ ~WaitsForLock(r, txn[r])

(* A handler saves persisted = true only after its commit.                 *)
SavedRow ==
  \A r \in Requests : pc[r] = "save" /\ persisted[r] => RowOf(r) \in rows

(* What the RCS has made for a request: nothing before its first attempt,  *)
(* nothing for a GET, nothing for a POST that is on the wire, and one task *)
(* for a POST at most.                                                     *)
NoTaskBy(r) == \A t \in rcsTasks : t.by # r
Get(r) == req[r].payload \in Gets

Attempted ==
  /\ \A r \in Requests : attempts[r] = 0 =>
        heard[r] = Silent /\ r \notin inflight /\ NoTaskBy(r)
  /\ \A r \in Requests : pc[r] # "new" /\ Get(r) => NoTaskBy(r)
  /\ \A r \in inflight : ~Get(r) => NoTaskBy(r)

(* A refusal that a handler heard of its POST is true: there is no task of *)
(* it and will be none.                                                    *)
HeardTrue ==
  \A r \in Requests : pc[r] # "new" /\ ~Get(r) /\ heard[r] \in Refusals =>
    r \notin inflight /\ NoTaskBy(r)

(* What it heard is what it stores.                                        *)
CodeHeard ==
  \A r \in Requests : pc[r] \in {"create", "commit", "save"} => code[r] = heard[r]

(* Every entry of the cache, and every success without an attempt, says    *)
(* what an answered request with the key and the fingerprint heard.        *)
SaidTo(c, k, p) ==
  \E q \in Requests : /\ pc[q] = "answered"
                      /\ req[q].key = k /\ req[q].payload = p
                      /\ heard[q] = c

CachedSaid ==
  \A k \in Keys : CacheHit(k) => SaidTo(cache[k].code, k, cache[k].payload)

AnswerSaid ==
  \A r \in Requests : Succeeded(r) =>
    \/ heard[r] = resp[r].code
    \/ /\ attempts[r] = 0 /\ req[r].key \in Keys
       /\ SaidTo(resp[r].code, req[r].key, req[r].payload)

(* The answer to a failed submit is what the handler heard last, and an    *)
(* answer without a submit comes before the first attempt.                 *)
AnswerHeard ==
  \A r \in Requests :
    /\ resp[r].kind \in Refusals => heard[r] \in Refusals
    /\ resp[r].kind \in {"badPath", "duplicate"} => attempts[r] = 0
    /\ resp[r].kind = "upstream5xx" => heard[r] = "5xx" /\ attempts[r] = MaxAttempts

PostsOnce ==
  /\ \A r \in Requests : pc[r] # "new" /\ ~Get(r) => attempts[r] <= 1
  /\ \A t, u \in rcsTasks : t.by = u.by /\ t.by # Elsewhere => t = u

Inv ==
  /\ Typed /\ RowsUnique /\ TxnFree /\ SavedRow /\ Attempted /\ HeardTrue /\ CodeHeard
  /\ CachedSaid /\ AnswerSaid /\ AnswerHeard /\ PostsOnce /\ PersistedIsRow

LEMMA InvInit == Init => Inv
<1> SUFFICES ASSUME Init PROVE Inv
  OBVIOUS
<1>1. Typed
  BY TypeInit
<1>2. RowsUnique /\ TxnFree /\ SavedRow
  BY SubmitAssumption DEF Init, RowsUnique, TxnFree, SavedRow
<1>3. Attempted /\ HeardTrue /\ CodeHeard /\ PostsOnce
  BY SubmitAssumption DEF Init, Refusals, Attempted, HeardTrue, CodeHeard, PostsOnce, NoTaskBy
<1>4. CachedSaid /\ PersistedIsRow
  BY SubmitAssumption DEF Init, CachedSaid, PersistedIsRow, CacheHit, Entry, OptCode, Failure
<1>5. AnswerHeard /\ AnswerSaid
  BY DEF Init, AnswerHeard, AnswerSaid, Succeeded, Failure, Refusals
<1> QED
  BY <1>1, <1>2, <1>3, <1>4, <1>5 DEF Inv

-----------------------------------------------------------------------------
(* What one step may do to each part of the state.                         *)

(* Nothing that was committed, made by the RCS, asked or answered is taken *)
(* back.                                                                   *)
Grows ==
  /\ rows \subseteq rows'
  /\ rcsTasks \subseteq rcsTasks'
  /\ \A r \in Requests : pc[r] # "new" => req'[r] = req[r] /\ pc'[r] # "new"

LEMMA StepGrows ==
  ASSUME Typed, [Next]_vars
  PROVE  Grows
<1> USE DEF Typed, TypeOK, Goto, Answer, local, store, rcs, Grows
<1>1. ASSUME NEW r \in Requests, Arrive(r) \/ LookupMiss(r) \/ LookupHit(r) PROVE Grows
  BY <1>1 DEF Arrive, LookupMiss, LookupHit
<1>2. ASSUME NEW r \in Requests, SubmitRetry(r) \/ SubmitFailed(r) \/ SubmitAnswered(r)
      PROVE  Grows
  BY <1>2 DEF SubmitRetry, SubmitFailed, SubmitAnswered
<1>3. ASSUME NEW r \in Requests, Create(r) \/ CreateDuplicate(r) \/ Commit(r) \/ Save(r)
      PROVE  Grows
  BY <1>3 DEF Create, CreateDuplicate, Commit, Save, InsertFlushed, RollbackTxn, CommitTxn
<1>4. ASSUME NEW r \in Requests, DbError(r) \/ RedisError(r) \/ Crash(r) PROVE Grows
  BY <1>4 DEF DbError, RedisError, Crash, RollbackTxn, CommitTxn, Active
<1>5. ASSUME NEW r \in Requests, RcsServes(r) PROVE Grows
  BY <1>5 DEF RcsServes
<1>6. CASE CreatedElsewhere
  BY <1>6 DEF CreatedElsewhere
<1>7. ASSUME NEW k \in Keys, Expire(k) PROVE Grows
  BY <1>7 DEF Expire
<1>8. CASE UNCHANGED vars
  BY <1>8 DEF vars
<1> QED
  BY <1>1, <1>2, <1>3, <1>4, <1>5, <1>6, <1>7, <1>8 DEF Next, Advance

(* Rows appear by the commit of the handler's own insert, or by that of    *)
(* task creation; a transaction ends, or begins with an insert that met no *)
(* clash.                                                                  *)
RowsCommitted ==
  \E r \in Requests :
    /\ pc[r] = "commit"
    /\ rows' = rows \cup {txn[r]}
    /\ txn' = [txn EXCEPT ![r] = NoRow]

RowElsewhere ==
  \E row \in Row :
    /\ ~ClashesWithCommitted(row)
    /\ \A q \in Requests : txn[q] \in Row => ~Clash(row, txn[q])
    /\ rows' = rows \cup {row}
    /\ txn' = txn

TxnStarted ==
  \E r \in Requests :
    /\ pc[r] = "create"
    /\ ~ClashesWithCommitted(RowOf(r))
    /\ ~WaitsForLock(r, RowOf(r))
    /\ rows' = rows
    /\ txn' = [txn EXCEPT ![r] = RowOf(r)]

TxnEnded ==
  \E r \in Requests : rows' = rows /\ txn' = [txn EXCEPT ![r] = NoRow]

RowsStep ==
  UNCHANGED <<rows, txn>> \/ RowsCommitted \/ RowElsewhere \/ TxnStarted \/ TxnEnded

LEMMA StepRows ==
  ASSUME Typed, [Next]_vars
  PROVE  RowsStep
<1> USE DEF Goto, Answer, local, store, rcs, RowsStep
<1>1. ASSUME NEW r \in Requests, Arrive(r) \/ LookupMiss(r) \/ LookupHit(r) PROVE RowsStep
  BY <1>1 DEF Arrive, LookupMiss, LookupHit
<1>2. ASSUME NEW r \in Requests, SubmitRetry(r) \/ SubmitFailed(r) \/ SubmitAnswered(r)
      PROVE  RowsStep
  BY <1>2 DEF SubmitRetry, SubmitFailed, SubmitAnswered
<1>3. ASSUME NEW r \in Requests, Create(r) \/ CreateDuplicate(r) PROVE RowsStep
  BY <1>3 DEF Create, CreateDuplicate, InsertFlushed, RollbackTxn, TxnStarted, TxnEnded
<1>4. ASSUME NEW r \in Requests, Commit(r) \/ Save(r) PROVE RowsStep
  BY <1>4 DEF Commit, Save, CommitTxn, RowsCommitted
<1>5. ASSUME NEW r \in Requests, DbError(r) \/ RedisError(r) \/ Crash(r) PROVE RowsStep
  BY <1>5 DEF DbError, RedisError, Crash, RollbackTxn, CommitTxn, RowsCommitted, TxnEnded
<1>6. ASSUME NEW r \in Requests, RcsServes(r) PROVE RowsStep
  BY <1>6 DEF RcsServes
<1>7. CASE CreatedElsewhere
  <2>1. PICK c \in Unused, k \in ColumnKeys :
          LET row == [code |-> c, key |-> k] IN
            /\ ~ClashesWithCommitted(row)
            /\ \A q \in Requests : txn[q] \in Row => ~Clash(row, txn[q])
            /\ rows' = rows \cup {row}
            /\ txn' = txn
    BY <1>7 DEF CreatedElsewhere
  <2>2. [code |-> c, key |-> k] \in Row
    BY DEF Row, Unused
  <2> QED
    BY <2>1, <2>2 DEF RowElsewhere
<1>8. ASSUME NEW k \in Keys, Expire(k) PROVE RowsStep
  BY <1>8 DEF Expire
<1>9. CASE UNCHANGED vars
  BY <1>9 DEF vars
<1> QED
  BY <1>1, <1>2, <1>3, <1>4, <1>5, <1>6, <1>7, <1>8, <1>9 DEF Next, Advance

(* The cache changes by a save, with what the handler has, and by expiry.  *)
Saved ==
  \E r \in Requests :
    /\ pc[r] = "save" /\ pc' = [pc EXCEPT ![r] = "answered"]
    /\ req[r].key \in Keys
    /\ UNCHANGED heard
    /\ cache' = [cache EXCEPT ![req[r].key] =
         [payload |-> req[r].payload, code |-> code[r], persisted |-> persisted[r]]]

CacheLost == \E k \in Keys : cache' = [cache EXCEPT ![k] = NoEntry]

CacheStep == UNCHANGED cache \/ Saved \/ CacheLost

LEMMA StepCache ==
  ASSUME Typed, [Next]_vars
  PROVE  CacheStep
<1> USE DEF Goto, Answer, local, store, rcs, CacheStep
<1>1. ASSUME NEW r \in Requests, Arrive(r) \/ LookupMiss(r) \/ LookupHit(r) PROVE CacheStep
  BY <1>1 DEF Arrive, LookupMiss, LookupHit
<1>2. ASSUME NEW r \in Requests, SubmitRetry(r) \/ SubmitFailed(r) \/ SubmitAnswered(r)
      PROVE  CacheStep
  BY <1>2 DEF SubmitRetry, SubmitFailed, SubmitAnswered
<1>3. ASSUME NEW r \in Requests, Create(r) \/ CreateDuplicate(r) \/ Commit(r) PROVE CacheStep
  BY <1>3 DEF Create, CreateDuplicate, Commit
<1>4. ASSUME NEW r \in Requests, Save(r) \/ RedisError(r) PROVE CacheStep
  BY <1>4 DEF Save, RedisError, Remember, Truthy, Saved
<1>5. ASSUME NEW r \in Requests, DbError(r) \/ Crash(r) \/ RcsServes(r) PROVE CacheStep
  BY <1>5 DEF DbError, Crash, RcsServes
<1>6. CASE CreatedElsewhere
  BY <1>6 DEF CreatedElsewhere
<1>7. ASSUME NEW k \in Keys, Expire(k) PROVE CacheStep
  BY <1>7 DEF Expire, CacheLost
<1>8. CASE UNCHANGED vars
  BY <1>8 DEF vars
<1> QED
  BY <1>1, <1>2, <1>3, <1>4, <1>5, <1>6, <1>7, <1>8 DEF Next, Advance

(* An answer is given once, when the handler ends.  It is one the cache    *)
(* has, the handler's own, or an error: of the path, the fingerprint or    *)
(* the attempt, or one that says nothing of the submit.                    *)
Ends(r, answer) ==
  /\ pc' = [pc EXCEPT ![r] = "answered"]
  /\ resp' = [resp EXCEPT ![r] = answer]
  /\ UNCHANGED <<attempts, heard>>

Told(r) ==
  \/ pc[r] = "new" /\ Ends(r, Failure("badPath"))
  \/ pc[r] = "lookup" /\ Ends(r, Failure("duplicate"))
  \/ /\ pc[r] = "lookup" /\ CacheHit(req[r].key) /\ SameFingerprint(r)
     /\ Ends(r, Result(cache[req[r].key].code, cache[req[r].key].persisted))
  \/ \E o \in Refusals : pc[r] = "await" /\ heard[r] = o /\ Ends(r, Failure(o))
  \/ /\ pc[r] = "await" /\ heard[r] = "5xx" /\ attempts[r] = MaxAttempts
     /\ Ends(r, Failure("upstream5xx"))
  \/ \E k \in {"network", "rcsError", "internal"} :
        pc[r] \in Active /\ Ends(r, Failure(k))
  \/ pc[r] = "save" /\ Ends(r, Result(code[r], persisted[r]))

Moved ==
  /\ UNCHANGED resp
  /\ \A r \in Requests : pc[r] = "answered" <=> pc'[r] = "answered"

AnswerStep == Moved \/ \E r \in Requests : Told(r)

LEMMA StepAnswer ==
  ASSUME Typed, [Next]_vars
  PROVE  AnswerStep
<1> USE DEF Typed, TypeOK, Goto, Answer, local, store, rcs, AnswerStep, Active
<1>1. ASSUME NEW r \in Requests, Arrive(r) PROVE Moved \/ Told(r)
  BY <1>1 DEF Arrive, Moved, Told, Ends
<1>2. ASSUME NEW r \in Requests, LookupMiss(r) PROVE Moved
  BY <1>2 DEF LookupMiss, Moved
<1>3. ASSUME NEW r \in Requests, LookupHit(r) PROVE Told(r)
  BY <1>3 DEF LookupHit, Told, Ends
<1>4. ASSUME NEW r \in Requests, SubmitRetry(r) \/ SubmitAnswered(r) PROVE Moved
  BY <1>4 DEF SubmitRetry, SubmitAnswered, Moved
<1>5. ASSUME NEW r \in Requests, SubmitFailed(r) PROVE Told(r)
  <2>1. PICK o \in Outcome(r) : /\ o \in Transient => ~CanRetry(r)
                                /\ Answer(r, "await", Failure(Raised(r, o)))
    BY <1>5 DEF SubmitFailed
  <2>2. pc[r] = "await" /\ Ends(r, Failure(Raised(r, o)))
    BY <1>5, <2>1 DEF SubmitFailed, Ends
  <2>3. CASE o \in Refusals
    <3>1. heard[r] = o
      BY <2>1, <2>3 DEF Outcome, Errors, Refusals
    <3>2. Raised(r, o) = o
      BY <2>3 DEF Raised, Refusals
    <3> QED
      BY <2>2, <2>3, <3>1, <3>2 DEF Told
  <2>4. CASE o = "5xx" /\ Retryable(req[r].payload)
    <3>1. heard[r] = "5xx"
      BY <2>1, <2>4 DEF Outcome, Errors
    <3>2. attempts[r] = MaxAttempts
      BY <2>1, <2>4, SubmitAssumption DEF Transient, CanRetry
    <3>3. Raised(r, o) = "upstream5xx"
      BY <2>4 DEF Raised, Refusals
    <3> QED
      BY <2>2, <3>1, <3>2, <3>3 DEF Told
  <2>5. CASE o \notin Refusals /\ ~(o = "5xx" /\ Retryable(req[r].payload))
    <3>1. Raised(r, o) \in {"network", "rcsError", "internal"}
      BY <2>5 DEF Raised
    <3> QED
      BY <2>2, <3>1 DEF Told
  <2> QED
    BY <2>3, <2>4, <2>5
<1>6. ASSUME NEW r \in Requests, Create(r) \/ Commit(r) PROVE Moved
  BY <1>6 DEF Create, Commit, Moved
<1>7. ASSUME NEW r \in Requests, CreateDuplicate(r) \/ DbError(r) \/ RedisError(r)
      PROVE  Told(r)
  BY <1>7 DEF CreateDuplicate, DbError, RedisError, Told, Ends
<1>8. ASSUME NEW r \in Requests, Save(r) PROVE Told(r)
  BY <1>8 DEF Save, Told, Ends
<1>9. ASSUME NEW r \in Requests, Crash(r) \/ RcsServes(r) PROVE Moved
  BY <1>9 DEF Crash, RcsServes, Moved
<1>10. CASE CreatedElsewhere
  BY <1>10 DEF CreatedElsewhere, Moved
<1>11. ASSUME NEW k \in Keys, Expire(k) PROVE Moved
  BY <1>11 DEF Expire, Moved
<1>12. CASE UNCHANGED vars
  BY <1>12 DEF vars, Moved
<1> QED
  BY <1>1, <1>2, <1>3, <1>4, <1>5, <1>6, <1>7, <1>8, <1>9, <1>10, <1>11, <1>12
  DEF Next, Advance

(* An attempt goes out, the first one or another of a GET; an attempt is   *)
(* served; a handler stops to listen; task creation makes a task of its    *)
(* own.                                                                    *)
Sends ==
  \E r \in Requests :
    /\ \/ pc[r] = "lookup"
       \/ pc[r] = "await" /\ req[r].payload \in Gets /\ attempts[r] < MaxAttempts
    /\ pc' = [pc EXCEPT ![r] = "await"]
    /\ Send(r)
    /\ UNCHANGED rcsTasks

Silenced ==
  \E r \in Requests : /\ pc' = [pc EXCEPT ![r] = "crashed"]
                      /\ heard' = [heard EXCEPT ![r] = Silent]
                      /\ UNCHANGED <<attempts, inflight, rcsTasks>>

RcsStep ==
  \/ UNCHANGED <<attempts, heard, inflight, rcsTasks>>
  \/ Sends \/ Silenced
  \/ \E r \in Requests : RcsServes(r)
  \/ CreatedElsewhere

LEMMA StepRcs ==
  ASSUME Typed, [Next]_vars
  PROVE  RcsStep
<1> USE DEF Goto, Answer, local, store, rcs, RcsStep
<1>1. ASSUME NEW r \in Requests, Arrive(r) \/ LookupHit(r) PROVE RcsStep
  BY <1>1 DEF Arrive, LookupHit
<1>2. ASSUME NEW r \in Requests, LookupMiss(r) PROVE Sends
  BY <1>2 DEF LookupMiss, Sends
<1>3. ASSUME NEW r \in Requests, SubmitRetry(r) PROVE Sends
  BY <1>3 DEF SubmitRetry, CanRetry, Retryable, Sends
<1>4. ASSUME NEW r \in Requests, SubmitFailed(r) \/ SubmitAnswered(r) PROVE RcsStep
  BY <1>4 DEF SubmitFailed, SubmitAnswered
<1>5. ASSUME NEW r \in Requests, Create(r) \/ CreateDuplicate(r) \/ Commit(r) \/ Save(r)
      PROVE  RcsStep
  BY <1>5 DEF Create, CreateDuplicate, Commit, Save
<1>6. ASSUME NEW r \in Requests, DbError(r) \/ RedisError(r) PROVE RcsStep
  BY <1>6 DEF DbError, RedisError
<1>7. ASSUME NEW r \in Requests, Crash(r) PROVE Silenced
  BY <1>7 DEF Crash, Silenced
<1>8. ASSUME NEW k \in Keys, Expire(k) PROVE RcsStep
  BY <1>8 DEF Expire
<1>9. CASE UNCHANGED vars
  BY <1>9 DEF vars
<1> QED
  BY <1>1, <1>2, <1>3, <1>4, <1>5, <1>6, <1>7, <1>8, <1>9 DEF Next, Advance

-----------------------------------------------------------------------------
(* Inv is inductive: one lemma per part.                                   *)

(* InnoDB's unique indexes survive concurrent inserts and commits, those   *)
(* of the other endpoint included.                                         *)
LEMMA RowsInv ==
  ASSUME Inv, [Next]_vars
  PROVE  RowsUnique' /\ TxnFree'
<1> USE DEF Inv, Typed, TypeOK
<1>1. \A x, y : Clash(x, y) <=> Clash(y, x)
  BY DEF Clash
<1>2. CASE UNCHANGED <<rows, txn>>
  BY <1>2 DEF RowsUnique, TxnFree, ClashesWithCommitted, WaitsForLock
<1>3. CASE RowsCommitted
  <2>1. PICK r \in Requests : /\ pc[r] = "commit"
                              /\ rows' = rows \cup {txn[r]}
                              /\ txn' = [txn EXCEPT ![r] = NoRow]
    BY <1>3 DEF RowsCommitted
  <2>2. txn[r] \in Row
    BY <2>1, RowOfTyped DEF Filled
  <2>3. RowsUnique'
    BY <1>1, <2>1, <2>2 DEF RowsUnique, TxnFree, ClashesWithCommitted
  <2>4. TxnFree'
    BY <1>1, <2>1, <2>2, SubmitAssumption
    DEF TxnFree, ClashesWithCommitted, WaitsForLock
  <2> QED
    BY <2>3, <2>4
<1>4. CASE RowElsewhere
  <2>1. PICK row \in Row :
          /\ ~ClashesWithCommitted(row)
          /\ \A q \in Requests : txn[q] \in Row => ~Clash(row, txn[q])
          /\ rows' = rows \cup {row}
          /\ txn' = txn
    BY <1>4 DEF RowElsewhere
  <2>2. RowsUnique'
    BY <1>1, <2>1 DEF RowsUnique, ClashesWithCommitted
  <2>3. TxnFree'
    BY <1>1, <2>1 DEF TxnFree, ClashesWithCommitted, WaitsForLock
  <2> QED
    BY <2>2, <2>3
<1>5. CASE TxnStarted
  <2>1. PICK r \in Requests : /\ ~ClashesWithCommitted(RowOf(r))
                              /\ ~WaitsForLock(r, RowOf(r))
                              /\ rows' = rows
                              /\ txn' = [txn EXCEPT ![r] = RowOf(r)]
    BY <1>5 DEF TxnStarted
  <2>2. RowsUnique'
    BY <2>1 DEF RowsUnique
  <2>3. TxnFree'
    BY <1>1, <2>1 DEF TxnFree, ClashesWithCommitted, WaitsForLock
  <2> QED
    BY <2>2, <2>3
<1>6. CASE TxnEnded
  <2>1. PICK r \in Requests : rows' = rows /\ txn' = [txn EXCEPT ![r] = NoRow]
    BY <1>6 DEF TxnEnded
  <2> QED
    BY <2>1, SubmitAssumption DEF RowsUnique, TxnFree, ClashesWithCommitted, WaitsForLock
<1> QED
  BY StepRows, <1>2, <1>3, <1>4, <1>5, <1>6 DEF RowsStep

(* A handler comes to its save from its commit, or without having set      *)
(* persisted.                                                              *)
LEMMA SavedRowInv ==
  ASSUME Inv, [Next]_vars
  PROVE  SavedRow'
<1> USE DEF Inv, Typed, TypeOK, SavedRow, RowOf, Goto, Answer, local, store, rcs
<1>1. ASSUME NEW r \in Requests, Commit(r) PROVE SavedRow'
  BY <1>1 DEF Commit, CommitTxn, Filled
<1>2. ASSUME NEW r \in Requests, Arrive(r) \/ LookupMiss(r) \/ LookupHit(r) PROVE SavedRow'
  BY <1>2 DEF Arrive, LookupMiss, LookupHit
<1>3. ASSUME NEW r \in Requests, SubmitRetry(r) \/ SubmitFailed(r) \/ SubmitAnswered(r)
      PROVE  SavedRow'
  BY <1>3 DEF SubmitRetry, SubmitFailed, SubmitAnswered, Filled
<1>4. ASSUME NEW r \in Requests, Create(r) \/ CreateDuplicate(r) \/ Save(r) PROVE SavedRow'
  BY <1>4 DEF Create, CreateDuplicate, Save, InsertFlushed, RollbackTxn
<1>5. ASSUME NEW r \in Requests, DbError(r) \/ RedisError(r) \/ Crash(r) PROVE SavedRow'
  BY <1>5 DEF DbError, RedisError, Crash, RollbackTxn, CommitTxn
<1>6. ASSUME NEW r \in Requests, RcsServes(r) PROVE SavedRow'
  BY <1>6 DEF RcsServes
<1>7. CASE CreatedElsewhere
  BY <1>7 DEF CreatedElsewhere
<1>8. ASSUME NEW k \in Keys, Expire(k) PROVE SavedRow'
  BY <1>8 DEF Expire
<1>9. CASE UNCHANGED vars
  BY <1>9 DEF vars
<1> QED
  BY <1>1, <1>2, <1>3, <1>4, <1>5, <1>6, <1>7, <1>8, <1>9 DEF Next, Advance

(* An answer that says persisted has its row, and so has a cached one.     *)
LEMMA PersistedInv ==
  ASSUME Inv, [Next]_vars
  PROVE  PersistedIsRow'
<1> USE DEF Inv, Typed, TypeOK, PersistedIsRow, Filled
<1>1. ASSUME NEW r \in Requests, resp'[r].persisted
      PROVE  [code |-> resp'[r].code, key |-> req'[r].key] \in rows'
  <2>1. CASE resp'[r] = resp[r]
    <3>1. pc[r] # "new"
      BY <1>1, <2>1 DEF Failure
    <3> QED
      BY <1>1, <2>1, <3>1, StepGrows DEF Grows
  <2>2. CASE Told(r)
    <3>1. pc[r] # "new" /\ [code |-> resp'[r].code, key |-> req[r].key] \in rows
      <4>1. CASE pc[r] = "save" /\ Ends(r, Result(code[r], persisted[r]))
        BY <1>1, <4>1 DEF Ends, Result, SavedRow, RowOf
      <4>2. CASE /\ pc[r] = "lookup" /\ CacheHit(req[r].key) /\ SameFingerprint(r)
                 /\ Ends(r, Result(cache[req[r].key].code, cache[req[r].key].persisted))
        BY <1>1, <4>2 DEF Ends, Result, CacheHit, Truthy
      <4> QED
        BY <1>1, <2>2, <4>1, <4>2 DEF Told, Ends, Failure
    <3> QED
      BY <3>1, StepGrows DEF Grows
  <2> QED
    BY <2>1, <2>2, StepAnswer DEF AnswerStep, Moved, Told, Ends
<1>2. ASSUME NEW k \in Keys, CacheHit(k)', cache'[k].persisted
      PROVE  [code |-> cache'[k].code, key |-> k] \in rows'
  <2>1. CASE cache'[k] = cache[k]
    BY <1>2, <2>1, StepGrows DEF Grows, CacheHit, Truthy
  <2>2. CASE Saved
    <3>1. PICK r \in Requests :
            /\ pc[r] = "save"
            /\ req[r].key \in Keys
            /\ cache' = [cache EXCEPT ![req[r].key] =
                 [payload |-> req[r].payload, code |-> code[r], persisted |-> persisted[r]]]
      BY <2>2 DEF Saved
    <3>2. CASE k = req[r].key
      BY <1>2, <3>1, <3>2, StepGrows DEF Grows, SavedRow, RowOf
    <3> QED
      BY <2>1, <3>1, <3>2
  <2>3. CASE CacheLost
    BY <1>2, <2>1, <2>3, SubmitAssumption DEF CacheLost, CacheHit, Entry, OptCode
  <2> QED
    BY <2>1, <2>2, <2>3, StepCache DEF CacheStep
<1> QED
  BY <1>1, <1>2 DEF Truthy

(* The wire: a request that was never sent has no attempt there, and no    *)
(* task is made for a GET or, before its answer, twice for a POST.         *)
LEMMA AttemptedInv ==
  ASSUME Inv, [Next]_vars
  PROVE  Attempted'
<1> USE DEF Inv, Typed, TypeOK, Attempted, NoTaskBy, Get
<1>1. \A r \in Requests : attempts[r] # 0 => pc[r] # "new" /\ req'[r] = req[r]
  BY StepGrows DEF Filled, Grows
<1>2. \A r \in Requests : pc[r] = "new" => attempts[r] = 0
  BY DEF Filled
<1>3. CASE UNCHANGED <<attempts, heard, inflight, rcsTasks>>
  BY <1>1, <1>2, <1>3
<1>4. CASE Sends
  <2>1. PICK r \in Requests :
          /\ \/ pc[r] = "lookup"
             \/ pc[r] = "await" /\ req[r].payload \in Gets /\ attempts[r] < MaxAttempts
          /\ Send(r)
          /\ rcsTasks' = rcsTasks
    BY <1>4 DEF Sends
  <2>2. /\ attempts' = [attempts EXCEPT ![r] = attempts[r] + 1]
        /\ attempts[r] + 1 # 0
        /\ inflight' = inflight \cup {r}
        /\ \A q \in Requests \ {r} : heard'[q] = heard[q]
    BY <2>1, SubmitAssumption DEF Send
  <2>3. pc[r] # "new" /\ req'[r] = req[r] /\ NoTaskBy(r)
    BY <2>1, StepGrows DEF Grows, Filled
  <2> QED
    BY <1>1, <1>2, <2>1, <2>2, <2>3
<1>5. CASE Silenced
  BY <1>1, <1>2, <1>5 DEF Silenced
<1>6. ASSUME NEW r \in Requests, RcsServes(r) PROVE Attempted'
  <2>1. /\ r \in inflight /\ inflight' = inflight \ {r}
        /\ UNCHANGED <<pc, req, attempts>>
        /\ \/ rcsTasks' = rcsTasks
           \/ req[r].payload \notin Gets
                /\ \E c \in Unused : rcsTasks' = rcsTasks \cup {[code |-> c, by |-> r]}
    BY <1>6 DEF RcsServes, local
  <2>2. attempts[r] # 0
    BY <2>1
  <2>3. \A q \in Requests \ {r} : heard'[q] = heard[q]
    BY <1>6 DEF RcsServes, Hears
  <2> QED
    BY <2>1, <2>2, <2>3
<1>7. CASE CreatedElsewhere
  <2>1. /\ UNCHANGED <<pc, req, attempts, inflight, heard>>
        /\ \E c \in Unused : rcsTasks' = rcsTasks \cup {[code |-> c, by |-> Elsewhere]}
    BY <1>7 DEF CreatedElsewhere, local
  <2> QED
    BY <2>1, SubmitAssumption
<1> QED
  BY StepRcs, <1>3, <1>4, <1>5, <1>6, <1>7 DEF RcsStep

(* A refusal of a POST is true when it is said and stays so:               *)
(* nothing more is sent, so nothing more is made.                          *)
LEMMA HeardInv ==
  ASSUME Inv, [Next]_vars
  PROVE  HeardTrue'
<1> USE DEF Inv, Typed, TypeOK, NoTaskBy, Get
<1> SUFFICES ASSUME NEW r \in Requests, req'[r].payload \notin Gets
             PROVE  heard'[r] \in Refusals => r \notin inflight' /\ \A t \in rcsTasks' : t.by # r
  BY DEF HeardTrue
<1>1. CASE heard'[r] = Silent
  BY <1>1, SubmitAssumption DEF Refusals
<1>2. CASE attempts[r] = 0
  <2>1. heard[r] = Silent /\ r \notin inflight
    BY <1>2 DEF Attempted
  <2>2. heard'[r] = Silent
    BY <2>1, StepRcs DEF RcsStep, Sends, Send, Silenced, RcsServes, Hears, CreatedElsewhere
  <2> QED
    BY <1>1, <2>2
<1>3. CASE attempts[r] # 0
  <2>1. req'[r] = req[r]
    BY <1>3, StepGrows DEF Filled, Grows
  <2>2. heard[r] \in Refusals => r \notin inflight /\ NoTaskBy(r)
    BY <1>3, <2>1 DEF HeardTrue, Filled
  <2>3. CASE UNCHANGED <<attempts, heard, inflight, rcsTasks>>
    BY <2>2, <2>3
  <2>4. CASE Sends
    BY <1>1, <2>2, <2>4 DEF Sends, Send
  <2>5. CASE Silenced
    BY <1>1, <2>2, <2>5 DEF Silenced
  <2>6. ASSUME NEW q \in Requests, RcsServes(q), q # r
        PROVE  heard'[r] \in Refusals => r \notin inflight' /\ \A t \in rcsTasks' : t.by # r
    <3>1. heard'[r] = heard[r] /\ inflight' \subseteq inflight
      BY <2>6 DEF RcsServes, Hears
    <3>2. rcsTasks' = rcsTasks
            \/ \E c \in Unused : rcsTasks' = rcsTasks \cup {[code |-> c, by |-> q]}
      BY <2>6 DEF RcsServes
    <3> QED
      BY <2>2, <2>6, <3>1, <3>2
  <2>7. CASE RcsServes(r)
    <3>1. /\ r \in inflight /\ NoTaskBy(r) /\ r \notin inflight'
      BY <2>1, <2>7 DEF RcsServes, Attempted
    <3>2. heard[r] \notin Refusals
      BY <2>2, <3>1
    <3>3. CASE rcsTasks' = rcsTasks
      BY <3>1, <3>3
    <3>4. ASSUME NEW c \in Unused, Hears(r, {c, NoCode} \cup Made \cup (Errors \ Refusals))
          PROVE  heard'[r] \notin Refusals
      <4>1. ({c, NoCode} \cup Made) \subseteq Codes \cup {NoCode}
        BY DEF Unused, Made
      <4>2. ({c, NoCode} \cup Made \cup (Errors \ Refusals)) \cap Refusals = {}
        BY <4>1, SubmitAssumption DEF Refusals
      <4> QED
        BY <3>2, <3>4, <4>2 DEF Hears
    <3> QED
      BY <2>7, <3>3, <3>4 DEF RcsServes
  <2>8. CASE CreatedElsewhere
    <3>1. /\ UNCHANGED <<heard, inflight>>
          /\ \E c \in Unused : rcsTasks' = rcsTasks \cup {[code |-> c, by |-> Elsewhere]}
      BY <2>8 DEF CreatedElsewhere
    <3> QED
      BY <2>2, <3>1, SubmitAssumption
  <2> QED
    BY StepRcs, <2>3, <2>4, <2>5, <2>6, <2>7, <2>8 DEF RcsStep
<1> QED
  BY <1>2, <1>3

(* What is stored is what was heard: an answer that comes after the await  *)
(* is not heard any more.                                                  *)
LEMMA CodeInv ==
  ASSUME Inv, [Next]_vars
  PROVE  CodeHeard'
<1> USE DEF Inv, Typed, TypeOK, CodeHeard, Goto, Answer, local, store, rcs
<1>1. ASSUME NEW r \in Requests, Arrive(r) \/ LookupMiss(r) \/ LookupHit(r) PROVE CodeHeard'
  BY <1>1 DEF Arrive, LookupMiss, LookupHit, Send
<1>2. ASSUME NEW r \in Requests, SubmitRetry(r) \/ SubmitFailed(r) \/ SubmitAnswered(r)
      PROVE  CodeHeard'
  BY <1>2 DEF SubmitRetry, SubmitFailed, SubmitAnswered, Send
<1>3. ASSUME NEW r \in Requests, Create(r) \/ CreateDuplicate(r) \/ Commit(r) \/ Save(r)
      PROVE  CodeHeard'
  BY <1>3 DEF Create, CreateDuplicate, Commit, Save
<1>4. ASSUME NEW r \in Requests, DbError(r) \/ RedisError(r) \/ Crash(r) PROVE CodeHeard'
  BY <1>4 DEF DbError, RedisError, Crash
<1>5. ASSUME NEW r \in Requests, RcsServes(r) PROVE CodeHeard'
  <2>1. \A q \in Requests : heard'[q] = heard[q] \/ pc[q] = "await"
    BY <1>5 DEF RcsServes, Hears
  <2> QED
    BY <1>5, <2>1 DEF RcsServes
<1>6. CASE CreatedElsewhere
  BY <1>6 DEF CreatedElsewhere
<1>7. ASSUME NEW k \in Keys, Expire(k) PROVE CodeHeard'
  BY <1>7 DEF Expire
<1>8. CASE UNCHANGED vars
  BY <1>8 DEF vars
<1> QED
  BY <1>1, <1>2, <1>3, <1>4, <1>5, <1>6, <1>7, <1>8 DEF Next, Advance

(* An answered request hears and sends nothing any more.                   *)
LEMMA AnsweredStable ==
  ASSUME Inv, [Next]_vars, NEW r \in Requests, pc[r] = "answered"
  PROVE  /\ pc'[r] = "answered" /\ req'[r] = req[r]
         /\ heard'[r] = heard[r] /\ attempts'[r] = attempts[r]
<1> USE DEF Inv, Typed, TypeOK
<1>1. pc'[r] = "answered"
  BY StepAnswer DEF AnswerStep, Moved, Told, Ends
<1>2. heard'[r] = heard[r] /\ attempts'[r] = attempts[r]
  BY <1>1, StepRcs
  DEF RcsStep, Sends, Silenced, RcsServes, Hears, Send, CreatedElsewhere, local
<1> QED
  BY <1>1, <1>2, StepGrows DEF Grows

(* So what it was told stays told.                                         *)
LEMMA SaidStable ==
  ASSUME Inv, [Next]_vars, NEW c, NEW k, NEW p, SaidTo(c, k, p)
  PROVE  SaidTo(c, k, p)'
<1>1. PICK q \in Requests : /\ pc[q] = "answered"
                           /\ req[q].key = k /\ req[q].payload = p
                           /\ heard[q] = c
  BY DEF SaidTo
<1> QED
  BY <1>1, AnsweredStable DEF SaidTo

(* An entry is saved by a handler that ends with what it heard.            *)
LEMMA CachedInv ==
  ASSUME Inv, [Next]_vars
  PROVE  CachedSaid'
<1> USE DEF Inv, Typed, TypeOK
<1> SUFFICES ASSUME NEW k \in Keys, CacheHit(k)'
             PROVE  SaidTo(cache[k].code, k, cache[k].payload)'
  BY DEF CachedSaid
<1> DEFINE Goal == SaidTo(cache[k].code, k, cache[k].payload)'
<1>1. CASE cache'[k] = cache[k]
  <2>1. PICK c, p : c = cache[k].code /\ p = cache[k].payload
    OBVIOUS
  <2>2. SaidTo(c, k, p)
    BY <1>1, <2>1 DEF CachedSaid, CacheHit, Truthy
  <2>3. SaidTo(c, k, p)'
    BY <2>2, SaidStable
  <2> QED
    BY <1>1, <2>1, <2>3 DEF SaidTo
<1>2. ASSUME NEW r \in Requests, pc[r] = "save", k = req[r].key,
             pc' = [pc EXCEPT ![r] = "answered"], heard' = heard,
             cache'[k] = [payload |-> req[r].payload, code |-> code[r],
                          persisted |-> persisted[r]]
      PROVE  Goal
  <2>1. heard'[r] = code[r] /\ pc'[r] = "answered"
    BY <1>2 DEF CodeHeard
  <2>2. req'[r] = req[r]
    BY <1>2, StepGrows DEF Grows
  <2> QED
    BY <1>2, <2>1, <2>2 DEF SaidTo
<1>3. CASE CacheLost
  BY <1>1, <1>3, SubmitAssumption DEF CacheLost, CacheHit, Entry, OptCode
<1> QED
  BY <1>1, <1>2, <1>3, StepCache DEF CacheStep, Saved

(* A success says what the handler heard, or what the cache remembers.     *)
LEMMA AnswerSaidInv ==
  ASSUME Inv, [Next]_vars
  PROVE  AnswerSaid'
<1> USE DEF Inv, Typed, TypeOK, AnswerSaid, Succeeded
<1> SUFFICES ASSUME NEW r \in Requests, resp'[r].kind = "ok"
             PROVE  \/ heard'[r] = resp'[r].code
                    \/ /\ attempts'[r] = 0 /\ req'[r].key \in Keys
                       /\ SaidTo(resp[r].code, req[r].key, req[r].payload)'
  OBVIOUS
<1> SUFFICES /\ req'[r] = req[r]
             /\ \/ heard'[r] = resp'[r].code
                \/ /\ attempts'[r] = 0 /\ req[r].key \in Keys
                   /\ SaidTo(resp'[r].code, req[r].key, req[r].payload)
  <2>1. PICK c, k, p : c = resp'[r].code /\ k = req[r].key /\ p = req[r].payload
    OBVIOUS
  <2>2. SaidTo(c, k, p) => SaidTo(c, k, p)'
    BY SaidStable
  <2> QED
    BY <2>1, <2>2 DEF SaidTo
<1>1. CASE resp'[r] = resp[r]
  <2>1. pc[r] = "answered"
    BY <1>1 DEF Filled, Failure
  <2> QED
    BY <1>1, <2>1, AnsweredStable
<1>2. CASE Told(r)
  <2>1. pc[r] # "new" /\ heard'[r] = heard[r] /\ attempts'[r] = attempts[r]
    BY <1>2 DEF Told, Ends, Failure
  <2>2. req'[r] = req[r]
    BY <2>1, StepGrows DEF Grows
  <2>3. CASE pc[r] = "save" /\ Ends(r, Result(code[r], persisted[r]))
    BY <2>1, <2>2, <2>3 DEF Ends, Result, CodeHeard
  <2>4. CASE /\ pc[r] = "lookup" /\ CacheHit(req[r].key) /\ SameFingerprint(r)
             /\ Ends(r, Result(cache[req[r].key].code, cache[req[r].key].persisted))
    <3>1. attempts[r] = 0 /\ req[r].key \in Keys
      BY <2>4 DEF Filled, CacheHit, Truthy
    <3>2. SaidTo(cache[req[r].key].code, req[r].key, req[r].payload)
      BY <2>4, <3>1 DEF CachedSaid, SameFingerprint
    <3>3. resp'[r].code = cache[req[r].key].code
      BY <2>4 DEF Ends, Result
    <3> QED
      BY <2>1, <2>2, <3>1, <3>2, <3>3
  <2> QED
    BY <1>2, <2>3, <2>4 DEF Told, Ends, Failure, Refusals
<1> QED
  BY <1>1, <1>2, StepAnswer DEF AnswerStep, Moved, Told, Ends

(* What an error says of the last attempt stays true: an answered request  *)
(* hears and sends nothing.                                                *)
LEMMA AnswerHeardInv ==
  ASSUME Inv, [Next]_vars
  PROVE  AnswerHeard'
<1> USE DEF Inv, Typed, TypeOK, AnswerHeard
<1> SUFFICES ASSUME NEW r \in Requests
             PROVE  /\ resp'[r].kind \in Refusals => heard'[r] \in Refusals
                    /\ resp'[r].kind \in {"badPath", "duplicate"} => attempts'[r] = 0
                    /\ resp'[r].kind = "upstream5xx" =>
                         heard'[r] = "5xx" /\ attempts'[r] = MaxAttempts
  OBVIOUS
<1>1. CASE resp'[r] = resp[r]
  <2>1. CASE pc[r] = "answered"
    BY <1>1, <2>1, AnsweredStable
  <2>2. CASE pc[r] # "answered"
    BY <1>1, <2>2 DEF Filled, Failure, Refusals
  <2> QED
    BY <2>1, <2>2
<1>2. CASE Told(r)
  BY <1>2 DEF Told, Ends, Failure, Result, Filled, Refusals
<1> QED
  BY <1>1, <1>2, StepAnswer DEF AnswerStep, Moved, Told, Ends

(* A POST is sent from its lookup only, so once; what it makes, it makes   *)
(* while it is on the wire, so once.                                       *)
LEMMA PostsInv ==
  ASSUME Inv, [Next]_vars
  PROVE  PostsOnce'
<1> USE DEF Inv, Typed, TypeOK, PostsOnce, Get
<1>1. ASSUME NEW r \in Requests, pc'[r] # "new", req'[r].payload \notin Gets
      PROVE  attempts'[r] <= 1
  <2>1. CASE attempts[r] = 0
    <3>1. attempts' = attempts
            \/ \E q \in Requests : attempts' = [attempts EXCEPT ![q] = attempts[q] + 1]
      BY StepRcs DEF RcsStep, Sends, Send, Silenced, RcsServes, CreatedElsewhere, local
    <3> QED
      BY <2>1, <3>1
  <2>2. CASE attempts[r] # 0
    <3>1. pc[r] \notin {"new", "lookup"} /\ req'[r] = req[r]
      BY <2>2, StepGrows DEF Filled, Grows
    <3>2. attempts'[r] = attempts[r]
      BY <1>1, <3>1, StepRcs
      DEF RcsStep, Sends, Send, Silenced, RcsServes, CreatedElsewhere, local
    <3> QED
      BY <1>1, <3>1, <3>2
  <2> QED
    BY <2>1, <2>2
<1>2. ASSUME NEW t \in rcsTasks', NEW u \in rcsTasks', t.by = u.by, t.by # Elsewhere
      PROVE  t = u
  <2>1. CASE rcsTasks' = rcsTasks
    BY <1>2, <2>1
  <2>2. ASSUME NEW r \in Requests, RcsServes(r), rcsTasks' # rcsTasks
        PROVE  t = u
    <3>1. NoTaskBy(r) /\ \E c \in Unused : rcsTasks' = rcsTasks \cup {[code |-> c, by |-> r]}
      BY <2>2 DEF RcsServes, Attempted
    <3> QED
      BY <1>2, <3>1 DEF NoTaskBy
  <2>3. CASE CreatedElsewhere
    <3>1. \E c \in Unused : rcsTasks' = rcsTasks \cup {[code |-> c, by |-> Elsewhere]}
      BY <2>3 DEF CreatedElsewhere
    <3> QED
      BY <1>2, <3>1
  <2> QED
    BY StepRcs, <2>1, <2>2, <2>3 DEF RcsStep, Sends, Silenced
<1> QED
  BY <1>1, <1>2

LEMMA InvStep == Inv /\ [Next]_vars => Inv'
<1> SUFFICES ASSUME Inv, [Next]_vars PROVE Inv'
  OBVIOUS
<1>1. Typed'
  BY TypeStep DEF Inv
<1> QED
  BY <1>1, RowsInv, SavedRowInv, PersistedInv, AttemptedInv, HeardInv, CodeInv, CachedInv,
     AnswerSaidInv, AnswerHeardInv, PostsInv DEF Inv

LEMMA InvAlways == Spec => []Inv
BY InvInit, InvStep, PTL DEF Spec

-----------------------------------------------------------------------------
(* persisted = true is never a lie, in an answer or in the cache, whatever *)
(* task creation inserts and wherever a handler fails.                     *)
THEOREM PersistedCorrect == Spec => []PersistedIsRow
<1>1. Inv => PersistedIsRow
  BY DEF Inv
<1> QED
  BY <1>1, InvAlways, PTL

(* A success says what the RCS said to the request itself or, without an   *)
(* attempt of its own, to one with its key, method, path, body and mode.   *)
THEOREM AnswersCorrect == Spec => []AnswerOwnSubmit
<1>1. Inv => AnswerOwnSubmit
  BY DEF Inv, AnswerSaid, AnswerOwnSubmit, SaidTo, Truthy
<1> QED
  BY <1>1, InvAlways, PTL

(* Two persisted answers under one key name one task: each has its row,    *)
(* and the unique column leaves room for one.                              *)
THEOREM PersistedAnswersAgree == Spec => []PersistedAgree
<1>1. ASSUME Inv PROVE PersistedAgree
  <2> SUFFICES ASSUME NEW q \in Requests, NEW r \in Requests,
                      resp[q].persisted, resp[r].persisted,
                      req[q].key \in Keys, req[q].key = req[r].key
               PROVE  resp[r].code = resp[q].code
    BY DEF PersistedAgree, Truthy
  <2> DEFINE x == [code |-> resp[q].code, key |-> req[q].key]
             y == [code |-> resp[r].code, key |-> req[r].key]
  <2>1. x \in rows /\ y \in rows
    BY <1>1 DEF Inv, PersistedIsRow
  <2>2. Clash(x, y)
    BY StoreAssumption DEF Clash
  <2>3. x = y
    BY <1>1, <2>1, <2>2 DEF Inv, RowsUnique
  <2> QED
    BY <2>3
<1> QED
  BY <1>1, InvAlways, PTL

(* A submit goes out once: no POST is attempted twice or makes two tasks,  *)
(* whatever is lost and whoever crashes.                                   *)
THEOREM PostsSentOnce == Spec => []PostedOnce
<1>1. ASSUME Inv PROVE PostedOnce
  BY <1>1 DEF Inv, Typed, Filled, PostsOnce, PostedOnce, Get
<1> QED
  BY <1>1, InvAlways, PTL

(* An error is faithful: after a refusal there is no task of this request, *)
(* nor will be, and a 5xx is reported for the last attempt of a GET only.  *)
THEOREM ErrorsCorrect == Spec => []ErrorsFaithful
<1>1. ASSUME Inv PROVE ErrorsFaithful
  <2> USE <1>1 DEF Inv, Typed, Filled
  <2>1. ASSUME NEW r \in Requests, resp[r].kind \in Refusals
        PROVE  NoTaskBy(r)
    <3>1. pc[r] # "new" /\ heard[r] \in Refusals
      BY <2>1 DEF AnswerHeard, Failure, Refusals
    <3> QED
      BY <3>1 DEF HeardTrue, Attempted
  <2>2. ASSUME NEW r \in Requests, resp[r].kind \in {"badPath", "duplicate"}
        PROVE  NoTaskBy(r) /\ attempts[r] = 0
    BY <2>2 DEF AnswerHeard, Attempted
  <2>3. ASSUME NEW r \in Requests, resp[r].kind = "upstream5xx"
        PROVE  heard[r] = "5xx" /\ attempts[r] = MaxAttempts
    BY <2>3 DEF AnswerHeard
  <2> QED
    BY <2>1, <2>2, <2>3 DEF ErrorsFaithful, NoTaskBy
<1> QED
  BY <1>1, InvAlways, PTL

=============================================================================
