------------------------- MODULE TaskCreate_proofs -------------------------
(***************************************************************************)
(* Theorems about TaskCreate, for any sets of requests, keys, codes and    *)
(* payloads.                                                               *)
(***************************************************************************)
EXTENDS TaskCreate, TLAPS

(* A handler's locals are set before the stages that read them, and only a *)
(* handler at its commit has an uncommitted row: its own.                  *)
Filled ==
  \A r \in Requests :
    /\ pc[r] # "new" => req[r] \in Request
    /\ pc[r] = "new" => req[r] = NoRequest
    /\ pc[r] \in {"create", "commit", "save"} => code[r] \in Codes
    /\ pc[r] = "commit" => txn[r] = RowOf(r)
    /\ pc[r] # "commit" => txn[r] = NoRow

Typed == TypeOK /\ Filled

LEMMA RowOfTyped ==
  ASSUME NEW r \in Requests, req[r] \in Request, code[r] \in Codes
  PROVE  RowOf(r) \in Row
BY DEF RowOf, Row, Request

LEMMA TypeInit == Init => Typed
BY CreateAssumption
DEF Init, Typed, TypeOK, Filled, Stage, Response, Kinds, Unanswered, Failure

LEMMA TypeStep == Typed /\ [Next]_vars => Typed'
<1> SUFFICES ASSUME TypeOK, Filled, [Next]_vars PROVE TypeOK' /\ Filled'
  BY DEF Typed
<1> USE DEF TypeOK, Filled, Stage, Active, RowOf
<1>1. ASSUME NEW r \in Requests, Arrive(r) PROVE TypeOK' /\ Filled'
  BY <1>1 DEF Arrive, Goto, external
<1>2. ASSUME NEW r \in Requests, LookupMiss(r) PROVE TypeOK' /\ Filled'
  BY <1>2 DEF LookupMiss, Goto, external
<1>3. ASSUME NEW r \in Requests, LookupHit(r) PROVE TypeOK' /\ Filled'
  <2>1. cache[req[r].key] \in Entry
    BY <1>3 DEF LookupHit, CacheHit
  <2>2. resp' \in [Requests -> Response]
    BY <1>3, <2>1 DEF LookupHit, Answer, Created, Failure, Response, Kinds, Entry
  <2> QED
    BY <1>3, <2>2 DEF LookupHit, Answer, Goto, external
<1>4. ASSUME NEW r \in Requests, ResolveKnown(r) PROVE TypeOK' /\ Filled'
  BY <1>4 DEF ResolveKnown, Goto
<1>5. ASSUME NEW r \in Requests, ResolveUnknown(r) PROVE TypeOK' /\ Filled'
  BY <1>5 DEF ResolveUnknown, Answer, Goto, external, Failure, Response, Kinds
<1>6. ASSUME NEW r \in Requests, SubmitAccepted(r) PROVE TypeOK' /\ Filled'
  BY <1>6 DEF SubmitAccepted, Goto, external
<1>7. ASSUME NEW r \in Requests, SubmitFailed(r) PROVE TypeOK' /\ Filled'
  BY <1>7 DEF SubmitFailed, Answer, Goto, external, Failure, Response, Kinds
<1>8. ASSUME NEW r \in Requests, Create(r) PROVE TypeOK' /\ Filled'
  <2>1. RowOf(r) \in Row
    BY <1>8, RowOfTyped DEF Create, Goto
  <2> QED
    BY <1>8, <2>1 DEF Create, InsertFlushed, Goto, external
<1>9. ASSUME NEW r \in Requests, CreateDuplicate(r) PROVE TypeOK' /\ Filled'
  BY <1>9 DEF CreateDuplicate, Answer, RollbackTxn, Goto, external, Failure,
    Response, Kinds
<1>10. ASSUME NEW r \in Requests, Commit(r) PROVE TypeOK' /\ Filled'
  <2>1. txn[r] \in Row
    BY <1>10, RowOfTyped DEF Commit, Goto
  <2> QED
    BY <1>10, <2>1 DEF Commit, CommitTxn, Goto, external
<1>11. ASSUME NEW r \in Requests, DbError(r) PROVE TypeOK' /\ Filled'
  <2>1. /\ pc[r] \in {"resolve", "create", "commit"}
        /\ pc' = [pc EXCEPT ![r] = "answered"]
        /\ resp' = [resp EXCEPT ![r] = Failure("internal")]
        /\ txn' = [txn EXCEPT ![r] = NoRow]
        /\ UNCHANGED <<req, code, external>>
    BY <1>11 DEF DbError, Answer, Goto, RollbackTxn, CommitTxn
  <2>2. rows' \subseteq Row
    <3>1. CASE rows' = rows
      BY <3>1
    <3>2. CASE pc[r] = "commit" /\ rows' = rows \cup {txn[r]}
      BY <3>2, RowOfTyped
    <3> QED
      BY <1>11, <3>1, <3>2 DEF DbError, RollbackTxn, CommitTxn
  <2> QED
    BY <2>1, <2>2 DEF external, Failure, Response, Kinds
<1>12. ASSUME NEW r \in Requests, Save(r) PROVE TypeOK' /\ Filled'
  <2>1. req[r] \in Request /\ code[r] \in Codes
    BY <1>12 DEF Save, Answer, Goto
  <2>2. cache' \in [Keys -> Entry \cup {NoEntry, Expired}]
    BY <1>12, <2>1 DEF Save, Remember, Truthy, Entry, Request
  <2>3. resp' \in [Requests -> Response]
    BY <1>12, <2>1 DEF Save, Answer, Created, Response, Kinds
  <2> QED
    BY <1>12, <2>2, <2>3 DEF Save, Answer, Goto
<1>13. ASSUME NEW r \in Requests, RedisError(r) PROVE TypeOK' /\ Filled'
  <2>1. /\ pc[r] \in {"lookup", "save"}
        /\ pc' = [pc EXCEPT ![r] = "answered"]
        /\ resp' = [resp EXCEPT ![r] = Failure("internal")]
        /\ UNCHANGED <<rows, txn, req, code, inflight, rcsTasks>>
    BY <1>13 DEF RedisError, Answer, Goto
  <2>2. cache' \in [Keys -> Entry \cup {NoEntry, Expired}]
    <3>1. CASE cache' = cache
      BY <3>1
    <3>2. CASE pc[r] = "save" /\ cache' = Remember(r)
      BY <3>2 DEF Remember, Truthy, Entry, Request
    <3> QED
      BY <1>13, <3>1, <3>2 DEF RedisError, Answer, Goto
  <2> QED
    BY <2>1, <2>2 DEF Failure, Response, Kinds
<1>14. ASSUME NEW r \in Requests, Crash(r) PROVE TypeOK' /\ Filled'
  BY <1>14 DEF Crash, RollbackTxn, external
<1>15. ASSUME NEW r \in Requests, RcsAccept(r) PROVE TypeOK' /\ Filled'
  BY <1>15 DEF RcsAccept
<1>16. ASSUME NEW r \in Requests, RcsRefuse(r) PROVE TypeOK' /\ Filled'
  BY <1>16 DEF RcsRefuse
<1>17. ASSUME NEW k \in Keys, Expire(k) PROVE TypeOK' /\ Filled'
  BY <1>17 DEF Expire
<1>18. CASE UNCHANGED vars
  BY <1>18 DEF vars
<1> QED
  BY <1>1, <1>2, <1>3, <1>4, <1>5, <1>6, <1>7, <1>8, <1>9, <1>10, <1>11, <1>12,
     <1>13, <1>14, <1>15, <1>16, <1>17, <1>18 DEF Next, Advance

(* create_task never leaves the types of its state, in any interleaving.   *)
THEOREM TypeCorrect == Spec => []TypeOK
<1>1. Spec => []Typed
  BY TypeInit, TypeStep, PTL DEF Spec
<1>2. Typed => TypeOK
  BY DEF Typed
<1> QED
  BY <1>1, <1>2, PTL

-----------------------------------------------------------------------------
(* The inductive invariant behind the answers.  The unique indexes hold    *)
(* among committed rows and against every uncommitted one.                 *)
RowsUnique == \A x, y \in rows : Clash(x, y) => x = y

TxnFree ==
  \A r \in Requests : txn[r] \in Row =>
    /\ ~ClashesWithCommitted(txn[r])
    /\ ~WaitsForLock(r, txn[r])

(* The RCS holds tasks of requests that arrived, and one with the code and *)
(* the body of each handler that is past its submit.                       *)
Accepted ==
  /\ \A r \in inflight : pc[r] # "new"
  /\ \A t \in rcsTasks : pc[t.by] # "new"
  /\ \A r \in Requests : pc[r] \in {"create", "commit", "save"}
        => [code |-> code[r], by |-> r] \in rcsTasks

SavedRow == \A r \in Requests : pc[r] = "save" => RowOf(r) \in rows

AnswerStage ==
  \A r \in Requests :
    /\ pc[r] # "answered" => resp[r] = Unanswered
    /\ ~Succeeded(r) => resp[r].code = NoCode

Inv ==
  /\ Typed /\ RowsUnique /\ TxnFree /\ Accepted /\ SavedRow /\ AnswerStage
  /\ CacheBacked /\ AnswerOwnTask

LEMMA InvInit == Init => Inv
<1> SUFFICES ASSUME Init PROVE Inv
  OBVIOUS
<1>1. Typed
  BY TypeInit
<1>2. RowsUnique /\ TxnFree /\ Accepted /\ SavedRow
  BY CreateAssumption DEF Init, RowsUnique, TxnFree, Accepted, SavedRow
<1>3. AnswerStage /\ AnswerOwnTask
  BY DEF Init, AnswerStage, AnswerOwnTask, Succeeded, Unanswered, Failure
<1>4. CacheBacked
  BY CreateAssumption DEF Init, CacheBacked, CacheHit, Truthy, Entry
<1> QED
  BY <1>1, <1>2, <1>3, <1>4 DEF Inv

-----------------------------------------------------------------------------
(* What one step may do to each part of the state.                         *)

(* Nothing that was committed, accepted or asked is ever taken back.       *)
LEMMA StepGrows ==
  ASSUME Typed, [Next]_vars
  PROVE  /\ rows \subseteq rows'
         /\ rcsTasks \subseteq rcsTasks'
         /\ \A r \in Requests : pc[r] # "new" => req'[r] = req[r] /\ pc'[r] # "new"
<1> USE DEF Typed, TypeOK, Goto, Answer, external
<1>1. ASSUME NEW r \in Requests, Arrive(r) \/ Advance(r)
      PROVE  /\ rows \subseteq rows' /\ rcsTasks \subseteq rcsTasks'
             /\ \A q \in Requests : pc[q] # "new" => req'[q] = req[q] /\ pc'[q] # "new"
  BY <1>1 DEF Advance, Arrive, LookupMiss, LookupHit, ResolveKnown, ResolveUnknown,
    SubmitAccepted, SubmitFailed, Create, InsertFlushed, CreateDuplicate,
    RollbackTxn, Commit, CommitTxn, Save
<1>2. ASSUME NEW r \in Requests, DbError(r) \/ RedisError(r) \/ Crash(r)
      PROVE  /\ rows \subseteq rows' /\ rcsTasks \subseteq rcsTasks'
             /\ \A q \in Requests : pc[q] # "new" => req'[q] = req[q] /\ pc'[q] # "new"
  BY <1>2 DEF DbError, RedisError, Crash, RollbackTxn, CommitTxn
<1>3. ASSUME NEW r \in Requests, RcsAccept(r) \/ RcsRefuse(r)
      PROVE  /\ rows \subseteq rows' /\ rcsTasks \subseteq rcsTasks'
             /\ \A q \in Requests : pc[q] # "new" => req'[q] = req[q] /\ pc'[q] # "new"
  BY <1>3 DEF RcsAccept, RcsRefuse
<1>4. ASSUME NEW k \in Keys, Expire(k)
      PROVE  /\ rows \subseteq rows' /\ rcsTasks \subseteq rcsTasks'
             /\ \A q \in Requests : pc[q] # "new" => req'[q] = req[q] /\ pc'[q] # "new"
  BY <1>4 DEF Expire
<1> QED
  BY <1>1, <1>2, <1>3, <1>4 DEF Next, vars

(* Rows appear by the commit of the handler's own insert; a transaction    *)
(* ends, or begins with an insert that met no clash.                       *)
RowsCommitted ==
  \E r \in Requests :
    /\ pc[r] = "commit"
    /\ rows' = rows \cup {txn[r]}
    /\ txn' = [txn EXCEPT ![r] = NoRow]

TxnStarted ==
  \E r \in Requests :
    /\ pc[r] = "create"
    /\ ~ClashesWithCommitted(RowOf(r))
    /\ ~WaitsForLock(r, RowOf(r))
    /\ rows' = rows
    /\ txn' = [txn EXCEPT ![r] = RowOf(r)]

TxnEnded ==
  \E r \in Requests : rows' = rows /\ txn' = [txn EXCEPT ![r] = NoRow]

LEMMA StepRows ==
  ASSUME Typed, [Next]_vars
  PROVE  UNCHANGED <<rows, txn>> \/ RowsCommitted \/ TxnStarted \/ TxnEnded
<1> USE DEF Goto, Answer, RowsCommitted, TxnStarted, TxnEnded
<1>1. ASSUME NEW r \in Requests, Arrive(r) \/ Advance(r)
      PROVE  UNCHANGED <<rows, txn>> \/ RowsCommitted \/ TxnStarted \/ TxnEnded
  BY <1>1 DEF Advance, Arrive, LookupMiss, LookupHit, ResolveKnown, ResolveUnknown,
    SubmitAccepted, SubmitFailed, Create, InsertFlushed, CreateDuplicate,
    RollbackTxn, Commit, CommitTxn, Save
<1>2. ASSUME NEW r \in Requests, DbError(r) \/ RedisError(r) \/ Crash(r)
      PROVE  UNCHANGED <<rows, txn>> \/ RowsCommitted \/ TxnStarted \/ TxnEnded
  BY <1>2 DEF DbError, RedisError, Crash, RollbackTxn, CommitTxn
<1>3. ASSUME NEW r \in Requests, RcsAccept(r) \/ RcsRefuse(r)
      PROVE  UNCHANGED <<rows, txn>> \/ RowsCommitted \/ TxnStarted \/ TxnEnded
  BY <1>3 DEF RcsAccept, RcsRefuse
<1>4. ASSUME NEW k \in Keys, Expire(k)
      PROVE  UNCHANGED <<rows, txn>> \/ RowsCommitted \/ TxnStarted \/ TxnEnded
  BY <1>4 DEF Expire
<1> QED
  BY <1>1, <1>2, <1>3, <1>4 DEF Next, vars

(* The cache changes by a save, after the commit, and by expiry.           *)
Saved ==
  \E r \in Requests :
    /\ pc[r] = "save"
    /\ req[r].key \in Keys
    /\ cache' = [cache EXCEPT ![req[r].key] =
                   [payload |-> req[r].payload, code |-> code[r]]]

CacheLost == \E k \in Keys : cache' = [cache EXCEPT ![k] = Expired]

LEMMA StepCache ==
  ASSUME Typed, [Next]_vars
  PROVE  UNCHANGED cache \/ Saved \/ CacheLost
<1> USE DEF Goto, Answer, external, Saved, CacheLost
<1>1. ASSUME NEW r \in Requests, Arrive(r) \/ Advance(r)
      PROVE  UNCHANGED cache \/ Saved \/ CacheLost
  BY <1>1 DEF Advance, Arrive, LookupMiss, LookupHit, ResolveKnown, ResolveUnknown,
    SubmitAccepted, SubmitFailed, Create, CreateDuplicate, Commit, Save, Remember,
    Truthy
<1>2. ASSUME NEW r \in Requests, DbError(r) \/ RedisError(r) \/ Crash(r)
      PROVE  UNCHANGED cache \/ Saved \/ CacheLost
  BY <1>2 DEF DbError, RedisError, Crash, Remember, Truthy
<1>3. ASSUME NEW r \in Requests, RcsAccept(r) \/ RcsRefuse(r)
      PROVE  UNCHANGED cache \/ Saved \/ CacheLost
  BY <1>3 DEF RcsAccept, RcsRefuse
<1>4. ASSUME NEW k \in Keys, Expire(k)
      PROVE  UNCHANGED cache \/ Saved \/ CacheLost
  BY <1>4 DEF Expire
<1> QED
  BY <1>1, <1>2, <1>3, <1>4 DEF Next, vars

(* An answer is given once, when the handler ends: a failure, the cached   *)
(* answer or the handler's own.                                            *)
Ends(r, answer) ==
  /\ pc[r] # "answered"
  /\ pc' = [pc EXCEPT ![r] = "answered"]
  /\ resp' = [resp EXCEPT ![r] = answer]

Answered ==
  \E r \in Requests :
    \/ \E kind \in Kinds \ {"none", "created"} : Ends(r, Failure(kind))
    \/ /\ pc[r] = "lookup" /\ CacheHit(req[r].key) /\ SameFingerprint(r)
       /\ Ends(r, Created(cache[req[r].key].code, TRUE))
    \/ pc[r] = "save" /\ Ends(r, Created(code[r], FALSE))

Moved ==
  /\ UNCHANGED resp
  /\ \/ UNCHANGED pc
     \/ \E r \in Requests, stage \in Stage \ {"answered"} :
           pc[r] # "answered" /\ pc' = [pc EXCEPT ![r] = stage]

LEMMA StepAnswer ==
  ASSUME Typed, [Next]_vars
  PROVE  Answered \/ Moved
<1> USE DEF Goto, Answer, Ends, Answered, Moved, Stage, Active, Kinds
<1>1. ASSUME NEW r \in Requests, Arrive(r) \/ Advance(r) PROVE Answered \/ Moved
  BY <1>1 DEF Advance, Arrive, LookupMiss, LookupHit, ResolveKnown, ResolveUnknown,
    SubmitAccepted, SubmitFailed, Create, CreateDuplicate, Commit, Save
<1>2. ASSUME NEW r \in Requests, DbError(r) \/ RedisError(r) \/ Crash(r)
      PROVE  Answered \/ Moved
  BY <1>2 DEF DbError, RedisError, Crash
<1>3. ASSUME NEW r \in Requests, RcsAccept(r) \/ RcsRefuse(r) PROVE Answered \/ Moved
  BY <1>3 DEF RcsAccept, RcsRefuse
<1>4. ASSUME NEW k \in Keys, Expire(k) PROVE Answered \/ Moved
  BY <1>4 DEF Expire
<1> QED
  BY <1>1, <1>2, <1>3, <1>4 DEF Next, vars

-----------------------------------------------------------------------------
(* Inv is inductive: one lemma per part.                                   *)

(* InnoDB's unique indexes survive concurrent inserts and commits.         *)
LEMMA RowsStep ==
  ASSUME Inv, [Next]_vars
  PROVE  RowsUnique' /\ TxnFree'
<1> USE DEF Inv, Typed, TypeOK
<1>1. \A x, y : Clash(x, y) <=> Clash(y, x)
  BY DEF Clash
<1>2. CASE UNCHANGED <<rows, txn>>
  BY <1>2 DEF RowsUnique, TxnFree, ClashesWithCommitted, WaitsForLock
<1>3. CASE RowsCommitted
  <2>1. PICK r \in Requests : /\ pc[r] = "commit"
                              /\ rows' = rows \cup {txn[r]}
                              /\ txn' = [txn EXCEPT ![r] = NoRow]
    BY <1>3 DEF RowsCommitted
  <2>2. txn[r] \in Row
    BY <2>1, RowOfTyped DEF Filled
  <2>3. RowsUnique'
    BY <1>1, <2>1, <2>2 DEF RowsUnique, TxnFree, ClashesWithCommitted
  <2>4. TxnFree'
    BY <1>1, <2>1, <2>2, CreateAssumption
    DEF TxnFree, ClashesWithCommitted, WaitsForLock
  <2> QED
    BY <2>3, <2>4
<1>4. CASE TxnStarted
  <2>1. PICK r \in Requests : /\ ~ClashesWithCommitted(RowOf(r))
                              /\ ~WaitsForLock(r, RowOf(r))
                              /\ rows' = rows
                              /\ txn' = [txn EXCEPT ![r] = RowOf(r)]
    BY <1>4 DEF TxnStarted
  <2>2. RowsUnique'
    BY <2>1 DEF RowsUnique
  <2>3. TxnFree'
    BY <1>1, <2>1 DEF TxnFree, ClashesWithCommitted, WaitsForLock
  <2> QED
    BY <2>2, <2>3
<1>5. CASE TxnEnded
  <2>1. PICK r \in Requests : rows' = rows /\ txn' = [txn EXCEPT ![r] = NoRow]
    BY <1>5 DEF TxnEnded
  <2> QED
    BY <2>1, CreateAssumption
    DEF RowsUnique, TxnFree, ClashesWithCommitted, WaitsForLock
<1> QED
  BY StepRows, <1>2, <1>3, <1>4, <1>5

(* A handler past its submit has a task at the RCS under its own name.     *)
LEMMA AcceptedStep ==
  ASSUME Inv, [Next]_vars
  PROVE  Accepted'
<1> USE DEF Inv, Typed, TypeOK, Accepted, Goto, Answer, external
<1>1. ASSUME NEW r \in Requests, Arrive(r) PROVE Accepted'
  BY <1>1 DEF Arrive
<1>2. ASSUME NEW r \in Requests, LookupMiss(r) \/ LookupHit(r) PROVE Accepted'
  BY <1>2 DEF LookupMiss, LookupHit
<1>3. ASSUME NEW r \in Requests, ResolveKnown(r) \/ ResolveUnknown(r)
      PROVE  Accepted'
  BY <1>3 DEF ResolveKnown, ResolveUnknown
<1>4. ASSUME NEW r \in Requests, SubmitAccepted(r) PROVE Accepted'
  <2>1. PICK t \in rcsTasks : t.by = r /\ code' = [code EXCEPT ![r] = t.code]
    BY <1>4 DEF SubmitAccepted
  <2>2. t = [code |-> t.code, by |-> r]
    BY <2>1
  <2> QED
    BY <1>4, <2>1, <2>2 DEF SubmitAccepted
<1>5. ASSUME NEW r \in Requests, SubmitFailed(r) PROVE Accepted'
  BY <1>5 DEF SubmitFailed
<1>6. ASSUME NEW r \in Requests, Create(r) \/ CreateDuplicate(r) PROVE Accepted'
  BY <1>6 DEF Create, CreateDuplicate
<1>7. ASSUME NEW r \in Requests, Commit(r) \/ Save(r) PROVE Accepted'
  BY <1>7 DEF Commit, Save
<1>8. ASSUME NEW r \in Requests, DbError(r) \/ RedisError(r) \/ Crash(r)
      PROVE  Accepted'
  BY <1>8 DEF DbError, RedisError, Crash, Active
<1>9. ASSUME NEW r \in Requests, RcsAccept(r) \/ RcsRefuse(r) PROVE Accepted'
  BY <1>9 DEF RcsAccept, RcsRefuse
<1>10. ASSUME NEW k \in Keys, Expire(k) PROVE Accepted'
  BY <1>10 DEF Expire
<1>11. CASE UNCHANGED vars
  BY <1>11 DEF vars
<1> QED
  BY <1>1, <1>2, <1>3, <1>4, <1>5, <1>6, <1>7, <1>8, <1>9, <1>10, <1>11
  DEF Next, Advance

(* A handler saves only what it has committed.                             *)
LEMMA SavedRowStep ==
  ASSUME Inv, [Next]_vars
  PROVE  SavedRow'
<1> USE DEF Inv, Typed, TypeOK, SavedRow, RowOf, Goto, Answer, external
<1>1. ASSUME NEW r \in Requests, Commit(r) PROVE SavedRow'
  BY <1>1 DEF Commit, CommitTxn, Filled
<1>2. ASSUME NEW r \in Requests, Arrive(r) \/ (Advance(r) /\ ~Commit(r))
      PROVE  SavedRow'
  BY <1>2 DEF Advance, Arrive, LookupMiss, LookupHit, ResolveKnown, ResolveUnknown,
    SubmitAccepted, SubmitFailed, Create, InsertFlushed, CreateDuplicate,
    RollbackTxn, Save
<1>3. ASSUME NEW r \in Requests, DbError(r) \/ RedisError(r) \/ Crash(r)
      PROVE  SavedRow'
  BY <1>3 DEF DbError, RedisError, Crash, Active, RollbackTxn, CommitTxn
<1>4. ASSUME NEW r \in Requests, RcsAccept(r) \/ RcsRefuse(r) PROVE SavedRow'
  BY <1>4 DEF RcsAccept, RcsRefuse
<1>5. ASSUME NEW k \in Keys, Expire(k) PROVE SavedRow'
  BY <1>5 DEF Expire
<1> QED
  BY <1>1, <1>2, <1>3, <1>4, <1>5 DEF Next, vars

(* What the RCS holds for a body, it keeps holding.                        *)
LEMMA TaskOfStable ==
  ASSUME Inv, [Next]_vars, NEW c, NEW p, TaskOf(c, p)
  PROVE  \E t \in rcsTasks' : t.code = c /\ req'[t.by].payload = p
<1>1. PICK t \in rcsTasks : t.code = c /\ req[t.by].payload = p
  BY DEF TaskOf
<1>2. t \in rcsTasks' /\ req'[t.by] = req[t.by]
  BY <1>1, StepGrows DEF Inv, Accepted, Typed, TypeOK
<1> QED
  BY <1>1, <1>2

(* Entries are written after the commit and outlive no row.                *)
LEMMA CacheStep ==
  ASSUME Inv, [Next]_vars
  PROVE  CacheBacked'
<1> USE DEF CacheHit, Truthy
<1>1. SUFFICES ASSUME NEW k \in Keys, cache'[k] \in Entry
               PROVE  /\ [code |-> cache'[k].code, key |-> k] \in rows'
                      /\ \E t \in rcsTasks' :
                            /\ t.code = cache'[k].code
                            /\ req'[t.by].payload = cache'[k].payload
  BY DEF CacheBacked, TaskOf
<1>2. CASE cache'[k] = cache[k]
  BY <1>1, <1>2, StepGrows, TaskOfStable DEF Inv, CacheBacked
<1>3. CASE Saved
  <2>1. PICK r \in Requests :
          /\ pc[r] = "save" /\ req[r].key \in Keys
          /\ cache' = [cache EXCEPT ![req[r].key] =
                         [payload |-> req[r].payload, code |-> code[r]]]
    BY <1>3 DEF Saved
  <2>2. CASE k # req[r].key
    BY <1>2, <2>1, <2>2 DEF Inv, Typed, TypeOK
  <2>3. CASE k = req[r].key
    <3>1. cache'[k] = [payload |-> req[r].payload, code |-> code[r]]
      BY <2>1, <2>3 DEF Inv, Typed, TypeOK
    <3>2. [code |-> code[r], key |-> k] \in rows
      BY <2>1, <2>3 DEF Inv, SavedRow, RowOf
    <3>3. TaskOf(code[r], req[r].payload)
      BY <2>1 DEF Inv, Accepted, TaskOf
    <3> QED
      BY <3>1, <3>2, <3>3, StepGrows, TaskOfStable DEF Inv
  <2> QED
    BY <2>2, <2>3
<1>4. CASE CacheLost
  <2>1. PICK e \in Keys : cache' = [cache EXCEPT ![e] = Expired]
    BY <1>4 DEF CacheLost
  <2>2. k # e
    BY <1>1, <2>1, CreateAssumption DEF Inv, Typed, TypeOK, Entry
  <2> QED
    BY <1>2, <2>1, <2>2 DEF Inv, Typed, TypeOK
<1>5. CASE UNCHANGED cache
  BY <1>2, <1>5
<1> QED
  BY <1>3, <1>4, <1>5, StepCache DEF Inv

(* A handler has no answer before it ends, and no failure carries a code.  *)
LEMMA AnswerStageStep ==
  ASSUME Inv, [Next]_vars
  PROVE  AnswerStage'
<1> USE DEF Inv, Typed, TypeOK, AnswerStage, Succeeded
<1>1. CASE Moved
  BY <1>1 DEF Moved
<1>2. CASE Answered
  BY <1>2 DEF Answered, Ends, Failure, Created
<1> QED
  BY <1>1, <1>2, StepAnswer

(* A 201 names a committed task with the request's own body, when it is    *)
(* given and ever after.                                                   *)
LEMMA AnswerStep ==
  ASSUME Inv, [Next]_vars
  PROVE  AnswerOwnTask'
<1>1. SUFFICES ASSUME NEW q \in Requests, resp'[q].kind = "created"
               PROVE  /\ [code |-> resp'[q].code, key |-> req'[q].key] \in rows'
                      /\ \E t \in rcsTasks' :
                            /\ t.code = resp'[q].code
                            /\ req'[t.by].payload = req'[q].payload
  BY DEF AnswerOwnTask, Succeeded, TaskOf
(* It is enough to back the answer in the state before the step. *)
<1>2. SUFFICES /\ pc[q] # "new"
               /\ [code |-> resp'[q].code, key |-> req[q].key] \in rows
               /\ TaskOf(resp'[q].code, req[q].payload)
  BY StepGrows, TaskOfStable DEF Inv
<1>3. CASE resp'[q] = resp[q]
  <2>1. pc[q] = "answered"
    BY <1>1, <1>3 DEF Inv, AnswerStage, Unanswered, Failure
  <2> QED
    BY <1>1, <1>3, <2>1 DEF Inv, AnswerOwnTask, Succeeded
<1>4. CASE Moved
  BY <1>3, <1>4 DEF Moved
<1>5. CASE Answered
  <2>1. PICK r \in Requests :
          \/ \E kind \in Kinds \ {"none", "created"} : Ends(r, Failure(kind))
          \/ /\ pc[r] = "lookup" /\ CacheHit(req[r].key) /\ SameFingerprint(r)
             /\ Ends(r, Created(cache[req[r].key].code, TRUE))
          \/ pc[r] = "save" /\ Ends(r, Created(code[r], FALSE))
    BY <1>5 DEF Answered
  <2>2. CASE q # r
    <3>1. resp'[q] = resp[q]
      BY <2>1, <2>2 DEF Ends, Inv, Typed, TypeOK
    <3> QED
      BY <1>3, <3>1
  <2>3. CASE q = r /\ \E kind \in Kinds \ {"none", "created"} : Ends(r, Failure(kind))
    BY <1>1, <2>3 DEF Ends, Failure, Inv, Typed, TypeOK
  <2>4. CASE /\ q = r
             /\ pc[r] = "lookup" /\ CacheHit(req[r].key) /\ SameFingerprint(r)
             /\ Ends(r, Created(cache[req[r].key].code, TRUE))
    <3>1. resp'[q].code = cache[req[r].key].code
      BY <2>4 DEF Ends, Created, Inv, Typed, TypeOK
    <3>2. /\ [code |-> cache[req[r].key].code, key |-> req[r].key] \in rows
          /\ TaskOf(cache[req[r].key].code, cache[req[r].key].payload)
      BY <2>4 DEF Inv, CacheBacked, CacheHit, Truthy
    <3> QED
      BY <2>4, <3>1, <3>2 DEF SameFingerprint
  <2>5. CASE q = r /\ pc[r] = "save" /\ Ends(r, Created(code[r], FALSE))
    <3>1. resp'[q].code = code[r]
      BY <2>5 DEF Ends, Created, Inv, Typed, TypeOK
    <3>2. [code |-> code[r], key |-> req[r].key] \in rows
      BY <2>5 DEF Inv, SavedRow, RowOf
    <3>3. TaskOf(code[r], req[r].payload)
      BY <2>5 DEF Inv, Accepted, TaskOf
    <3> QED
      BY <2>5, <3>1, <3>2, <3>3
  <2> QED
    BY <2>1, <2>2, <2>3, <2>4, <2>5
<1> QED
  BY <1>4, <1>5, StepAnswer DEF Inv

LEMMA InvStep == Inv /\ [Next]_vars => Inv'
<1> SUFFICES ASSUME Inv, [Next]_vars PROVE Inv'
  OBVIOUS
<1>1. Typed'
  BY TypeStep DEF Inv
<1> QED
  BY <1>1, RowsStep, AcceptedStep, SavedRowStep, AnswerStageStep, CacheStep,
     AnswerStep DEF Inv

LEMMA Invariance == Spec => []Inv
BY InvInit, InvStep, PTL DEF Spec

-----------------------------------------------------------------------------
(* A cached entry always names a committed task of its key and body.       *)
THEOREM CacheCorrect == Spec => []CacheBacked
<1>1. Inv => CacheBacked
  BY DEF Inv
<1> QED
  BY <1>1, Invariance, PTL

(* Every 201 names a committed task the RCS got with the request's body.   *)
THEOREM AnswersCorrect == Spec => []AnswerOwnTask
<1>1. Inv => AnswerOwnTask
  BY DEF Inv
<1> QED
  BY <1>1, Invariance, PTL

(* Two 201s under one key name one task.                                   *)
THEOREM AnswersAgreeAlways == Spec => []AnswersAgree
<1>1. Inv => AnswersAgree
  <2> SUFFICES ASSUME Inv, NEW q \in Requests, NEW r \in Requests,
                      Succeeded(q), Succeeded(r),
                      Truthy(req[q].key), req[q].key = req[r].key
               PROVE  resp[q].code = resp[r].code
    BY DEF AnswersAgree
  <2> DEFINE x == [code |-> resp[q].code, key |-> req[q].key]
             y == [code |-> resp[r].code, key |-> req[r].key]
  <2>1. x \in rows /\ y \in rows
    BY DEF Inv, AnswerOwnTask
  <2>2. Clash(x, y)
    BY StoreAssumption DEF Clash, Truthy
  <2>3. x = y
    BY <2>1, <2>2 DEF Inv, RowsUnique
  <2> QED
    BY <2>3
<1> QED
  BY <1>1, Invariance, PTL

-----------------------------------------------------------------------------
(* What spares the RCS: a submit leaves only at the end of the resolve     *)
(* stage, and the RCS takes it off the wire when it accepts it.            *)
Sparing ==
  /\ RcsSpared
  /\ \A r \in Requests : pc[r] \in {"new", "lookup", "resolve"} => ~Touched(r)
  /\ \A t \in rcsTasks : t.by \notin inflight

LEMMA SparingInit == Init => Sparing
BY DEF Init, Sparing, RcsSpared, Touched, Unanswered, Failure

LEMMA SparingStep ==
  ASSUME Inv, Sparing, [Next]_vars
  PROVE  Sparing'
<1> USE DEF Sparing, RcsSpared, Touched, Goto, Answer, external, Inv, Typed, TypeOK
<1>1. ASSUME NEW r \in Requests, Arrive(r) \/ LookupMiss(r) PROVE Sparing'
  BY <1>1 DEF Arrive, LookupMiss
<1>2. ASSUME NEW r \in Requests, LookupHit(r) \/ ResolveUnknown(r) PROVE Sparing'
  BY <1>2 DEF LookupHit, ResolveUnknown
<1>3. ASSUME NEW r \in Requests, ResolveKnown(r) PROVE Sparing'
  <2>1. resp[r] = Unanswered
    BY <1>3 DEF ResolveKnown, AnswerStage
  <2> QED
    BY <1>3, <2>1 DEF ResolveKnown, Unanswered, Failure
<1>4. ASSUME NEW r \in Requests,
             SubmitAccepted(r) \/ Create(r) \/ Commit(r) \/ Crash(r)
      PROVE  Sparing'
  BY <1>4 DEF SubmitAccepted, Create, Commit, Crash
<1>5. ASSUME NEW r \in Requests,
             \/ SubmitFailed(r) \/ CreateDuplicate(r) \/ DbError(r) \/ Save(r)
             \/ RedisError(r)
      PROVE  Sparing'
  <2>1. /\ UNCHANGED <<inflight, rcsTasks>>
        /\ pc' = [pc EXCEPT ![r] = "answered"]
        /\ \E a \in {Failure("rcsError"), Failure("internal"), Created(code[r], FALSE)} :
              resp' = [resp EXCEPT ![r] = a]
    BY <1>5 DEF SubmitFailed, CreateDuplicate, DbError, Save, RedisError
  <2> QED
    BY <2>1 DEF Failure, Created
<1>6. ASSUME NEW r \in Requests, RcsAccept(r) PROVE Sparing'
  <2>1. PICK c \in Codes : rcsTasks' = rcsTasks \cup {[code |-> c, by |-> r]}
    BY <1>6 DEF RcsAccept
  <2> QED
    BY <1>6, <2>1 DEF RcsAccept
<1>7. ASSUME NEW r \in Requests, RcsRefuse(r) PROVE Sparing'
  BY <1>7 DEF RcsRefuse
<1>8. ASSUME NEW k \in Keys, Expire(k) PROVE Sparing'
  BY <1>8 DEF Expire
<1>9. CASE UNCHANGED vars
  BY <1>9 DEF vars
<1> QED
  BY <1>1, <1>2, <1>3, <1>4, <1>5, <1>6, <1>7, <1>8, <1>9 DEF Next, Advance

(* No request submits twice, and one that is answered from the cache, as a *)
(* collision or as an unknown robot type does not submit at all.           *)
THEOREM SubmitsSpared == Spec => []RcsSpared
<1>1. Sparing /\ Inv /\ [Next]_vars => Sparing'
  BY SparingStep
<1>2. Sparing => RcsSpared
  BY DEF Sparing
<1> QED
  BY SparingInit, Invariance, <1>1, <1>2, PTL DEF Spec

-----------------------------------------------------------------------------
(* The refinement: what the registry sees of a state.                      *)
Asked == [r \in Requests |-> AskedKey(r)]
Given == [r \in Requests |-> resp[r].code]

(* A step that ends no handler well and commits nothing stutters.          *)
LEMMA RegistryStutter ==
  ASSUME Inv, UNCHANGED <<rows, req>>,
         \A r \in Requests : resp'[r].code = resp[r].code
  PROVE  UNCHANGED <<rows, Asked, Given>>
BY DEF Asked, Given, AskedKey

(* A failure leaves the answer's code as it was: none.                     *)
LEMMA FailureGivesNoCode ==
  ASSUME Inv, NEW r \in Requests, pc[r] # "answered", NEW kind,
         resp' = [resp EXCEPT ![r] = Failure(kind)]
  PROVE  \A q \in Requests : resp'[q].code = resp[q].code
BY DEF Inv, Typed, TypeOK, AnswerStage, Unanswered, Failure

(* Committing the row of a handler records its task.                       *)
LEMMA CommitRecords ==
  ASSUME Inv, NEW r \in Requests, pc[r] = "commit", rows' = rows \cup {txn[r]},
         req' = req, \A q \in Requests : resp'[q].code = resp[q].code
  PROVE  Registry!Record(r, code[r])
<1>1. txn[r] = RowOf(r) /\ req[r] \in Request /\ RowOf(r) \in Row
  BY RowOfTyped DEF Inv, Typed, Filled
<1>2. Asked[r] # NoRequest /\ Asked[r] = req[r].key
  BY <1>1, CreateAssumption DEF Asked, AskedKey, Request
<1>3. \A x \in rows : ~Clash(RowOf(r), x)
  BY <1>1 DEF Inv, TxnFree, ClashesWithCommitted
<1>4. \A x \in rows : x.code # code[r] /\ (Asked[r] = NoKey \/ x.key # Asked[r])
  BY <1>2, <1>3 DEF Clash, RowOf
<1>5. UNCHANGED <<Asked, Given>>
  BY DEF Asked, Given, AskedKey
<1> QED
  BY <1>1, <1>2, <1>4, <1>5 DEF Registry!Record, RowOf, Asked, Given

(* Giving a code that is recorded under the asker's key is a reply.        *)
LEMMA SuccessReplies ==
  ASSUME Inv, NEW r \in Requests, NEW c, pc[r] \notin {"new", "answered"},
         [code |-> c, key |-> req[r].key] \in rows, NEW cached,
         resp' = [resp EXCEPT ![r] = Created(c, cached)],
         UNCHANGED <<rows, req>>
  PROVE  Registry!Reply(r, c)
<1>1. req[r] \in Request
  BY DEF Inv, Typed, Filled
<1>2. Asked[r] = req[r].key
  BY <1>1, CreateAssumption DEF Asked, AskedKey, Request
<1>3. Given[r] = NoCode
  BY DEF Given, Inv, AnswerStage, Unanswered, Failure
<1>4. Given' = [Given EXCEPT ![r] = c]
  BY DEF Given, Created, Inv, Typed, TypeOK
<1>5. Asked' = Asked
  BY DEF Asked, AskedKey
<1> QED
  BY <1>2, <1>3, <1>4, <1>5 DEF Registry!Reply, Asked, Given

LEMMA RegistryInit == Init => Registry!Init
BY DEF Init, Registry!Init, AskedKey, Unanswered, Failure

LEMMA RegistryStep ==
  ASSUME Inv, [Next]_vars
  PROVE  Registry!Next \/ UNCHANGED <<rows, Asked, Given>>
<1> USE DEF Goto, Answer, external
<1>1. ASSUME NEW r \in Requests, Arrive(r)
      PROVE  Registry!Next
  <2>1. PICK q \in Request : req' = [req EXCEPT ![r] = q]
    BY <1>1 DEF Arrive
  <2>2. Asked[r] = NoRequest /\ q.key \in ColumnKeys
    BY <1>1, <2>1 DEF Arrive, Asked, AskedKey, Inv, Typed, Filled, Request
  <2>3. Asked' = [Asked EXCEPT ![r] = q.key]
    BY <2>1, CreateAssumption DEF Asked, AskedKey, Request, Inv, Typed, TypeOK
  <2>4. UNCHANGED <<rows, Given>>
    BY <1>1 DEF Arrive, Given
  <2>5. Registry!Ask(r, q.key)
    BY <2>2, <2>3, <2>4 DEF Registry!Ask, Asked, Given
  <2> QED
    BY <2>2, <2>5 DEF Registry!Next
<1>2. ASSUME NEW r \in Requests, LookupHit(r)
      PROVE  Registry!Next \/ UNCHANGED <<rows, Asked, Given>>
  <2>1. CASE SameFingerprint(r)
    <3>1. PICK c \in Codes : c = cache[req[r].key].code
      BY <1>2 DEF LookupHit, CacheHit, Entry
    <3>2. [code |-> c, key |-> req[r].key] \in rows
      BY <1>2, <3>1 DEF LookupHit, CacheHit, Truthy, Inv, CacheBacked
    <3>3. Registry!Reply(r, c)
      BY <1>2, <2>1, <3>1, <3>2, SuccessReplies DEF LookupHit
    <3> QED
      BY <3>3 DEF Registry!Next
  <2>2. CASE ~SameFingerprint(r)
    BY <1>2, <2>2, FailureGivesNoCode, RegistryStutter DEF LookupHit
  <2> QED
    BY <2>1, <2>2
<1>3. ASSUME NEW r \in Requests, Save(r)
      PROVE  Registry!Next
  <2>1. PICK c \in Codes : c = code[r] /\ [code |-> c, key |-> req[r].key] \in rows
    BY <1>3 DEF Save, Inv, Typed, Filled, SavedRow, RowOf
  <2>2. Registry!Reply(r, c)
    BY <1>3, <2>1, SuccessReplies DEF Save
  <2> QED
    BY <2>2 DEF Registry!Next
<1>4. ASSUME NEW r \in Requests, Commit(r)
      PROVE  Registry!Next
  <2>1. code[r] \in Codes /\ Registry!Record(r, code[r])
    BY <1>4, CommitRecords DEF Commit, CommitTxn, Inv, Typed, Filled
  <2> QED
    BY <2>1 DEF Registry!Next
<1>5. ASSUME NEW r \in Requests, DbError(r)
      PROVE  Registry!Next \/ UNCHANGED <<rows, Asked, Given>>
  <2>1. req' = req /\ \A q \in Requests : resp'[q].code = resp[q].code
    BY <1>5, FailureGivesNoCode DEF DbError
  <2>2. CASE pc[r] = "commit" /\ CommitTxn(r)
    <3>1. code[r] \in Codes /\ Registry!Record(r, code[r])
      BY <2>1, <2>2, CommitRecords DEF CommitTxn, Inv, Typed, Filled
    <3> QED
      BY <3>1 DEF Registry!Next
  <2>3. CASE RollbackTxn(r)
    BY <2>1, <2>3, RegistryStutter DEF RollbackTxn
  <2> QED
    BY <1>5, <2>2, <2>3 DEF DbError
<1>6. ASSUME NEW r \in Requests,
             \/ LookupMiss(r) \/ ResolveKnown(r) \/ SubmitAccepted(r) \/ Create(r)
             \/ Crash(r) \/ RcsAccept(r) \/ RcsRefuse(r)
      PROVE  UNCHANGED <<rows, Asked, Given>>
  BY <1>6, RegistryStutter DEF LookupMiss, ResolveKnown, SubmitAccepted, Create,
    InsertFlushed, Crash, RollbackTxn, RcsAccept, RcsRefuse
<1>7. ASSUME NEW r \in Requests,
             \/ ResolveUnknown(r) \/ SubmitFailed(r) \/ CreateDuplicate(r)
             \/ RedisError(r)
      PROVE  UNCHANGED <<rows, Asked, Given>>
  <2>1. UNCHANGED <<rows, req>>
    BY <1>7 DEF ResolveUnknown, SubmitFailed, CreateDuplicate, RollbackTxn, RedisError
  <2>2. /\ pc[r] # "answered"
        /\ \E kind : resp' = [resp EXCEPT ![r] = Failure(kind)]
    BY <1>7 DEF ResolveUnknown, SubmitFailed, CreateDuplicate, RedisError
  <2> QED
    BY <2>1, <2>2, FailureGivesNoCode, RegistryStutter
<1>8. ASSUME NEW k \in Keys, Expire(k) PROVE UNCHANGED <<rows, Asked, Given>>
  BY <1>8, RegistryStutter DEF Expire
<1>9. CASE UNCHANGED vars
  BY <1>9, RegistryStutter DEF vars
<1> QED
  BY <1>1, <1>2, <1>3, <1>4, <1>5, <1>6, <1>7, <1>8, <1>9 DEF Next, Advance

(* create_task, with its cache, its transactions and the RCS, implements   *)
(* the registry of recorded tasks.                                         *)
THEOREM RegistryImplemented == Spec => ImplementsRegistry
<1>1. Inv /\ [Next]_vars => [Registry!Next]_<<rows, Asked, Given>>
  BY RegistryStep
<1>2. Inv /\ [Next]_vars => [Registry!Next]_Registry!registryVars
  BY <1>1 DEF Registry!registryVars, Asked, Given
<1> QED
  BY RegistryInit, Invariance, <1>2, PTL DEF Spec, ImplementsRegistry, Registry!Spec
=============================================================================
