----------------------------- MODULE TaskStore -----------------------------
(***************************************************************************)
(* The task_history table as the services use it: committed rows, and the  *)
(* one row a request's transaction has flushed but not committed.          *)
(* robot_task_code and idempotency_key are unique columns; NULL keys do    *)
(* not collide, the empty string does.  The engine is InnoDB: an insert    *)
(* that collides with another transaction's uncommitted row waits for that *)
(* transaction, one that collides with a committed row is an error.        *)
(***************************************************************************)
CONSTANTS Requests,   \* handler invocations, each served once
          Keys,       \* Idempotency-Key header values Python finds truthy
          Codes,      \* robotTaskCode values
          NoKey,      \* the header is absent: the column is NULL
          EmptyKey,   \* the header is present and empty
          NoRow       \* a transaction that has inserted nothing

ASSUME StoreAssumption ==
  /\ NoKey \notin Keys /\ EmptyKey \notin Keys /\ NoKey # EmptyKey

VARIABLES rows,       \* committed rows
          txn         \* request -> its uncommitted row

ColumnKeys == Keys \cup {NoKey, EmptyKey}
Row == [code : Codes, key : ColumnKeys]

(* Mutant: idempotency_key is not unique. *)
ClashOnCode(x, y) == x.code = y.code

(* Two different inserts the unique indexes do not let live together. *)
Clash(x, y) == x.code = y.code \/ (x.key = y.key /\ x.key # NoKey)

ClashesWithCommitted(row) == \E x \in rows : Clash(row, x)

WaitsForLock(r, row) ==
  \E q \in Requests \ {r} : txn[q] \in Row /\ Clash(row, txn[q])

InsertFlushed(r, row) ==
  /\ ~ClashesWithCommitted(row)
  /\ ~WaitsForLock(r, row)
  /\ txn' = [txn EXCEPT ![r] = row]
  /\ UNCHANGED rows

(* Mutant: create() flushes, nobody commits. *)
FlushOnly(r) ==
  /\ txn' = [txn EXCEPT ![r] = NoRow]
  /\ UNCHANGED rows

CommitTxn(r) ==
  /\ rows' = rows \cup {txn[r]}
  /\ txn' = [txn EXCEPT ![r] = NoRow]

(* Mutant: a failed handler keeps its session open. *)
SessionLeft(r) == UNCHANGED <<rows, txn>>

RollbackTxn(r) ==
  /\ txn' = [txn EXCEPT ![r] = NoRow]
  /\ UNCHANGED rows
=============================================================================
