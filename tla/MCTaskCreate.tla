---------------------------- MODULE MCTaskCreate ----------------------------
(* TLC instances of TaskCreate. *)
EXTENDS TaskCreate, TLC

SymRequestsCodes == Permutations(Requests) \cup Permutations(Codes)

(***************************************************************************)
(* Statements of the repository that the code does not keep.               *)
(***************************************************************************)

(* tests/integration/test_tasks_router.py:55, tests/unit/                  *)
(* test_task_service.py:69: two creates under one key call the RCS once.   *)
OneTaskPerKey ==
  \A t, u \in rcsTasks :
    Truthy(req[t.by].key) /\ req[t.by].key = req[u.by].key => t = u
=============================================================================
