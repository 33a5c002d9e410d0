--------------------------- MODULE MCTaskFeedback ---------------------------
(* TLC instances of TaskFeedback. *)
EXTENDS TaskFeedback, TLC

SymHooksWorkers == Permutations(Hooks) \cup Permutations(Workers)

(***************************************************************************)
(* Statements of the repository that the code does not keep.               *)
(***************************************************************************)

(* workers/tasks.py:103: "Idempotency: don't downgrade a terminal status." *)
TerminalStable ==
  [][\A c \in Tasks :
       tasks[c] # NoTask /\ tasks[c].status \in Terminal
         => tasks'[c].status = tasks[c].status]_vars
=============================================================================
