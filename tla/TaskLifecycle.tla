--------------------------- MODULE TaskLifecycle ---------------------------
(***************************************************************************)
(* What the history promises about a task, for any number of workers: it   *)
(* appears as pending, and its status changes only by updates that began   *)
(* before it had ended.  Of those, each worker has at most one under way,  *)
(* so a task that ends is overwritten at most once by every other worker   *)
(* that was updating it then, and never by feedback taken up later.        *)
(* TaskStatus of models/task_history.py, without the messages.             *)
(***************************************************************************)
CONSTANTS Tasks, Workers

VARIABLES state,        \* task -> "absent" or its status
          updating      \* worker and task of each update under way

vars == <<state, updating>>

Ended == {"completed", "failed", "cancelled"}
Open == {"pending", "running"}

Init ==
  /\ state = [c \in Tasks |-> "absent"]
  /\ updating = {}

Appear(c) ==
  /\ state[c] = "absent"
  /\ state' = [state EXCEPT ![c] = "pending"]
  /\ UNCHANGED updating

(* The task is seen open: an update of it begins. *)
Begin(w, c) ==
  /\ state[c] \in Open
  /\ \A d \in Tasks : <<w, d>> \notin updating
  /\ updating' = updating \cup {<<w, c>>}
  /\ UNCHANGED state

(* An update takes effect, whatever the status is by now. *)
Change(w, c, s) ==
  /\ <<w, c>> \in updating
  /\ state' = [state EXCEPT ![c] = s]
  /\ updating' = updating \ {<<w, c>>}

(* It is given up. *)
Quit(w, c) ==
  /\ <<w, c>> \in updating
  /\ updating' = updating \ {<<w, c>>}
  /\ UNCHANGED state

Next ==
  \E c \in Tasks :
    \/ Appear(c)
    \/ \E w \in Workers :
         \/ Begin(w, c) \/ Quit(w, c)
         \/ \E s \in {"running"} \cup Ended : Change(w, c, s)

Spec == Init /\ [][Next]_vars
=============================================================================
