---------------------------- MODULE TaskRegistry ----------------------------
(***************************************************************************)
(* What POST /tasks/create promises its callers, without the stages, the   *)
(* cache, the transactions or the RCS: a registry of recorded tasks that   *)
(* only grows, in which a code and a key appear at most once; a caller     *)
(* asks once with a key, and gets at most one answer, which names a task   *)
(* recorded under its key.                                                 *)
(***************************************************************************)
CONSTANTS Requests, ColumnKeys, Codes, NoKey, NotAsked, NoCode

VARIABLES registry,   \* set of [code, key]
          asked,      \* request -> NotAsked or its key
          answer      \* request -> NoCode or the code it was given

registryVars == <<registry, asked, answer>>

Init ==
  /\ registry = {}
  /\ asked = [r \in Requests |-> NotAsked]
  /\ answer = [r \in Requests |-> NoCode]

Ask(r, k) ==
  /\ asked[r] = NotAsked
  /\ asked' = [asked EXCEPT ![r] = k]
  /\ UNCHANGED <<registry, answer>>

(* A task is recorded for an asker, under a key and a code of its own. *)
Record(r, c) ==
  /\ asked[r] # NotAsked
  /\ \A x \in registry :
        x.code # c /\ (asked[r] = NoKey \/ x.key # asked[r])
  /\ registry' = registry \cup {[code |-> c, key |-> asked[r]]}
  /\ UNCHANGED <<asked, answer>>

Reply(r, c) ==
  /\ answer[r] = NoCode
  /\ [code |-> c, key |-> asked[r]] \in registry
  /\ answer' = [answer EXCEPT ![r] = c]
  /\ UNCHANGED <<registry, asked>>

Next ==
  \E r \in Requests :
     \/ \E k \in ColumnKeys : Ask(r, k)
     \/ \E c \in Codes : Record(r, c) \/ Reply(r, c)

Spec == Init /\ [][Next]_registryVars
=============================================================================
