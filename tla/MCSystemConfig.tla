--------------------------- MODULE MCSystemConfig ---------------------------
(* TLC instances of SystemConfig. *)
EXTENDS SystemConfig, TLC

SymOps == Permutations(Ops)

(***************************************************************************)
(* PUTs one after the other and no failure: one operator at the settings   *)
(* page, while other pages read the configuration.                         *)
(***************************************************************************)
Writing == {o \in Running : payload[o] # NoPayload}

OneWriter ==
  /\ \A o \in Ops : StartPut(o) => Writing = {}
  /\ \A o \in Ops : step'[o] # "error"
  /\ \A k \in Setting : ~Evict(k)

OneWriterSpec == Init /\ [][Next /\ OneWriter]_vars

(* app/static/js/app.js:338, on the settings page: changes take effect     *)
(* immediately.  Once no PUT is under way, the cache the RCS client reads  *)
(* holds what the table holds.                                             *)
SavedSettingsUsed ==
  Writing = {} => \A k \in Setting : cache[k] = db[k]
=============================================================================
