---------------------------- MODULE SystemConfig ----------------------------
(***************************************************************************)
(* The RCS address: SystemConfigRepository behind PUT and GET              *)
(* /system/config (and the submit preview), over the system_config table   *)
(* and a Redis cache without expiry, and the RCS client, which reads the   *)
(* cache alone.  A step of an operation is the code up to its next await,  *)
(* on one of the two settings.                                             *)
(***************************************************************************)
CONSTANTS Ops,         \* GET and PUT requests, each served once
          Calls,       \* requests of the RCS client
          Ips, Ports,
          Blank,       \* the empty string, a legal address
          NoValue,     \* no row, no cache entry
          NoPayload, NoSnapshot, Default

ASSUME ConfigAssumption ==
  /\ Blank \in Ips
  /\ NoValue \notin Ips \cup Ports
  /\ NoPayload \notin [ip : Ips, port : Ports]
  /\ NoSnapshot \notin [ip : Ips \cup {NoValue}, port : Ports \cup {NoValue}]
  /\ Default \notin [ip : Ips, port : Ports]

VARIABLES step, at,    \* where an operation is, and on which setting
          payload,     \* what a PUT writes, NoPayload for a GET
          old,         \* the value a PUT selected
          got,         \* the settings an operation answers with
          snapshot,    \* what the transaction of a reload or GET sees
          db, cache,
          call, callIp, used,   \* client requests and the address they used
          stored,      \* history: every setting ever committed
          alone        \* history: operations that overlapped no other

vars == <<step, at, payload, old, got, snapshot, db, cache, call, callIp, used,
          stored, alone>>
client == <<call, callIp, used>>
local == <<payload, old, got, snapshot>>

Setting == {"ip", "port"}
Payload == [ip : Ips, port : Ports]
Settings == [ip : Ips \cup {NoValue}, port : Ports \cup {NoValue}]
Value == Ips \cup Ports \cup {NoValue}
Nothing == [ip |-> NoValue, port |-> NoValue]

Busy == {"select", "commit", "store", "get", "fetch", "fill"}
Step == {"new", "done", "error"} \cup Busy
Running == {o \in Ops : step[o] \in Busy}

Init ==
  /\ step = [o \in Ops |-> "new"]
  /\ at = [o \in Ops |-> "ip"]
  /\ payload = [o \in Ops |-> NoPayload]
  /\ old = [o \in Ops |-> NoValue]
  /\ got = [o \in Ops |-> Nothing]
  /\ snapshot = [o \in Ops |-> NoSnapshot]
  /\ db = Nothing
  /\ cache = Nothing
  /\ call = [c \in Calls |-> "new"]
  /\ callIp = [c \in Calls |-> NoValue]
  /\ used = [c \in Calls |-> Default]
  /\ stored = {}
  /\ alone = {}

-----------------------------------------------------------------------------
Goto(o, from, to) == step[o] = from /\ step' = [step EXCEPT ![o] = to]

(* The port follows the address; toward is where the operation goes next.  *)
NextSetting(o, from, again, toward) ==
  /\ Goto(o, from, IF at[o] = "ip" THEN again ELSE toward)
  /\ at' = [at EXCEPT ![o] = IF @ = "ip" THEN "port" ELSE "ip"]

(* The exception leaves the handler: its locals and its session go. *)
Abandon(o, from) ==
  /\ Goto(o, from, "error")
  /\ at' = [at EXCEPT ![o] = "ip"]
  /\ payload' = [payload EXCEPT ![o] = NoPayload]
  /\ old' = [old EXCEPT ![o] = NoValue]
  /\ got' = [got EXCEPT ![o] = Nothing]
  /\ snapshot' = [snapshot EXCEPT ![o] = NoSnapshot]

Begin(o) ==
  /\ alone' = IF Running = {} THEN alone \cup {o} ELSE alone \ Running
  /\ UNCHANGED <<at, old, got, snapshot, db, cache, client, stored>>

StartPut(o) ==
  /\ Goto(o, "new", "select")
  /\ \E p \in Payload : payload' = [payload EXCEPT ![o] = p]
  /\ Begin(o)

StartGet(o) ==
  /\ Goto(o, "new", "get")
  /\ UNCHANGED payload
  /\ Begin(o)

(* set: select, insert or update, commit, cache. *)
Select(o) ==
  /\ Goto(o, "select", "commit")
  /\ old' = [old EXCEPT ![o] = db[at[o]]]
  /\ UNCHANGED <<at, payload, got, snapshot, db, cache, client, stored, alone>>

Persist(k, v) ==
  /\ db' = [db EXCEPT ![k] = v]
  /\ stored' = stored \cup {<<k, v>>}

(* A value equal to the one selected is no change to the session: the      *)
(* commit writes nothing.                                                  *)
Written(o) ==
  LET k == at[o] IN
  IF old[o] = payload[o][k]
  THEN UNCHANGED <<db, stored>>
  ELSE Persist(k, payload[o][k])

(* An insert that finds the row another PUT inserted is an IntegrityError. *)
InsertCollides(o) == old[o] = NoValue /\ db[at[o]] # NoValue

(* Mutant: the session is never committed. *)
Uncommitted(o) ==
  /\ Goto(o, "commit", "store")
  /\ UNCHANGED <<at, local, db, cache, client, stored, alone>>

Commit(o) ==
  /\ Goto(o, "commit", "store")
  /\ ~InsertCollides(o)
  /\ Written(o)
  /\ old' = [old EXCEPT ![o] = NoValue]
  /\ UNCHANGED <<at, payload, got, snapshot, cache, client, alone>>

(* The database fails, the insert collides or the process dies; a commit   *)
(* whose answer is lost has happened.                                      *)
DbFails(o) ==
  /\ \E from \in {"select", "commit", "fetch"} : Abandon(o, from)
  /\ \/ UNCHANGED <<db, stored>>
     \/ step[o] = "commit" /\ ~InsertCollides(o) /\ Written(o)
  /\ UNCHANGED <<cache, client, alone>>

(* Mutant: an entry that is there is left. *)
CacheOnce(k, v) == cache' = [cache EXCEPT ![k] = IF @ = NoValue THEN v ELSE @]

CacheSet(k, v) == cache' = [cache EXCEPT ![k] = v]

Store(o) ==
  /\ NextSetting(o, "store", "select", "get")
  /\ CacheSet(at[o], payload[o][at[o]])
  /\ UNCHANGED <<local, db, client, stored, alone>>

(* get: the cache, else the table, and then the cache is filled. *)
GetHit(o) ==
  /\ cache[at[o]] # NoValue
  /\ NextSetting(o, "get", "get", "done")
  /\ got' = [got EXCEPT ![o][at[o]] = cache[at[o]]]
  /\ UNCHANGED <<payload, old, snapshot, db, cache, client, stored, alone>>

GetMiss(o) ==
  /\ cache[at[o]] = NoValue
  /\ Goto(o, "get", "fetch")
  /\ UNCHANGED <<at, local, db, cache, client, stored, alone>>

(* The first select of a transaction fixes what the second one sees. *)
View(o) == IF snapshot[o] = NoSnapshot THEN db ELSE snapshot[o]

FetchRow(o) ==
  /\ Goto(o, "fetch", "fill")
  /\ View(o)[at[o]] # NoValue
  /\ snapshot' = [snapshot EXCEPT ![o] = View(o)]
  /\ got' = [got EXCEPT ![o][at[o]] = View(o)[at[o]]]
  /\ UNCHANGED <<at, payload, old, db, cache, client, stored, alone>>

FetchNothing(o) ==
  /\ View(o)[at[o]] = NoValue
  /\ NextSetting(o, "fetch", "get", "done")
  /\ snapshot' = [snapshot EXCEPT ![o] = View(o)]
  /\ UNCHANGED <<payload, old, got, db, cache, client, stored, alone>>

Fill(o) ==
  /\ NextSetting(o, "fill", "get", "done")
  /\ CacheSet(at[o], got[o][at[o]])
  /\ UNCHANGED <<local, db, client, stored, alone>>

(* Redis fails or the process dies; a lost answer may hide a done SET. *)
RedisFails(o) ==
  /\ \E from \in {"store", "get", "fill"} : Abandon(o, from)
  /\ \/ UNCHANGED cache
     \/ step[o] = "store" /\ CacheSet(at[o], payload[o][at[o]])
     \/ step[o] = "fill" /\ CacheSet(at[o], got[o][at[o]])
  /\ UNCHANGED <<db, client, stored, alone>>

(* Redis restarts or evicts: the entry is gone. *)
Evict(k) ==
  /\ cache[k] # NoValue
  /\ CacheSet(k, NoValue)
  /\ UNCHANGED <<step, at, local, db, client, stored, alone>>

-----------------------------------------------------------------------------
(* _resolve_full_url: two reads of the cache, or the configured default. *)
Truthy(v) == v \notin {NoValue, Blank}

ReadIp(c) ==
  /\ call[c] = "new"
  /\ call' = [call EXCEPT ![c] = "half"]
  /\ callIp' = [callIp EXCEPT ![c] = cache.ip]
  /\ UNCHANGED <<step, at, local, db, cache, used, stored, alone>>

(* Mutant: the address alone decides. *)
ResolvedByIp(ip, port) ==
  IF Truthy(ip) THEN [ip |-> ip, port |-> port] ELSE Default

Resolved(ip, port) ==
  IF Truthy(ip) /\ Truthy(port) THEN [ip |-> ip, port |-> port] ELSE Default

ReadPort(c) ==
  /\ call[c] = "half"
  /\ call' = [call EXCEPT ![c] = "sent"]
  /\ used' = [used EXCEPT ![c] = Resolved(callIp[c], cache.port)]
  /\ callIp' = [callIp EXCEPT ![c] = NoValue]
  /\ UNCHANGED <<step, at, local, db, cache, stored, alone>>

Serve(o) ==
  \/ Select(o) \/ Commit(o) \/ Store(o) \/ GetHit(o) \/ GetMiss(o)
  \/ FetchRow(o) \/ FetchNothing(o) \/ Fill(o)

Next ==
  \/ \E o \in Ops : \/ StartPut(o) \/ StartGet(o)
                    \/ Serve(o) \/ DbFails(o) \/ RedisFails(o)
  \/ \E k \in Setting : Evict(k)
  \/ \E c \in Calls : ReadIp(c) \/ ReadPort(c)

Spec == Init /\ [][Next]_vars

-----------------------------------------------------------------------------
TypeOK ==
  /\ step \in [Ops -> Step]
  /\ at \in [Ops -> Setting]
  /\ payload \in [Ops -> Payload \cup {NoPayload}]
  /\ old \in [Ops -> Value]
  /\ got \in [Ops -> Settings]
  /\ snapshot \in [Ops -> Settings \cup {NoSnapshot}]
  /\ db \in Settings
  /\ cache \in Settings
  /\ call \in [Calls -> {"new", "half", "sent"}]
  /\ callIp \in [Calls -> Ips \cup {NoValue}]
  /\ used \in [Calls -> Payload \cup {Default}]
  /\ stored \subseteq Setting \X Value
  /\ alone \subseteq Ops

(* Nobody ever uses a setting that was not committed: the cache holds, the *)
(* API answers and the RCS client calls only stored values, through failed *)
(* commits, lost answers, evictions and late fills.                        *)
WasStored(k, v) == v = NoValue \/ <<k, v>> \in stored

OnlyStoredUsed ==
  /\ \A k \in Setting : WasStored(k, cache[k])
  /\ \A o \in Ops, k \in Setting : WasStored(k, got[o][k])
  /\ \A c \in Calls : used[c] # Default =>
        \A k \in Setting : WasStored(k, used[c][k])

(* A PUT that overlaps no other operation and is answered is in effect:    *)
(* whatever failed, was lost or went stale before, table, answer and cache *)
(* hold its settings (or the cache, after an eviction, nothing).           *)
Answered(o) == step[o] # "done" /\ step'[o] = "done"

PutTakesEffect ==
  [][\A o \in alone : Answered(o) /\ payload[o] # NoPayload =>
       /\ db' = payload[o]
       /\ got'[o] = payload[o]
       /\ \A k \in Setting : cache'[k] \in {payload[o][k], NoValue}]_vars
=============================================================================
