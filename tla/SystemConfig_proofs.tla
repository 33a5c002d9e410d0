------------------------ MODULE SystemConfig_proofs ------------------------
(***************************************************************************)
(* Proofs about SystemConfig, for any operations, calls, addresses and     *)
(* ports: its types, that only committed settings are ever used, and that  *)
(* a PUT that ran alone is in effect.                                      *)
(***************************************************************************)
EXTENDS SystemConfig, TLAPS

(* A setting keeps its kind when one field of a record of them is updated. *)
SettingOf(k) == IF k = "ip" THEN Ips ELSE Ports

LEMMA FieldUpdate ==
  ASSUME NEW s \in Settings, NEW k \in Setting, NEW v \in SettingOf(k) \cup {NoValue}
  PROVE  /\ [s EXCEPT ![k] = v] \in Settings
         /\ [s EXCEPT ![k] = v][k] = v
         /\ \A j \in Setting : j # k => [s EXCEPT ![k] = v][j] = s[j]
<1>1. CASE k = "ip"
  BY <1>1 DEF Settings, Setting, SettingOf
<1>2. CASE k = "port"
  BY <1>2 DEF Settings, Setting, SettingOf
<1>3. QED
  BY <1>1, <1>2 DEF Setting

LEMMA FieldOf ==
  ASSUME NEW k \in Setting
  PROVE  /\ \A s \in Settings : s[k] \in SettingOf(k) \cup {NoValue} /\ s[k] \in Value
         /\ \A p \in Payload : p[k] \in SettingOf(k) /\ p[k] \in Value
         /\ Payload \subseteq Settings
BY DEF Settings, Payload, Setting, SettingOf, Value

(* A PUT in one of its own steps has a payload, and what it selected is a  *)
(* value of the setting at hand.                                           *)
Putting(o) == step[o] \in {"select", "commit", "store"}

PutFilled ==
  \A o \in Ops : Putting(o) => payload[o] \in Payload

Typed == TypeOK /\ PutFilled

LEMMA TypeInit == Init => Typed
BY ConfigAssumption DEF Init, Typed, TypeOK, PutFilled, Putting, Nothing, Settings, Payload,
   Step, Busy, Setting, Value

(* The operations' own steps, with what they touch. *)
LEMMA TypeSteps ==
  ASSUME Typed, NEW o \in Ops
  PROVE  /\ StartPut(o) \/ StartGet(o) => Typed'
         /\ Select(o) => Typed'
         /\ Commit(o) => Typed'
         /\ Store(o) => Typed'
         /\ GetHit(o) \/ GetMiss(o) => Typed'
         /\ FetchRow(o) \/ FetchNothing(o) => Typed'
         /\ Fill(o) => Typed'
         /\ DbFails(o) => Typed'
         /\ RedisFails(o) => Typed'
<1> USE DEF Typed, TypeOK, PutFilled, Putting, Step, Busy, Goto
<1>0. /\ at[o] \in Setting
      /\ db[at[o]] \in SettingOf(at[o]) \cup {NoValue} /\ db[at[o]] \in Value
      /\ cache[at[o]] \in SettingOf(at[o]) \cup {NoValue}
      /\ got[o][at[o]] \in SettingOf(at[o]) \cup {NoValue}
  BY FieldOf
<1>1. StartPut(o) \/ StartGet(o) => Typed'
  <2>1. ASSUME Begin(o) PROVE alone' \subseteq Ops
    BY <2>1 DEF Begin, Running
  <2>2. QED
    BY <2>1 DEF StartPut, StartGet, Begin, client
<1>2. Select(o) => Typed'
  BY <1>0 DEF Select, client
<1>3. ASSUME Written(o), Putting(o)
      PROVE  db' \in Settings /\ stored' \subseteq Setting \X Value
  BY <1>0, <1>3, FieldOf, FieldUpdate DEF Written, Persist
<1>4. Commit(o) => Typed'
  BY <1>3 DEF Commit, client, Value
<1>5. ASSUME NEW v \in SettingOf(at[o]) \cup {NoValue}, CacheSet(at[o], v)
      PROVE  cache' \in Settings
  BY <1>0, <1>5, FieldUpdate DEF CacheSet
<1>6. Store(o) => Typed'
  BY <1>0, <1>5, FieldOf DEF Store, NextSetting, local, client, Setting
<1>7. ASSUME NEW v \in SettingOf(at[o]) \cup {NoValue},
             got' = [got EXCEPT ![o][at[o]] = v]
      PROVE  got' \in [Ops -> Settings]
  <2>1. got[o] \in Settings
    OBVIOUS
  <2>2. [got[o] EXCEPT ![at[o]] = v] \in Settings
    BY <1>0, <2>1, FieldUpdate
  <2>3. got' = [got EXCEPT ![o] = [got[o] EXCEPT ![at[o]] = v]]
    BY <1>7
  <2>4. QED
    BY <2>2, <2>3
<1>8. GetHit(o) \/ GetMiss(o) => Typed'
  BY <1>0, <1>7 DEF GetHit, GetMiss, NextSetting, local, client, Setting
<1>9. View(o) \in Settings
  BY DEF View
<1>10. FetchRow(o) \/ FetchNothing(o) => Typed'
  <2>1. View(o)[at[o]] \in SettingOf(at[o]) \cup {NoValue}
    BY <1>0, <1>9, FieldOf
  <2>2. FetchRow(o) => Typed'
    <3>1. ASSUME FetchRow(o) PROVE got' \in [Ops -> Settings]
      BY <2>1, <3>1, <1>7 DEF FetchRow
    <3>2. ASSUME FetchRow(o) PROVE snapshot' \in [Ops -> Settings \cup {NoSnapshot}]
      BY <1>9, <3>2 DEF FetchRow
    <3>3. QED
      BY <3>1, <3>2 DEF FetchRow, client
  <2>3. FetchNothing(o) => Typed'
    <3>1. ASSUME FetchNothing(o) PROVE snapshot' \in [Ops -> Settings \cup {NoSnapshot}]
      BY <1>9, <3>1 DEF FetchNothing
    <3>2. QED
      BY <1>0, <3>1 DEF FetchNothing, NextSetting, client, Setting
  <2>4. QED
    BY <2>2, <2>3
<1>11. Fill(o) => Typed'
  BY <1>0, <1>5 DEF Fill, NextSetting, local, client, Setting
<1>12. Nothing \in Settings /\ NoValue \in Value
  BY DEF Nothing, Settings, Value
<1>13. DbFails(o) => Typed'
  BY <1>3, <1>12 DEF DbFails, Abandon, client, Setting
<1>14. RedisFails(o) => Typed'
  BY <1>0, <1>5, <1>12, FieldOf DEF RedisFails, Abandon, client, Setting
<1>15. QED
  BY <1>1, <1>2, <1>4, <1>6, <1>8, <1>10, <1>11, <1>13, <1>14

LEMMA TypeStep == Typed /\ [Next]_vars => Typed'
<1> SUFFICES ASSUME Typed, [Next]_vars PROVE Typed'
  OBVIOUS
<1>1. ASSUME NEW o \in Ops,
             StartPut(o) \/ StartGet(o) \/ Serve(o) \/ DbFails(o) \/ RedisFails(o)
      PROVE  Typed'
  BY <1>1, TypeSteps DEF Serve
<1>2. ASSUME NEW k \in Setting, Evict(k) PROVE Typed'
  BY <1>2, FieldUpdate DEF Typed, TypeOK, PutFilled, Putting, Evict, CacheSet, local, client
<1>3. ASSUME NEW c \in Calls, ReadIp(c) \/ ReadPort(c) PROVE Typed'
  <2> USE DEF Typed, TypeOK, PutFilled, Putting, local
  <2>1. CASE ReadIp(c)
    <3>1. cache.ip \in Ips \cup {NoValue}
      BY DEF Settings
    <3>2. QED
      BY <2>1, <3>1 DEF ReadIp
  <2>2. CASE ReadPort(c)
    <3>1. Resolved(callIp[c], cache.port) \in Payload \cup {Default}
      BY DEF Settings, Resolved, Truthy, Payload
    <3>2. QED
      BY <2>2, <3>1 DEF ReadPort
  <2>3. QED
    BY <1>3, <2>1, <2>2
<1>4. CASE UNCHANGED vars
  BY <1>4 DEF Typed, TypeOK, PutFilled, Putting, vars
<1>5. QED
  BY <1>1, <1>2, <1>3, <1>4 DEF Next

(* Every variable keeps its type, in every interleaving of the stages.     *)
THEOREM TypeCorrect == Spec => []TypeOK
<1>1. Typed => TypeOK
  BY DEF Typed
<1>2. QED
  BY <1>1, TypeInit, TypeStep, PTL DEF Spec

-----------------------------------------------------------------------------
(* What is used was committed.  A setting gets to where it is used through *)
(* the rows, a transaction's view, the first read of a client's call, the  *)
(* value a PUT selected and the payload of a PUT past its commit: the      *)
(* invariant holds of each of them.                                        *)
AllStored ==
  /\ OnlyStoredUsed
  /\ \A k \in Setting : WasStored(k, db[k])
  /\ \A o \in Ops, k \in Setting :
        snapshot[o] # NoSnapshot => WasStored(k, snapshot[o][k])
  /\ \A c \in Calls : WasStored("ip", callIp[c])
  /\ \A o \in Ops : step[o] = "commit" => WasStored(at[o], old[o])
  /\ \A o \in Ops : step[o] = "store" => WasStored(at[o], payload[o][at[o]])

LEMMA StoredInit == Init => AllStored
BY DEF Init, AllStored, OnlyStoredUsed, WasStored, Nothing, Setting

(* The cache stays good when a stored value is set, and so do the answers. *)
LEMMA CacheStored ==
  ASSUME Typed, AllStored, NEW k \in Setting, NEW v \in SettingOf(k) \cup {NoValue},
         CacheSet(k, v), WasStored(k, v), stored' = stored
  PROVE  \A j \in Setting : WasStored(j, cache[j])'
<1>1. /\ cache'[k] = v
      /\ \A j \in Setting : j # k => cache'[j] = cache[j]
  <2>1. cache \in Settings /\ cache' = [cache EXCEPT ![k] = v]
    BY DEF CacheSet, Typed, TypeOK
  <2>2. QED
    BY <2>1, FieldUpdate
<1>2. QED
  BY <1>1 DEF AllStored, OnlyStoredUsed, WasStored

LEMMA GotStored ==
  ASSUME Typed, AllStored, NEW o \in Ops, NEW k \in Setting,
         NEW v \in SettingOf(k) \cup {NoValue},
         got' = [got EXCEPT ![o][k] = v], WasStored(k, v), stored' = stored
  PROVE  \A p \in Ops, j \in Setting : WasStored(j, got[p][j])'
<1>1. /\ got[o] \in Settings
      /\ got' = [got EXCEPT ![o] = [got[o] EXCEPT ![k] = v]]
  BY DEF Typed, TypeOK
<1>2. /\ got'[o][k] = v
      /\ \A j \in Setting : j # k => got'[o][j] = got[o][j]
      /\ \A p \in Ops : p # o => got'[p] = got[p]
  BY <1>1, FieldUpdate DEF Typed, TypeOK
<1>3. QED
  BY <1>2 DEF AllStored, OnlyStoredUsed, WasStored

(* A commit stores the setting it writes, or the row was there before: the *)
(* value selected, itself stored.                                          *)
LEMMA WrittenStored ==
  ASSUME Typed, AllStored, NEW o \in Ops, step[o] = "commit", Written(o)
  PROVE  /\ stored \subseteq stored'
         /\ \A k \in Setting : WasStored(k, db[k])'
         /\ <<at[o], payload[o][at[o]]>> \in stored'
<1>1. /\ at[o] \in Setting
      /\ payload[o] \in Payload
      /\ payload[o][at[o]] \in SettingOf(at[o])
      /\ payload[o][at[o]] # NoValue
  <2>1. at[o] \in Setting /\ payload[o] \in Payload
    BY DEF Typed, TypeOK, PutFilled, Putting
  <2>2. payload[o][at[o]] \in SettingOf(at[o])
    BY <2>1, FieldOf
  <2>3. QED
    BY <2>1, <2>2, ConfigAssumption DEF SettingOf
<1>2. CASE old[o] = payload[o][at[o]]
  BY <1>1, <1>2 DEF Written, AllStored, WasStored
<1>3. CASE old[o] # payload[o][at[o]]
  <2>1. /\ db' = [db EXCEPT ![at[o]] = payload[o][at[o]]]
        /\ stored' = stored \cup {<<at[o], payload[o][at[o]]>>}
    BY <1>3 DEF Written, Persist
  <2>2. /\ db'[at[o]] = payload[o][at[o]]
        /\ \A j \in Setting : j # at[o] => db'[j] = db[j]
    BY <1>1, <2>1, FieldUpdate DEF Typed, TypeOK
  <2>3. QED
    BY <1>1, <2>1, <2>2 DEF AllStored, WasStored
<1>4. QED
  BY <1>2, <1>3

(* The steps of an operation and of the client. *)
LEMMA StoredSteps ==
  ASSUME Typed, Typed', AllStored, NEW o \in Ops
  PROVE  /\ StartPut(o) \/ StartGet(o) => AllStored'
         /\ Select(o) => AllStored'
         /\ Commit(o) => AllStored'
         /\ Store(o) => AllStored'
         /\ GetHit(o) \/ GetMiss(o) => AllStored'
         /\ FetchRow(o) \/ FetchNothing(o) => AllStored'
         /\ Fill(o) => AllStored'
         /\ DbFails(o) => AllStored'
         /\ RedisFails(o) => AllStored'
<1> USE DEF Goto
<1>0. /\ at[o] \in Setting
      /\ cache[at[o]] \in SettingOf(at[o]) \cup {NoValue}
      /\ got[o][at[o]] \in SettingOf(at[o]) \cup {NoValue}
      /\ View(o) \in Settings
      /\ View(o)[at[o]] \in SettingOf(at[o]) \cup {NoValue}
  BY FieldOf DEF Typed, TypeOK, View
<1>1. StartPut(o) \/ StartGet(o) => AllStored'
  BY DEF StartPut, StartGet, Begin, client, Typed, TypeOK, AllStored, OnlyStoredUsed, WasStored
<1>2. Select(o) => AllStored'
  BY <1>0 DEF Select, client, Typed, TypeOK, AllStored, OnlyStoredUsed, WasStored
<1>3. Commit(o) => AllStored'
  BY <1>0, WrittenStored
     DEF Commit, client, Typed, TypeOK, AllStored, OnlyStoredUsed, WasStored
<1>4. Store(o) => AllStored'
  <2>1. ASSUME Store(o) PROVE \A j \in Setting : WasStored(j, cache[j])'
    <3>1. payload[o][at[o]] \in SettingOf(at[o])
      BY <1>0, <2>1, FieldOf DEF Store, NextSetting, Typed, TypeOK, PutFilled, Putting
    <3>2. WasStored(at[o], payload[o][at[o]])
      BY <2>1 DEF Store, NextSetting, AllStored
    <3>3. QED
      BY <1>0, <2>1, <3>1, <3>2, CacheStored DEF Store
  <2>2. QED
    BY <2>1 DEF Store, NextSetting, local, client, Setting, Typed, TypeOK, AllStored,
       OnlyStoredUsed, WasStored
<1>5. GetHit(o) \/ GetMiss(o) => AllStored'
  <2>1. ASSUME GetHit(o) PROVE \A p \in Ops, j \in Setting : WasStored(j, got[p][j])'
    <3>1. WasStored(at[o], cache[at[o]])
      BY <1>0 DEF AllStored, OnlyStoredUsed
    <3>2. QED
      BY <1>0, <2>1, <3>1, GotStored DEF GetHit
  <2>2. GetHit(o) => AllStored'
    BY <2>1 DEF GetHit, NextSetting, client, Setting, Typed, TypeOK, AllStored,
       OnlyStoredUsed, WasStored
  <2>3. GetMiss(o) => AllStored'
    BY DEF GetMiss, local, client, Typed, TypeOK, AllStored, OnlyStoredUsed, WasStored
  <2>4. QED
    BY <2>2, <2>3
<1>6. \A k \in Setting : WasStored(k, View(o)[k])
  BY DEF View, AllStored
<1>7. FetchRow(o) \/ FetchNothing(o) => AllStored'
  <2>1. ASSUME snapshot' = [snapshot EXCEPT ![o] = View(o)], stored' = stored
        PROVE  \A p \in Ops, k \in Setting :
                  snapshot'[p] # NoSnapshot => WasStored(k, snapshot[p][k])'
    BY <1>6, <2>1 DEF Typed, TypeOK, AllStored, WasStored
  <2>2. ASSUME FetchRow(o) PROVE \A p \in Ops, j \in Setting : WasStored(j, got[p][j])'
    BY <1>0, <1>6, <2>2, GotStored DEF FetchRow
  <2>3. FetchRow(o) => AllStored'
    BY <2>1, <2>2 DEF FetchRow, client, Typed, TypeOK, AllStored, OnlyStoredUsed, WasStored
  <2>4. FetchNothing(o) => AllStored'
    BY <2>1 DEF FetchNothing, NextSetting, client, Setting, Typed, TypeOK, AllStored,
       OnlyStoredUsed, WasStored
  <2>5. QED
    BY <2>3, <2>4
<1>8. WasStored(at[o], got[o][at[o]])
  BY <1>0 DEF AllStored, OnlyStoredUsed
<1>9. Fill(o) => AllStored'
  <2>1. ASSUME Fill(o) PROVE \A j \in Setting : WasStored(j, cache[j])'
    BY <1>0, <1>8, <2>1, CacheStored DEF Fill
  <2>2. QED
    BY <2>1 DEF Fill, NextSetting, local, client, Setting, Typed, TypeOK, AllStored,
       OnlyStoredUsed, WasStored
<1>10. ASSUME NEW from, Abandon(o, from), stored \subseteq stored',
              \A k \in Setting : WasStored(k, db[k])',
              \A k \in Setting : WasStored(k, cache[k])', UNCHANGED client
       PROVE  AllStored'
  <2>1. \A p \in Ops, k \in Setting : WasStored(k, got[p][k])'
    <3>1. \A k \in Setting : Nothing[k] = NoValue
      BY DEF Nothing, Setting
    <3>2. \A p \in Ops : got'[p] = IF p = o THEN Nothing ELSE got[p]
      BY <1>10 DEF Abandon, Typed, TypeOK
    <3>3. QED
      BY <1>10, <3>1, <3>2 DEF AllStored, OnlyStoredUsed, WasStored
  <2>2. \A c \in Calls : /\ WasStored("ip", callIp[c])'
                         /\ used'[c] # Default =>
                              \A k \in Setting : WasStored(k, used[c][k])'
    BY <1>10 DEF client, AllStored, OnlyStoredUsed, WasStored
  <2>3. \A p \in Ops, k \in Setting :
           snapshot'[p] # NoSnapshot => WasStored(k, snapshot[p][k])'
    BY <1>10 DEF Abandon, Typed, TypeOK, AllStored, WasStored
  <2>4. /\ \A p \in Ops : step'[p] = "commit" => WasStored(at[p], old[p])'
        /\ \A p \in Ops : step'[p] = "store" => WasStored(at[p], payload[p][at[p]])'
    BY <1>10 DEF Abandon, Typed, TypeOK, AllStored, WasStored
  <2>5. QED
    BY <1>10, <2>1, <2>2, <2>3, <2>4 DEF AllStored, OnlyStoredUsed
<1>11. DbFails(o) => AllStored'
  <2>1. ASSUME DbFails(o)
        PROVE  stored \subseteq stored' /\ \A k \in Setting : WasStored(k, db[k])'
    BY <2>1, WrittenStored DEF DbFails, AllStored, WasStored
  <2>2. ASSUME DbFails(o) PROVE \A k \in Setting : WasStored(k, cache[k])'
    BY <2>1, <2>2 DEF DbFails, AllStored, OnlyStoredUsed, WasStored
  <2>3. QED
    BY <1>10, <2>1, <2>2 DEF DbFails
<1>12. RedisFails(o) => AllStored'
  <2>1. ASSUME RedisFails(o), step[o] = "store", CacheSet(at[o], payload[o][at[o]])
        PROVE  \A k \in Setting : WasStored(k, cache[k])'
    <3>1. payload[o][at[o]] \in SettingOf(at[o])
      BY <1>0, <2>1, FieldOf DEF Typed, TypeOK, PutFilled, Putting
    <3>2. WasStored(at[o], payload[o][at[o]])
      BY <2>1 DEF AllStored
    <3>3. QED
      BY <1>0, <2>1, <3>1, <3>2, CacheStored DEF RedisFails
  <2>2. ASSUME RedisFails(o), CacheSet(at[o], got[o][at[o]])
        PROVE  \A k \in Setting : WasStored(k, cache[k])'
    BY <1>0, <1>8, <2>2, CacheStored DEF RedisFails
  <2>3. ASSUME RedisFails(o), UNCHANGED cache
        PROVE  \A k \in Setting : WasStored(k, cache[k])'
    BY <2>3 DEF RedisFails, AllStored, OnlyStoredUsed, WasStored
  <2>4. ASSUME RedisFails(o) PROVE \A k \in Setting : WasStored(k, db[k])'
    BY <2>4 DEF RedisFails, AllStored, WasStored
  <2>5. QED
    BY <1>10, <2>1, <2>2, <2>3, <2>4 DEF RedisFails
<1>13. QED
  BY <1>1, <1>2, <1>3, <1>4, <1>5, <1>7, <1>9, <1>11, <1>12

LEMMA ClientStored ==
  ASSUME Typed, AllStored, NEW c \in Calls, ReadIp(c) \/ ReadPort(c)
  PROVE  AllStored'
<1>1. CASE ReadIp(c)
  BY <1>1 DEF ReadIp, local, Setting, Typed, TypeOK, AllStored, OnlyStoredUsed, WasStored
<1>2. CASE ReadPort(c)
  <2>1. WasStored("ip", callIp[c]) /\ WasStored("port", cache.port)
    BY DEF AllStored, OnlyStoredUsed, Setting
  <2>2. /\ used' = [used EXCEPT ![c] = Resolved(callIp[c], cache.port)]
        /\ stored' = stored
    BY <1>2 DEF ReadPort
  <2>3. \/ Resolved(callIp[c], cache.port) = Default
        \/ Resolved(callIp[c], cache.port) = [ip |-> callIp[c], port |-> cache.port]
    BY DEF Resolved
  <2>4. \A d \in Calls : used'[d] # Default =>
           \A k \in Setting : WasStored(k, used[d][k])'
    <3>1. used'[c] # Default => /\ used'[c]["ip"] = callIp[c]
                                /\ used'[c]["port"] = cache.port
      BY <2>2, <2>3 DEF Typed, TypeOK
    <3>2. \A d \in Calls : d # c => used'[d] = used[d]
      BY <2>2 DEF Typed, TypeOK
    <3>3. ASSUME used'[c] # Default, NEW k \in Setting
          PROVE  WasStored(k, used[c][k])'
      <4>1. CASE k = "ip"
        BY <2>1, <2>2, <3>1, <3>3, <4>1 DEF WasStored
      <4>2. CASE k = "port"
        BY <2>1, <2>2, <3>1, <3>3, <4>2 DEF WasStored
      <4>3. QED
        BY <4>1, <4>2 DEF Setting
    <3>4. ASSUME NEW d \in Calls, d # c, used'[d] # Default, NEW k \in Setting
          PROVE  WasStored(k, used[d][k])'
      BY <2>2, <3>2, <3>4 DEF AllStored, OnlyStoredUsed, WasStored
    <3>5. QED
      BY <3>3, <3>4
  <2>5. QED
    BY <1>2, <2>4 DEF ReadPort, local, Typed, TypeOK, AllStored, OnlyStoredUsed, WasStored
<1>3. QED
  BY <1>1, <1>2

LEMMA StoredStep == Typed /\ Typed' /\ AllStored /\ [Next]_vars => AllStored'
<1> SUFFICES ASSUME Typed, Typed', AllStored, [Next]_vars PROVE AllStored'
  OBVIOUS
<1>1. ASSUME NEW o \in Ops,
             StartPut(o) \/ StartGet(o) \/ Serve(o) \/ DbFails(o) \/ RedisFails(o)
      PROVE  AllStored'
  BY <1>1, StoredSteps DEF Serve
<1>2. ASSUME NEW k \in Setting, Evict(k) PROVE AllStored'
  <2>1. \A j \in Setting : WasStored(j, cache[j])'
    BY <1>2, CacheStored DEF Evict, WasStored
  <2>2. QED
    BY <1>2, <2>1 DEF Evict, local, client, AllStored, OnlyStoredUsed, WasStored
<1>3. ASSUME NEW c \in Calls, ReadIp(c) \/ ReadPort(c) PROVE AllStored'
  BY <1>3, ClientStored
<1>4. CASE UNCHANGED vars
  BY <1>4 DEF vars, AllStored, OnlyStoredUsed, WasStored
<1>5. QED
  BY <1>1, <1>2, <1>3, <1>4 DEF Next

(* Whatever fails and whoever overlaps, the cache holds, the API answers   *)
(* and the RCS client uses only settings that were committed.              *)
THEOREM OnlyCommittedUsed == Spec => []OnlyStoredUsed
<1>1. Init => Typed /\ AllStored
  BY TypeInit, StoredInit
<1>2. (Typed /\ AllStored) /\ [Next]_vars => (Typed /\ AllStored)'
  BY TypeStep, StoredStep
<1>3. AllStored => OnlyStoredUsed
  BY DEF AllStored
<1>4. QED
  BY <1>1, <1>2, <1>3, PTL DEF Spec
-----------------------------------------------------------------------------
(* A PUT that overlaps nothing.  While an operation is alone, no other one *)
(* is between its first step and its last, so what it selected, wrote and  *)
(* stored is still there when it answers: a setting it is past is Settled, *)
(* whatever the cache or an earlier failure had left.                      *)
Getting(o) == step[o] \in {"get", "fetch", "fill"}

Fresh ==
  \A o \in Ops : step[o] = "new" =>
     at[o] = "ip" /\ snapshot[o] = NoSnapshot /\ payload[o] = NoPayload

Solo(o) ==
  /\ step[o] # "new"
  /\ step[o] \in Busy => \A p \in Ops : step[p] \in Busy => p = o

Settled(o, k) == db[k] = payload[o][k] /\ cache[k] \in {payload[o][k], NoValue}

Writes(o) ==
  /\ snapshot[o] = NoSnapshot
  /\ at[o] = "port" => Settled(o, "ip")
  /\ step[o] = "commit" => old[o] = db[at[o]]
  /\ step[o] = "store" => db[at[o]] = payload[o][at[o]]

Reads(o) ==
  /\ \A k \in Setting : Settled(o, k)
  /\ snapshot[o] \in {NoSnapshot, payload[o]}
  /\ at[o] = "port" => got[o]["ip"] = payload[o]["ip"]
  /\ step[o] = "fill" => got[o][at[o]] = payload[o][at[o]]

Effect(o) ==
  payload[o] # NoPayload => /\ Putting(o) => Writes(o)
                            /\ Getting(o) => Reads(o)

AloneEffect == Fresh /\ \A o \in alone : Solo(o) /\ Effect(o)

LEMMA AloneInit == Init => AloneEffect
BY DEF Init, AloneEffect, Fresh

(* A first step: it is alone, or nobody who is at work is. *)
LEMMA AloneBegins ==
  ASSUME Typed, AloneEffect, NEW o \in Ops, StartPut(o) \/ StartGet(o)
  PROVE  AloneEffect'
<1> USE DEF Typed, TypeOK
<1>1. /\ step[o] = "new" /\ o \notin alone
      /\ \A p \in Ops : p # o => step'[p] = step[p] /\ payload'[p] = payload[p]
      /\ step'[o] \in {"select", "get"}
      /\ step'[o] = "get" => payload'[o] = payload[o]
      /\ UNCHANGED <<at, old, got, snapshot, db, cache>>
  BY DEF StartPut, StartGet, Begin, Goto, AloneEffect, Solo
<1>2. Fresh'
  BY <1>1 DEF AloneEffect, Fresh
<1>3. ASSUME NEW p \in alone, p \notin Running PROVE Solo(p)' /\ Effect(p)'
  <2>1. p \in Ops /\ p # o /\ step'[p] = step[p] /\ step[p] \notin Busy /\ step[p] # "new"
    BY <1>1, <1>3 DEF Running, AloneEffect, Solo
  <2>2. QED
    BY <2>1 DEF Solo, Effect, Putting, Getting, Busy
<1>4. ASSUME Running = {} PROVE Solo(o)' /\ Effect(o)'
  <2>1. \A p \in Ops : step'[p] \in Busy => p = o
    BY <1>1, <1>4 DEF Running
  <2>2. at'[o] = "ip" /\ snapshot'[o] = NoSnapshot /\ (step'[o] = "get" => payload'[o] = NoPayload)
    BY <1>1 DEF AloneEffect, Fresh
  <2>3. QED
    BY <1>1, <2>1, <2>2 DEF Solo, Effect, Putting, Getting, Writes
<1>5. alone' = IF Running = {} THEN alone \cup {o} ELSE alone \ Running
  BY DEF StartPut, StartGet, Begin
<1>6. QED
  <2>1. ASSUME NEW p \in alone' PROVE Solo(p)' /\ Effect(p)'
    BY <1>3, <1>4, <1>5, <2>1
  <2>2. QED
    BY <1>2, <2>1 DEF AloneEffect

(* A later step of an operation: it touches no other one that is alone.    *)
Later(o) ==
  /\ step[o] \in Busy /\ step'[o] # "new"
  /\ alone' = alone
  /\ \A p \in Ops : p # o => /\ step'[p] = step[p] /\ at'[p] = at[p]
                             /\ payload'[p] = payload[p] /\ snapshot'[p] = snapshot[p]

LEMMA AloneLater ==
  ASSUME Typed, AloneEffect, NEW o \in Ops, Later(o), o \in alone => Effect(o)'
  PROVE  AloneEffect'
<1>1. Fresh'
  BY DEF Later, AloneEffect, Fresh
<1>2. ASSUME NEW p \in alone PROVE Solo(p)' /\ Effect(p)'
  <2>1. p \in Ops /\ Solo(p)
    BY DEF Typed, TypeOK, AloneEffect
  <2>2. CASE p = o
    BY <2>1, <2>2 DEF Later, Solo
  <2>3. CASE p # o
    <3>1. step[p] \notin Busy /\ step'[p] = step[p] /\ step[p] # "new"
      BY <2>1, <2>3 DEF Later, Solo
    <3>2. QED
      BY <3>1 DEF Solo, Effect, Putting, Getting, Busy
  <2>4. QED
    BY <2>2, <2>3
<1>3. QED
  BY <1>1, <1>2 DEF AloneEffect, Later

(* What the steps of an operation change is its own. *)
LEMMA LaterSteps ==
  ASSUME Typed, NEW o \in Ops, Serve(o) \/ DbFails(o) \/ RedisFails(o)
  PROVE  Later(o)
<1> USE DEF Typed, TypeOK, Busy, Goto, local
<1>1. ASSUME Select(o) \/ Commit(o) \/ GetMiss(o) PROVE Later(o)
  BY <1>1 DEF Select, Commit, GetMiss, Later
<1>2. ASSUME Store(o) \/ GetHit(o) \/ Fill(o) PROVE Later(o)
  BY <1>2 DEF Store, GetHit, Fill, NextSetting, Later
<1>3. ASSUME FetchRow(o) \/ FetchNothing(o) PROVE Later(o)
  BY <1>3 DEF FetchRow, FetchNothing, NextSetting, Later
<1>4. ASSUME DbFails(o) \/ RedisFails(o) PROVE Later(o)
  BY <1>4 DEF DbFails, RedisFails, Abandon, Later
<1>5. QED
  BY <1>1, <1>2, <1>3, <1>4 DEF Serve

(* One setting is written in a record of them. *)
LEMMA Assigned ==
  ASSUME Typed, NEW o \in Ops, NEW v \in SettingOf(at[o]) \cup {NoValue}
  PROVE  /\ CacheSet(at[o], v) => /\ cache'[at[o]] = v
                                  /\ \A j \in Setting : j # at[o] => cache'[j] = cache[j]
         /\ got' = [got EXCEPT ![o][at[o]] = v] =>
               /\ got'[o][at[o]] = v
               /\ \A j \in Setting : j # at[o] => got'[o][j] = got[o][j]
<1>1. at[o] \in Setting /\ cache \in Settings /\ got[o] \in Settings
  BY DEF Typed, TypeOK
<1>2. ASSUME CacheSet(at[o], v)
      PROVE  /\ cache'[at[o]] = v
             /\ \A j \in Setting : j # at[o] => cache'[j] = cache[j]
  <2>1. cache' = [cache EXCEPT ![at[o]] = v]
    BY <1>2 DEF CacheSet
  <2>2. QED
    BY <1>1, <2>1, FieldUpdate
<1>3. ASSUME got' = [got EXCEPT ![o][at[o]] = v]
      PROVE  /\ got'[o][at[o]] = v
             /\ \A j \in Setting : j # at[o] => got'[o][j] = got[o][j]
  <2>1. got'[o] = [got[o] EXCEPT ![at[o]] = v]
    BY <1>3 DEF Typed, TypeOK
  <2>2. QED
    BY <1>1, <2>1, FieldUpdate
<1>4. QED
  BY <1>2, <1>3

(* A record of settings that has another's fields is the other. *)
LEMMA SameSettings ==
  ASSUME NEW s \in Settings, NEW p \in Payload, s["ip"] = p["ip"], s["port"] = p["port"]
  PROVE  s = p
BY DEF Settings, Payload

LEMMA AloneServes ==
  ASSUME Typed, AloneEffect, NEW o \in Ops, o \in alone, payload[o] # NoPayload
  PROVE  /\ Select(o) => Effect(o)'
         /\ Commit(o) => Effect(o)'
         /\ Store(o) => Effect(o)'
         /\ GetHit(o) \/ GetMiss(o) => Effect(o)'
         /\ FetchRow(o) => Effect(o)'
         /\ ~FetchNothing(o)
         /\ Fill(o) => Effect(o)'
<1> DEFINE k == at[o]
           v == payload[o][k]
<1>1. /\ k \in Setting /\ payload[o] \in Payload /\ v \in SettingOf(k) /\ v # NoValue
      /\ \A j \in Setting : payload[o][j] # NoValue
  BY FieldOf, ConfigAssumption DEF Typed, TypeOK, SettingOf
<1>2. Effect(o)
  BY DEF AloneEffect
<1> USE DEF Typed, TypeOK, Goto
<1>3. Select(o) => Effect(o)'
  BY <1>1, <1>2 DEF Select, Effect, Putting, Getting, Writes, Settled
<1>4. Commit(o) => Effect(o)'
  <2> SUFFICES ASSUME Commit(o) PROVE Effect(o)'
    OBVIOUS
  <2>1. step[o] = "commit" /\ step'[o] = "store" /\ Writes(o)
    BY <1>2 DEF Commit, Effect, Putting
  <2>2. db'[k] = v /\ \A j \in Setting : j # k => db'[j] = db[j]
    <3>1. CASE old[o] = v
      BY <2>1, <3>1 DEF Commit, Written, Writes
    <3>2. CASE old[o] # v
      <4>1. db' = [db EXCEPT ![k] = v]
        BY <3>2 DEF Commit, Written, Persist
      <4>2. db \in Settings /\ v \in SettingOf(k) \cup {NoValue}
        BY <1>1
      <4>3. QED
        BY <1>1, <4>1, <4>2, FieldUpdate
    <3>3. QED
      BY <3>1, <3>2
  <2>3. QED
    BY <1>1, <2>1, <2>2 DEF Commit, Effect, Putting, Getting, Writes, Settled, Setting
<1>5. Store(o) => Effect(o)'
  <2> SUFFICES ASSUME Store(o) PROVE Effect(o)'
    OBVIOUS
  <2>1. step[o] = "store" /\ Writes(o)
    BY <1>2 DEF Store, NextSetting, Effect, Putting
  <2>2. /\ cache'[k] = v /\ \A j \in Setting : j # k => cache'[j] = cache[j]
        /\ db' = db /\ db[k] = v /\ UNCHANGED local
    BY <1>1, <2>1, Assigned DEF Store, Writes
  <2>3. CASE k = "ip"
    <3>1. step'[o] = "select" /\ at'[o] = "port"
      BY <2>3 DEF Store, NextSetting
    <3>2. QED
      BY <2>1, <2>2, <2>3, <3>1 DEF Effect, Putting, Getting, Writes, Settled, local
  <2>4. CASE k = "port"
    <3>1. step'[o] = "get" /\ at'[o] = "ip"
      BY <2>4 DEF Store, NextSetting
    <3>2. \A j \in Setting : Settled(o, j)'
      BY <2>1, <2>2, <2>4 DEF Settled, Writes, Setting, local
    <3>3. QED
      BY <2>1, <2>2, <3>1, <3>2 DEF Effect, Putting, Getting, Reads, Writes, local
  <2>5. QED
    BY <1>1, <2>3, <2>4 DEF Setting
<1>6. GetHit(o) \/ GetMiss(o) => Effect(o)'
  <2>1. ASSUME GetMiss(o) PROVE Effect(o)'
    BY <1>2, <2>1 DEF GetMiss, Effect, Putting, Getting, Reads, Settled, local
  <2>2. ASSUME GetHit(o) PROVE Effect(o)'
    <3>1. step[o] = "get" /\ Reads(o) /\ cache[k] = v
      BY <1>1, <1>2, <2>2 DEF GetHit, NextSetting, Goto, Effect, Getting, Reads, Settled
    <3>2. got'[o][k] = v
      BY <1>1, <2>2, <3>1, Assigned DEF GetHit
    <3>3. /\ step'[o] \in {"get", "done"}
          /\ at'[o] = "port" => k = "ip"
      BY <1>1, <2>2 DEF GetHit, NextSetting, Setting
    <3>4. QED
      BY <2>2, <3>1, <3>2, <3>3 DEF GetHit, Effect, Putting, Getting, Reads, Settled
  <2>3. QED
    BY <2>1, <2>2
<1>7. ASSUME step[o] = "fetch"
      PROVE  Reads(o) /\ View(o) = payload[o]
  <2>1. Reads(o)
    BY <1>2, <1>7 DEF Effect, Getting
  <2>2. db = payload[o]
    BY <1>1, <2>1, SameSettings DEF Reads, Settled, Setting
  <2>3. QED
    BY <2>1, <2>2 DEF View, Reads
<1>8. FetchRow(o) => Effect(o)'
  <2> SUFFICES ASSUME FetchRow(o) PROVE Effect(o)'
    OBVIOUS
  <2>1. /\ step[o] = "fetch" /\ step'[o] = "fill" /\ snapshot'[o] = payload[o]
        /\ Reads(o)
    BY <1>7 DEF FetchRow
  <2>2. got'[o][k] = v /\ \A j \in Setting : j # k => got'[o][j] = got[o][j]
    BY <1>1, <1>7, <2>1, Assigned DEF FetchRow
  <2>3. at'[o] = "port" => got'[o]["ip"] = payload[o]["ip"]
    BY <2>1, <2>2 DEF FetchRow, Reads, Setting
  <2>4. QED
    BY <2>1, <2>2, <2>3 DEF FetchRow, Effect, Putting, Getting, Reads, Settled
<1>9. ~FetchNothing(o)
  BY <1>1, <1>7 DEF FetchNothing, NextSetting
<1>10. Fill(o) => Effect(o)'
  <2> SUFFICES ASSUME Fill(o) PROVE Effect(o)'
    OBVIOUS
  <2>1. step[o] = "fill" /\ Reads(o) /\ got[o][k] = v
    BY <1>2 DEF Fill, NextSetting, Effect, Getting, Reads
  <2>2. cache'[k] = v /\ \A j \in Setting : j # k => cache'[j] = cache[j]
    BY <1>1, <2>1, Assigned DEF Fill
  <2>3. /\ step'[o] \in {"get", "done"}
        /\ at'[o] = "port" => k = "ip"
    BY <1>1 DEF Fill, NextSetting, Setting
  <2>4. \A j \in Setting : Settled(o, j)'
    BY <2>1, <2>2 DEF Fill, Reads, Settled, local
  <2>5. QED
    BY <2>1, <2>3, <2>4 DEF Fill, Effect, Putting, Getting, Reads, local
<1>11. QED
  BY <1>3, <1>4, <1>5, <1>6, <1>8, <1>9, <1>10

LEMMA AloneStep == Typed /\ AloneEffect /\ [Next]_vars => AloneEffect'
<1> SUFFICES ASSUME Typed, AloneEffect, [Next]_vars PROVE AloneEffect'
  OBVIOUS
<1>1. ASSUME NEW o \in Ops, StartPut(o) \/ StartGet(o) PROVE AloneEffect'
  BY <1>1, AloneBegins
<1>2. ASSUME NEW o \in Ops, Serve(o) \/ DbFails(o) \/ RedisFails(o) PROVE AloneEffect'
  <2>1. Later(o)
    BY <1>2, LaterSteps
  <2>2. ASSUME o \in alone PROVE Effect(o)'
    <3>1. CASE payload[o] = NoPayload
      <4>1. payload'[o] = NoPayload
        BY <1>2, <3>1 DEF Typed, TypeOK, Serve, Select, Commit, Store, GetHit, GetMiss,
           FetchRow, FetchNothing, Fill, DbFails, RedisFails, Abandon, local
      <4>2. QED
        BY <4>1 DEF Effect
    <3>2. CASE payload[o] # NoPayload
      <4>1. CASE Serve(o)
        BY <2>2, <3>2, <4>1, AloneServes DEF Serve
      <4>2. CASE DbFails(o) \/ RedisFails(o)
        BY <4>2 DEF Typed, TypeOK, DbFails, RedisFails, Abandon, Effect
      <4>3. QED
        BY <1>2, <4>1, <4>2
    <3>3. QED
      BY <3>1, <3>2
  <2>3. QED
    BY <2>1, <2>2, AloneLater
<1>3. ASSUME NEW k \in Setting, Evict(k) PROVE AloneEffect'
  <2>1. \A j \in Setting : cache'[j] \in {cache[j], NoValue}
    BY <1>3, FieldUpdate DEF Evict, CacheSet, Typed, TypeOK
  <2>2. UNCHANGED <<step, at, payload, old, got, snapshot, db, alone>>
    BY <1>3 DEF Evict, local
  <2>3. ASSUME NEW o \in alone, NEW j \in Setting, Settled(o, j) PROVE Settled(o, j)'
    BY <2>1, <2>2, <2>3 DEF Settled
  <2>4. ASSUME NEW o \in alone PROVE Solo(o)' /\ Effect(o)'
    BY <2>2, <2>3, <2>4 DEF AloneEffect, Solo, Effect, Putting, Getting, Writes, Reads, Setting
  <2>5. QED
    BY <2>2, <2>4 DEF AloneEffect, Fresh
<1>4. ASSUME (\E c \in Calls : ReadIp(c) \/ ReadPort(c)) \/ UNCHANGED vars
      PROVE  AloneEffect'
  <2>1. UNCHANGED <<step, at, payload, old, got, snapshot, db, cache, alone>>
    BY <1>4 DEF ReadIp, ReadPort, local, vars
  <2>2. QED
    BY <2>1 DEF AloneEffect, Fresh, Solo, Effect, Putting, Getting, Writes, Reads, Settled
<1>5. QED
  BY <1>1, <1>2, <1>3, <1>4 DEF Next

(* The step that answers a PUT is its last cache read or fill, and finds   *)
(* both settings Settled.                                                  *)
LEMMA PutAnswers ==
  ASSUME Typed, Typed', AloneEffect, [Next]_vars,
         NEW o \in alone, Answered(o), payload[o] # NoPayload
  PROVE  /\ db' = payload[o]
         /\ got'[o] = payload[o]
         /\ \A k \in Setting : cache'[k] \in {payload[o][k], NoValue}
<1> USE DEF Typed, TypeOK, Goto
<1>1. o \in Ops /\ payload[o] \in Payload /\ Effect(o)
  BY DEF AloneEffect
<1>2. GetHit(o) \/ Fill(o)
  <2>1. ASSUME NEW p \in Ops, StartPut(p) \/ StartGet(p) PROVE FALSE
    BY <1>1, <2>1 DEF StartPut, StartGet, Answered
  <2>2. ASSUME NEW p \in Ops, Serve(p) \/ DbFails(p) \/ RedisFails(p) PROVE p = o
    BY <1>1, <2>2, LaterSteps DEF Later, Answered
  <2>3. ASSUME DbFails(o) \/ RedisFails(o) PROVE FALSE
    BY <1>1, <2>3 DEF DbFails, RedisFails, Abandon, Answered
  <2>4. ASSUME Select(o) \/ Commit(o) \/ Store(o) \/ GetMiss(o) \/ FetchRow(o) PROVE FALSE
    BY <1>1, <2>4 DEF Select, Commit, Store, NextSetting, GetMiss, FetchRow, Answered
  <2>5. ~FetchNothing(o)
    BY <1>1, AloneServes
  <2>6. step' # step
    BY DEF Answered
  <2>7. ~\E k \in Setting : Evict(k)
    BY <2>6 DEF Evict
  <2>8. ~\E c \in Calls : ReadIp(c) \/ ReadPort(c)
    BY <2>6 DEF ReadIp, ReadPort
  <2>9. QED
    BY <2>1, <2>2, <2>3, <2>4, <2>5, <2>6, <2>7, <2>8 DEF Next, Serve, vars
<1>3. Reads(o) /\ at[o] = "port"
  <2>1. NextSetting(o, "get", "get", "done") \/ NextSetting(o, "fill", "get", "done")
    BY <1>2 DEF GetHit, Fill
  <2>2. step[o] \in {"get", "fill"} /\ at[o] # "ip"
    BY <1>1, <2>1 DEF NextSetting, Answered
  <2>3. QED
    BY <1>1, <2>2 DEF Effect, Getting, Setting
<1>4. db' = db /\ db = payload[o]
  <2>1. db' = db
    BY <1>2 DEF GetHit, Fill
  <2>2. db["ip"] = payload[o]["ip"] /\ db["port"] = payload[o]["port"]
    BY <1>3 DEF Reads, Settled, Setting
  <2>3. QED
    BY <1>1, <2>1, <2>2, SameSettings
<1>5. payload[o]["port"] \in SettingOf("port") /\ payload[o]["port"] # NoValue
  BY <1>1, ConfigAssumption DEF Payload, SettingOf
<1>6. /\ got'[o]["ip"] = payload[o]["ip"] /\ got'[o]["port"] = payload[o]["port"]
      /\ \A k \in Setting : cache'[k] \in {payload[o][k], NoValue}
  <2>1. CASE GetHit(o)
    <3>1. cache["port"] = payload[o]["port"] /\ cache' = cache
      BY <1>3, <2>1 DEF GetHit, Reads, Settled, Setting
    <3>2. got' = [got EXCEPT ![o][at[o]] = payload[o]["port"]]
      BY <1>3, <2>1, <3>1 DEF GetHit
    <3>3. got'[o]["port"] = payload[o]["port"] /\ got'[o]["ip"] = got[o]["ip"]
      <4>1. /\ payload[o]["port"] \in SettingOf(at[o]) \cup {NoValue}
            /\ "ip" \in Setting /\ "ip" # at[o]
        BY <1>3, <1>5 DEF Setting
      <4>2. /\ got'[o][at[o]] = payload[o]["port"]
            /\ \A j \in Setting : j # at[o] => got'[o][j] = got[o][j]
        BY <1>1, <3>2, <4>1, Assigned
      <4>3. QED
        BY <1>3, <4>1, <4>2
    <3>4. QED
      BY <1>3, <3>1, <3>3 DEF Reads, Settled
  <2>2. CASE Fill(o)
    <3>1. got[o]["port"] = payload[o]["port"] /\ got' = got
      BY <1>3, <2>2 DEF Fill, NextSetting, Reads, local
    <3>2. QED
      BY <1>1, <1>3, <1>5, <2>2, <3>1, Assigned DEF Fill, Reads, Settled, Setting
  <2>3. QED
    BY <1>2, <2>1, <2>2
<1>7. got'[o] = payload[o]
  BY <1>1, <1>6, SameSettings
<1>8. QED
  BY <1>4, <1>6, <1>7

(* A PUT that overlapped no other operation and is answered is in effect:  *)
(* the table holds both its settings, its answer names them, and the cache *)
(* has them or nothing - from whatever rows, cache entries and failures it *)
(* started.                                                                *)
THEOREM AlonePutsTakeEffect == Spec => PutTakesEffect
<1>1. Init => Typed /\ AloneEffect
  BY TypeInit, AloneInit
<1>2. (Typed /\ AloneEffect) /\ [Next]_vars => (Typed /\ AloneEffect)'
  BY TypeStep, AloneStep
<1>3. Typed /\ AloneEffect /\ Typed' /\ [Next]_vars =>
        [\A o \in alone : Answered(o) /\ payload[o] # NoPayload =>
            /\ db' = payload[o]
            /\ got'[o] = payload[o]
            /\ \A k \in Setting : cache'[k] \in {payload[o][k], NoValue}]_vars
  BY PutAnswers
<1>4. QED
  BY <1>1, <1>2, <1>3, PTL DEF Spec, PutTakesEffect
=============================================================================
