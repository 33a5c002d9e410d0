--------------------------- MODULE Queries_proofs ---------------------------
(***************************************************************************)
(* Theorems about Queries, for any finite tables, any robots and states,   *)
(* page sizes, limits and clocks.                                          *)
(***************************************************************************)
EXTENDS Queries, FiniteSetTheorems, TLAPS

Rows == Tasks \cup Events

(* The types, and which stages a query of each kind passes.                *)
Typed ==
  /\ tasks \in [Tasks -> TaskHistory \cup {NoRow}]
  /\ events \in [Events -> WebhookLog \cup {NoRow}]
  /\ snap \in Snapshot \cup {NoSnapshot}
  /\ robots \in [Robots -> RobotStates \cup {NoState}]
  /\ clock \in Seconds /\ q \in Queries /\ wanted \subseteq TaskStatus
  /\ pc \in Stage
  /\ pc = "new" => page = 1
  /\ pc \in {"count", "fetch"} => q \in Lists
  /\ pc = "select" => q \in {"stats", "alerts"}
  /\ pc = "merge" => q = "alerts"
  /\ pc \in {"scan", "get"} => q = "robots"
  /\ pc \in {"fetch", "merge"} => snap \in Snapshot
  /\ pc = "get" => key \in Robots
  /\ total \in 0..Cardinality(Rows) /\ page \in 1..Cardinality(Rows) + 1
  /\ items \subseteq (IF q = "robots" THEN Robots \X RobotStates ELSE Rows)
  /\ tally \in Seq(0..Cardinality(Tasks)) /\ Len(tally) <= 5
  /\ q = "stats" /\ pc \in {"new", "select"} => Len(tally) < 5
  /\ seen \subseteq Rows /\ base \subseteq Rows
  /\ returned \subseteq Robots /\ must \subseteq Robots
  /\ yields \in 0..MaxYields
  /\ held \subseteq Robots \X RobotStates

(* Pages: what was counted is what the page is cut from.                   *)
Counts == pc = "fetch" => total = Cardinality(Matching(snap))

(* The walk.  The rows it began with stay, in the snapshot of a request as *)
(* in the tables.  One it was not shown has as many newer rows as the      *)
(* pages shown so far hold; then those pages hold less than the total.     *)
Newer(s, x) == {y \in Matching(s) : At(s, y) > At(s, x)}
InOrder(s, x) == \A y \in Matching(s) \ {x} : At(s, x) # At(s, y)

SnapshotOfTables ==
  /\ base \subseteq Matching(snap) /\ Matching(snap) \subseteq Matching(Database)
  /\ \A x \in Matching(snap) : At(snap, x) = At(Database, x)

Walk ==
  q \in Lists /\ wanted = TaskStatus /\ pc # "new" =>
    /\ base \subseteq Matching(Database)
    /\ pc = "fetch" => SnapshotOfTables
    /\ \A x \in base \ seen : InOrder(Database, x) =>
         /\ pc = "count" => Cardinality(Newer(Database, x)) >= Offset
         /\ pc = "fetch" => Cardinality(Newer(snap, x)) >= Offset
         /\ pc = "answered" =>
              /\ Cardinality(Newer(Database, x)) >= page * PageSize
              /\ total > page * PageSize

(* Statistics: the counts so far are of one snapshot.                      *)
OfStatus(s, i) ==
  {t \in Tasks : s.tasks[t] # NoRow /\ s.tasks[t].status = Counters[i]}

OneMoment ==
  q = "stats" =>
    /\ pc = "new" => tally = <<>> /\ snap = NoSnapshot
    /\ pc = "select" => \/ tally = <<>> /\ snap = NoSnapshot
                        \/ /\ snap \in Snapshot
                           /\ \A i \in 1..Len(tally) :
                                tally[i] <= Cardinality(OfStatus(snap, i))

(* Alerts: the failures are the newest of the snapshot's.                  *)
FailuresFirst ==
  pc = "merge" =>
    items \in Newest(Failures(snap), Times(snap, Failures(snap)), Limit)

(* Robots: what is cached has been held; a key that stayed is in the list  *)
(* once it was returned and read.                                          *)
Scanned ==
  q = "robots" =>
    /\ pc = "new" => must = {} /\ returned = {} /\ items = {}
    /\ pc # "new" => items \subseteq held
    /\ pc \in {"scan", "get"} =>
         /\ \A a \in Robots : robots[a] # NoState => <<a, robots[a]>> \in held
         /\ \A a \in must : robots[a] # NoState
         /\ \A a \in must \cap returned :
              \/ a \in {i[1] : i \in items}
              \/ pc = "get" /\ a = key
    /\ pc = "answered" => must \subseteq {i[1] : i \in items}

Inv ==
  /\ Typed /\ Counts /\ Walk /\ OneMoment /\ FailuresFirst /\ Scanned
  /\ PageMatchesTotal /\ StatsAddUp /\ AlertsNewest

-----------------------------------------------------------------------------
(* Finite sets of rows, and the rows a query can choose.                   *)
LEMMA RowsFinite == IsFiniteSet(Rows) /\ Cardinality(Rows) \in Nat
BY QueriesAssumption, FS_Union, FS_CardinalityType DEF Rows

LEMMA SomeRows ==
  ASSUME NEW A \in SUBSET Rows
  PROVE  /\ IsFiniteSet(A) /\ Cardinality(A) \in Nat
         /\ Cardinality(A) <= Cardinality(Rows)
BY RowsFinite, FS_Subset, FS_CardinalityType

LEMMA Fewer ==
  ASSUME NEW B \in SUBSET Rows, NEW A \in SUBSET B
  PROVE  /\ Cardinality(A) <= Cardinality(B)
         /\ Cardinality(A) = Cardinality(B) => A = B
<1>1. IsFiniteSet(B)
  BY SomeRows
<1> QED
  BY <1>1, FS_Subset

LEMMA SomeTasks ==
  ASSUME NEW A \in SUBSET Tasks
  PROVE  Cardinality(A) \in 0..Cardinality(Tasks)
<1>1. IsFiniteSet(Tasks) /\ Cardinality(Tasks) \in Nat
  BY QueriesAssumption, FS_CardinalityType
<1>2. IsFiniteSet(A) /\ Cardinality(A) <= Cardinality(Tasks)
  BY <1>1, FS_Subset
<1>3. Cardinality(A) \in Nat
  BY <1>2, FS_CardinalityType
<1> QED
  BY <1>1, <1>2, <1>3

LEMMA ChosenRows ==
  /\ \A s : Matching(s) \subseteq Rows
  /\ \A s : Failures(s) \subseteq Rows /\ Invalid(s) \subseteq Rows
  /\ \A rows, age, n : \A top \in Newest(rows, age, n) : top \subseteq rows
  /\ \A rows, age, o, n : \A p \in PageOf(rows, age, o, n) : p \subseteq rows
<1>1. \A s : Matching(s) \subseteq Rows
  BY DEF Matching, Rows
<1>2. \A s : Failures(s) \subseteq Rows /\ Invalid(s) \subseteq Rows
  BY DEF Failures, Invalid, Rows
<1>3. \A rows, age, n : \A top \in Newest(rows, age, n) : top \subseteq rows
  BY DEF Newest
<1>4. \A rows, age, o, n : \A p \in PageOf(rows, age, o, n) : p \subseteq rows
  BY <1>3 DEF PageOf
<1> QED
  BY <1>1, <1>2, <1>3, <1>4

(* A total has at most as many pages as rows, and the pages cover it.      *)
LEMMA PagesBound ==
  ASSUME NEW t \in Nat \ {0}, NEW n \in Nat \ {0}
  PROVE  /\ (t + n - 1) \div n \in Nat /\ (t + n - 1) \div n <= t
         /\ \A p \in Nat : p >= (t + n - 1) \div n => p * n >= t
<1> DEFINE d == (t + n - 1) \div n
<1>1. d \in Int /\ d * n <= t + n - 1 /\ t + n - 1 < (d + 1) * n
  OBVIOUS
<1> HIDE DEF d
<1>2. (d + 1) * n = d * n + n
  BY <1>1
<1>3. d * n >= t
  BY <1>1, <1>2
<1>4. d >= 1
  <2> SUFFICES ASSUME d <= 0 PROVE FALSE
    BY <1>1
  <2>1. (0 - d) * n >= 0 /\ (0 - d) * n = 0 - d * n
    BY <1>1
  <2> QED
    BY <1>1, <1>3, <2>1
<1>5. d <= t
  <2> SUFFICES ASSUME d >= t + 1 PROVE FALSE
    BY <1>1
  <2>1. (d - (t + 1)) * n >= 0 /\ (d - (t + 1)) * n = d * n - (t + 1) * n
    BY <1>1
  <2>2. (t + 1) * n = t * n + n
    OBVIOUS
  <2>3. t * n >= t
    OBVIOUS
  <2> QED
    BY <1>1, <2>1, <2>2, <2>3
<1>6. ASSUME NEW p \in Nat, p >= d PROVE p * n >= t
  <2>1. p * n >= d * n
    BY <1>1, <1>6
  <2> QED
    BY <1>1, <1>3, <2>1
<1> QED
  BY <1>1, <1>4, <1>5, <1>6 DEF d

-----------------------------------------------------------------------------
(* What happens beside the query.                                          *)
Beside ==
  \/ Tick
  \/ \E t \in Tasks : TaskAt(t) \/ StatusUpdated(t)
  \/ \E e \in Events : EventLogged(e)
  \/ \E a \in Robots : RobotMoves(a) \/ RobotExpires(a)

LEMMA BesideKeeps == Beside => Untouched /\ UNCHANGED <<key, returned, yields>>
BY DEF Beside, Tick, TaskAt, StatusUpdated, EventLogged, RobotMoves, RobotExpires,
       Untouched, scan

LEMMA BesideTyped ==
  ASSUME Typed, Beside
  PROVE  /\ tasks' \in [Tasks -> TaskHistory \cup {NoRow}]
         /\ events' \in [Events -> WebhookLog \cup {NoRow}]
         /\ robots' \in [Robots -> RobotStates \cup {NoState}]
         /\ clock' \in Seconds
         /\ must' \subseteq Robots
         /\ held' \subseteq Robots \X RobotStates
<1> USE DEF Typed, table, scan, Untouched
<1>a. Horizon \in Nat \ {0} /\ clock \in 1..Horizon
  BY QueriesAssumption DEF Seconds
<1>b. Now \subseteq Seconds
  BY <1>a DEF Now, Seconds
<1>1. CASE Tick
  BY <1>1, <1>a DEF Tick, Seconds
<1>2. ASSUME NEW t \in Tasks, TaskAt(t) PROVE tasks' \in [Tasks -> TaskHistory \cup {NoRow}]
  BY <1>2, <1>b DEF TaskAt, TaskHistory, TaskStatus
<1>3. ASSUME NEW t \in Tasks, StatusUpdated(t)
      PROVE  tasks' \in [Tasks -> TaskHistory \cup {NoRow}]
  <2>1. PICK s \in {"running", "completed", "failed"}, now \in Now :
          tasks' = [tasks EXCEPT ![t].status = s,
                                 ![t].at = IF q = "history" THEN @ ELSE now]
    BY <1>3 DEF StatusUpdated
  <2>2. tasks[t] \in TaskHistory
    BY <1>3 DEF StatusUpdated
  <2> DEFINE at == IF q = "history" THEN tasks[t].at ELSE now
  <2>3. at \in Seconds /\ s \in TaskStatus
    BY <1>b, <2>2 DEF TaskHistory, TaskStatus
  <2>4. [tasks[t] EXCEPT !.status = s, !.at = at] \in TaskHistory
    BY <2>2, <2>3 DEF TaskHistory
  <2>5. tasks' = [tasks EXCEPT ![t] = [tasks[t] EXCEPT !.status = s, !.at = at]]
    BY <2>1, <2>2 DEF TaskHistory
  <2> QED
    BY <2>4, <2>5
<1>4. ASSUME NEW e \in Events, EventLogged(e)
      PROVE  events' \in [Events -> WebhookLog \cup {NoRow}]
  BY <1>4, <1>b DEF EventLogged, WebhookLog
<1>5. ASSUME NEW a \in Robots, RobotMoves(a) \/ RobotExpires(a)
      PROVE  /\ robots' \in [Robots -> RobotStates \cup {NoState}]
             /\ must' \subseteq Robots /\ held' \subseteq Robots \X RobotStates
  BY <1>5 DEF RobotMoves, RobotExpires
<1>6. ASSUME NEW t \in Tasks, TaskAt(t) \/ StatusUpdated(t)
      PROVE  UNCHANGED <<events, robots, clock, must, held>>
  BY <1>6 DEF TaskAt, StatusUpdated
<1>7. ASSUME NEW e \in Events, EventLogged(e) PROVE UNCHANGED <<tasks, robots, clock, must, held>>
  BY <1>7 DEF EventLogged
<1>8. ASSUME NEW a \in Robots, RobotMoves(a) \/ RobotExpires(a)
      PROVE  UNCHANGED <<tasks, events, clock>>
  BY <1>8 DEF RobotMoves, RobotExpires
<1>9. Tick => UNCHANGED <<tasks, events, robots, must, held>>
  BY DEF Tick
<1> QED
  BY <1>1, <1>2, <1>3, <1>4, <1>5, <1>6, <1>7, <1>8, <1>9 DEF Beside

LEMMA DatabaseTyped == Typed => Database \in Snapshot
BY DEF Typed, Database, Snapshot

LEMMA TotalPages ==
  ASSUME Typed
  PROVE  /\ totalPages \in Nat /\ totalPages <= total
         /\ Offset \in Nat /\ page * PageSize = Offset + PageSize
         /\ page >= totalPages => page * PageSize >= total
<1>1. total \in Nat /\ page \in Nat \ {0} /\ PageSize \in Nat \ {0}
  BY QueriesAssumption, RowsFinite DEF Typed
<1>2. page - 1 \in Nat /\ (page - 1) * PageSize \in Nat
  BY <1>1
<1>3. page * PageSize = (page - 1) * PageSize + PageSize
  BY <1>1
<1>4. CASE total = 0
  <2>1. page * PageSize \in Nat
    BY <1>1
  <2> QED
    BY <1>2, <1>3, <1>4, <2>1 DEF totalPages, Offset
<1>5. CASE total > 0
  <2>1. totalPages = (total + PageSize - 1) \div PageSize
    BY <1>5 DEF totalPages
  <2>2. total \in Nat \ {0}
    BY <1>1, <1>5
  <2>3. /\ totalPages \in Nat /\ totalPages <= total
        /\ page >= totalPages => page * PageSize >= total
    BY <1>1, <2>1, <2>2, PagesBound
  <2> QED
    BY <1>2, <1>3, <2>3 DEF Offset
<1> QED
  BY <1>1, <1>4, <1>5

LEMMA TypedInit == Init => Typed
<1> SUFFICES ASSUME Init PROVE Typed
  OBVIOUS
<1>1. 1 \in Seconds /\ wanted \subseteq TaskStatus
  BY QueriesAssumption DEF Init, Seconds
<1>2. <<>> \in Seq(0..Cardinality(Tasks)) /\ Len(<<>>) = 0
  OBVIOUS
<1>3. 0 \in 0..MaxYields /\ 0 \in 0..Cardinality(Rows) /\ 1 \in 1..Cardinality(Rows) + 1
  BY QueriesAssumption, RowsFinite
<1> QED
  BY <1>1, <1>2, <1>3 DEF Init, Typed, Stage, Queries, Lists

LEMMA TypedStep == Typed /\ [Next]_vars => Typed'
<1> SUFFICES ASSUME Typed, [Next]_vars PROVE Typed'
  OBVIOUS
<1>1. CASE Beside
  BY <1>1, BesideKeeps, BesideTyped DEF Typed, Untouched, list
<1> USE DEF Typed, table, list, scan
<1>2. CASE Open
  <2>1. pc' \in {"count", "scan", "select"}
        /\ pc' = (IF q \in Lists THEN "count" ELSE IF q = "robots" THEN "scan" ELSE "select")
        /\ base' \subseteq Rows /\ must' \subseteq Robots
    BY <1>2, ChosenRows DEF Open
  <2>2. held' \subseteq Robots \X RobotStates
    <3>1. \A a \in must' : robots[a] \in RobotStates
      BY <1>2 DEF Open
    <3> QED
      BY <1>2, <2>1, <3>1 DEF Open
  <2>3. pc = "new"
    BY <1>2 DEF Open
  <2> QED
    BY <1>2, <2>1, <2>2, <2>3 DEF Open, Stage, Queries, Lists
<1>3. CASE Count
  <2>1. total' \in 0..Cardinality(Rows)
    BY <1>3, ChosenRows, SomeRows DEF Count
  <2> QED
    BY <1>3, <2>1, DatabaseTyped DEF Count, Stage, Lists
<1>4. CASE Fetch
  <2>1. items' \subseteq Rows
    BY <1>4, ChosenRows DEF Fetch
  <2> QED
    BY <1>4, <2>1 DEF Fetch, Stage, Lists
<1>5. CASE Turn
  <2>1. page + 1 \in 1..Cardinality(Rows) + 1
    BY <1>5, TotalPages, RowsFinite DEF Turn
  <2> QED
    BY <1>5, <2>1 DEF Turn, Stage, Lists
<1>6. CASE CountNext
  <2>1. PICK s : /\ s = IF snap = NoSnapshot THEN Database ELSE snap
                 /\ tally' = Append(tally, Cardinality(Counted(s, Len(tally) + 1)))
                 /\ pc' = IF Len(tally') = Len(Counters) THEN "answered" ELSE "select"
                 /\ snap' = IF pc' = "answered" THEN NoSnapshot ELSE s
    BY <1>6 DEF CountNext
  <2>2. s \in Snapshot
    BY <2>1, DatabaseTyped
  <2>3. Cardinality(Counted(s, Len(tally) + 1)) \in 0..Cardinality(Tasks)
    BY SomeTasks DEF Counted
  <2>4. Len(tally) < 5
    BY <1>6 DEF CountNext
  <2>5. tally' \in Seq(0..Cardinality(Tasks)) /\ Len(tally') = Len(tally) + 1
    BY <2>1, <2>3
  <2>6. Len(Counters) = 5
    BY DEF Counters
  <2> QED
    BY <1>6, <2>1, <2>2, <2>4, <2>5, <2>6 DEF CountNext, Stage, Lists
<1>7. CASE SelectFailures
  <2>1. items' \subseteq Rows
    BY <1>7, ChosenRows DEF SelectFailures
  <2> QED
    BY <1>7, <2>1, DatabaseTyped DEF SelectFailures, Stage, Lists
<1>8. CASE MergeInvalid
  <2>1. PICK invalid \in Newest(Invalid(snap), Times(snap, Invalid(snap)), Limit) :
          /\ total' = Cardinality(items \cup invalid)
          /\ items' \in Newest(items \cup invalid,
               [x \in items \cup invalid |-> SortKey(snap, x)], Limit)
    BY <1>8 DEF MergeInvalid
  <2>2. q = "alerts" /\ items \subseteq Rows
    BY <1>8 DEF MergeInvalid
  <2>3. invalid \subseteq Rows
    BY ChosenRows
  <2>4. items \cup invalid \subseteq Rows
    BY <2>2, <2>3
  <2>5. items' \subseteq Rows
    BY <2>1, <2>4, ChosenRows
  <2>6. total' \in 0..Cardinality(Rows)
    BY <2>1, <2>4, SomeRows
  <2> QED
    BY <1>8, <2>2, <2>5, <2>6 DEF MergeInvalid, Stage, Lists
<1>9. ASSUME NEW a \in Robots, Yield(a) PROVE Typed'
  BY <1>9, QueriesAssumption DEF Yield, Stage, Lists
<1>10. CASE GetState
  <2>1. Found \subseteq Robots \X RobotStates
    BY <1>10 DEF GetState, Found
  <2> QED
    BY <1>10, <2>1 DEF GetState, Stage, Lists
<1>11. CASE ScanEnds
  BY <1>11 DEF ScanEnds, Stage, Lists
<1>12. CASE UNCHANGED vars
  BY <1>12 DEF vars
<1> QED
  BY <1>1, <1>2, <1>3, <1>4, <1>5, <1>6, <1>7, <1>8, <1>9, <1>10, <1>11, <1>12 DEF Next, Beside

-----------------------------------------------------------------------------
(* Statistics.                                                             *)
LEMMA Apart ==
  ASSUME NEW A \in SUBSET Rows, NEW B \in SUBSET Rows, A \cap B = {}
  PROVE  Cardinality(A \cup B) = Cardinality(A) + Cardinality(B)
<1>1. IsFiniteSet(A) /\ IsFiniteSet(B) /\ Cardinality(A) \in Nat /\ Cardinality(B) \in Nat
  BY SomeRows
<1>2. Cardinality(A \cup B) = Cardinality(A) + Cardinality(B) - Cardinality(A \cap B)
  BY <1>1, FS_Union
<1>3. Cardinality(A \cap B) = 0
  BY FS_EmptySet
<1> QED
  BY <1>1, <1>2, <1>3

(* The four statuses are parts of the whole that no task is in two of.     *)
LEMMA PartsOfWhole ==
  ASSUME NEW s
  PROVE  Cardinality(OfStatus(s, 1)) + Cardinality(OfStatus(s, 2))
           + Cardinality(OfStatus(s, 3)) + Cardinality(OfStatus(s, 4))
             <= Cardinality(Counted(s, 5))
<1> DEFINE A(i) == OfStatus(s, i)
           AB == A(1) \cup A(2)
           CD == A(3) \cup A(4)
<1>1. /\ Counters[1] = "pending" /\ Counters[2] = "running"
      /\ Counters[3] = "completed" /\ Counters[4] = "failed"
  BY DEF Counters
<1>2. /\ A(1) \cap A(2) = {} /\ A(3) \cap A(4) = {} /\ AB \cap CD = {}
  BY <1>1 DEF OfStatus
<1>3. /\ A(1) \in SUBSET Rows /\ A(2) \in SUBSET Rows
      /\ A(3) \in SUBSET Rows /\ A(4) \in SUBSET Rows
      /\ AB \in SUBSET Rows /\ CD \in SUBSET Rows
  BY DEF OfStatus, Rows
<1>4. AB \cup CD \in SUBSET Counted(s, 5) /\ Counted(s, 5) \in SUBSET Rows
  BY DEF OfStatus, Counted, Rows
<1> HIDE DEF AB, CD, A
<1>5. Cardinality(AB \cup CD) <= Cardinality(Counted(s, 5))
  BY <1>4, Fewer
<1>6. Cardinality(AB \cup CD) = Cardinality(AB) + Cardinality(CD)
  BY <1>2, <1>3, Apart
<1>7. Cardinality(AB) = Cardinality(A(1)) + Cardinality(A(2))
  BY <1>2, <1>3, Apart DEF AB
<1>8. Cardinality(CD) = Cardinality(A(3)) + Cardinality(A(4))
  BY <1>2, <1>3, Apart DEF CD
<1>9. /\ Cardinality(A(1)) \in Nat /\ Cardinality(A(2)) \in Nat
      /\ Cardinality(A(3)) \in Nat /\ Cardinality(A(4)) \in Nat
      /\ Cardinality(Counted(s, 5)) \in Nat
  BY <1>3, <1>4, SomeRows
<1>10. Cardinality(A(1)) + Cardinality(A(2)) + Cardinality(A(3)) + Cardinality(A(4))
         <= Cardinality(Counted(s, 5))
  BY <1>5, <1>6, <1>7, <1>8, <1>9
<1> QED
  BY <1>10 DEF A

LEMMA ElementTyped ==
  ASSUME NEW S, NEW s \in Seq(S), NEW i \in 1..Len(s)
  PROVE  s[i] \in S
OBVIOUS

LEMMA SequenceIs ==
  ASSUME NEW S, NEW s \in Seq(S)
  PROVE  s \in [DOMAIN s -> S]
OBVIOUS

LEMMA MomentStep ==
  Typed /\ OneMoment /\ StatsAddUp /\ [Next]_vars => OneMoment' /\ StatsAddUp'
<1> SUFFICES ASSUME Typed, OneMoment, StatsAddUp, [Next]_vars, q' = "stats"
             PROVE  OneMoment' /\ StatsAddUp'
  BY DEF OneMoment, StatsAddUp
<1>1. CASE Beside \/ UNCHANGED vars
  <2>1. UNCHANGED <<q, pc, snap, tally>>
    BY <1>1, BesideKeeps DEF Untouched, vars
  <2> QED
    BY <2>1 DEF OneMoment, StatsAddUp, OfStatus
<1>2. CASE Open
  BY <1>2 DEF Open, OneMoment, StatsAddUp, Lists
<1>3. CASE CountNext
  <2>1. PICK s : /\ s = IF snap = NoSnapshot THEN Database ELSE snap
                 /\ tally' = Append(tally, Cardinality(Counted(s, Len(tally) + 1)))
                 /\ pc' = IF Len(tally') = Len(Counters) THEN "answered" ELSE "select"
                 /\ snap' = IF pc' = "answered" THEN NoSnapshot ELSE s
    BY <1>3 DEF CountNext
  <2>2. /\ q = "stats" /\ pc = "select" /\ Len(tally) \in Nat /\ Len(tally) < 5
        /\ tally \in Seq(0..Cardinality(Tasks))
    BY <1>3 DEF CountNext, Typed
  <2>3. /\ s \in Snapshot
        /\ \A i \in 1..Len(tally) : tally[i] <= Cardinality(OfStatus(s, i))
    <3>1. CASE tally = <<>> /\ snap = NoSnapshot
      BY <2>1, <3>1, DatabaseTyped
    <3>2. CASE /\ snap \in Snapshot
               /\ \A i \in 1..Len(tally) : tally[i] <= Cardinality(OfStatus(snap, i))
      BY <2>1, <3>2, QueriesAssumption
    <3> QED
      BY <2>2, <3>1, <3>2 DEF OneMoment
  <2> DEFINE n == Cardinality(Counted(s, Len(tally) + 1))
  <2>4. n \in 0..Cardinality(Tasks)
    BY SomeTasks DEF Counted
  <2>5. /\ Len(tally') = Len(tally) + 1
        /\ \A i \in 1..Len(tally) : tally'[i] = tally[i]
        /\ tally'[Len(tally) + 1] = n
    <3> HIDE DEF n
    <3> QED
      BY <2>1, <2>2, <2>4 DEF n
  <2>6. Len(Counters) = 5
    BY DEF Counters
  <2>7. CASE Len(tally) < 4
    <3>1. Counted(s, Len(tally) + 1) \in SUBSET OfStatus(s, Len(tally) + 1)
      BY <2>2, <2>7 DEF Counted, OfStatus
    <3>2. OfStatus(s, Len(tally) + 1) \in SUBSET Rows
      BY DEF OfStatus, Rows
    <3>3. n <= Cardinality(OfStatus(s, Len(tally) + 1))
      BY <3>1, <3>2, Fewer
    <3>4. ASSUME NEW i \in 1..Len(tally') PROVE tally'[i] <= Cardinality(OfStatus(s, i))
      BY <2>2, <2>3, <2>5, <3>3
    <3>5. pc' = "select" /\ snap' = s
      BY <2>1, <2>2, <2>5, <2>6, <2>7
    <3>6. OneMoment'
      BY <2>3, <3>4, <3>5 DEF OneMoment, OfStatus
    <3> QED
      BY <3>5, <3>6 DEF StatsAddUp
  <2>8. CASE Len(tally) = 4
    <3>1. pc' = "answered"
      BY <2>1, <2>5, <2>6, <2>8
    <3>2. /\ tally'[1] <= Cardinality(OfStatus(s, 1)) /\ tally'[2] <= Cardinality(OfStatus(s, 2))
          /\ tally'[3] <= Cardinality(OfStatus(s, 3)) /\ tally'[4] <= Cardinality(OfStatus(s, 4))
          /\ tally'[5] = Cardinality(Counted(s, 5))
      BY <2>3, <2>5, <2>8
    <3>3. /\ tally[1] \in 0..Cardinality(Tasks) /\ tally[2] \in 0..Cardinality(Tasks)
          /\ tally[3] \in 0..Cardinality(Tasks) /\ tally[4] \in 0..Cardinality(Tasks)
      <4>1. \A i \in 1..Len(tally) : tally[i] \in 0..Cardinality(Tasks)
        BY <2>2, ElementTyped
      <4> QED
        BY <2>8, <4>1
    <3>4. /\ tally'[1] \in Nat /\ tally'[2] \in Nat /\ tally'[3] \in Nat /\ tally'[4] \in Nat
      BY <2>5, <2>8, <3>3
    <3>5. /\ Cardinality(OfStatus(s, 1)) \in Nat /\ Cardinality(OfStatus(s, 2)) \in Nat
          /\ Cardinality(OfStatus(s, 3)) \in Nat /\ Cardinality(OfStatus(s, 4)) \in Nat
          /\ Cardinality(Counted(s, 5)) \in Nat
      <4>1. /\ OfStatus(s, 1) \in SUBSET Rows /\ OfStatus(s, 2) \in SUBSET Rows
            /\ OfStatus(s, 3) \in SUBSET Rows /\ OfStatus(s, 4) \in SUBSET Rows
            /\ Counted(s, 5) \in SUBSET Rows
        BY DEF OfStatus, Counted, Rows
      <4> QED
        BY <4>1, SomeRows
    <3>6. tally'[1] + tally'[2] + tally'[3] + tally'[4] <= tally'[5]
      BY <3>2, <3>4, <3>5, PartsOfWhole
    <3> QED
      BY <3>1, <3>6 DEF OneMoment, StatsAddUp
  <2>9. Len(tally) < 4 \/ Len(tally) = 4
    <3>1. \A k \in Nat : k < 5 => k < 4 \/ k = 4
      OBVIOUS
    <3> QED
      BY <2>2, <3>1
  <2> QED
    BY <2>7, <2>8, <2>9
<1>4. CASE Count \/ Fetch \/ Turn \/ SelectFailures \/ MergeInvalid \/ GetState \/ ScanEnds
  <2>1. q' = q
    BY <1>4 DEF Count, Fetch, Turn, SelectFailures, MergeInvalid, GetState, ScanEnds
  <2>2. pc \notin {"count", "fetch", "merge", "get", "scan"} /\ q \notin Lists
    BY <2>1 DEF Typed, Lists
  <2> QED
    BY <1>4, <2>1, <2>2 DEF Count, Fetch, Turn, SelectFailures, MergeInvalid, GetState, ScanEnds
<1>5. ASSUME NEW a \in Robots, Yield(a) PROVE FALSE
  BY <1>5 DEF Yield, Typed
<1> QED
  BY <1>1, <1>2, <1>3, <1>4, <1>5 DEF Next, Beside

-----------------------------------------------------------------------------
(* Robots.                                                                 *)
LEMMA ScannedStep == Typed /\ Scanned /\ [Next]_vars => Scanned'
<1> SUFFICES ASSUME Typed, Scanned, [Next]_vars, q' = "robots" PROVE Scanned'
  BY DEF Scanned
<1> USE DEF list, scan, table
<1>1. CASE Tick \/ (\E t \in Tasks : TaskAt(t) \/ StatusUpdated(t))
           \/ (\E e \in Events : EventLogged(e)) \/ UNCHANGED vars
  <2>1. UNCHANGED <<q, pc, robots, items, scan>>
    BY <1>1 DEF Tick, TaskAt, StatusUpdated, EventLogged, Untouched, vars
  <2> QED
    BY <2>1 DEF Scanned
<1>2. ASSUME NEW a \in Robots, RobotMoves(a) \/ RobotExpires(a) PROVE Scanned'
  <2>1. /\ UNCHANGED <<q, pc, items, key, returned>> /\ q = "robots" /\ pc # "answered"
        /\ held \subseteq held' /\ must' \subseteq must
    BY <1>2 DEF RobotMoves, RobotExpires, Untouched, ReadsRobots
  <2>2. ASSUME NEW b \in Robots, robots'[b] # NoState, pc \in {"scan", "get"}
        PROVE  <<b, robots'[b]>> \in held'
    BY <1>2, <2>1, <2>2 DEF RobotMoves, RobotExpires, Scanned, Typed
  <2>3. ASSUME NEW b \in must', pc \in {"scan", "get"} PROVE robots'[b] # NoState
    BY <1>2, <2>1, <2>3, QueriesAssumption DEF RobotMoves, RobotExpires, Scanned, Typed
  <2> QED
    BY <2>1, <2>2, <2>3 DEF Scanned
<1>3. CASE Open
  BY <1>3 DEF Open, Scanned, Lists, Typed
<1>4. ASSUME NEW a \in Robots, Yield(a) PROVE Scanned'
  BY <1>4 DEF Yield, Scanned
<1>5. CASE GetState
  <2>1. /\ UNCHANGED <<q, robots, key, returned, must, held>> /\ pc = "get" /\ pc' = "scan"
        /\ items' = items \cup Found /\ q = "robots" /\ key \in Robots
    BY <1>5 DEF GetState, Typed
  <2>2. Found \subseteq held
    BY <2>1 DEF Found, Scanned
  <2>3. ASSUME NEW a \in must \cap returned PROVE a \in {i[1] : i \in items'}
    <3>1. CASE a \in {i[1] : i \in items}
      BY <2>1, <3>1
    <3>2. CASE a = key
      <4>1. <<key, robots[key]>> \in items'
        BY <2>1, <3>2 DEF Scanned, Found
      <4> QED
        BY <3>2, <4>1
    <3> QED
      BY <2>1, <3>1, <3>2 DEF Scanned
  <2> QED
    BY <2>1, <2>2, <2>3 DEF Scanned
<1>6. CASE ScanEnds
  BY <1>6 DEF ScanEnds, Scanned
<1>7. CASE Count \/ Fetch \/ Turn \/ CountNext \/ SelectFailures \/ MergeInvalid
  BY <1>7 DEF Count, Fetch, Turn, CountNext, SelectFailures, MergeInvalid, Typed, Lists
<1> QED
  BY <1>1, <1>2, <1>3, <1>4, <1>5, <1>6, <1>7 DEF Next

-----------------------------------------------------------------------------
(* Pages.                                                                  *)
LEMMA NewestSize ==
  ASSUME NEW rows \in SUBSET Rows, NEW age, NEW n \in Nat, NEW top \in Newest(rows, age, n)
  PROVE  /\ top \subseteq rows /\ Cardinality(top) \in Nat /\ Cardinality(rows) \in Nat
         /\ Cardinality(top) = Least(n, Cardinality(rows))
         /\ Cardinality(top) <= n
         /\ top # rows => Cardinality(top) = n
<1>1. top \in SUBSET rows /\ Cardinality(top) = Least(n, Cardinality(rows))
  BY DEF Newest
<1>2. Cardinality(top) \in Nat /\ Cardinality(rows) \in Nat
  BY <1>1, SomeRows
<1>3. top # rows => Cardinality(top) # Cardinality(rows)
  BY <1>1, Fewer
<1> QED
  BY <1>1, <1>2, <1>3 DEF Least

LEMMA PageLength ==
  ASSUME NEW rows \in SUBSET Rows, NEW age, NEW o \in Nat, NEW n \in Nat,
         NEW p \in PageOf(rows, age, o, n)
  PROVE  Cardinality(p) = IF Cardinality(rows) > o
                          THEN Least(n, Cardinality(rows) - o) ELSE 0
<1>1. PICK above \in Newest(rows, age, o), below \in Newest(rows, age, o + n) :
        above \subseteq below /\ p = below \ above
  BY DEF PageOf
<1>2. /\ Cardinality(above) = Least(o, Cardinality(rows))
      /\ Cardinality(below) = Least(o + n, Cardinality(rows))
      /\ Cardinality(rows) \in Nat /\ below \in SUBSET Rows
  BY NewestSize
<1>3. IsFiniteSet(below)
  BY <1>2, SomeRows
<1>4. Cardinality(p) = Cardinality(below) - Cardinality(below \cap above)
  BY <1>1, <1>3, FS_Difference
<1>5. below \cap above = above
  BY <1>1
<1>6. Cardinality(p) = Cardinality(below) - Cardinality(above)
  BY <1>4, <1>5
<1> QED
  BY <1>2, <1>6 DEF Least

LEMMA PagesStep ==
  Typed /\ Counts /\ PageMatchesTotal /\ [Next]_vars => Counts' /\ PageMatchesTotal'
<1> SUFFICES ASSUME Typed, Counts, PageMatchesTotal, [Next]_vars
             PROVE  Counts' /\ PageMatchesTotal'
  OBVIOUS
<1> USE DEF list
<1>1. CASE Beside \/ UNCHANGED vars
  <2>1. UNCHANGED <<q, wanted, pc, snap, items, total, page>>
    BY <1>1, BesideKeeps DEF Untouched, vars
  <2> QED
    BY <2>1 DEF Counts, PageMatchesTotal, Matching, Offset
<1>2. CASE Count
  BY <1>2 DEF Count, Counts, PageMatchesTotal, Matching, Database
<1>3. CASE Fetch
  <2>1. /\ items' \in PageOf(Matching(snap), Times(snap, Matching(snap)), Offset, PageSize)
        /\ total = Cardinality(Matching(snap)) /\ pc' = "answered"
        /\ UNCHANGED <<total, page>>
    BY <1>3 DEF Fetch, Counts
  <2>2. Matching(snap) \in SUBSET Rows
    BY ChosenRows
  <2>3. Offset \in Nat /\ PageSize \in Nat
    BY TotalPages, QueriesAssumption
  <2>4. Cardinality(items') = IF total > Offset THEN Least(PageSize, total - Offset) ELSE 0
    BY <2>1, <2>2, <2>3, PageLength
  <2>5. Offset' = Offset
    BY <2>1 DEF Offset
  <2> QED
    BY <2>1, <2>4, <2>5 DEF Counts, PageMatchesTotal
<1>4. CASE Turn \/ Open
  BY <1>4 DEF Turn, Open, Counts, PageMatchesTotal
<1>5. CASE CountNext \/ SelectFailures \/ MergeInvalid \/ GetState \/ ScanEnds
  <2>1. q' = q /\ pc' \in {"answered", "select", "merge", "scan"}
    BY <1>5 DEF CountNext, SelectFailures, MergeInvalid, GetState, ScanEnds
  <2>2. q \notin Lists
    BY <1>5 DEF CountNext, SelectFailures, MergeInvalid, GetState, ScanEnds, Typed, Lists
  <2> QED
    BY <2>1, <2>2 DEF Counts, PageMatchesTotal
<1>6. ASSUME NEW a \in Robots, Yield(a) PROVE Counts' /\ PageMatchesTotal'
  BY <1>6 DEF Yield, Counts, PageMatchesTotal
<1> QED
  BY <1>1, <1>2, <1>3, <1>4, <1>5, <1>6 DEF Next, Beside

-----------------------------------------------------------------------------
(* Alerts: rows cut off from their kind are no newer than the merged list. *)
LEMMA CutOff ==
  ASSUME NEW n \in Nat, NEW all \in SUBSET Rows, NEW at \in [all -> Nat],
         NEW M \in SUBSET all, NEW C \in Newest(M, at, n),
         NEW K \in SUBSET all, NEW T \in Newest(K, at, n), T \subseteq M,
         NEW x \in C, NEW y \in K \ T
  PROVE  at[x] >= at[y]
<1>1. /\ Cardinality(T) = n /\ T \in SUBSET Rows /\ K \in SUBSET Rows
      /\ \A z \in T : at[z] >= at[y]
  BY NewestSize DEF Newest
<1>2. /\ Cardinality(C) \in Nat /\ Cardinality(C) <= n /\ C \in SUBSET M
      /\ \A u \in C, v \in M \ C : at[u] >= at[v]
  BY NewestSize DEF Newest
<1>3. CASE x \in T
  BY <1>1, <1>3
<1>4. CASE x \notin T
  <2>1. PICK z \in T : z \notin C
    <3> SUFFICES ASSUME T \subseteq C PROVE FALSE
      OBVIOUS
    <3>1. T \cup {x} \in SUBSET C /\ C \in SUBSET Rows
      BY <1>2
    <3>2. Cardinality(T \cup {x}) <= Cardinality(C)
      BY <3>1, Fewer
    <3>3. Cardinality(T \cup {x}) = Cardinality(T) + 1
      <4>1. IsFiniteSet(T)
        BY <1>1, SomeRows
      <4> QED
        BY <1>4, <4>1, FS_AddElement
    <3> QED
      BY <1>1, <1>2, <3>2, <3>3
  <2>2. at[x] >= at[z] /\ at[z] >= at[y]
    BY <1>1, <1>2, <2>1
  <2>3. at[x] \in Nat /\ at[y] \in Nat /\ at[z] \in Nat
    BY <1>2, <2>1
  <2> QED
    BY <2>2, <2>3
<1> QED
  BY <1>3, <1>4

LEMMA SameOrder ==
  ASSUME NEW rows, NEW age, NEW at, NEW n, \A z \in rows : age[z] = at[z]
  PROVE  Newest(rows, age, n) = Newest(rows, at, n)
BY DEF Newest

LEMMA MergedNewest ==
  ASSUME NEW s \in Snapshot, NEW n \in Nat \ {0},
         NEW F, F = Failures(s), NEW I, I = Invalid(s),
         NEW A \in Newest(F, Times(s, F), n), NEW B \in Newest(I, Times(s, I), n),
         NEW C \in Newest(A \cup B, [x \in A \cup B |-> SortKey(s, x)], n)
  PROVE  /\ C \in Newest(F \cup I, Times(s, F \cup I), n)
         /\ Cardinality(A \cup B) = 0 <=> F \cup I = {}
<1> DEFINE all == F \cup I
           at == Times(s, all)
           M == A \cup B
<1>1. /\ F \in SUBSET Rows /\ I \in SUBSET Rows /\ F \cap I = {} /\ all \in SUBSET Rows
      /\ F \subseteq Tasks /\ I \subseteq Events
  BY ChosenRows, QueriesAssumption DEF Failures, Invalid
<1>2. at \in [all -> Nat] /\ \A x \in all : at[x] = At(s, x)
  <2>1. ASSUME NEW x \in F PROVE At(s, x) \in Seconds
    <3>1. x \in Tasks /\ s.tasks[x] \in TaskHistory
      BY <2>1 DEF Failures, Snapshot
    <3> QED
      BY <3>1 DEF At, TaskHistory
  <2>2. ASSUME NEW x \in I PROVE At(s, x) \in Seconds
    <3>1. x \notin Tasks /\ s.events[x] \in WebhookLog
      BY <2>2, QueriesAssumption DEF Invalid, Snapshot
    <3> QED
      BY <3>1 DEF At, WebhookLog
  <2>3. Seconds \subseteq Nat
    BY QueriesAssumption DEF Seconds
  <2> QED
    BY <2>1, <2>2, <2>3 DEF Times
<1>3. A \in Newest(F, at, n) /\ B \in Newest(I, at, n)
  <2>1. /\ \A z \in F : Times(s, F)[z] = at[z]
        /\ \A z \in I : Times(s, I)[z] = at[z]
    BY DEF Times
  <2> HIDE DEF at
  <2> QED
    BY <2>1, SameOrder
<1>4. A \subseteq F /\ B \subseteq I /\ C \subseteq M /\ M \in SUBSET all
  BY ChosenRows
<1>5. \A u \in C, v \in M \ C : at[u] >= at[v]
  <2> SUFFICES ASSUME NEW u \in C, NEW v \in M \ C PROVE at[u] >= at[v]
    OBVIOUS
  <2>1. u \in M /\ SortKey(s, u) >= SortKey(s, v)
    BY <1>4 DEF Newest
  <2>2. /\ at[u] = At(s, u) /\ at[v] = At(s, v) /\ at[u] \in Nat /\ at[v] \in Nat
    BY <1>2, <1>4, <2>1
  <2>3. 2 * At(s, u) + 1 >= 2 * At(s, v)
    BY <2>1, <2>2 DEF SortKey
  <2> QED
    BY <2>2, <2>3
<1> HIDE DEF at
<1>6. /\ Cardinality(C) = Least(n, Cardinality(M))
      /\ Cardinality(A) = Least(n, Cardinality(F)) /\ Cardinality(B) = Least(n, Cardinality(I))
      /\ Cardinality(F) \in Nat /\ Cardinality(I) \in Nat
  BY <1>1, <1>4, NewestSize
<1>7. /\ Cardinality(M) = Cardinality(A) + Cardinality(B)
      /\ Cardinality(all) = Cardinality(F) + Cardinality(I)
  BY <1>1, <1>4, Apart
<1>8. Cardinality(C) = Least(n, Cardinality(all))
  BY <1>6, <1>7 DEF Least
<1>9. ASSUME NEW x \in C, NEW y \in all \ C PROVE at[x] >= at[y]
  <2>1. CASE y \in M
    BY <1>5, <1>9, <2>1
  <2>2. /\ n \in Nat /\ all \in SUBSET Rows /\ M \in SUBSET all
        /\ F \in SUBSET all /\ I \in SUBSET all /\ A \subseteq M /\ B \subseteq M
    BY <1>1, <1>4
  <2>3. y \in M \/ y \in F \ A \/ y \in I \ B
    OBVIOUS
  <2>4. C \in Newest(M, at, n)
    BY <1>4, <1>5, <1>6 DEF Newest
  <2> HIDE DEF all, M
  <2>5. CASE y \in F \ A
    BY <1>2, <1>3, <2>2, <2>4, <2>5, CutOff
  <2>6. CASE y \in I \ B
    BY <1>2, <1>3, <2>2, <2>4, <2>6, CutOff
  <2> QED
    BY <2>1, <2>3, <2>5, <2>6
<1>10. C \in Newest(all, at, n)
  BY <1>4, <1>8, <1>9 DEF Newest
<1>11. Cardinality(M) = 0 <=> all = {}
  <2>1. Cardinality(M) = 0 <=> Cardinality(all) = 0
    BY <1>6, <1>7 DEF Least
  <2>2. IsFiniteSet(all)
    BY <1>1, SomeRows
  <2> QED
    BY <2>1, <2>2, FS_EmptySet
<1> QED
  BY <1>10, <1>11 DEF at

LEMMA AlertsStep ==
  Typed /\ FailuresFirst /\ AlertsNewest /\ [Next]_vars => FailuresFirst' /\ AlertsNewest'
<1> SUFFICES ASSUME Typed, FailuresFirst, AlertsNewest, [Next]_vars
             PROVE  FailuresFirst' /\ AlertsNewest'
  OBVIOUS
<1> USE DEF list
<1>1. CASE Beside \/ UNCHANGED vars
  <2>1. UNCHANGED <<q, pc, snap, items, total>>
    BY <1>1, BesideKeeps DEF Untouched, vars
  <2> QED
    BY <2>1 DEF FailuresFirst, AlertsNewest
<1>2. CASE SelectFailures
  <2>1. /\ items' \in Newest(Failures(Database), Times(Database, Failures(Database)), Limit)
        /\ snap' = Database /\ pc' = "merge"
    BY <1>2 DEF SelectFailures
  <2>2. items' \in Newest(Failures(snap'), Times(snap', Failures(snap')), Limit)
    BY <2>1
  <2> QED
    BY <2>1, <2>2 DEF FailuresFirst, AlertsNewest
<1>3. CASE MergeInvalid
  <2>1. PICK invalid \in Newest(Invalid(snap), Times(snap, Invalid(snap)), Limit) :
          /\ total' = Cardinality(items \cup invalid)
          /\ items' \in Newest(items \cup invalid,
               [x \in items \cup invalid |-> SortKey(snap, x)], Limit)
    BY <1>3 DEF MergeInvalid
  <2>2. /\ pc = "merge" /\ pc' = "answered" /\ snap' = snap /\ snap \in Snapshot
        /\ items \in Newest(Failures(snap), Times(snap, Failures(snap)), Limit)
    BY <1>3 DEF MergeInvalid, FailuresFirst, Typed
  <2> DEFINE F == Failures(snap)
             I == Invalid(snap)
  <2>3. Limit \in Nat \ {0}
    BY QueriesAssumption
  <2>4. /\ items' \in Newest(F \cup I, Times(snap, F \cup I), Limit)
        /\ total' = 0 <=> F \cup I = {}
    BY <2>1, <2>2, <2>3, MergedNewest
  <2> QED
    BY <2>2, <2>4 DEF FailuresFirst, AlertsNewest
<1>4. CASE Open \/ Count \/ Turn
  BY <1>4 DEF Open, Count, Turn, FailuresFirst, AlertsNewest
<1>5. CASE Fetch \/ CountNext \/ GetState \/ ScanEnds
  <2>1. q' = q /\ pc' # "merge"
    BY <1>5 DEF Fetch, CountNext, GetState, ScanEnds
  <2>2. q # "alerts"
    BY <1>5 DEF Fetch, CountNext, GetState, ScanEnds, Typed, Lists
  <2> QED
    BY <2>1, <2>2 DEF FailuresFirst, AlertsNewest
<1>6. ASSUME NEW a \in Robots, Yield(a) PROVE FailuresFirst' /\ AlertsNewest'
  BY <1>6 DEF Yield, FailuresFirst, AlertsNewest
<1> QED
  BY <1>1, <1>2, <1>3, <1>4, <1>5, <1>6 DEF Next, Beside

-----------------------------------------------------------------------------
(* The walk: a row with no equal is on the page its newer rows lead to.    *)
LEMMA ShownOnPage ==
  ASSUME NEW rows \in SUBSET Rows, NEW at \in [rows -> Nat], NEW o \in Nat, NEW n \in Nat,
         NEW p \in PageOf(rows, at, o, n),
         NEW x \in rows, \A y \in rows \ {x} : at[x] # at[y],
         Cardinality({y \in rows : at[y] > at[x]}) >= o,
         Cardinality({y \in rows : at[y] > at[x]}) < o + n
  PROVE  x \in p
<1> DEFINE newer == {y \in rows : at[y] > at[x]}
<1>1. PICK above \in Newest(rows, at, o), below \in Newest(rows, at, o + n) :
        above \subseteq below /\ p = below \ above
  BY DEF PageOf
<1>2. /\ above \in SUBSET rows /\ Cardinality(above) <= o /\ Cardinality(above) \in Nat
      /\ below \in SUBSET rows
      /\ below # rows => Cardinality(below) = o + n
  BY NewestSize
<1>3. /\ \A y \in above, z \in rows \ above : at[y] >= at[z]
      /\ \A y \in below, z \in rows \ below : at[y] >= at[z]
  BY DEF Newest
<1>4. /\ newer \in SUBSET Rows /\ x \notin newer /\ IsFiniteSet(newer)
      /\ Cardinality(newer) \in Nat
  <2>1. newer \in SUBSET Rows /\ x \notin newer
    OBVIOUS
  <2> HIDE DEF newer
  <2> QED
    BY <2>1, SomeRows
<1>5. x \in below
  <2> SUFFICES ASSUME x \notin below PROVE FALSE
    OBVIOUS
  <2>1. below \in SUBSET newer
    BY <1>2, <1>3
  <2>2. Cardinality(below) = o + n
    BY <1>2
  <2> HIDE DEF newer
  <2>3. Cardinality(below) <= Cardinality(newer)
    BY <1>4, <2>1, Fewer
  <2> QED
    BY <1>4, <2>2, <2>3 DEF newer
<1>6. x \notin above
  <2> SUFFICES ASSUME x \in above PROVE FALSE
    OBVIOUS
  <2>1. newer \cup {x} \in SUBSET above
    BY <1>3
  <2> HIDE DEF newer
  <2>2. Cardinality(newer \cup {x}) = Cardinality(newer) + 1
    BY <1>4, FS_AddElement
  <2>3. Cardinality(newer \cup {x}) <= Cardinality(above)
    BY <1>2, <2>1, Fewer
  <2> QED
    BY <1>2, <1>4, <2>2, <2>3 DEF newer
<1> QED
  BY <1>1, <1>5, <1>6

LEMMA MatchingTimes ==
  ASSUME NEW s \in Snapshot
  PROVE  Times(s, Matching(s)) \in [Matching(s) -> Nat]
<1>1. ASSUME NEW x \in Matching(s) PROVE At(s, x) \in Seconds
  <2>1. CASE q = "history"
    <3>1. x \in Tasks /\ s.tasks[x] \in TaskHistory
      BY <1>1, <2>1 DEF Matching, Snapshot
    <3> QED
      BY <3>1 DEF At, TaskHistory
  <2>2. CASE q # "history"
    <3>1. x \notin Tasks /\ s.events[x] \in WebhookLog
      BY <1>1, <2>2, QueriesAssumption DEF Matching, Snapshot
    <3> QED
      BY <3>1 DEF At, WebhookLog
  <2> QED
    BY <2>1, <2>2
<1>2. Seconds \subseteq Nat
  BY QueriesAssumption DEF Seconds
<1> QED
  BY <1>1, <1>2 DEF Times

LEMMA NewerCount ==
  ASSUME NEW s, NEW x \in Matching(s)
  PROVE  /\ Newer(s, x) \in SUBSET Rows /\ Cardinality(Newer(s, x)) \in Nat
         /\ At(s, x) \in Nat => Cardinality(Newer(s, x)) < Cardinality(Matching(s))
<1>1. Newer(s, x) \in SUBSET Matching(s) /\ Matching(s) \in SUBSET Rows
  BY ChosenRows DEF Newer
<1>2. Newer(s, x) \in SUBSET Rows /\ Cardinality(Newer(s, x)) \in Nat
      /\ Cardinality(Matching(s)) \in Nat
  BY <1>1, SomeRows
<1>3. /\ Cardinality(Newer(s, x)) <= Cardinality(Matching(s))
      /\ Cardinality(Newer(s, x)) = Cardinality(Matching(s)) => Newer(s, x) = Matching(s)
  BY <1>1, Fewer
<1>4. At(s, x) \in Nat => x \notin Newer(s, x)
  BY DEF Newer
<1> QED
  BY <1>2, <1>3, <1>4

(* An unfiltered list only grows, and its rows keep their seconds.         *)
LEMMA RowsStay ==
  ASSUME Typed, Beside, q \in Lists, wanted = TaskStatus
  PROVE  /\ Matching(Database) \subseteq Matching(Database)'
         /\ \A x \in Matching(Database) : At(Database, x)' = At(Database, x)
<1> USE DEF Typed, table
<1>1. UNCHANGED <<q, wanted>>
  BY BesideKeeps DEF Untouched
<1>2. /\ \A t \in Tasks : tasks[t] # NoRow => tasks'[t] = tasks[t]
      /\ \A e \in Events : events[e] # NoRow => events'[e] = events[e]
  <2>1. ASSUME NEW t \in Tasks, TaskAt(t) PROVE <1>2!1 /\ <1>2!2
    BY <2>1 DEF TaskAt
  <2>2. ASSUME NEW e \in Events, EventLogged(e) PROVE <1>2!1 /\ <1>2!2
    BY <2>2 DEF EventLogged
  <2>3. ASSUME NEW t \in Tasks, StatusUpdated(t) PROVE FALSE
    BY <2>3 DEF StatusUpdated, ReadsTasks, Lists
  <2>4. Tick \/ (\E a \in Robots : RobotMoves(a) \/ RobotExpires(a)) => UNCHANGED table
    BY DEF Tick, RobotMoves, RobotExpires
  <2> QED
    BY <2>1, <2>2, <2>3, <2>4 DEF Beside
<1>3. Matching(Database) \subseteq Matching(Database)'
  BY <1>1, <1>2 DEF Matching, Database
<1>4. ASSUME NEW x \in Matching(Database) PROVE At(Database, x)' = At(Database, x)
  <2>1. CASE q = "history"
    BY <1>2, <2>1 DEF Matching, Database, At
  <2>2. CASE q # "history"
    BY <1>2, <2>2, QueriesAssumption DEF Matching, Database, At
  <2> QED
    BY <2>1, <2>2
<1> QED
  BY <1>3, <1>4

LEMMA WalkBeside ==
  ASSUME Typed, Walk, Beside, q \in Lists, wanted = TaskStatus, pc # "new"
  PROVE  Walk'
<1>1. UNCHANGED <<q, wanted, pc, snap, total, page, seen, base>>
  BY BesideKeeps DEF Untouched, list
<1>2. /\ Matching(Database) \subseteq Matching(Database)'
      /\ \A x \in Matching(Database) : At(Database, x)' = At(Database, x)
  BY RowsStay
<1>3. \A x : Matching(snap)' = Matching(snap) /\ At(snap, x)' = At(snap, x)
  BY <1>1 DEF Matching, At
<1>4. base \subseteq Matching(Database) /\ base' \subseteq Matching(Database)'
  BY <1>1, <1>2 DEF Walk
<1>5. pc = "fetch" => SnapshotOfTables'
  <2> SUFFICES ASSUME pc = "fetch" PROVE SnapshotOfTables'
    OBVIOUS
  <2>1. SnapshotOfTables
    BY DEF Walk
  <2>2. Matching(snap)' \subseteq Matching(Database)' /\ base' \subseteq Matching(snap)'
    BY <1>1, <1>2, <1>3, <2>1 DEF SnapshotOfTables
  <2>3. \A x \in Matching(snap) : At(snap, x)' = At(Database, x)'
    BY <1>2, <1>3, <2>1 DEF SnapshotOfTables
  <2> QED
    BY <1>3, <2>2, <2>3 DEF SnapshotOfTables
<1>6. ASSUME NEW x \in base \ seen, InOrder(Database, x)'
      PROVE  /\ pc = "count" => Cardinality(Newer(Database, x))' >= Offset
             /\ pc = "fetch" => Cardinality(Newer(snap, x))' >= Offset
             /\ pc = "answered" => /\ Cardinality(Newer(Database, x))' >= page * PageSize
                                   /\ total > page * PageSize
  <2>1. x \in Matching(Database) /\ x \in Matching(Database)'
    BY <1>2, <1>4
  <2>2. InOrder(Database, x)
    BY <1>2, <1>6, <2>1 DEF InOrder
  <2>3. Newer(Database, x) \subseteq Newer(Database, x)'
    BY <1>2, <2>1 DEF Newer
  <2>4. Newer(Database, x)' \in SUBSET Rows
    BY ChosenRows DEF Newer, Matching, Rows
  <2>5. /\ Cardinality(Newer(Database, x)) <= Cardinality(Newer(Database, x)')
        /\ Cardinality(Newer(Database, x)) \in Nat /\ Cardinality(Newer(Database, x)') \in Nat
    <3>1. Newer(Database, x) \in SUBSET Rows
      BY <2>3, <2>4
    <3> QED
      BY <2>3, <2>4, <3>1, Fewer, SomeRows
  <2>6. Newer(snap, x)' = Newer(snap, x)
    BY <1>3 DEF Newer
  <2>7. Offset \in Nat /\ page * PageSize \in Nat
    BY TotalPages, QueriesAssumption
  <2> QED
    BY <2>2, <2>5, <2>6, <2>7 DEF Walk
<1>7. Offset' = Offset
  BY <1>1 DEF Offset
<1> QED
  BY <1>1, <1>4, <1>5, <1>6, <1>7 DEF Walk

LEMMA WalkFetch ==
  ASSUME Typed, Counts, Walk, Fetch, wanted = TaskStatus
  PROVE  Walk'
<1>1. /\ pc = "fetch" /\ pc' = "answered" /\ q \in Lists /\ snap \in Snapshot
      /\ items' \in PageOf(Matching(snap), Times(snap, Matching(snap)), Offset, PageSize)
      /\ seen' = seen \cup items'
      /\ UNCHANGED <<tasks, events, q, wanted, total, page, base>>
      /\ total = Cardinality(Matching(snap))
  BY DEF Fetch, Counts, Typed, table
<1>2. base \subseteq Matching(Database) /\ SnapshotOfTables
  BY <1>1 DEF Walk
<1>3. Database' = Database
  BY <1>1 DEF Database
<1>4. \A x : /\ Matching(Database)' = Matching(Database)
             /\ Newer(Database, x)' = Newer(Database, x)
             /\ InOrder(Database, x)' <=> InOrder(Database, x)
  BY <1>1 DEF Matching, Newer, InOrder, Database, At
<1>5. ASSUME NEW x \in base \ seen', InOrder(Database, x)
      PROVE  /\ Cardinality(Newer(Database, x)) >= page * PageSize
             /\ total > page * PageSize
  <2>1. /\ x \in base \ seen /\ x \notin items' /\ x \in Matching(snap)
        /\ x \in Matching(Database)
    BY <1>1, <1>2, <1>5 DEF SnapshotOfTables
  <2>2. Cardinality(Newer(snap, x)) >= Offset
    BY <1>1, <1>5, <2>1 DEF Walk
  <2> DEFINE rows == Matching(snap)
             at == Times(snap, rows)
  <2>3. /\ rows \in SUBSET Rows /\ at \in [rows -> Nat]
        /\ \A y \in rows : at[y] = At(snap, y)
    BY <1>1, ChosenRows, MatchingTimes DEF Times
  <2>4. \A y \in rows \ {x} : at[x] # at[y]
    <3> SUFFICES ASSUME NEW y \in rows \ {x} PROVE at[x] # at[y]
      OBVIOUS
    <3>1. At(snap, x) = At(Database, x) /\ At(snap, y) = At(Database, y)
          /\ y \in Matching(Database)
      BY <1>2, <2>1 DEF SnapshotOfTables
    <3> QED
      BY <1>5, <2>1, <2>3, <3>1 DEF InOrder
  <2>5. Newer(snap, x) = {y \in rows : at[y] > at[x]}
    BY <2>1, <2>3 DEF Newer
  <2>6. Offset \in Nat /\ PageSize \in Nat /\ page * PageSize = Offset + PageSize
    BY TotalPages, QueriesAssumption
  <2>7. /\ Cardinality(Newer(snap, x)) \in Nat
        /\ Cardinality(Newer(snap, x)) < total
    BY <1>1, <2>1, <2>3, NewerCount
  <2>8. Cardinality(Newer(snap, x)) >= Offset + PageSize
    <3> HIDE DEF rows, at
    <3>1. ~(Cardinality(Newer(snap, x)) < Offset + PageSize)
      <4> SUFFICES ASSUME Cardinality(Newer(snap, x)) < Offset + PageSize PROVE FALSE
        OBVIOUS
      <4>1. items' \in PageOf(rows, at, Offset, PageSize) /\ x \in rows
        BY <1>1, <2>1 DEF rows, at
      <4>2. x \in items'
        BY <2>2, <2>3, <2>4, <2>5, <2>6, <4>1, ShownOnPage
      <4> QED
        BY <2>1, <4>2
    <3> QED
      BY <2>6, <2>7, <3>1
  <2>9. Newer(snap, x) \in SUBSET Newer(Database, x)
    BY <1>2, <2>1 DEF Newer, SnapshotOfTables
  <2>10. Newer(Database, x) \in SUBSET Rows /\ Cardinality(Newer(Database, x)) \in Nat
    BY <2>1, NewerCount
  <2>11. Cardinality(Newer(snap, x)) <= Cardinality(Newer(Database, x))
    BY <2>9, <2>10, Fewer
  <2>12. total \in Nat
    BY RowsFinite DEF Typed
  <2> QED
    BY <2>6, <2>7, <2>8, <2>10, <2>11, <2>12
<1> QED
  BY <1>1, <1>2, <1>4, <1>5 DEF Walk

LEMMA WalkStep == Typed /\ Counts /\ Walk /\ [Next]_vars => Walk'
<1> SUFFICES ASSUME Typed, Counts, Walk, [Next]_vars,
                    q' \in Lists, wanted' = TaskStatus, pc' # "new"
             PROVE  Walk'
  BY DEF Walk
<1> USE DEF list, table
<1>1. CASE Beside
  <2>1. UNCHANGED <<q, wanted, pc>>
    BY <1>1, BesideKeeps DEF Untouched
  <2> QED
    BY <1>1, <2>1, WalkBeside
<1>2. CASE Fetch
  BY <1>2, WalkFetch DEF Fetch
<1>3. CASE UNCHANGED vars
  <2>1. UNCHANGED <<tasks, events, q, wanted, pc, snap, total, page, seen, base>>
    BY <1>3 DEF vars
  <2>2. \A x : /\ Matching(Database)' = Matching(Database)
               /\ Newer(Database, x)' = Newer(Database, x)
               /\ Newer(snap, x)' = Newer(snap, x)
               /\ InOrder(Database, x)' <=> InOrder(Database, x)
    BY <2>1 DEF Matching, Newer, Database, At, InOrder
  <2>3. Offset' = Offset
    BY <2>1 DEF Offset
  <2>4. SnapshotOfTables => SnapshotOfTables'
    BY <2>1 DEF SnapshotOfTables, Matching, Database, At
  <2> QED
    BY <2>1, <2>2, <2>3, <2>4 DEF Walk
<1>4. CASE Open
  <2>1. /\ pc = "new" /\ pc' = "count" /\ page' = 1 /\ base' = Matching(Database)
        /\ UNCHANGED <<tasks, events, q, wanted>>
    BY <1>4 DEF Open, Typed
  <2>2. \A x : /\ Matching(Database)' = Matching(Database)
               /\ Newer(Database, x)' = Newer(Database, x)
    BY <2>1 DEF Matching, Newer, Database, At
  <2>3. Offset' = 0
    <3>1. PageSize \in Nat
      BY QueriesAssumption
    <3> QED
      BY <2>1, <3>1 DEF Offset
  <2>4. \A x \in base' : Cardinality(Newer(Database, x)) \in Nat
    BY <2>1, NewerCount
  <2>5. \A x \in base' : Cardinality(Newer(Database, x))' >= Offset'
    BY <2>2, <2>3, <2>4
  <2> QED
    BY <2>1, <2>2, <2>5 DEF Walk
<1>5. CASE Count
  <2>1. /\ pc = "count" /\ pc' = "fetch" /\ snap' = Database
        /\ UNCHANGED <<tasks, events, q, wanted, page, base, seen>>
    BY <1>5 DEF Count
  <2>2. \A x : /\ Matching(Database)' = Matching(Database)
               /\ Newer(Database, x)' = Newer(Database, x)
               /\ Matching(snap)' = Matching(Database)
               /\ Newer(snap, x)' = Newer(Database, x)
               /\ At(snap, x)' = At(Database, x)'
               /\ InOrder(Database, x)' <=> InOrder(Database, x)
               /\ Offset' = Offset
    BY <2>1 DEF Matching, Newer, Database, At, InOrder, Offset
  <2>3. base' \subseteq Matching(Database) /\ SnapshotOfTables'
    BY <2>1, <2>2 DEF Walk, SnapshotOfTables
  <2>4. \A x \in base' \ seen' : InOrder(Database, x)' => Cardinality(Newer(snap, x))' >= Offset'
    BY <2>1, <2>2 DEF Walk
  <2> QED
    BY <2>1, <2>2, <2>3, <2>4 DEF Walk
<1>6. CASE Turn
  <2>1. /\ pc = "answered" /\ pc' = "count" /\ page' = page + 1
        /\ UNCHANGED <<tasks, events, q, wanted, base, seen>>
    BY <1>6 DEF Turn
  <2>2. \A x : /\ Matching(Database)' = Matching(Database)
               /\ Newer(Database, x)' = Newer(Database, x)
               /\ InOrder(Database, x)' <=> InOrder(Database, x)
    BY <2>1 DEF Matching, Newer, Database, At, InOrder
  <2>3. Offset' = page * PageSize
    <3>1. page \in Nat
      BY RowsFinite DEF Typed
    <3>2. page' - 1 = page
      BY <2>1, <3>1
    <3> QED
      BY <3>2 DEF Offset
  <2> QED
    BY <2>1, <2>2, <2>3 DEF Walk
<1>7. CASE CountNext \/ SelectFailures \/ MergeInvalid \/ GetState \/ ScanEnds
  <2>1. q' = q
    BY <1>7 DEF CountNext, SelectFailures, MergeInvalid, GetState, ScanEnds
  <2>2. q \notin Lists
    BY <1>7 DEF CountNext, SelectFailures, MergeInvalid, GetState, ScanEnds, Typed, Lists
  <2> QED
    BY <2>1, <2>2
<1>8. ASSUME NEW a \in Robots, Yield(a) PROVE FALSE
  BY <1>8 DEF Yield, Typed, Lists
<1> QED
  BY <1>1, <1>2, <1>3, <1>4, <1>5, <1>6, <1>7, <1>8 DEF Next, Beside

-----------------------------------------------------------------------------
LEMMA InvInit == Init => Inv
<1> SUFFICES ASSUME Init PROVE Inv
  OBVIOUS
<1>1. Typed
  BY TypedInit
<1>2. Counts /\ Walk /\ OneMoment /\ FailuresFirst /\ Scanned
  BY DEF Init, Counts, Walk, OneMoment, FailuresFirst, Scanned
<1>3. PageMatchesTotal /\ StatsAddUp /\ AlertsNewest
  BY DEF Init, PageMatchesTotal, StatsAddUp, AlertsNewest
<1> QED
  BY <1>1, <1>2, <1>3 DEF Inv

LEMMA InvStep == Inv /\ [Next]_vars => Inv'
BY TypedStep, PagesStep, WalkStep, MomentStep, AlertsStep, ScannedStep DEF Inv

LEMMA InvAlways == Spec => []Inv
BY InvInit, InvStep, PTL DEF Spec

-----------------------------------------------------------------------------
(* Type correctness: also of what one page, list or count may contain.     *)
THEOREM TypeCorrect == Spec => []TypeOK
<1>1. ASSUME Inv PROVE TypeOK
  <2>1. tally \in [DOMAIN tally -> 0..Cardinality(Tasks)]
    <3>1. tally \in Seq(0..Cardinality(Tasks))
      BY <1>1 DEF Inv, Typed
    <3> QED
      BY <3>1, SequenceIs
  <2>2. Len(tally) <= Len(Counters)
    BY <1>1 DEF Inv, Typed, Counters
  <2> QED
    BY <1>1, <2>1, <2>2, DatabaseTyped DEF Inv, Typed, TypeOK, Rows
<1> QED
  BY <1>1, InvAlways, PTL

(* Who pages through an unfiltered list to its last page has seen every    *)
(* row that was there at the beginning and shares its second with no       *)
(* other, however many rows are inserted in front of it meanwhile.         *)
THEOREM WalksComplete == Spec => []WalkComplete
<1>1. ASSUME Inv PROVE WalkComplete
  <2> SUFFICES ASSUME q \in Lists, wanted = TaskStatus, pc = "answered",
                      page >= totalPages, NEW x \in base, Untied(x), x \notin seen
               PROVE  FALSE
    BY DEF WalkComplete
  <2>1. total > page * PageSize
    BY <1>1 DEF Inv, Walk, InOrder, Untied
  <2>2. page * PageSize >= total
    BY <1>1, TotalPages DEF Inv
  <2>3. total \in Nat /\ page * PageSize \in Nat
    <3>1. page \in Nat /\ PageSize \in Nat /\ total \in Nat
      BY <1>1, RowsFinite, QueriesAssumption DEF Inv, Typed
    <3> QED
      BY <3>1
  <2> QED
    BY <2>1, <2>2, <2>3
<1> QED
  BY <1>1, InvAlways, PTL

(* A page has the rows that its own total says it has: count and page are  *)
(* cut from one snapshot, with a filter too, while rows come and go.       *)
THEOREM PagesMatch == Spec => []PageMatchesTotal
<1>1. Inv => PageMatchesTotal
  BY DEF Inv
<1> QED
  BY <1>1, InvAlways, PTL

(* The statistics are of one moment: no task is counted in two statuses.   *)
THEOREM StatsAdd == Spec => []StatsAddUp
<1>1. Inv => StatsAddUp
  BY DEF Inv
<1> QED
  BY <1>1, InvAlways, PTL

(* Cutting each kind of alert to the limit before merging loses none of    *)
(* the newest, and a total of zero means that there are none.              *)
THEOREM AlertsCorrect == Spec => []AlertsNewest
<1>1. Inv => AlertsNewest
  BY DEF Inv
<1> QED
  BY <1>1, InvAlways, PTL

(* A robot cached throughout the query is in the list, although others     *)
(* expire between SCAN and GET, and every state listed was cached since.   *)
THEOREM RobotsCorrect == Spec => []RobotsListed
<1>1. Inv => RobotsListed
  BY DEF Inv, Scanned, RobotsListed
<1> QED
  BY <1>1, InvAlways, PTL
=============================================================================
