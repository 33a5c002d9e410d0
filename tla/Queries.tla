------------------------------ MODULE Queries ------------------------------
(***************************************************************************)
(* The read-only endpoints: pages of the task history and of the webhook   *)
(* log, dashboard statistics, recent alerts, robot states.  Each makes     *)
(* several selects, or a SCAN and GETs, while workers and webhooks change  *)
(* what it reads.  The selects of one request share a session, and so the  *)
(* snapshot of the first one (InnoDB, REPEATABLE READ).  Timestamps have   *)
(* whole seconds and are taken before the commit that shows them.  The     *)
(* taskCode filter selects a fixed part of the log and is left out; so is  *)
(* the number of active robots, which is that of the keys a SCAN returns.  *)
(***************************************************************************)
EXTENDS Naturals, FiniteSets, Sequences

CONSTANTS Tasks, Events, Robots, RobotStates,
          Filters,          \* the sets of statuses that clients ask for
          PageSize, Limit,  \* page_size of a list, limit of the alerts
          Horizon,          \* last second of the clock
          Midnight,         \* the second at which the second day begins
          MaxYields,        \* bound on the keys one SCAN returns
          NoRow, NoState, NoSnapshot

TaskStatus == {"pending", "running", "completed", "failed", "cancelled"}

VARIABLES tasks, events,   \* committed rows of task_history and webhook_logs
          robots,          \* robot:{code}:state in Redis
          clock,
          q, wanted,       \* the query; the statuses it asks for
          pc, snap,
          total, page,
          items,           \* rows of the last page, alerts, or robots
          tally,           \* counts of the statistics so far
          seen, base,      \* rows shown so far; rows there when paging began
          key, returned,   \* the last key of SCAN and all of them
          yields, must,    \* how many; keys cached since SCAN began
          held             \* what the cache has held since then

table == <<tasks, events>>
list == <<total, page, seen, base>>
scan == <<key, returned, yields, must, held>>
vars == <<table, robots, clock, q, wanted, pc, snap, items, tally, list, scan>>

Seconds == 1..Horizon
(* at is the timestamp that the query uses: created_at for a list,         *)
(* updated_at for the others.                                              *)
TaskHistory == [status : TaskStatus, at : Seconds]
WebhookLog == [signature_valid : BOOLEAN, at : Seconds]

Snapshot == [tasks : [Tasks -> TaskHistory \cup {NoRow}],
             events : [Events -> WebhookLog \cup {NoRow}]]

ASSUME QueriesAssumption ==
  /\ IsFiniteSet(Tasks) /\ IsFiniteSet(Events) /\ Tasks \cap Events = {}
  /\ \A f \in Filters : f \subseteq TaskStatus
  /\ PageSize \in Nat \ {0} /\ Limit \in Nat \ {0}
  /\ Horizon \in Nat \ {0} /\ Midnight \in 2..Horizon + 1 /\ MaxYields \in Nat
  /\ NoRow \notin TaskHistory \cup WebhookLog
  /\ NoState \notin RobotStates /\ NoSnapshot \notin Snapshot

Lists == {"history", "logs"}
Queries == Lists \cup {"stats", "alerts", "robots"}

(* What the query has still to read.                                       *)
ReadsTasks == \/ q = "history"
              \/ q = "stats" /\ pc # "answered"
              \/ q = "alerts" /\ pc \in {"new", "select"}
ReadsEvents == \/ q = "logs"
               \/ q = "alerts" /\ pc # "answered"
ReadsRobots == q = "robots" /\ pc # "answered"

Database == [tasks |-> tasks, events |-> events]
Least(m, n) == IF m < n THEN m ELSE n

(* The query is fixed from the start: what it does not read does not move. *)
Init ==
  /\ tasks = [t \in Tasks |-> NoRow] /\ events = [e \in Events |-> NoRow]
  /\ robots = [a \in Robots |-> NoState]
  /\ clock = 1
  /\ q \in Queries
  /\ wanted \in {TaskStatus} \cup (IF q = "history" THEN Filters ELSE {})
  /\ pc = "new" /\ snap = NoSnapshot
  /\ total = 0 /\ page = 1 /\ items = {} /\ tally = <<>>
  /\ seen = {} /\ base = {}
  /\ key = NoRow /\ returned = {} /\ yields = 0 /\ must = {} /\ held = {}

-----------------------------------------------------------------------------
(* What happens beside the query.                                          *)
Now == {clock} \cup ({clock - 1} \cap Seconds)
Untouched == UNCHANGED <<q, wanted, pc, snap, items, tally, list>>

Tick ==
  /\ clock < Horizon /\ clock' = clock + 1
  /\ Untouched /\ UNCHANGED <<table, robots, scan>>

TaskAt(t) ==
  /\ ReadsTasks /\ tasks[t] = NoRow
  /\ \E now \in Now : tasks' = [tasks EXCEPT ![t] =
       [status |-> "pending", at |-> now]]
  /\ Untouched /\ UNCHANGED <<events, robots, clock, scan>>

(* What a worker writes.  Of two workers, one can overwrite an ended       *)
(* status, too.  Nothing in the program writes "cancelled".                *)
StatusUpdated(t) ==
  /\ ReadsTasks /\ tasks[t] # NoRow
  /\ q = "history" => wanted # TaskStatus
  /\ \E s \in {"running", "completed", "failed"}, now \in Now :
       tasks' = [tasks EXCEPT ![t].status = s,
                              ![t].at = IF q = "history" THEN @ ELSE now]
  /\ Untouched /\ UNCHANGED <<events, robots, clock, scan>>

EventLogged(e) ==
  /\ ReadsEvents /\ events[e] = NoRow
  /\ \E now \in Now, valid \in BOOLEAN : events' = [events EXCEPT ![e] =
       [signature_valid |-> valid, at |-> now]]
  /\ Untouched /\ UNCHANGED <<tasks, robots, clock, scan>>

(* A worker sets the state of a robot; its TTL ends.                       *)
RobotMoves(a) ==
  /\ ReadsRobots
  /\ \E s \in RobotStates : /\ robots' = [robots EXCEPT ![a] = s]
                            /\ held' = held \cup {<<a, s>>}
  /\ Untouched /\ UNCHANGED <<table, clock, key, returned, yields, must>>

RobotExpires(a) ==
  /\ ReadsRobots
  /\ robots' = [robots EXCEPT ![a] = NoState]
  /\ must' = must \ {a}
  /\ Untouched /\ UNCHANGED <<table, clock, key, returned, yields, held>>

-----------------------------------------------------------------------------
(* Rows that ORDER BY age DESC LIMIT n can return: the order among equal   *)
(* ages is the engine's choice.                                            *)
Newest(rows, age, n) ==
  {top \in SUBSET rows : /\ Cardinality(top) = Least(n, Cardinality(rows))
                         /\ \A x \in top, y \in rows \ top : age[x] >= age[y]}

PageOf(rows, age, offset, n) ==
  LET cuts == {c \in Newest(rows, age, offset) \X Newest(rows, age, offset + n) :
                 c[1] \subseteq c[2]}
  IN  {c[2] \ c[1] : c \in cuts}

Matching(s) ==
  IF q = "history"
  THEN {t \in Tasks : s.tasks[t] # NoRow /\ s.tasks[t].status \in wanted}
  ELSE {e \in Events : s.events[e] # NoRow}

At(s, x) == IF x \in Tasks THEN s.tasks[x].at ELSE s.events[x].at
Times(s, rows) == [x \in rows |-> At(s, x)]

totalPages == IF total > 0 THEN (total + PageSize - 1) \div PageSize ELSE 0

Open ==
  /\ pc = "new"
  /\ pc' = IF q \in Lists THEN "count" ELSE IF q = "robots" THEN "scan" ELSE "select"
  /\ base' = IF q \in Lists THEN Matching(Database) ELSE {}
  /\ must' = {a \in Robots : robots[a] # NoState}
  /\ held' = {<<a, robots[a]>> : a \in must'}
  /\ UNCHANGED <<table, robots, clock, q, wanted, snap, items, tally, total,
                 page, seen, key, returned, yields>>

(* Mutant: the status filter is not applied to the count. *)
CountAll ==
  /\ pc = "count" /\ pc' = "fetch"
  /\ snap' = Database
  /\ total' = Cardinality({t \in Tasks : tasks[t] # NoRow})
              + Cardinality({e \in Events : events[e] # NoRow})
  /\ UNCHANGED <<table, robots, clock, q, wanted, items, tally, page, seen, base, scan>>

(* The first select of the request takes the snapshot. *)
Count ==
  /\ pc = "count" /\ pc' = "fetch"
  /\ snap' = Database
  /\ total' = Cardinality(Matching(Database))
  /\ UNCHANGED <<table, robots, clock, q, wanted, items, tally, page, seen, base, scan>>

(* Mutant: the pages are counted from nought. *)
OffsetFromZero == page * PageSize

Offset == (page - 1) * PageSize

Fetch ==
  /\ pc = "fetch" /\ pc' = "answered"
  /\ items' \in LET rows == Matching(snap) IN PageOf(rows, Times(snap, rows), Offset, PageSize)
  /\ seen' = seen \cup items'
  /\ snap' = NoSnapshot
  /\ UNCHANGED <<table, robots, clock, q, wanted, tally, total, page, base, scan>>

(* The operator turns to the next page, a request of its own. *)
Turn ==
  /\ q \in Lists /\ pc = "answered" /\ page < totalPages
  /\ page' = page + 1 /\ pc' = "count"
  /\ UNCHANGED <<table, robots, clock, q, wanted, snap, items, tally, total, seen,
                 base, scan>>

-----------------------------------------------------------------------------
(* Statistics: five counts, "today" from the clock at each of the two.     *)
Counters == <<"pending", "running", "completed", "failed", "total">>
TodayStart == IF clock >= Midnight THEN Midnight ELSE 1

Counted(s, i) ==
  {t \in Tasks : /\ s.tasks[t] # NoRow
                 /\ i # 5 => s.tasks[t].status = Counters[i]
                 /\ i \in {3, 4} => s.tasks[t].at >= TodayStart}

(* Mutant: every count in a transaction of its own. *)
CountAfresh ==
  /\ q = "stats" /\ pc = "select"
  /\ tally' = Append(tally, Cardinality(Counted(Database, Len(tally) + 1)))
  /\ pc' = IF Len(tally') = Len(Counters) THEN "answered" ELSE "select"
  /\ UNCHANGED <<table, robots, clock, q, wanted, snap, items, list, scan>>

CountNext ==
  /\ q = "stats" /\ pc = "select"
  /\ LET s == IF snap = NoSnapshot THEN Database ELSE snap IN
     /\ tally' = Append(tally, Cardinality(Counted(s, Len(tally) + 1)))
     /\ pc' = IF Len(tally') = Len(Counters) THEN "answered" ELSE "select"
     /\ snap' = IF pc' = "answered" THEN NoSnapshot ELSE s
  /\ UNCHANGED <<table, robots, clock, q, wanted, items, list, scan>>

(* Alerts: the newest failures, then the newest invalid signatures, sorted *)
(* together; on equal times the failures come first.                       *)
Failures(s) ==
  {t \in Tasks : s.tasks[t] # NoRow /\ s.tasks[t].status \in {"failed", "cancelled"}}
Invalid(s) ==
  {e \in Events : s.events[e] # NoRow /\ ~s.events[e].signature_valid}

SortKey(s, x) == 2 * At(s, x) + (IF x \in Tasks THEN 1 ELSE 0)

SelectFailures ==
  /\ q = "alerts" /\ pc = "select" /\ pc' = "merge"
  /\ snap' = Database
  /\ items' \in LET rows == Failures(Database) IN Newest(rows, Times(Database, rows), Limit)
  /\ UNCHANGED <<table, robots, clock, q, wanted, tally, list, scan>>

(* Mutant: the failures fill the list first. *)
AppendInvalid ==
  /\ pc = "merge" /\ pc' = "answered"
  /\ \E invalid \in Newest(Invalid(snap), Times(snap, Invalid(snap)), Limit) :
       /\ total' = Cardinality(items \cup invalid)
       /\ items' \in Newest(items \cup invalid,
            [x \in items \cup invalid |-> IF x \in Tasks THEN 1 ELSE 0], Limit)
  /\ UNCHANGED <<table, robots, clock, q, wanted, snap, tally, page, seen, base, scan>>

MergeInvalid ==
  /\ pc = "merge" /\ pc' = "answered"
  /\ \E invalid \in Newest(Invalid(snap), Times(snap, Invalid(snap)), Limit) :
       /\ total' = Cardinality(items \cup invalid)
       /\ items' \in Newest(items \cup invalid,
            [x \in items \cup invalid |-> SortKey(snap, x)], Limit)
  /\ UNCHANGED <<table, robots, clock, q, wanted, snap, tally, page, seen, base, scan>>

-----------------------------------------------------------------------------
(* SCAN returns a key that was there at some time since it began, perhaps  *)
(* twice; it ends when it has returned every key that was there throughout.*)
Yield(a) ==
  /\ pc = "scan" /\ yields < MaxYields
  /\ \E s \in RobotStates : <<a, s>> \in held
  /\ yields' = yields + 1 /\ returned' = returned \cup {a}
  /\ pc' = "get"
  /\ key' = a
  /\ UNCHANGED <<table, robots, clock, q, wanted, snap, items, tally, list, must, held>>

(* Mutant: a key without a value is not skipped. *)
FoundAny == {<<key, robots[key]>>}

Found == IF robots[key] = NoState THEN {} ELSE {<<key, robots[key]>>}

(* Mutant: a key without a value ends the list. *)
GetOrStop ==
  /\ pc = "get" /\ pc' = IF Found = {} THEN "answered" ELSE "scan"
  /\ items' = items \cup Found
  /\ UNCHANGED <<table, robots, clock, q, wanted, snap, tally, list, scan>>

(* A key that has expired since is skipped. *)
GetState ==
  /\ pc = "get" /\ pc' = "scan"
  /\ items' = items \cup Found
  /\ UNCHANGED <<table, robots, clock, q, wanted, snap, tally, list, scan>>

ScanEnds ==
  /\ pc = "scan" /\ must \subseteq returned
  /\ pc' = "answered"
  /\ UNCHANGED <<table, robots, clock, q, wanted, snap, items, tally, list, scan>>

-----------------------------------------------------------------------------
Next ==
  \/ Tick
  \/ \E t \in Tasks : TaskAt(t) \/ StatusUpdated(t)
  \/ \E e \in Events : EventLogged(e)
  \/ \E a \in Robots : RobotMoves(a) \/ RobotExpires(a) \/ Yield(a)
  \/ Open \/ Count \/ Fetch \/ Turn
  \/ CountNext \/ SelectFailures \/ MergeInvalid
  \/ GetState \/ ScanEnds

Spec == Init /\ [][Next]_vars

-----------------------------------------------------------------------------
Stage == {"new", "count", "fetch", "select", "merge", "scan", "get", "answered"}

TypeOK ==
  /\ Database \in Snapshot /\ snap \in Snapshot \cup {NoSnapshot}
  /\ robots \in [Robots -> RobotStates \cup {NoState}]
  /\ clock \in Seconds /\ q \in Queries /\ wanted \subseteq TaskStatus
  /\ pc \in Stage
  /\ total \in 0..Cardinality(Tasks \cup Events)
  /\ page \in 1..Cardinality(Tasks \cup Events) + 1
  /\ items \subseteq Tasks \cup Events \cup (Robots \X RobotStates)
  /\ tally \in [DOMAIN tally -> 0..Cardinality(Tasks)] /\ Len(tally) <= Len(Counters)
  /\ seen \cup base \subseteq Tasks \cup Events
  /\ returned \cup must \subseteq Robots /\ yields \in 0..MaxYields
  /\ held \subseteq Robots \X RobotStates

Untied(x) ==
  \A y \in Matching(Database) \ {x} : At(Database, x) # At(Database, y)

(* Who pages through an unfiltered list to its last page has seen every    *)
(* row that was there at the beginning, whatever was inserted meanwhile,   *)
(* unless another row has the same second.                                 *)
WalkComplete ==
  q \in Lists /\ wanted = TaskStatus /\ pc = "answered" /\ page >= totalPages =>
    \A x \in base : Untied(x) => x \in seen

(* A page has the rows that its own total says it has: neither a row more  *)
(* nor an empty last page, with a filter too, while rows come and go.      *)
PageMatchesTotal ==
  q \in Lists /\ pc = "answered" =>
    Cardinality(items) = IF total > Offset THEN Least(PageSize, total - Offset) ELSE 0

(* The statistics are of one moment: a task that changes its status while  *)
(* they are counted is not counted twice.                                  *)
StatsAddUp ==
  q = "stats" /\ pc = "answered" =>
    tally[1] + tally[2] + tally[3] + tally[4] <= tally[5]

(* The alerts are the newest of both kinds taken together, although each   *)
(* kind was cut to the limit before, and a total of zero means none.       *)
AlertsNewest ==
  q = "alerts" /\ pc = "answered" =>
    LET all == Failures(snap) \cup Invalid(snap) IN
    /\ items \in Newest(all, Times(snap, all), Limit)
    /\ total = 0 <=> all = {}

(* A robot cached throughout the query is in the list, although others     *)
(* expire between SCAN and GET, and a state in the list was cached since   *)
(* the query began.                                                        *)
RobotsListed ==
  q = "robots" /\ pc = "answered" =>
    /\ must \subseteq {i[1] : i \in items}
    /\ items \subseteq held
=============================================================================
