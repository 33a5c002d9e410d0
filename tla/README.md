# Verification of the RCS-2000 middleware

The repository is a FastAPI service between business clients and an RCS-2000
robot controller. It creates tasks at the RCS on behalf of clients, receives the
RCS's feedback on webhooks, keeps a task history in MySQL and the state of the
robots in Redis, and serves a dashboard. Two uvicorn processes and any number of
Celery processes run the same code over one database, one Redis and one RCS.

This directory holds TLA+ modules of that behaviour, TLC runs over small
instances, and TLAPS proofs for every instance.

## Inventory

| Component | State it keeps | Operations | Hard part | Correct when |
|---|---|---|---|---|
| Task creation (`services/task_service.py`, `routers/tasks.py`) | the stage of each handler; Redis `idempotency:{key}` | `create_task` | five awaits over three systems, none atomic with another | no answer or cache entry names a task the table or the RCS lacks; one key, one answer |
| Task history (`models/task_history.py`, its repository, `db/session.py`) | rows, transactions, unique `robot_task_code` and `idempotency_key` | insert, commit, roll back, update status | locks of uncommitted rows, keys that never expire | unique keys hold, no lock is left behind |
| Webhook ingress (`services/webhook_service.py`) | Redis `webhook:dedupe:*`, `webhook_log` | verify, SET NX, log, enqueue | repeats by the RCS, failures between SET NX and enqueue | an event is processed once per lifetime of its key and lost only by a failure |
| Feedback worker (`workers/tasks.py`, `celery_app.py`) | the queue, each worker's message, `task_history`, `robot:{amr}:state` | take, read, update, set robot, acknowledge, retry | redelivery, retries, two workers on one task | nothing lost; the history follows the life of a task |
| RCS client (`clients/rcs2000_client.py`) | none, per call | signed, plain, retried requests; address resolution | retry of idempotent calls only, 5xx mapping | a submit is sent once |
| Raw submit (`services/rcs_submit_service.py`) | Redis `idempotency:rcs_raw:*`, rows | preview, submit | shares the unique column with task creation | as task creation |
| System configuration (`repositories/system_config_repository.py`) | rows and a cache without expiry | get, set, connection settings | a reader's fill races a writer; ip and port apart | the client uses an address somebody configured |
| Robot states, statistics, alerts, logs, history lists | none | queries | several selects, or SCAN then GETs, over data that moves | what one answer shows belongs together; paging misses nothing |
| Startup (`main.py`, `db/init_seed.py`) | `robot_types` | check, seed, serve | two processes at once, any failure ignored | who serves without an error of its own finds the seeds |
| Migrations (`alembic`) | tables, indexes, `alembic_version` | upgrade, downgrade | DDL commits by itself; servers run meanwhile | each recorded version has its schema, no duplicates are left |
| Dashboard (`static/js`) | the view | polls | answers out of order | the content is the page, nobody polls signed out, a form submits once |
| Signing, logging, middleware, health | - | - | - | not modelled, see below |

How they interact: a client calls task creation, which calls the RCS client and
the history; the RCS calls the webhook ingress, which hands the event to the
worker through the queue; the worker updates the history row that task creation
committed, and the robot cache that the queries read. The RCS client takes its
address from the configuration's cache. The migrations make the tables of all of
them, and the processes seed one at their start.

## Modules

`TaskStore` - the history table for inserts. `rows` are committed rows, `txn[r]`
the row request `r` has flushed. `InsertFlushed` waits (is disabled) while
another transaction holds a clashing row, and fails through
`CreateDuplicate` when the clash is committed: InnoDB's behaviour for unique
indexes, NULL keys excepted.

`TaskCreate` - one request per element of `Requests`; `pc` names the await the
handler is at: `lookup` (Redis GET), `resolve` (SELECT of the robot type), `await`
(the HTTP submit), `create` (flush), `commit`, `save` (SETEX). Each action is the
code between two awaits. `DbError`, `RedisError` and `SubmitFailed` are the
exceptions, with or without the remote effect (a lost answer); `Crash` is the end
of the process. The RCS is `inflight` submits and `rcsTasks`: it accepts or drops
a submit at any time, also after the handler has given up, under codes it never
used before. A body is one value per `_fingerprint`. `Expire` stands for the TTL and
for Redis losing the entry. A key is `NoKey` (no header), `EmptyKey` (empty header:
falsy for the cache, stored in the column) or one of `Keys`.

`TaskRegistry` - the abstract promise: codes and keys are recorded at most once,
nothing is forgotten, an answer names a task recorded under the caller's key.
`TaskCreate!ImplementsRegistry` is the refinement (`registry <- rows`,
`answer <- resp.code`); `MCTaskCreate` instantiates the module for TLC.

`TaskFeedback` - deliveries `Hooks` run through `hpc` (`verify`, `dedupe`, `log*`,
`enqueue`), messages through `queue`, workers through `wpc` (`read`, `write`, `robot`,
`ack`). `Fail` publishes a successor while the budget lasts and only then
acknowledges (`retired`), so a death in between doubles the message;
`WorkerDies` is `task_reject_on_worker_lost`. `seen` is the row the worker read
before its unconditional UPDATE. Times are Booleans (set or not), positions and
error texts are left out.
`RecordTask` is the commit of task creation, at any time.

`TaskLifecycle` - the promise that any number of workers keep: a status changes
only by an update that began while the task was open (`Begin`, the read; then
`Change` or `Quit`). An ended task can therefore be overwritten by the updates that
were under way when it ended, at most one for each other worker, and by nothing that
is taken up later. `TaskFeedback!ImplementsLifecycle` is the refinement (`state` is
the status of the row, `updating` the workers in `write` with their tasks).
`MCTaskFeedback` instantiates both for TLC.

`TaskCreate_proofs`, `TaskFeedback_proofs`, `RcsSubmit_proofs`,
`SystemConfig_proofs`, `Deployment_proofs`, `Dashboard_proofs`, `Queries_proofs` -
the theorems, each beside the module it extends.

`RcsSubmit` - the raw submit with the RCS client under it, over the same
`TaskStore`: its own cache whose entries carry `persisted`, an optional code, and
`CreatedElsewhere` for the rows task creation commits to the shared columns. An
attempt has an `Outcome`: an exception of the network, of HTTP or of Redis, or what
the RCS said (`heard`). `SubmitRetry` repeats a signed GET after a `Transient` one,
`SubmitFailed` raises what `Raised` makes of it: the retryable error of a 5xx is
converted by the retry loop only, and leaves a POST as a network error. An attempt
that was given up may still reach the RCS, but its answer is not heard. Any POST
under the prefix is passed on, `task/cancel` as well as `task/submit`: in `RcsServes` it
may make a task or none, and its answer may carry the code of any task there is. One
thing is assumed of the RCS, that it makes no task for a POST it refuses with a
business code; `ErrorsFaithful` rests on it. `AnswerOwnSubmit` says whose answer a
success is, not which request made the task it names.
`MCRcsSubmit` instantiates it.

`SystemConfig` - PUT and GET of the RCS address. `at` is the setting an operation
is working on (address, then port), `step` the await. A PUT's SQLAlchemy session
writes nothing when the value equals the one it selected; a GET's two selects
share a snapshot; the cache has no expiry. A process death is a failure without
effect. `ReadIp` and `ReadPort` are the RCS client's two reads. `stored` (what was
ever committed) and `alone` (operations that overlapped no other) are history
variables. `MCSystemConfig` instantiates it.

`Dashboard` - one browser tab. A JavaScript callback is an action; `pending` counts
the GETs in flight, `want` is the filter and page of the two lists, `shown` the
query whose rows are on screen. `Rerendered` pages are built anew by the interval,
`Reloaded` ones only ask again, the task list and the settings are not polled. An
answer lands if the elements of its page are there. `posts` are submits by form and
button; an error enables the button again, whether or not the server acted.
Requests without a key are refused and therefore never enter `pending`.

`Deployment` - the three Alembic revisions as sequences of DDL operations over
`schema` (tables and indexes), applied one at a time by `Ddl`; `Record` commits
`alembic_version` after the last. A command may stop after any operation
(`Interrupt`) or be refused one (`DdlRefused`); `torn` remembers that. Beside it,
server processes boot, select the seed names, flush and commit what is missing
(`SelectNames` to `CommitSeeds`), and serve whatever came of it; `InsertTask` is a row
under one Idempotency-Key. An open transaction holds off DDL on its table, a
flushed row an insert of the same unique value. `excused` are processes that met
no table or a database error. `MCDeployment` instantiates it.

`Queries` - one reader, of five kinds (`q`): a walk through the pages of the history
or of the webhook log, the statistics, the alerts, the robots. `snap` is the
snapshot of the first select of a request, `base` and `seen` the rows a walk began
with and was shown; `PageOf` and `Newest` leave the order of equal seconds to the
engine. SCAN may repeat a key and return one that has gone, and ends when it has
returned those that stayed (`must`). What the reader does not read does not move,
which keeps the instances small. `MCQueries` instantiates it.

## Runs

| Run | Bounds | Shows |
|---|---|---|
| `create_safety` | 3 requests, 1 key (+ none, + empty), 3 codes, 2 bodies, one unresolvable; symmetric in requests and codes | type, cache against table and RCS, answers, refinement of the registry |
| `create_liveness` | 2 requests, `FairSpec` | every request ends |
| `create_onetask` | 2 requests | *violated*: one key, two RCS tasks |
| `feedback_safety` | 2 deliveries, 2 workers, 1 task, 1 robot, `start` and `end`, 1 retry, 1 death, 1 expiry | delivery, deduplication, what history and cache may say, refinement of the lifecycle |
| `feedback_single` | 2 deliveries, 1 worker, no robot, `outbin`, `pause` (unknown) and a blank method, 1 retry, 1 death, `FairSpec` | an end reaches its task, every message is settled |
| `feedback_terminal` | 2 workers, no failures | *violated*: a terminal status is overwritten |
| `config_safety` | 3 operations, 1 client call, 2 addresses (one empty), 1 port, any failures and evictions | only committed settings are used; a PUT that ran alone is in effect |
| `config_saved` | PUTs one at a time, GETs beside them, no failure | *violated*: a late fill leaves a stale address in the cache |
| `submit_safety` | 2 requests, 1 key (+ none, + empty), 2 codes, a GET, a POST and a refused path, 2 attempts | what a persisted answer promises, whose answer a success is, one attempt per POST, errors that say what happened |
| `dashboard` | one tab, 6 clicks, 3 of the 7 pages in the menu, 2 filters, 2 pages of rows, 2 equal polls in flight, `FairSpec` | content, polling, single submits, the webhook list settles |
| `deployment` | 2 processes, the 3 revisions, any number of upgrades, downgrades, interruptions and restarts | the schema of every version, no duplicates at rest, seeds |
| `queries` | one reader; 3 tasks, 2 events, 2 robots with 2 states; pages of 1 row, 2 alerts; 2 seconds with midnight between; SCAN returns 3 keys | pages, counts, alerts and robots that belong together |

Why the bounds are enough: a collision takes two requests, and the third lets
one of the pair fail, crash or expire while a newcomer meets what is left of it;
two bodies tell a same-body from an other-body collision. In the feedback model
two events are the least that can be out of order, two workers the least that can
interleave, one retry, one death and one expiry each reach the boundary of their
counter (`MaxRetries` is 5 in the code, `MaxAttempts` 3; the guards compare with
the constants).
In `deployment` nothing is bounded but the processes: two are
what a race takes, and the rows under one key stop at the second. In `queries` three
tasks let a page shift between two others, two seconds order some rows and tie
others, three keys returned for two robots repeat one.
Deadlock is not checked: requests and deliveries are finite, so the modelled
system does stop when all are served.

Fairness: `FairSpec` of `TaskCreate` assumes the event loop resumes a handler
whose await is over, and that a submit ends, which the HTTP client's timeout
gives (`SubmitFailed` is always enabled in `await`). Nothing is assumed of the RCS,
of clients, of failures or of expiry. `FairSpec` of `TaskFeedback` assumes that a
handler continues and that a worker process takes messages and works on them;
nothing obliges a failure, a death or the RCS.
`FairSpec` of `Dashboard` assumes that the interval fires and, strongly, that a
webhook query that is asked again and again is answered in the end; failures in
between are not bounded.

## Where the code departs from its texts

- Two concurrent requests with one key both submit (`create_onetask`), against the
  tests' "RCS only called once".
- "Don't downgrade a terminal status" is checked on a row read without a lock
  (`feedback_terminal`).
- "Changes take effect immediately" does not hold for the RCS address: a
  concurrent read can put the old one back (`config_saved`).

Not runs, but visible in the models: the 24 hours of a key (core/constants.py:20)
end in Redis only, the unique column refuses it for ever, after the submit;
"MUST remain idempotent" (workers/tasks.py:5) holds for the history, but a
redelivered message puts an older state back into the robot cache; feedback that is
processed before the row is committed is dropped, and its dedupe key keeps the
repeat away, as it does when a failure follows the SET; address and port are written
and read one after the other, so a submit can use half of each; a PUT that equals
the row it selected writes none, though another PUT may have changed the row since,
and a failed fill after a commit leaves the cache behind until the next PUT; a page
button of the rows on screen can ask for a page the new filter does not have; a 5xx on a
POST is answered as `RCS_NETWORK_ERROR`, "connection failed", by the raw submit; an
interrupted upgrade can only be mended by hand, since running it again is refused
at the table it made; an interrupted downgrade can be upgraded to head without
its unique indexes; while 1d4229d9e9d6 rebuilds the unique indexes duplicates can
be inserted, and it then fails; a process started before the migrations serves
without robot types; rows of one second, or rows that leave a filter between two pages, can be skipped or
displaced by paging; `persistTask` is not part of a raw request's
fingerprint (app/schemas/task.py:65 promises a row), and a submit answered after a
logout renders the dashboard over the login form.

## Proofs

Every invariant that a passing run checks is a theorem for all values of the
constants, and so are the action properties `SubmitsOnce` and `PutTakesEffect`
and the refinements of `TaskRegistry` and `TaskLifecycle`, from the assumptions
that the modules name. Those say that the model's special values (`NoTask`,
`NoMessage`, `NoSnapshot`, ...) are not values of the data, that the bounds are
natural numbers, and in `Deployment` and `Queries` that the processes, tasks and
events are finite: a table and a compose file have no infinitely many. Hardly
any of the properties is inductive; this is what each needs.

| Module | Theorems | Inductive part |
|---|---|---|
| `TaskCreate_proofs` | `TypeCorrect`, `CacheCorrect`, `AnswersCorrect`, `AnswersAgreeAlways`, `SubmitsSpared`, `RegistryImplemented` | `Filled`, `RowsUnique`, `TxnFree`, `Accepted`, `SavedRow`, `AnswerStage` |
| `TaskFeedback_proofs` | `TypeCorrect`, `HistoryReported`, `EndsTimed`, `DuplicatesTwinned`, `OncePerKey`, `MessagesHeld`, `LifecycleImplemented` | `Filled`, `Sent`, `RowFound`, `KeyOwned`, `KeyBudget`, `Held` |
| `RcsSubmit_proofs` | `TypeCorrect`, `PersistedCorrect`, `AnswersCorrect`, `PersistedAnswersAgree`, `PostsSentOnce`, `ErrorsCorrect` | `RowsUnique`, `TxnFree`, `SavedRow`, `Attempted`, `HeardTrue`, `CodeHeard`, `CachedSaid`, `AnswerSaid`, `AnswerHeard`, `PostsOnce` |
| `SystemConfig_proofs` | `TypeCorrect`, `OnlyCommittedUsed`, `AlonePutsTakeEffect` | `PutFilled`, `AllStored`, `AloneEffect` |
| `Deployment_proofs` | `TypeCorrect`, `ServingSeeded`, `VersionsHaveSchemas`, `HeadComplete`, `RestUnique` | `TablesFirst`, `Unique`, `SeedsTogether`, `SeedBudget`; `OnTrack`, `UpStarted`, `Blocked` |
| `Dashboard_proofs` | `TypeCorrect`, `ScreenCorrect`, `SubmitsOnceEach` | `Budget`, `SubmitsHeld` |
| `Queries_proofs` | `TypeCorrect`, `WalksComplete`, `PagesMatch`, `StatsAdd`, `AlertsCorrect`, `RobotsCorrect` | `Counts`, `Walk`, `OneMoment`, `FailuresFirst`, `Scanned` |

Task creation. `Inv` connects the stages of a handler: one past arrival has a
request, one past the submit a code (`Filled`), no two committed rows clash
(`RowsUnique`), a flushed row clashes with no committed and no other flushed one
(`TxnFree`, the lock argument), a handler in `create` or later holds a code the
RCS gave to it (`Accepted`), one in `save` has its row committed (`SavedRow`).
`AnswersAgree` follows: both answers name committed rows with one key, and
`RowsUnique` makes them the same row. `RcsSpared` has an invariant of its own,
over what each request has on the wire. `RegistryImplemented` is `Spec =>
Registry!Spec`, each step a step of the registry or a stutter.

Feedback. Whatever the queue or a worker holds was sent by an accepted delivery
(`Sent`), so what a worker writes was reported, in any interleaving, and the row
it updates is there (`RowFound`). `ProcessedOncePerKey` needs the key's owner: a
key that is there was taken by a signed delivery that got past it (`KeyOwned`,
the twin of each duplicate), and each delivery let in earlier has paid with an
expiry (`KeyBudget`). `HeldUntilSettled` is proved on cardinalities: every
action is one of a few moves of a copy between queue and workers, and `Held`
counts them; only a death adds one. `LifecycleImplemented` holds for
any number of workers and needs no more than the types: a step shows in the
lifecycle when a worker comes to its update, which takes an open row (`Begins`), and
when it leaves it, with the UPDATE or without (`Finishes`); its message and event do
not change in between (`WriterEvent`). That an ended task keeps its status does not
follow and is false: `feedback_terminal` shows an update that began before the end.

Raw submit. Store and cache as in task creation; the new part is what an attempt
was heard to say: a refusal that was heard left no task and nothing on the wire
(`HeardTrue`), what was heard is what is stored (`CodeHeard`), an entry of the cache
says what an answered request of its key and fingerprint heard (`CachedSaid`), and so
does a success without an attempt (`AnswerSaid`): an answered request hears nothing
more. The number of attempts fits the stage (`Attempted`), which bounds a POST to one.

Configuration. `OnlyStoredUsed` needs `AllStored`, which says the same of every
place a setting passes: the rows, a transaction's view, the client's first read,
the value a PUT selected (it may be what a commit that writes nothing leaves in
place) and the payload of a PUT past its commit. For `PutTakesEffect`, while an
operation of `alone` is between its first and its last step no other is
(`Solo`); therefore what it selected is still the row (`Writes`), its insert
cannot collide, and each setting it has stored is `Settled`: row and payload
equal, the cache equal or evicted. The GET half then finds either, and
`FetchNothing` is impossible.

Deployment. The schema between two statements is a function of the version and
of how far the plan has run: `After(schema, plan, n)` says without recursion
which tables and indexes n statements leave, and the lemmas on the six plans
show that each ends at the next version's schema (`SchemaAt`). `OnTrack` is
that, `Blocked` that a torn upgrade leaves the table it created first, which
refuses the upgrade from then on. `Unique`: while a unique index is there no
committed or flushed rows clash. The seeds come together or not at all
(`SeedsTogether`), which is why the loser of the race may ignore its error;
`SeedBudget` bounds the rows of a name by the processes that still may commit
it.

Dashboard. The equal polls in flight are bounded by a budget that also counts
the requests a click or a load still owes (`Budget`). A submit under way for the
form last opened has its button disabled, and one that succeeded has closed the
form (`SubmitsHeld`).

Queries. `Walk` is the paging argument: rows are only inserted in front, so a
row of the walk's beginning that is not shown yet has at least as many newer
rows as were skipped; once the pages end there is no such row. `Counts` and
`OneMoment` say that count, page and statistics are cut from one snapshot; parts
of a finite set that are disjoint add up to no more than the set. `MergedNewest`
is the lemma on the alerts: the newest of two lists, each already cut to the
limit, are the newest of their union. `Scanned`: a robot that stays and whose
key was returned is in the list or is the one being read.

Model-checked only: the liveness properties (every request ends, an end reaches
its task, every message is settled, the webhook list settles) and what they need
of fairness and ENABLED, which TLAPS cannot reason about; and the three runs
that expect a violation, whose counterexamples are instances by nature.

## Not modelled

Text, layout and arithmetic on strings (signing, logging, rendering, schema
validation), column types and defaults, health probes, connection pools. Signing
is a pure function of a request: what it computes is strings, and each attempt
calls it afresh. Of the queries, the taskCode filter and the number of active
robots are left out, and so is that "today" begins at UTC midnight while MySQL
stamps rows with its own zone. Of the dashboard, rendering, the alert badge, the
connection dot, the map's canvas and the fields of forms are left out. The client's
status and cancel calls have no caller in the program.

## Plan

The safety properties of all modules are proved. What is left, in this order:

1. Composition: one module in which `RecordTask` of `TaskFeedback` is the commit of
   `TaskCreate`, for the window in which feedback precedes the row, with the
   theorem that it implements both.
2. A counterpart of `TaskRegistry` for the raw submit (persisted answers only),
   refined by `RcsSubmit`.

The modules to prove about use no recursive operator, and no CASE whose value the
provers would have to compare.
