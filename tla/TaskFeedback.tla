---------------------------- MODULE TaskFeedback ----------------------------
(***************************************************************************)
(* RCS feedback: POST /webhook/rcs2000/task-feedback                       *)
(* (WebhookService.handle_task_feedback), the Celery queue rcs.default and *)
(* the workers that run process_task_feedback.  Each stage of hpc is one   *)
(* await of the handler, each stage of wpc one of the task.                *)
(***************************************************************************)
EXTENDS Naturals, FiniteSets

CONSTANTS Hooks,        \* webhook deliveries; the RCS may repeat an event
          Workers,      \* Celery prefork processes
          Tasks,        \* robotTaskCodes
          Robots,       \* amrCodes
          Methods,      \* the methods the RCS sends, as strings
          MaxRetries,   \* max_retries of the task: 5 in the code
          MaxDeaths,    \* bound on worker deaths
          MaxExpiries,  \* bound on dedupe keys outlived
          NoHook, NoRobot, NoTask, NoState, NoMessage

VARIABLES hpc, hook,     \* stage and content of each delivery
          dedupe,        \* Redis webhook:dedupe:{task}:{method} keys
          expiries,      \* how many dedupe keys have expired so far
          queue,         \* messages at the broker
          fate,          \* what became of each delivery's message
          wpc, msg,      \* stage and message of each worker
          seen,          \* the row the worker read and is about to update
          deaths,
          tasks,         \* task_history: status, start_time, end_time
          robots         \* Redis robot:{amr}:state

ingress == <<hpc, hook, dedupe, expiries>>
working == <<wpc, msg, seen, deaths>>
stores == <<tasks, robots>>
vars == <<hpc, hook, dedupe, expiries, queue, fate, wpc, msg, seen,
          deaths, tasks, robots>>

MethodStatus == [start |-> "running", outbin |-> "running", end |-> "completed"]
Blank == " "      \* passes min_length=1, empty once the worker strips it

TargetStatus(m) ==
  IF m \in DOMAIN MethodStatus THEN MethodStatus[m] ELSE "failed"

Terminal == {"completed", "failed", "cancelled"}
Status == {"pending", "running"} \cup Terminal
Record == [status : Status, started : BOOLEAN, ended : BOOLEAN]
Pending == [status |-> "pending", started |-> FALSE, ended |-> FALSE]
Event == [task : Tasks, method : Methods, robot : Robots \cup {NoRobot},
          signed : BOOLEAN]
(* copy tells redeliveries of a message apart, as delivery tags do. *)
Message == [hook : Hooks, tries : 0..MaxRetries, copy : 0..MaxDeaths]
RobotState == [task : Tasks, status : Status]

ASSUME FeedbackAssumption ==
  /\ MaxRetries \in Nat /\ MaxDeaths \in Nat /\ MaxExpiries \in Nat
  /\ NoRobot \notin Robots
  /\ NoTask \notin Record
  /\ NoMessage \notin Message

HookStage == {"new", "verify", "dedupe", "logRejected", "logDuplicate", "logFirst",
              "enqueue", "rejected", "duplicate", "accepted", "error", "crashed"}
WorkStage == {"idle", "read", "write", "robot", "ack", "retired"}
Fates == {"unsent", "queued", "applied", "processed", "dropped"}

Init ==
  /\ hpc = [h \in Hooks |-> "new"]
  /\ hook = [h \in Hooks |-> NoHook]
  /\ dedupe = {}
  /\ expiries = 0
  /\ queue = {}
  /\ fate = [h \in Hooks |-> "unsent"]
  /\ wpc = [w \in Workers |-> "idle"]
  /\ msg = [w \in Workers |-> NoMessage]
  /\ seen = [w \in Workers |-> NoTask]
  /\ deaths = 0
  /\ tasks = [c \in Tasks |-> NoTask]
  /\ robots = [a \in Robots |-> NoState]

-----------------------------------------------------------------------------
(* The webhook handler. *)
HookGoto(h, from, to) == hpc[h] = from /\ hpc' = [hpc EXCEPT ![h] = to]
(* Mutant: the key leaves the method out. *)
KeyWithoutMethod(h) == <<hook[h].task, "any">>

DedupeKey(h) == <<hook[h].task, hook[h].method>>

Deliver(h) ==
  /\ HookGoto(h, "new", "verify")
  /\ \E e \in Event : hook' = [hook EXCEPT ![h] = e]
  /\ UNCHANGED <<dedupe, expiries, queue, fate, working, stores>>

(* Mutant: a bad signature is noted, not refused. *)
VerifyLenient(h) ==
  /\ HookGoto(h, "verify", "dedupe")
  /\ UNCHANGED <<hook, dedupe, expiries, queue, fate, working, stores>>

Verify(h) ==
  /\ hpc[h] = "verify"
  /\ HookGoto(h, "verify", IF hook[h].signed THEN "dedupe" ELSE "logRejected")
  /\ UNCHANGED <<hook, dedupe, expiries, queue, fate, working, stores>>

(* Mutant: SET is tested but the key is not kept. *)
DedupeForgets(h) ==
  /\ hpc[h] = "dedupe"
  /\ HookGoto(h, "dedupe",
       IF DedupeKey(h) \in dedupe THEN "logDuplicate" ELSE "logFirst")
  /\ UNCHANGED <<hook, dedupe, expiries, queue, fate, working, stores>>

(* SET NX: the first delivery takes the key, a later one finds it. *)
Dedupe(h) ==
  /\ hpc[h] = "dedupe"
  /\ HookGoto(h, "dedupe",
       IF DedupeKey(h) \in dedupe THEN "logDuplicate" ELSE "logFirst")
  /\ dedupe' = dedupe \cup {DedupeKey(h)}
  /\ UNCHANGED <<hook, expiries, queue, fate, working, stores>>

(* _log_event commits a row, or swallows the failure: nothing reads the    *)
(* row back here, so the handler goes on alike.                            *)
Log(h) ==
  /\ \/ HookGoto(h, "logRejected", "rejected")
     \/ HookGoto(h, "logDuplicate", "duplicate")
     \/ HookGoto(h, "logFirst", "enqueue")
  /\ UNCHANGED <<hook, dedupe, expiries, queue, fate, working, stores>>

Publish(h) ==
  /\ queue' = queue \cup {[hook |-> h, tries |-> 0, copy |-> 0]}
  /\ fate' = [fate EXCEPT ![h] = "queued"]

Enqueue(h) ==
  /\ HookGoto(h, "enqueue", "accepted")
  /\ Publish(h)
  /\ UNCHANGED <<hook, dedupe, expiries, working, stores>>

(* Redis or the broker raises: a 500, with or without the effect. *)
HookError(h) ==
  /\ \/ /\ HookGoto(h, "dedupe", "error")
        /\ dedupe' \in {dedupe, dedupe \cup {DedupeKey(h)}}
        /\ UNCHANGED <<queue, fate>>
     \/ /\ HookGoto(h, "enqueue", "error")
        /\ Publish(h) \/ UNCHANGED <<queue, fate>>
        /\ UNCHANGED dedupe
  /\ UNCHANGED <<hook, expiries, working, stores>>

HookCrash(h) ==
  /\ hpc[h] \in {"verify", "dedupe", "logRejected", "logDuplicate", "logFirst",
                 "enqueue"}
  /\ hpc' = [hpc EXCEPT ![h] = "crashed"]
  /\ UNCHANGED <<hook, dedupe, expiries, queue, fate, working, stores>>

-----------------------------------------------------------------------------
(* The Celery task. *)
WorkGoto(w, from, to) == wpc[w] = from /\ wpc' = [wpc EXCEPT ![w] = to]
EventOf(w) == hook[msg[w].hook]

(* A message without fields to act on is done at once. *)
Take(w) ==
  /\ wpc[w] = "idle"
  /\ \E m \in queue :
        /\ msg' = [msg EXCEPT ![w] = m]
        /\ queue' = queue \ {m}
        /\ WorkGoto(w, "idle", IF hook[m.hook].method = Blank THEN "ack" ELSE "read")
  /\ UNCHANGED <<ingress, fate, seen, deaths, stores>>

(* Mutants: no look at the status; only a running task may change. *)
AnyStatus(row) == row # NoTask
OnlyRunning(row) == row # NoTask /\ row.status = "running"

MayUpdate(row) == row # NoTask /\ row.status \notin Terminal

Read(w) ==
  /\ wpc[w] = "read"
  /\ LET row == tasks[EventOf(w).task]
     IN IF MayUpdate(row)
        THEN WorkGoto(w, "read", "write") /\ seen' = [seen EXCEPT ![w] = row]
        ELSE WorkGoto(w, "read", "robot") /\ UNCHANGED seen
  /\ UNCHANGED <<ingress, queue, fate, msg, deaths, stores>>

(* Mutant: only a task that started gets an end time. *)
EndIfStarted(row, before, m) ==
  [status  |-> TargetStatus(m),
   started |-> row.started \/ (m = "start" /\ ~before.started),
   ended   |-> row.ended \/ (row.started /\ TargetStatus(m) \in Terminal)]

Forget(w) == seen' = [seen EXCEPT ![w] = NoTask]

(* UPDATE ... WHERE robot_task_code = ..., whatever the row now says. *)
Updated(row, before, m) ==
  [status  |-> TargetStatus(m),
   started |-> row.started \/ (m = "start" /\ ~before.started),
   ended   |-> row.ended \/ TargetStatus(m) \in Terminal]

UpdateTask(w) ==
  LET c == EventOf(w).task
  IN tasks' = [tasks EXCEPT ![c] = Updated(tasks[c], seen[w], EventOf(w).method)]

Write(w) ==
  /\ WorkGoto(w, "write", "robot")
  /\ UpdateTask(w)
  /\ Forget(w)
  /\ UNCHANGED <<ingress, queue, fate, msg, deaths, robots>>

UpdateRobot(w) ==
  robots' = IF EventOf(w).robot = NoRobot THEN robots
            ELSE [robots EXCEPT ![EventOf(w).robot] =
                    [task |-> EventOf(w).task,
                     status |-> TargetStatus(EventOf(w).method)]]

SetRobot(w) ==
  /\ WorkGoto(w, "robot", "ack")
  /\ UpdateRobot(w)
  /\ fate' = [fate EXCEPT ![msg[w].hook] = IF @ = "queued" THEN "applied" ELSE @]
  /\ UNCHANGED <<ingress, queue, msg, seen, deaths, tasks>>

Release(w) ==
  /\ wpc' = [wpc EXCEPT ![w] = "idle"]
  /\ msg' = [msg EXCEPT ![w] = NoMessage]
  /\ Forget(w)

(* acks_late: the broker forgets the message only now. *)
Ack(w) ==
  /\ \/ wpc[w] = "ack" /\ fate' = [fate EXCEPT ![msg[w].hook] = "processed"]
     \/ wpc[w] = "retired" /\ UNCHANGED fate
  /\ Release(w)
  /\ UNCHANGED <<ingress, queue, deaths, stores>>

(* Mutant: the retry budget is not checked. *)
RetryForever(w) ==
  /\ queue' = queue \cup {[msg[w] EXCEPT !.tries = @ + 1]}
  /\ UNCHANGED fate

(* Any exception publishes a successor until the budget is spent. *)
Retry(w) ==
  IF msg[w].tries < MaxRetries
  THEN /\ queue' = queue \cup {[msg[w] EXCEPT !.tries = @ + 1]}
       /\ UNCHANGED fate
  ELSE /\ fate' = [fate EXCEPT ![msg[w].hook] = IF @ = "processed" THEN @ ELSE "dropped"]
       /\ UNCHANGED queue

(* The call that failed may have had its effect. *)
Fail(w) ==
  /\ \E from \in {"read", "write", "robot"} : WorkGoto(w, from, "retired")
  /\ \/ UNCHANGED stores
     \/ wpc[w] = "write" /\ UpdateTask(w) /\ UNCHANGED robots
     \/ wpc[w] = "robot" /\ UpdateRobot(w) /\ UNCHANGED tasks
  /\ Retry(w)
  /\ Forget(w)
  /\ UNCHANGED <<ingress, msg, deaths>>

(* Mutant: the message is acknowledged when the worker takes it. *)
AckedEarly(w) == UNCHANGED queue

(* reject_on_worker_lost: the broker delivers the message again, even one  *)
(* whose successor is already queued.                                      *)
Requeue(w) == queue' = queue \cup {[msg[w] EXCEPT !.copy = deaths + 1]}

WorkerDies(w) ==
  /\ wpc[w] # "idle"
  /\ deaths < MaxDeaths
  /\ deaths' = deaths + 1
  /\ Requeue(w)
  /\ Release(w)
  /\ UNCHANGED <<ingress, fate, stores>>

-----------------------------------------------------------------------------
(* create_task commits the row of a task; keys reach their TTL. *)
RecordTask(c) ==
  /\ tasks[c] = NoTask
  /\ tasks' = [tasks EXCEPT ![c] = Pending]
  /\ UNCHANGED <<ingress, queue, fate, working, robots>>

ExpireDedupe(k) ==
  /\ k \in dedupe
  /\ expiries < MaxExpiries
  /\ expiries' = expiries + 1
  /\ dedupe' = dedupe \ {k}
  /\ UNCHANGED <<hpc, hook, queue, fate, working, stores>>

ExpireRobot(a) ==
  /\ robots[a] # NoState
  /\ robots' = [robots EXCEPT ![a] = NoState]
  /\ UNCHANGED <<ingress, queue, fate, working, tasks>>

Handle(h) == Verify(h) \/ Dedupe(h) \/ Log(h) \/ Enqueue(h)
Work(w) == Read(w) \/ Write(w) \/ SetRobot(w) \/ Ack(w)

Next ==
  \/ \E h \in Hooks : Deliver(h) \/ Handle(h) \/ HookError(h) \/ HookCrash(h)
  \/ \E w \in Workers : Take(w) \/ Work(w) \/ Fail(w) \/ WorkerDies(w)
  \/ \E c \in Tasks : RecordTask(c)
  \/ \E k \in Tasks \X Methods : ExpireDedupe(k)
  \/ \E a \in Robots : ExpireRobot(a)

Spec == Init /\ [][Next]_vars

(* The event loop runs every handler, and every worker process works and   *)
(* takes messages; nothing obliges the RCS, a failure or an expiry.        *)
FairSpec ==
  /\ Spec
  /\ \A h \in Hooks : WF_vars(Handle(h))
  /\ \A w \in Workers : WF_vars(Take(w) \/ Work(w))

-----------------------------------------------------------------------------
TypeOK ==
  /\ hpc \in [Hooks -> HookStage]
  /\ hook \in [Hooks -> Event \cup {NoHook}]
  /\ dedupe \subseteq Tasks \X Methods
  /\ expiries \in 0..MaxExpiries
  /\ queue \subseteq Message
  /\ fate \in [Hooks -> Fates]
  /\ wpc \in [Workers -> WorkStage]
  /\ msg \in [Workers -> Message \cup {NoMessage}]
  /\ seen \in [Workers -> Record \cup {NoTask}]
  /\ deaths \in 0..MaxDeaths
  /\ tasks \in [Tasks -> Record \cup {NoTask}]
  /\ robots \in [Robots -> RobotState \cup {NoState}]

(* No event is lost between the broker and the workers: a message that is *)
(* not settled is held by the queue or by a worker, through retries and    *)
(* deaths, and only a death can double it.                                 *)
Copies(h) ==
  Cardinality({m \in queue : m.hook = h})
    + Cardinality({w \in Workers : msg[w] # NoMessage /\ msg[w].hook = h
                                   /\ wpc[w] # "retired"})

HeldUntilSettled ==
  \A h \in Hooks :
    /\ fate[h] = "unsent" => Copies(h) = 0
    /\ fate[h] \in {"queued", "applied"} => Copies(h) >= 1
    /\ Copies(h) <= 1 + deaths

(* A delivery dropped as a duplicate has a signed twin, with its task and  *)
(* method, that was or is being enqueued, unless a failure stopped it.     *)
PastDedupe == {"logFirst", "enqueue", "accepted", "error", "crashed"}

DuplicateHasTwin ==
  \A h \in Hooks : hpc[h] \in {"logDuplicate", "duplicate"} =>
    \E g \in Hooks \ {h} :
      /\ hpc[g] \in PastDedupe
      /\ hook[g].signed
      /\ hook[g].task = hook[h].task
      /\ hook[g].method = hook[h].method

(* The history and the robot cache say nothing that a signed delivery did  *)
(* not say, and an ended task has its end time, in every interleaving.     *)
Reported(c, s) ==
  \E h \in Hooks : /\ fate[h] # "unsent"
                   /\ hook[h].signed
                   /\ hook[h].task = c
                   /\ TargetStatus(hook[h].method) = s

StatusReported ==
  /\ \A c \in Tasks : tasks[c] # NoTask /\ tasks[c].status # "pending"
       => Reported(c, tasks[c].status)
  /\ \A a \in Robots : robots[a] # NoState
       => Reported(robots[a].task, robots[a].status)

EndTimed ==
  \A c \in Tasks : tasks[c] # NoTask /\ tasks[c].status \in Terminal => tasks[c].ended

(* One event is processed at most once per lifetime of its dedupe key,     *)
(* however often the RCS repeats it.                                       *)
FirstDeliveries(k) ==
  {h \in Hooks : fate[h] # "unsent" /\ DedupeKey(h) = k}

ProcessedOncePerKey ==
  \A k \in Tasks \X Methods : Cardinality(FirstDeliveries(k)) <= 1 + expiries

Ends(h) == hook[h] # NoHook /\ hook[h].method # Blank
           /\ TargetStatus(hook[h].method) \in Terminal
Known(c) == tasks[c] # NoTask

(* An end that is about to be enqueued for a recorded task ends the task,  *)
(* unless the enqueue itself fails or the retries run out.  A row that is  *)
(* committed later can miss it: the worker drops feedback for an unknown   *)
(* task.                                                                   *)
EndReachesTask ==
  \A h \in Hooks, c \in Tasks :
    (hpc[h] = "enqueue" /\ Ends(h) /\ hook[h].task = c /\ Known(c))
      ~> \/ Known(c) /\ tasks[c].ended
         \/ fate[h] = "dropped"
         \/ hpc[h] \in {"error", "crashed"}

(* Every message that reaches the broker is settled and all its copies are *)
(* gone, given the retry budget and finitely many worker deaths.           *)
EveryMessageSettled ==
  \A h \in Hooks :
    Copies(h) > 0 ~> fate[h] \in {"processed", "dropped"} /\ Copies(h) = 0

(* However many workers there are, the status of a task changes only by an *)
(* update whose read found the task open: feedback that a worker takes up  *)
(* after the end, late or redelivered, changes nothing any more.           *)
Updates == {<<w, EventOf(w).task>> : w \in {v \in Workers : wpc[v] = "write"}}

Lifecycle == INSTANCE TaskLifecycle WITH
  state <- [c \in Tasks |-> IF tasks[c] = NoTask THEN "absent" ELSE tasks[c].status],
  updating <- Updates

ImplementsLifecycle == Lifecycle!Spec
=============================================================================
