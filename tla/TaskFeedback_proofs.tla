------------------------ MODULE TaskFeedback_proofs ------------------------
(***************************************************************************)
(* Theorems about TaskFeedback, for any sets of deliveries, workers, tasks,*)
(* robots and methods and any retry budget, finite or not.                 *)
(***************************************************************************)
EXTENDS TaskFeedback, FiniteSetTheorems, TLAPS

(* What a stage promises about the locals of its handler or worker: a      *)
(* delivery has arrived, only a signed one reaches Redis, a busy worker    *)
(* holds a message, one about to update has read the row.                  *)
SignedStage == {"dedupe", "logDuplicate", "logFirst", "enqueue", "duplicate",
                "accepted", "error"}

Filled ==
  /\ \A h \in Hooks : hpc[h] # "new" => hook[h] \in Event
  /\ \A h \in Hooks : hpc[h] \in SignedStage => hook[h].signed
  /\ \A w \in Workers : /\ wpc[w] # "idle" => msg[w] \in Message
                        /\ wpc[w] = "idle" => msg[w] = NoMessage
                        /\ wpc[w] = "write" => seen[w] \in Record

(* Only what the handler published is ever in the queue or with a worker,  *)
(* and a handler publishes on its way from enqueue to its answer.          *)
Sent ==
  /\ \A h \in Hooks : fate[h] # "unsent" => hpc[h] \in {"accepted", "error"}
  /\ \A m \in queue : fate[m.hook] # "unsent"
  /\ \A w \in Workers : wpc[w] # "idle" => fate[msg[w].hook] # "unsent"

(* The row that a worker is about to update is there.                      *)
RowFound ==
  \A w \in Workers : wpc[w] = "write" => tasks[EventOf(w).task] \in Record

Typed == TypeOK /\ Filled /\ Sent /\ RowFound

(* Every method that the RCS may send, known or not, has a target status.  *)
LEMMA TargetTyped ==
  \A m : TargetStatus(m) \in {"running", "completed", "failed"}
BY DEF TargetStatus, MethodStatus

(* An update makes a row of a row.                                         *)
LEMMA UpdatedTyped ==
  ASSUME NEW row \in Record, NEW before \in Record, NEW m
  PROVE  Updated(row, before, m) \in Record
BY TargetTyped DEF Updated, Record, Status, Terminal

(* A busy worker's message is about a signed delivery that has arrived.    *)
LEMMA EventTyped ==
  ASSUME Typed, NEW w \in Workers, wpc[w] # "idle"
  PROVE  /\ msg[w] \in Message /\ msg[w].hook \in Hooks
         /\ EventOf(w) \in Event /\ EventOf(w).signed
         /\ fate[msg[w].hook] # "unsent"
BY DEF Typed, TypeOK, Filled, Sent, EventOf, Message, SignedStage, HookStage

LEMMA TypeInit == Init => Typed
BY FeedbackAssumption
DEF Init, Typed, TypeOK, Filled, Sent, RowFound, HookStage, WorkStage, Fates, SignedStage

(* Publishing sends the message of this delivery and of no other.          *)
LEMMA PublishTyped ==
  ASSUME Typed, NEW h \in Hooks, Publish(h)
  PROVE  /\ queue' \subseteq Message
         /\ fate' \in [Hooks -> Fates]
         /\ \A g \in Hooks : fate'[g] # "unsent" <=> g = h \/ fate[g] # "unsent"
         /\ \A m \in queue' : fate'[m.hook] # "unsent"
BY FeedbackAssumption DEF Typed, TypeOK, Sent, Publish, Message, Fates

(* The writes of a worker, whether the call then reports or raises.        *)
LEMMA UpdateTaskTyped ==
  ASSUME Typed, NEW w \in Workers, wpc[w] = "write", UpdateTask(w)
  PROVE  /\ tasks' \in [Tasks -> Record \cup {NoTask}]
         /\ \A c \in Tasks : tasks[c] \in Record => tasks'[c] \in Record
<1> DEFINE c == EventOf(w).task
<1>1. c \in Tasks /\ tasks[c] \in Record /\ seen[w] \in Record
  BY EventTyped DEF Typed, Filled, RowFound, Event
<1>2. Updated(tasks[c], seen[w], EventOf(w).method) \in Record
  BY <1>1, UpdatedTyped
<1> QED
  BY <1>1, <1>2 DEF Typed, TypeOK, UpdateTask

LEMMA UpdateRobotTyped ==
  ASSUME Typed, NEW w \in Workers, wpc[w] = "robot", UpdateRobot(w)
  PROVE  robots' \in [Robots -> RobotState \cup {NoState}]
<1>1. /\ EventOf(w).task \in Tasks
      /\ EventOf(w).robot \in Robots \cup {NoRobot}
  BY EventTyped DEF Event
<1>2. TargetStatus(EventOf(w).method) \in Status
  BY TargetTyped DEF Status, Terminal
<1> QED
  BY <1>1, <1>2 DEF Typed, TypeOK, UpdateRobot, RobotState

(* A retry publishes a successor about the same delivery, or drops it.     *)
LEMMA RetryTyped ==
  ASSUME Typed, NEW w \in Workers, wpc[w] # "idle", Retry(w)
  PROVE  /\ queue' \subseteq Message
         /\ fate' \in [Hooks -> Fates]
         /\ \A h \in Hooks : fate'[h] # "unsent" <=> fate[h] # "unsent"
         /\ \A m \in queue' : fate'[m.hook] # "unsent"
<1>1. msg[w] \in Message /\ fate[msg[w].hook] # "unsent"
  BY EventTyped
<1> USE FeedbackAssumption DEF Typed, TypeOK, Sent, Message, Retry
<1>2. CASE msg[w].tries < MaxRetries
  <2>1. [msg[w] EXCEPT !.tries = @ + 1] \in Message
    BY <1>1, <1>2
  <2>2. [msg[w] EXCEPT !.tries = @ + 1].hook = msg[w].hook
    BY <1>1
  <2> QED
    BY <1>1, <1>2, <2>1, <2>2
<1>3. CASE ~(msg[w].tries < MaxRetries)
  BY <1>1, <1>3 DEF Fates
<1> QED
  BY <1>2, <1>3

(* A requeued message is about the same delivery.                          *)
LEMMA RequeueTyped ==
  ASSUME Typed, NEW w \in Workers, wpc[w] # "idle", deaths < MaxDeaths, Requeue(w)
  PROVE  /\ queue' \subseteq Message
         /\ \A m \in queue' : fate[m.hook] # "unsent"
<1>1. msg[w] \in Message /\ fate[msg[w].hook] # "unsent"
  BY EventTyped
<1> DEFINE again == [msg[w] EXCEPT !.copy = deaths + 1]
<1>2. again \in Message /\ again.hook = msg[w].hook
  BY <1>1, FeedbackAssumption DEF Typed, TypeOK, Message
<1> QED
  BY <1>1, <1>2 DEF Typed, TypeOK, Sent, Requeue

LEMMA TypeStep == Typed /\ [Next]_vars => Typed'
<1> SUFFICES ASSUME Typed, [Next]_vars PROVE Typed'
  OBVIOUS
<1> USE DEF Typed, TypeOK, Filled, Sent, RowFound, EventOf, SignedStage
<1>1. ASSUME NEW h \in Hooks, Deliver(h) PROVE Typed'
  BY <1>1 DEF Deliver, HookGoto, HookStage, working, stores, Message
<1>2. ASSUME NEW h \in Hooks, Verify(h) PROVE Typed'
  BY <1>2 DEF Verify, HookGoto, HookStage, working, stores
<1>3. ASSUME NEW h \in Hooks, Dedupe(h) PROVE Typed'
  <2>1. DedupeKey(h) \in Tasks \X Methods
    BY <1>3 DEF Dedupe, DedupeKey, Event
  <2> QED
    BY <1>3, <2>1 DEF Dedupe, HookGoto, HookStage, working, stores
<1>4. ASSUME NEW h \in Hooks, Log(h) PROVE Typed'
  BY <1>4 DEF Log, HookGoto, HookStage, working, stores
<1>5. ASSUME NEW h \in Hooks, Enqueue(h) PROVE Typed'
  BY <1>5, PublishTyped, EventTyped DEF Enqueue, HookGoto, HookStage, working, stores
<1>6. ASSUME NEW h \in Hooks, HookError(h) PROVE Typed'
  <2>1. DedupeKey(h) \in Tasks \X Methods
    BY <1>6 DEF HookError, HookGoto, DedupeKey, Event
  <2>2. UNCHANGED <<queue, fate>> \/ Publish(h)
    BY <1>6 DEF HookError
  <2> QED
    BY <1>6, <2>1, <2>2, PublishTyped, EventTyped
    DEF HookError, HookGoto, HookStage, working, stores
<1>7. ASSUME NEW h \in Hooks, HookCrash(h) PROVE Typed'
  BY <1>7 DEF HookCrash, HookStage, working, stores
<1>8. ASSUME NEW w \in Workers, Take(w) PROVE Typed'
  BY <1>8 DEF Take, WorkGoto, WorkStage, ingress, stores
<1>9. ASSUME NEW w \in Workers, Read(w) PROVE Typed'
  <2>1. EventOf(w).task \in Tasks
    BY <1>9, EventTyped DEF Read, Event
  <2> QED
    BY <1>9, <2>1 DEF Read, MayUpdate, WorkGoto, WorkStage, ingress, stores
<1>10. ASSUME NEW w \in Workers, Write(w) PROVE Typed'
  BY <1>10, UpdateTaskTyped, EventTyped
  DEF Write, Forget, WorkGoto, WorkStage, ingress, Event
<1>11. ASSUME NEW w \in Workers, SetRobot(w) PROVE Typed'
  <2>1. fate' \in [Hooks -> Fates]
    BY <1>11, EventTyped DEF SetRobot, Fates, WorkGoto
  <2> QED
    BY <1>11, <2>1, UpdateRobotTyped, EventTyped DEF SetRobot, WorkGoto, WorkStage, ingress
<1>12. ASSUME NEW w \in Workers, Ack(w) PROVE Typed'
  <2>1. fate' \in [Hooks -> Fates]
    BY <1>12, EventTyped DEF Ack, Fates
  <2>2. \A h \in Hooks : fate'[h] # "unsent" <=> fate[h] # "unsent"
    BY <1>12, EventTyped DEF Ack
  <2> QED
    BY <1>12, <2>1, <2>2 DEF Ack, Release, Forget, WorkStage, ingress, stores, Message
<1>13. ASSUME NEW w \in Workers, Fail(w) PROVE Typed'
  <2>1. wpc[w] \in {"read", "write", "robot"} /\ wpc' = [wpc EXCEPT ![w] = "retired"]
    BY <1>13 DEF Fail, WorkGoto
  <2>2. /\ robots' \in [Robots -> RobotState \cup {NoState}]
        /\ tasks' \in [Tasks -> Record \cup {NoTask}]
        /\ \A c \in Tasks : tasks[c] \in Record => tasks'[c] \in Record
    BY <1>13, UpdateTaskTyped, UpdateRobotTyped DEF Fail, stores
  <2> QED
    BY <1>13, <2>1, <2>2, RetryTyped, EventTyped DEF Fail, Forget, WorkStage, ingress, Event
<1>14. ASSUME NEW w \in Workers, WorkerDies(w) PROVE Typed'
  BY <1>14, RequeueTyped, FeedbackAssumption
  DEF WorkerDies, Release, Forget, WorkStage, ingress, stores
<1>15. ASSUME NEW c \in Tasks, RecordTask(c) PROVE Typed'
  BY <1>15 DEF RecordTask, Pending, Record, Status, ingress, working
<1>16. ASSUME NEW k \in Tasks \X Methods, ExpireDedupe(k) PROVE Typed'
  BY <1>16, FeedbackAssumption DEF ExpireDedupe, working, stores
<1>17. ASSUME NEW a \in Robots, ExpireRobot(a) PROVE Typed'
  BY <1>17 DEF ExpireRobot, ingress, working
<1>18. CASE UNCHANGED vars
  BY <1>18 DEF vars
<1> QED
  BY <1>1, <1>2, <1>3, <1>4, <1>5, <1>6, <1>7, <1>8, <1>9, <1>10, <1>11, <1>12, <1>13,
     <1>14, <1>15, <1>16, <1>17, <1>18 DEF Next, Handle, Work

(* The feedback pipeline never leaves the types of its state: no stage is  *)
(* reached without the locals it reads, through retries and deaths.        *)
THEOREM TypeCorrect == Spec => []TypeOK
<1>1. Spec => []Typed
  BY TypeInit, TypeStep, PTL DEF Spec
<1>2. Typed => TypeOK
  BY DEF Typed
<1> QED
  BY <1>1, <1>2, PTL

-----------------------------------------------------------------------------
(* What one step may do to each part of the state.                         *)

(* A delivery keeps what it says, its place past the dedupe key and, once  *)
(* published, the fact that it was.                                        *)
LEMMA StepDelivery ==
  ASSUME Typed, [Next]_vars, NEW h \in Hooks
  PROVE  /\ hpc[h] # "new" => hook'[h] = hook[h]
         /\ hpc[h] \in PastDedupe => hpc'[h] \in PastDedupe
         /\ fate[h] # "unsent" => fate'[h] # "unsent"
<1> DEFINE Kept == /\ hpc[h] # "new" => hook'[h] = hook[h]
                   /\ hpc[h] \in PastDedupe => hpc'[h] \in PastDedupe
                   /\ fate[h] # "unsent" => fate'[h] # "unsent"
<1> USE DEF Typed, TypeOK, PastDedupe
<1>1. ASSUME NEW g \in Hooks, Deliver(g) \/ Handle(g) PROVE Kept
  BY <1>1 DEF Handle, Deliver, Verify, Dedupe, Log, Enqueue, Publish, HookGoto
<1>2. ASSUME NEW g \in Hooks, HookError(g) \/ HookCrash(g) PROVE Kept
  BY <1>2 DEF HookError, HookCrash, Publish, HookGoto
<1>3. ASSUME NEW w \in Workers, Take(w) \/ Read(w) \/ Write(w) PROVE Kept
  BY <1>3 DEF Take, Read, Write, ingress
<1>4. ASSUME NEW w \in Workers, SetRobot(w) \/ Ack(w) PROVE Kept
  BY <1>4 DEF SetRobot, Ack, ingress
<1>5. ASSUME NEW w \in Workers, Fail(w) \/ WorkerDies(w) PROVE Kept
  BY <1>5 DEF Fail, Retry, WorkerDies, ingress
<1>6. ASSUME NEW c \in Tasks, RecordTask(c) PROVE Kept
  BY <1>6 DEF RecordTask, ingress
<1>7. ASSUME NEW k \in Tasks \X Methods, ExpireDedupe(k) PROVE Kept
  BY <1>7 DEF ExpireDedupe
<1>8. ASSUME NEW a \in Robots, ExpireRobot(a) PROVE Kept
  BY <1>8 DEF ExpireRobot, ingress
<1>9. CASE UNCHANGED vars
  BY <1>9 DEF vars
<1> QED
  BY <1>1, <1>2, <1>3, <1>4, <1>5, <1>6, <1>7, <1>8, <1>9 DEF Next, Work

(* The table and the robot cache change by the write of a worker, by the   *)
(* commit of a new row and by expiry.                                      *)
StoreStep ==
  /\ \/ UNCHANGED tasks
     \/ \E c \in Tasks : tasks[c] = NoTask /\ tasks' = [tasks EXCEPT ![c] = Pending]
     \/ \E w \in Workers : wpc[w] = "write" /\ UpdateTask(w)
  /\ \/ UNCHANGED robots
     \/ \E a \in Robots : robots' = [robots EXCEPT ![a] = NoState]
     \/ \E w \in Workers : wpc[w] = "robot" /\ UpdateRobot(w)

LEMMA StepStores ==
  ASSUME Typed, [Next]_vars
  PROVE  StoreStep
<1> USE DEF StoreStep, stores
<1>1. ASSUME NEW h \in Hooks, Deliver(h) \/ Handle(h) PROVE StoreStep
  BY <1>1 DEF Handle, Deliver, Verify, Dedupe, Log, Enqueue
<1>2. ASSUME NEW h \in Hooks, HookError(h) \/ HookCrash(h) PROVE StoreStep
  BY <1>2 DEF HookError, HookCrash
<1>3. ASSUME NEW w \in Workers, Take(w) \/ Work(w) PROVE StoreStep
  BY <1>3 DEF Work, Take, Read, Write, SetRobot, Ack, WorkGoto
<1>4. ASSUME NEW w \in Workers, Fail(w) \/ WorkerDies(w) PROVE StoreStep
  BY <1>4 DEF Fail, WorkerDies
<1>5. ASSUME NEW c \in Tasks, RecordTask(c) PROVE StoreStep
  BY <1>5 DEF RecordTask
<1>6. ASSUME NEW k \in Tasks \X Methods, ExpireDedupe(k) PROVE StoreStep
  BY <1>6 DEF ExpireDedupe
<1>7. ASSUME NEW a \in Robots, ExpireRobot(a) PROVE StoreStep
  BY <1>7 DEF ExpireRobot
<1>8. CASE UNCHANGED vars
  BY <1>8 DEF vars
<1> QED
  BY <1>1, <1>2, <1>3, <1>4, <1>5, <1>6, <1>7, <1>8 DEF Next

-----------------------------------------------------------------------------
(* What the history and the robot cache say.                               *)

(* A published delivery keeps what it says.                                *)
LEMMA PublishedStable ==
  ASSUME Typed, [Next]_vars, NEW h \in Hooks, fate[h] # "unsent"
  PROVE  fate'[h] # "unsent" /\ hook'[h] = hook[h]
BY StepDelivery DEF Typed, Sent

(* What a worker writes was reported by the delivery it works on.          *)
LEMMA WriterReported ==
  ASSUME Typed, [Next]_vars, NEW w \in Workers, wpc[w] # "idle"
  PROVE  \E h \in Hooks : /\ fate'[h] # "unsent"
                          /\ hook'[h] = EventOf(w)
                          /\ EventOf(w).signed
BY EventTyped, PublishedStable DEF EventOf

LEMMA StatusStep ==
  ASSUME Typed, StatusReported, [Next]_vars
  PROVE  StatusReported'
<1> USE DEF Reported
<1>1. ASSUME NEW c \in Tasks, tasks'[c] # NoTask, tasks'[c].status # "pending"
      PROVE  Reported(c, tasks[c].status)'
  <2>1. CASE tasks'[c] = tasks[c]
    BY <1>1, <2>1, PublishedStable DEF StatusReported
  <2>2. CASE \E d \in Tasks : tasks' = [tasks EXCEPT ![d] = Pending]
    BY <1>1, <2>1, <2>2 DEF Pending, Typed, TypeOK
  <2>3. ASSUME NEW w \in Workers, wpc[w] = "write", UpdateTask(w)
        PROVE  Reported(c, tasks[c].status)'
    <3>1. CASE c = EventOf(w).task
      <4>1. tasks'[c].status = TargetStatus(EventOf(w).method)
        BY <1>1, <2>3, <3>1 DEF UpdateTask, Updated, Typed, TypeOK
      <4> QED
        BY <2>3, <3>1, <4>1, WriterReported
    <3>2. CASE c # EventOf(w).task
      BY <2>1, <2>3, <3>2 DEF UpdateTask, Typed, TypeOK
    <3> QED
      BY <3>1, <3>2
  <2> QED
    BY <2>1, <2>2, <2>3, StepStores DEF StoreStep
<1>2. ASSUME NEW a \in Robots, robots'[a] # NoState
      PROVE  Reported(robots[a].task, robots[a].status)'
  <2>1. CASE robots'[a] = robots[a]
    BY <1>2, <2>1, PublishedStable DEF StatusReported
  <2>2. CASE \E b \in Robots : robots' = [robots EXCEPT ![b] = NoState]
    BY <1>2, <2>1, <2>2 DEF Typed, TypeOK
  <2>3. ASSUME NEW w \in Workers, wpc[w] = "robot", UpdateRobot(w),
               robots'[a] # robots[a]
        PROVE  Reported(robots[a].task, robots[a].status)'
    <3>1. robots'[a] = [task |-> EventOf(w).task,
                        status |-> TargetStatus(EventOf(w).method)]
      BY <2>3 DEF UpdateRobot, Typed, TypeOK
    <3> QED
      BY <2>3, <3>1, WriterReported
  <2> QED
    BY <2>1, <2>2, <2>3, StepStores DEF StoreStep
<1> QED
  BY <1>1, <1>2 DEF StatusReported

(* The history and the robot cache say nothing that a signed delivery did  *)
(* not say, whatever the interleaving of workers, retries and expiries.    *)
THEOREM HistoryReported == Spec => []StatusReported
<1>1. Init => Typed /\ StatusReported
  BY TypeInit DEF Init, StatusReported
<1>2. Typed /\ StatusReported /\ [Next]_vars => Typed' /\ StatusReported'
  BY TypeStep, StatusStep
<1> QED
  BY <1>1, <1>2, PTL DEF Spec

LEMMA EndTimedStep ==
  ASSUME Typed, EndTimed, [Next]_vars
  PROVE  EndTimed'
<1> SUFFICES ASSUME NEW c \in Tasks, tasks'[c] # NoTask, tasks'[c].status \in Terminal
             PROVE  tasks'[c].ended
  BY DEF EndTimed
<1>1. CASE tasks'[c] = tasks[c]
  BY <1>1 DEF EndTimed
<1>2. CASE \E d \in Tasks : tasks' = [tasks EXCEPT ![d] = Pending]
  BY <1>1, <1>2 DEF Pending, Terminal, Typed, TypeOK
<1>3. ASSUME NEW w \in Workers, wpc[w] = "write", UpdateTask(w)
      PROVE  tasks'[c].ended
  BY <1>1, <1>3 DEF UpdateTask, Updated, Typed, TypeOK
<1> QED
  BY <1>1, <1>2, <1>3, StepStores DEF StoreStep

(* An ended task has its end time, also when two workers update one row    *)
(* from what they read before the other's write.                           *)
THEOREM EndsTimed == Spec => []EndTimed
<1>1. Init => Typed /\ EndTimed
  BY TypeInit DEF Init, EndTimed
<1>2. Typed /\ EndTimed /\ [Next]_vars => Typed' /\ EndTimed'
  BY TypeStep, EndTimedStep
<1> QED
  BY <1>1, <1>2, PTL DEF Spec

-----------------------------------------------------------------------------
(* Deduplication.  Every key in Redis was put there by a signed delivery   *)
(* that is past it; the key of a delivery is among those of its twins.     *)
KeyOwned ==
  \A k \in dedupe : \E g \in Hooks : /\ hpc[g] \in PastDedupe
                                     /\ hook[g].signed
                                     /\ DedupeKey(g) = k

(* The deliveries that are, or were, let through under a key: no more than *)
(* the expiries so far and the key that is there now account for.          *)
Through(h) == hpc[h] \in {"logFirst", "enqueue"} \/ fate[h] # "unsent"
LetThrough(k) == {h \in Hooks : Through(h) /\ DedupeKey(h) = k}

KeyBudget ==
  \A k \in Tasks \X Methods :
    /\ IsFiniteSet(LetThrough(k))
    /\ Cardinality(LetThrough(k)) <= expiries + (IF k \in dedupe THEN 1 ELSE 0)

(* SET NX lets one delivery through and takes its key, or finds the key;   *)
(* a key expires; no other step lets a delivery through or calls it a      *)
(* duplicate.                                                              *)
Duplicate(h) == hpc[h] \in {"logDuplicate", "duplicate"}

KeyTaken ==
  \E h \in Hooks : /\ hpc[h] = "dedupe"
                   /\ DedupeKey(h) \notin dedupe
                   /\ dedupe' = dedupe \cup {DedupeKey(h)}
                   /\ \E s \in {"logFirst", "error"} : hpc' = [hpc EXCEPT ![h] = s]
                   /\ UNCHANGED <<hook, fate, expiries>>

KeyFound ==
  \E h \in Hooks : /\ hpc[h] = "dedupe"
                   /\ DedupeKey(h) \in dedupe
                   /\ hpc' = [hpc EXCEPT ![h] = "logDuplicate"]
                   /\ UNCHANGED <<dedupe, hook, fate, expiries>>

KeyExpired ==
  \E k \in dedupe : /\ dedupe' = dedupe \ {k}
                    /\ expiries' = expiries + 1
                    /\ UNCHANGED <<hpc, hook, fate>>

NoneLetIn ==
  /\ UNCHANGED <<dedupe, expiries>>
  /\ \A h \in Hooks : /\ Through(h)' => Through(h) /\ hook'[h] = hook[h]
                      /\ Duplicate(h)' => Duplicate(h)

DedupeStep == KeyTaken \/ KeyFound \/ KeyExpired \/ NoneLetIn

LEMMA StepDedupe ==
  ASSUME Typed, [Next]_vars
  PROVE  DedupeStep
<1> USE DEF Typed, TypeOK, HookGoto, Through, Duplicate
<1>1. ASSUME NEW h \in Hooks, Deliver(h) \/ Verify(h) PROVE NoneLetIn
  BY <1>1 DEF Deliver, Verify, NoneLetIn, Sent
<1>2. ASSUME NEW h \in Hooks, Dedupe(h) PROVE KeyTaken \/ KeyFound
  <2>1. CASE DedupeKey(h) \in dedupe
    BY <1>2, <2>1 DEF Dedupe, KeyFound
  <2>2. CASE DedupeKey(h) \notin dedupe
    BY <1>2, <2>2 DEF Dedupe, KeyTaken
  <2> QED
    BY <2>1, <2>2
<1>3. ASSUME NEW h \in Hooks, Log(h) \/ HookCrash(h) PROVE NoneLetIn
  BY <1>3 DEF Log, HookCrash, NoneLetIn
<1>4. ASSUME NEW h \in Hooks, Enqueue(h) PROVE NoneLetIn
  BY <1>4 DEF Enqueue, Publish, NoneLetIn
<1>5. ASSUME NEW h \in Hooks, HookError(h) PROVE KeyTaken \/ NoneLetIn
  <2>1. CASE UNCHANGED dedupe
    BY <1>5, <2>1 DEF HookError, Publish, NoneLetIn
  <2>2. CASE dedupe' # dedupe
    BY <1>5, <2>2 DEF HookError, KeyTaken
  <2> QED
    BY <2>1, <2>2
<1>6. ASSUME NEW w \in Workers, Take(w) \/ Read(w) \/ Write(w) PROVE NoneLetIn
  BY <1>6 DEF Take, Read, Write, ingress, NoneLetIn
<1>7. ASSUME NEW w \in Workers, SetRobot(w) \/ Ack(w) PROVE NoneLetIn
  BY <1>7, EventTyped DEF SetRobot, Ack, WorkGoto, ingress, NoneLetIn
<1>8. ASSUME NEW w \in Workers, Fail(w) PROVE NoneLetIn
  BY <1>8, RetryTyped DEF Fail, WorkGoto, ingress, NoneLetIn
<1>9. ASSUME NEW w \in Workers, WorkerDies(w) PROVE NoneLetIn
  BY <1>9 DEF WorkerDies, ingress, NoneLetIn
<1>10. ASSUME NEW c \in Tasks, RecordTask(c) PROVE NoneLetIn
  BY <1>10 DEF RecordTask, ingress, NoneLetIn
<1>11. ASSUME NEW k \in Tasks \X Methods, ExpireDedupe(k) PROVE KeyExpired
  BY <1>11 DEF ExpireDedupe, KeyExpired
<1>12. ASSUME NEW a \in Robots, ExpireRobot(a) PROVE NoneLetIn
  BY <1>12 DEF ExpireRobot, ingress, NoneLetIn
<1>13. CASE UNCHANGED vars
  BY <1>13 DEF vars, NoneLetIn, DedupeStep
<1> QED
  BY <1>1, <1>2, <1>3, <1>4, <1>5, <1>6, <1>7, <1>8, <1>9, <1>10, <1>11, <1>12, <1>13
  DEF Next, Handle, Work, DedupeStep

(* An owner of a key stays one.                                            *)
Owns(g, k) == hpc[g] \in PastDedupe /\ hook[g].signed /\ DedupeKey(g) = k

LEMMA OwnerStable ==
  ASSUME Typed, [Next]_vars, NEW g \in Hooks, NEW k, Owns(g, k)
  PROVE  /\ hpc'[g] \in PastDedupe /\ hook'[g].signed
         /\ <<hook'[g].task, hook'[g].method>> = k
BY StepDelivery DEF Owns, PastDedupe, DedupeKey

LEMMA KeyOwnedStep ==
  ASSUME Typed, KeyOwned, [Next]_vars
  PROVE  KeyOwned'
<1> SUFFICES ASSUME NEW k \in dedupe'
             PROVE  \E g \in Hooks : /\ hpc'[g] \in PastDedupe /\ hook'[g].signed
                                     /\ <<hook'[g].task, hook'[g].method>> = k
  BY DEF KeyOwned, DedupeKey
<1>1. CASE k \in dedupe
  BY <1>1, OwnerStable DEF KeyOwned, Owns
<1>2. CASE KeyTaken /\ k \notin dedupe
  BY <1>2 DEF KeyTaken, DedupeKey, PastDedupe, Typed, TypeOK, Filled, SignedStage
<1> QED
  BY <1>1, <1>2, StepDedupe DEF DedupeStep, KeyFound, KeyExpired, NoneLetIn

LEMMA TwinStep ==
  ASSUME Typed, KeyOwned, DuplicateHasTwin, [Next]_vars
  PROVE  DuplicateHasTwin'
<1> SUFFICES ASSUME NEW h \in Hooks, Duplicate(h)'
             PROVE  \E g \in Hooks \ {h} : /\ hpc'[g] \in PastDedupe /\ hook'[g].signed
                                           /\ hook'[g].task = hook'[h].task
                                           /\ hook'[g].method = hook'[h].method
  BY DEF DuplicateHasTwin, Duplicate
<1>1. CASE Duplicate(h)
  <2>1. PICK g \in Hooks \ {h} : Owns(g, <<hook[h].task, hook[h].method>>)
    BY <1>1 DEF DuplicateHasTwin, Duplicate, Owns, DedupeKey
  <2>2. hook'[h] = hook[h]
    BY <1>1, StepDelivery DEF Duplicate
  <2> QED
    BY <2>1, <2>2, OwnerStable
<1>2. CASE KeyFound /\ ~Duplicate(h)
  <2>1. hpc[h] = "dedupe" /\ DedupeKey(h) \in dedupe /\ hook' = hook
    BY <1>2 DEF KeyFound, Duplicate, Typed, TypeOK
  <2>2. PICK g \in Hooks : Owns(g, DedupeKey(h))
    BY <2>1 DEF KeyOwned, Owns
  <2>3. g # h
    BY <2>1, <2>2 DEF Owns, PastDedupe
  <2> QED
    BY <2>1, <2>2, <2>3, OwnerStable DEF DedupeKey
<1>3. CASE KeyTaken /\ ~Duplicate(h)
  BY <1>3 DEF KeyTaken, Duplicate, Typed, TypeOK
<1> QED
  BY <1>1, <1>2, <1>3, StepDedupe DEF DedupeStep, KeyExpired, NoneLetIn, Duplicate

(* A delivery is dropped as a duplicate only for a signed twin that was    *)
(* let through or met a failure, whatever expires in between.              *)
THEOREM DuplicatesTwinned == Spec => []DuplicateHasTwin
<1> DEFINE Inv == Typed /\ KeyOwned /\ DuplicateHasTwin
<1>1. Init => Inv
  BY TypeInit DEF Init, KeyOwned, DuplicateHasTwin
<1>2. Inv /\ [Next]_vars => Inv'
  BY TypeStep, KeyOwnedStep, TwinStep
<1> QED
  BY <1>1, <1>2, PTL DEF Spec

LEMMA BudgetStep ==
  ASSUME Typed, KeyBudget, [Next]_vars
  PROVE  KeyBudget'
<1> SUFFICES ASSUME NEW k \in Tasks \X Methods
             PROVE  /\ IsFiniteSet(LetThrough(k)')
                    /\ Cardinality(LetThrough(k)')
                         <= expiries' + (IF k \in dedupe' THEN 1 ELSE 0)
  BY DEF KeyBudget
<1>1. /\ IsFiniteSet(LetThrough(k))
      /\ Cardinality(LetThrough(k)) \in Nat /\ expiries \in Nat
      /\ Cardinality(LetThrough(k)) <= expiries + (IF k \in dedupe THEN 1 ELSE 0)
  BY FS_CardinalityType, FeedbackAssumption DEF KeyBudget, Typed, TypeOK
<1>2. ASSUME LetThrough(k)' \subseteq LetThrough(k)
      PROVE  /\ IsFiniteSet(LetThrough(k)')
             /\ Cardinality(LetThrough(k)') \in Nat
             /\ Cardinality(LetThrough(k)') <= Cardinality(LetThrough(k))
  BY <1>1, <1>2, FS_Subset, FS_CardinalityType
<1>3. CASE KeyTaken
  <2>1. PICK h \in Hooks : /\ hpc[h] = "dedupe"
                           /\ DedupeKey(h) \notin dedupe
                           /\ dedupe' = dedupe \cup {DedupeKey(h)}
                           /\ \E s \in {"logFirst", "error"} : hpc' = [hpc EXCEPT ![h] = s]
                           /\ UNCHANGED <<hook, fate, expiries>>
    BY <1>3 DEF KeyTaken
  <2>2. CASE DedupeKey(h) = k
    <3>1. LetThrough(k)' \subseteq LetThrough(k) \cup {h}
      BY <2>1 DEF LetThrough, Through, DedupeKey, Typed, TypeOK
    <3>2. /\ IsFiniteSet(LetThrough(k) \cup {h})
          /\ Cardinality(LetThrough(k) \cup {h}) \in Nat
          /\ Cardinality(LetThrough(k) \cup {h}) <= Cardinality(LetThrough(k)) + 1
      <4>1. /\ IsFiniteSet(LetThrough(k) \cup {h})
            /\ Cardinality(LetThrough(k) \cup {h}) =
                 IF h \in LetThrough(k) THEN Cardinality(LetThrough(k))
                 ELSE Cardinality(LetThrough(k)) + 1
        BY <1>1, FS_AddElement, Zenon
      <4> QED
        BY <1>1, <4>1
    <3>3. /\ IsFiniteSet(LetThrough(k)')
          /\ Cardinality(LetThrough(k)') \in Nat
          /\ Cardinality(LetThrough(k)') <= Cardinality(LetThrough(k) \cup {h})
      BY <3>1, <3>2, FS_Subset, FS_CardinalityType
    <3> QED
      BY <1>1, <2>1, <2>2, <3>2, <3>3
  <2>3. CASE DedupeKey(h) # k
    <3>1. LetThrough(k)' \subseteq LetThrough(k)
      BY <2>1, <2>3 DEF LetThrough, Through, DedupeKey, Typed, TypeOK
    <3> QED
      BY <1>1, <1>2, <2>1, <2>3, <3>1
  <2> QED
    BY <2>2, <2>3
<1>4. CASE KeyFound
  <2>1. LetThrough(k)' \subseteq LetThrough(k)
    BY <1>4 DEF KeyFound, LetThrough, Through, DedupeKey, Typed, TypeOK
  <2> QED
    BY <1>1, <1>2, <1>4, <2>1 DEF KeyFound
<1>5. CASE KeyExpired
  <2>1. LetThrough(k)' \subseteq LetThrough(k)
    BY <1>5 DEF KeyExpired, LetThrough, Through, DedupeKey
  <2> QED
    BY <1>1, <1>2, <1>5, <2>1 DEF KeyExpired
<1>6. CASE NoneLetIn
  <2>1. LetThrough(k)' \subseteq LetThrough(k)
    BY <1>6 DEF NoneLetIn, LetThrough, DedupeKey
  <2> QED
    BY <1>1, <1>2, <1>6, <2>1 DEF NoneLetIn
<1> QED
  BY <1>3, <1>4, <1>5, <1>6, StepDedupe DEF DedupeStep

LEMMA BudgetInit == Init => KeyBudget
<1> SUFFICES ASSUME Init, NEW k \in Tasks \X Methods
             PROVE  /\ IsFiniteSet(LetThrough(k))
                    /\ Cardinality(LetThrough(k)) <= expiries + (IF k \in dedupe THEN 1 ELSE 0)
  BY DEF KeyBudget
<1>1. LetThrough(k) = {}
  BY DEF Init, LetThrough, Through
<1> QED
  BY <1>1, FS_EmptySet DEF Init

LEMMA BudgetBounds ==
  ASSUME Typed, KeyBudget
  PROVE  ProcessedOncePerKey
<1> SUFFICES ASSUME NEW k \in Tasks \X Methods
             PROVE  Cardinality(FirstDeliveries(k)) <= 1 + expiries
  BY DEF ProcessedOncePerKey
<1>1. /\ IsFiniteSet(LetThrough(k))
      /\ Cardinality(LetThrough(k)) \in Nat /\ expiries \in Nat
      /\ Cardinality(LetThrough(k)) <= 1 + expiries
  BY FS_CardinalityType, FeedbackAssumption DEF KeyBudget, Typed, TypeOK
<1>2. FirstDeliveries(k) \subseteq LetThrough(k)
  BY DEF FirstDeliveries, LetThrough, Through
<1>3. /\ Cardinality(FirstDeliveries(k)) \in Nat
      /\ Cardinality(FirstDeliveries(k)) <= Cardinality(LetThrough(k))
  BY <1>1, <1>2, FS_Subset, FS_CardinalityType
<1> QED
  BY <1>1, <1>3

(* However often the RCS repeats an event, it is let through to the queue  *)
(* at most once per lifetime of its dedupe key.                            *)
THEOREM OncePerKey == Spec => []ProcessedOncePerKey
<1>1. Init => Typed /\ KeyBudget
  BY TypeInit, BudgetInit
<1>2. Typed /\ KeyBudget /\ [Next]_vars => Typed' /\ KeyBudget'
  BY TypeStep, BudgetStep
<1>3. Typed /\ KeyBudget => ProcessedOncePerKey
  BY BudgetBounds
<1> QED
  BY <1>1, <1>2, <1>3, PTL DEF Spec

-----------------------------------------------------------------------------
(* No message is lost: what one step may do to the copies of the message   *)
(* of one delivery, at the broker and in work.                             *)
Queued(h) == {m \in queue : m.hook = h}
Holders(h) ==
  {w \in Workers : msg[w] # NoMessage /\ msg[w].hook = h /\ wpc[w] # "retired"}

Unsettled == {"queued", "applied"}

CopiesKept(h) ==
  /\ Queued(h)' = Queued(h) /\ Holders(h)' = Holders(h)
  /\ fate'[h] = "unsent" => fate[h] = "unsent"
  /\ fate'[h] \in Unsettled => fate[h] \in Unsettled
  /\ deaths' \in {deaths, deaths + 1}

Published(h) ==
  /\ fate[h] = "unsent" /\ fate'[h] = "queued"
  /\ \E m : Queued(h)' = Queued(h) \cup {m}
  /\ Holders(h)' = Holders(h) /\ deaths' = deaths

Taken(h) ==
  /\ \E m \in Queued(h) : Queued(h)' = Queued(h) \ {m}
  /\ \E w : w \notin Holders(h) /\ Holders(h)' = Holders(h) \cup {w}
  /\ fate'[h] = fate[h] /\ deaths' = deaths

Settled(h) ==
  /\ Queued(h)' = Queued(h) /\ Holders(h)' \subseteq Holders(h)
  /\ fate'[h] \in {"processed", "dropped"} /\ deaths' = deaths

Retried(h) ==
  /\ \E m : Queued(h)' = Queued(h) \cup {m}
  /\ \E w \in Holders(h) : Holders(h)' = Holders(h) \ {w}
  /\ fate[h] # "unsent" /\ fate'[h] = fate[h] /\ deaths' = deaths

Redelivered(h) ==
  /\ \E m : Queued(h)' = Queued(h) \cup {m}
  /\ Holders(h)' \subseteq Holders(h)
  /\ fate[h] # "unsent" /\ fate'[h] = fate[h] /\ deaths' = deaths + 1

CopyStep(h) ==
  \/ CopiesKept(h) \/ Published(h) \/ Taken(h) \/ Settled(h) \/ Retried(h)
  \/ Redelivered(h)

LEMMA StepCopies ==
  ASSUME Typed, [Next]_vars, NEW h \in Hooks
  PROVE  CopyStep(h)
<1> USE DEF Typed, TypeOK, Queued, Holders
<1>1. ASSUME NEW g \in Hooks, Deliver(g) \/ Verify(g) \/ Dedupe(g) \/ Log(g) \/ HookCrash(g)
      PROVE  CopiesKept(h)
  BY <1>1 DEF Deliver, Verify, Dedupe, Log, HookCrash, working, CopiesKept
<1>2. ASSUME NEW g \in Hooks, hpc[g] = "enqueue", Publish(g), UNCHANGED working
      PROVE  CopiesKept(h) \/ Published(h)
  <2>1. CASE g = h
    <3>1. Queued(h)' = Queued(h) \cup {[hook |-> h, tries |-> 0, copy |-> 0]}
      BY <1>2, <2>1 DEF Publish
    <3>2. Holders(h)' = Holders(h) /\ deaths' = deaths
      BY <1>2 DEF working
    <3>3. fate[h] = "unsent" /\ fate'[h] = "queued"
      BY <1>2, <2>1 DEF Publish, Sent
    <3> QED
      BY <3>1, <3>2, <3>3 DEF Published
  <2>2. CASE g # h
    BY <1>2, <2>2 DEF Publish, working, CopiesKept
  <2> QED
    BY <2>1, <2>2
<1>3. ASSUME NEW g \in Hooks, HookError(g) PROVE CopiesKept(h) \/ Published(h)
  <2>1. CASE UNCHANGED <<queue, fate>>
    BY <1>3, <2>1 DEF HookError, working, CopiesKept
  <2>2. CASE hpc[g] = "enqueue" /\ Publish(g)
    BY <1>2, <1>3, <2>2 DEF HookError
  <2> QED
    BY <1>3, <2>1, <2>2 DEF HookError, HookGoto
<1>4. ASSUME NEW w \in Workers, Take(w) PROVE CopiesKept(h) \/ Taken(h)
  <2>1. PICK m \in queue : /\ msg' = [msg EXCEPT ![w] = m]
                           /\ queue' = queue \ {m}
                           /\ wpc[w] = "idle"
                           /\ wpc' \in {[wpc EXCEPT ![w] = "ack"], [wpc EXCEPT ![w] = "read"]}
    BY <1>4 DEF Take, WorkGoto
  <2>2. msg[w] = NoMessage /\ m # NoMessage
    BY <2>1, FeedbackAssumption DEF Filled
  <2>3. CASE m.hook = h
    <3>1. m \in Queued(h) /\ Queued(h)' = Queued(h) \ {m}
      BY <2>1, <2>3
    <3>2. w \notin Holders(h) /\ Holders(h)' = Holders(h) \cup {w}
      BY <2>1, <2>2, <2>3
    <3> QED
      BY <1>4, <3>1, <3>2 DEF Take, Taken
  <2>4. CASE m.hook # h
    BY <1>4, <2>1, <2>2, <2>4 DEF Take, CopiesKept
  <2> QED
    BY <2>3, <2>4
<1>5. ASSUME NEW w \in Workers, Read(w) \/ Write(w) PROVE CopiesKept(h)
  <2>1. Holders(h)' = Holders(h)
    BY <1>5 DEF Read, Write, WorkGoto
  <2> QED
    BY <1>5, <2>1 DEF Read, Write, CopiesKept
<1>6. ASSUME NEW w \in Workers, SetRobot(w) PROVE CopiesKept(h)
  <2>1. Holders(h)' = Holders(h)
    BY <1>6 DEF SetRobot, WorkGoto
  <2> QED
    BY <1>6, <2>1 DEF SetRobot, CopiesKept, Unsettled
<1>7. ASSUME NEW w \in Workers, Ack(w) PROVE CopiesKept(h) \/ Settled(h)
  <2>1. msg[w] \in Message /\ msg[w] # NoMessage
    BY <1>7, EventTyped, FeedbackAssumption DEF Ack
  <2>2. CASE wpc[w] = "ack" /\ msg[w].hook = h
    <3>1. Holders(h)' = Holders(h) \ {w}
      BY <1>7, <2>1, <2>2 DEF Ack, Release
    <3> QED
      BY <1>7, <2>2, <3>1 DEF Ack, Settled
  <2>3. CASE ~(wpc[w] = "ack" /\ msg[w].hook = h)
    <3>1. Holders(h)' = Holders(h)
      BY <1>7, <2>1, <2>3 DEF Ack, Release
    <3> QED
      BY <1>7, <2>3, <3>1 DEF Ack, CopiesKept
  <2> QED
    BY <2>2, <2>3
<1>8. ASSUME NEW w \in Workers, Fail(w)
      PROVE  CopiesKept(h) \/ Settled(h) \/ Retried(h)
  <2>1. /\ msg[w] \in Message /\ msg[w] # NoMessage /\ fate[msg[w].hook] # "unsent"
        /\ wpc[w] \in {"read", "write", "robot"}
        /\ wpc' = [wpc EXCEPT ![w] = "retired"]
        /\ UNCHANGED <<msg, deaths>>
    BY <1>8, EventTyped, FeedbackAssumption DEF Fail, WorkGoto
  <2>2. CASE msg[w].hook = h
    <3>1. w \in Holders(h) /\ Holders(h)' = Holders(h) \ {w}
      BY <2>1, <2>2
    <3>2. CASE msg[w].tries < MaxRetries
      <4>1. [msg[w] EXCEPT !.tries = @ + 1].hook = h
        BY <2>1, <2>2 DEF Message
      <4>2. Queued(h)' = Queued(h) \cup {[msg[w] EXCEPT !.tries = @ + 1]}
        BY <1>8, <3>2, <4>1 DEF Fail, Retry
      <4> QED
        BY <1>8, <2>1, <2>2, <3>1, <3>2, <4>2 DEF Fail, Retry, Retried
    <3>3. CASE ~(msg[w].tries < MaxRetries)
      BY <1>8, <2>1, <2>2, <3>1, <3>3 DEF Fail, Retry, Settled
    <3> QED
      BY <3>2, <3>3
  <2>3. CASE msg[w].hook # h
    <3>1. Holders(h)' = Holders(h)
      BY <2>1, <2>3
    <3>2. [msg[w] EXCEPT !.tries = @ + 1].hook # h
      BY <2>1, <2>3 DEF Message
    <3> QED
      BY <1>8, <2>1, <2>3, <3>1, <3>2 DEF Fail, Retry, CopiesKept
  <2> QED
    BY <2>2, <2>3
<1>9. ASSUME NEW w \in Workers, WorkerDies(w) PROVE CopiesKept(h) \/ Redelivered(h)
  <2>1. msg[w] \in Message /\ msg[w] # NoMessage /\ fate[msg[w].hook] # "unsent"
    BY <1>9, EventTyped, FeedbackAssumption DEF WorkerDies
  <2>2. [msg[w] EXCEPT !.copy = deaths + 1].hook = msg[w].hook
    BY <2>1 DEF Message
  <2>3. CASE msg[w].hook = h
    <3>1. Holders(h)' \subseteq Holders(h)
      BY <1>9 DEF WorkerDies, Release
    <3>2. Queued(h)' = Queued(h) \cup {[msg[w] EXCEPT !.copy = deaths + 1]}
      BY <1>9, <2>2, <2>3 DEF WorkerDies, Requeue
    <3> QED
      BY <1>9, <2>1, <2>3, <3>1, <3>2 DEF WorkerDies, Redelivered
  <2>4. CASE msg[w].hook # h
    <3>1. Holders(h)' = Holders(h)
      BY <1>9, <2>1, <2>4 DEF WorkerDies, Release
    <3> QED
      BY <1>9, <2>2, <2>4, <3>1 DEF WorkerDies, Requeue, CopiesKept
  <2> QED
    BY <2>3, <2>4
<1>10. ASSUME NEW c \in Tasks, RecordTask(c) PROVE CopiesKept(h)
  BY <1>10 DEF RecordTask, working, CopiesKept
<1>11. ASSUME NEW k \in Tasks \X Methods, ExpireDedupe(k) PROVE CopiesKept(h)
  BY <1>11 DEF ExpireDedupe, working, CopiesKept
<1>12. ASSUME NEW a \in Robots, ExpireRobot(a) PROVE CopiesKept(h)
  BY <1>12 DEF ExpireRobot, working, CopiesKept
<1>13. CASE UNCHANGED vars
  BY <1>13 DEF vars, CopiesKept, CopyStep
<1>14. ASSUME NEW g \in Hooks, Enqueue(g) PROVE CopiesKept(h) \/ Published(h)
  BY <1>2, <1>14 DEF Enqueue, HookGoto
<1> QED
  BY <1>1, <1>3, <1>4, <1>5, <1>6, <1>7, <1>8, <1>9, <1>10, <1>11, <1>12, <1>13, <1>14
  DEF Next, Handle, Work, CopyStep

(* Adding or taking one element of a finite set.                           *)
LEMMA AddOne ==
  ASSUME NEW S, IsFiniteSet(S), NEW x
  PROVE  /\ IsFiniteSet(S \cup {x})
         /\ Cardinality(S) \in Nat /\ Cardinality(S \cup {x}) \in Nat
         /\ Cardinality(S \cup {x}) >= 1
         /\ Cardinality(S \cup {x}) <= Cardinality(S) + 1
         /\ x \notin S => Cardinality(S \cup {x}) = Cardinality(S) + 1
<1>1. /\ IsFiniteSet(S \cup {x})
      /\ Cardinality(S \cup {x}) = IF x \in S THEN Cardinality(S) ELSE Cardinality(S) + 1
  BY FS_AddElement, Zenon
<1>2. Cardinality(S) \in Nat /\ (x \in S => Cardinality(S) # 0)
  BY FS_CardinalityType, FS_EmptySet
<1> QED
  BY <1>1, <1>2

LEMMA TakeOne ==
  ASSUME NEW S, IsFiniteSet(S), NEW x \in S
  PROVE  /\ IsFiniteSet(S \ {x})
         /\ Cardinality(S) \in Nat /\ Cardinality(S \ {x}) \in Nat
         /\ Cardinality(S \ {x}) + 1 = Cardinality(S)
<1>1. /\ IsFiniteSet(S \ {x})
      /\ Cardinality(S \ {x}) = Cardinality(S) - 1
  BY FS_RemoveElement, Zenon
<1>2. Cardinality(S) \in Nat /\ Cardinality(S \ {x}) \in Nat
  BY <1>1, FS_CardinalityType
<1> QED
  BY <1>1, <1>2

(* A delivery's message is held as HeldUntilSettled says, and its copies   *)
(* can be counted.                                                         *)
Held(h) ==
  /\ IsFiniteSet(Queued(h)) /\ IsFiniteSet(Holders(h))
  /\ fate[h] = "unsent" => Copies(h) = 0
  /\ fate[h] \in Unsettled => Copies(h) >= 1
  /\ Copies(h) <= 1 + deaths

LEMMA HeldStep ==
  ASSUME Typed, [Next]_vars, NEW h \in Hooks, Held(h)
  PROVE  Held(h)'
<1> DEFINE q == Cardinality(Queued(h))
           p == Cardinality(Holders(h))
<1>1. Copies(h) = q + p /\ Copies(h)' = q' + p'
  BY DEF Copies, Queued, Holders
<1>2. q \in Nat /\ p \in Nat /\ deaths \in Nat
  BY FS_CardinalityType, FeedbackAssumption DEF Held, Typed, TypeOK
<1>3. CASE CopiesKept(h)
  BY <1>1, <1>2, <1>3 DEF Held, CopiesKept
<1>4. CASE Published(h)
  <2>1. q = 0 /\ p = 0
    BY <1>1, <1>2, <1>4 DEF Held, Published
  <2>2. IsFiniteSet(Queued(h)') /\ q' = 1
    <3>1. PICK m : Queued(h)' = Queued(h) \cup {m}
      BY <1>4 DEF Published
    <3> QED
      BY <2>1, <3>1, AddOne DEF Held
  <2> QED
    BY <1>1, <1>2, <1>4, <2>1, <2>2 DEF Held, Published, Unsettled
<1>5. CASE Taken(h)
  <2>1. IsFiniteSet(Queued(h)') /\ q' \in Nat /\ q' + 1 = q
    BY <1>5, TakeOne DEF Held, Taken
  <2>2. IsFiniteSet(Holders(h)') /\ p' \in Nat /\ p' = p + 1
    BY <1>5, AddOne DEF Held, Taken
  <2> QED
    BY <1>1, <1>2, <1>5, <2>1, <2>2 DEF Held, Taken
<1>6. CASE Settled(h)
  <2>1. IsFiniteSet(Holders(h)') /\ p' \in Nat /\ p' <= p
    BY <1>6, FS_Subset, FS_CardinalityType DEF Held, Settled
  <2> QED
    BY <1>1, <1>2, <1>6, <2>1 DEF Held, Settled, Unsettled
<1>7. CASE Retried(h)
  <2>1. IsFiniteSet(Queued(h)') /\ q' \in Nat /\ q' >= 1 /\ q' <= q + 1
    BY <1>7, AddOne DEF Held, Retried
  <2>2. IsFiniteSet(Holders(h)') /\ p' \in Nat /\ p' + 1 = p
    BY <1>7, TakeOne DEF Held, Retried
  <2> QED
    BY <1>1, <1>2, <1>7, <2>1, <2>2 DEF Held, Retried
<1>8. CASE Redelivered(h)
  <2>1. IsFiniteSet(Queued(h)') /\ q' \in Nat /\ q' >= 1 /\ q' <= q + 1
    BY <1>8, AddOne DEF Held, Redelivered
  <2>2. IsFiniteSet(Holders(h)') /\ p' \in Nat /\ p' <= p
    BY <1>8, FS_Subset, FS_CardinalityType DEF Held, Redelivered
  <2> QED
    BY <1>1, <1>2, <1>8, <2>1, <2>2 DEF Held, Redelivered
<1> QED
  BY StepCopies, <1>3, <1>4, <1>5, <1>6, <1>7, <1>8 DEF CopyStep

LEMMA HeldInit ==
  ASSUME Init, NEW h \in Hooks
  PROVE  Held(h)
<1>1. Queued(h) = {} /\ Holders(h) = {}
  BY DEF Init, Queued, Holders
<1>2. Copies(h) = Cardinality({}) + Cardinality({})
  BY <1>1 DEF Copies, Queued, Holders
<1> QED
  BY <1>1, <1>2, FS_EmptySet DEF Held, Init, Unsettled

(* Between the broker and the workers no message is lost: one that is not  *)
(* settled has a copy, through retries and deaths, and each death of a     *)
(* worker doubles at most one.                                             *)
THEOREM MessagesHeld == Spec => []HeldUntilSettled
<1> DEFINE Inv == Typed /\ \A h \in Hooks : Held(h)
<1>1. Init => Inv
  BY TypeInit, HeldInit
<1>2. Inv /\ [Next]_vars => Inv'
  BY TypeStep, HeldStep
<1>3. Inv => HeldUntilSettled
  BY DEF Held, HeldUntilSettled, Unsettled
<1> QED
  BY <1>1, <1>2, <1>3, PTL DEF Spec

-----------------------------------------------------------------------------
(* The pipeline implements the task lifecycle: of its steps, only the read *)
(* of an open row and the end of the update that follows show there.       *)

(* A worker comes to its update by the read, and holds its message there.  *)
LEMMA StepWriter ==
  ASSUME Typed, [Next]_vars, NEW w \in Workers, wpc'[w] = "write"
  PROVE  msg'[w] = msg[w] /\ wpc[w] # "idle"
<1> DEFINE Goal == msg'[w] = msg[w] /\ wpc[w] # "idle"
<1> USE DEF Typed, TypeOK, working
<1>1. ASSUME NEW h \in Hooks, Deliver(h) \/ Handle(h) PROVE Goal
  BY <1>1 DEF Handle, Deliver, Verify, Dedupe, Log, Enqueue
<1>2. ASSUME NEW h \in Hooks, HookError(h) \/ HookCrash(h) PROVE Goal
  BY <1>2 DEF HookError, HookCrash
<1>3. ASSUME NEW v \in Workers, Take(v) PROVE Goal
  BY <1>3 DEF Take, WorkGoto
<1>4. ASSUME NEW v \in Workers, Read(v) PROVE Goal
  BY <1>4 DEF Read, WorkGoto
<1>5. ASSUME NEW v \in Workers, Write(v) \/ SetRobot(v) PROVE Goal
  BY <1>5 DEF Write, SetRobot, WorkGoto
<1>6. ASSUME NEW v \in Workers, Ack(v) \/ WorkerDies(v) PROVE Goal
  BY <1>6 DEF Ack, WorkerDies, Release
<1>7. ASSUME NEW v \in Workers, Fail(v) PROVE Goal
  BY <1>7 DEF Fail, WorkGoto
<1>8. ASSUME NEW c \in Tasks, RecordTask(c) PROVE Goal
  BY <1>8 DEF RecordTask
<1>9. ASSUME NEW k \in Tasks \X Methods, ExpireDedupe(k) PROVE Goal
  BY <1>9 DEF ExpireDedupe
<1>10. ASSUME NEW a \in Robots, ExpireRobot(a) PROVE Goal
  BY <1>10 DEF ExpireRobot
<1>11. CASE UNCHANGED vars
  BY <1>11 DEF vars
<1> QED
  BY <1>1, <1>2, <1>3, <1>4, <1>5, <1>6, <1>7, <1>8, <1>9, <1>10, <1>11 DEF Next, Work

(* It works on one event from the read to the update.                      *)
LEMMA WriterEvent ==
  ASSUME Typed, [Next]_vars, NEW w \in Workers, wpc'[w] = "write"
  PROVE  hook'[msg'[w].hook] = EventOf(w) /\ EventOf(w).task \in Tasks
BY StepWriter, EventTyped, PublishedStable DEF EventOf, Event

(* What one step does to the rows and to who is about to update them.      *)
SameWriters(W) == \A w \in W : wpc'[w] = "write" <=> wpc[w] = "write"

Begins(w) ==
  /\ wpc[w] = "read" /\ wpc'[w] = "write" /\ SameWriters(Workers \ {w})
  /\ MayUpdate(tasks[EventOf(w).task])
  /\ UNCHANGED tasks

Finishes(w) ==
  /\ wpc[w] = "write" /\ wpc'[w] # "write" /\ SameWriters(Workers \ {w})
  /\ UpdateTask(w) \/ UNCHANGED tasks

Recorded(c) ==
  /\ tasks[c] = NoTask /\ tasks' = [tasks EXCEPT ![c] = Pending]
  /\ SameWriters(Workers)

WriteStep ==
  \/ UNCHANGED tasks /\ SameWriters(Workers)
  \/ \E c \in Tasks : Recorded(c)
  \/ \E w \in Workers : Begins(w) \/ Finishes(w)

LEMMA StepWrite ==
  ASSUME Typed, [Next]_vars
  PROVE  WriteStep
<1> DEFINE Idle == UNCHANGED tasks /\ SameWriters(Workers)
<1> USE DEF Typed, TypeOK, SameWriters, working, stores
<1>1. ASSUME NEW h \in Hooks, Deliver(h) \/ Handle(h) PROVE Idle
  BY <1>1 DEF Handle, Deliver, Verify, Dedupe, Log, Enqueue
<1>2. ASSUME NEW h \in Hooks, HookError(h) \/ HookCrash(h) PROVE Idle
  BY <1>2 DEF HookError, HookCrash
<1>3. ASSUME NEW w \in Workers, Take(w) \/ SetRobot(w) PROVE Idle
  BY <1>3 DEF Take, SetRobot, WorkGoto
<1>4. ASSUME NEW w \in Workers, Read(w) PROVE Begins(w) \/ Idle
  BY <1>4 DEF Read, WorkGoto, Begins
<1>5. ASSUME NEW w \in Workers, Write(w) PROVE Finishes(w)
  BY <1>5 DEF Write, WorkGoto, Finishes
<1>6. ASSUME NEW w \in Workers, Ack(w) PROVE Idle
  BY <1>6 DEF Ack, Release
<1>7. ASSUME NEW w \in Workers, WorkerDies(w) PROVE Finishes(w) \/ Idle
  BY <1>7 DEF WorkerDies, Release, Finishes
<1>8. ASSUME NEW w \in Workers, Fail(w) PROVE Finishes(w) \/ Idle
  BY <1>8 DEF Fail, WorkGoto, Finishes
<1>9. ASSUME NEW c \in Tasks, RecordTask(c) PROVE Recorded(c)
  BY <1>9 DEF RecordTask, Recorded
<1>10. ASSUME NEW k \in Tasks \X Methods, ExpireDedupe(k) PROVE Idle
  BY <1>10 DEF ExpireDedupe
<1>11. ASSUME NEW a \in Robots, ExpireRobot(a) PROVE Idle
  BY <1>11 DEF ExpireRobot
<1>12. CASE UNCHANGED vars
  <2>1. UNCHANGED <<tasks, wpc>>
    BY <1>12 DEF vars
  <2>2. Idle
    BY <2>1
  <2> QED
    BY <2>2 DEF WriteStep
<1>13. Idle => WriteStep
  BY DEF WriteStep
<1> HIDE DEF Typed, TypeOK, SameWriters, Idle
<1>14. ASSUME NEW w \in Workers, Take(w) \/ Work(w) \/ Fail(w) \/ WorkerDies(w)
       PROVE  WriteStep
  BY <1>3, <1>4, <1>5, <1>6, <1>7, <1>8, <1>13, <1>14 DEF Work, WriteStep
<1> QED
  BY <1>1, <1>2, <1>9, <1>10, <1>11, <1>12, <1>13, <1>14 DEF Next, WriteStep

(* The updates under way follow: same writers, same updates.               *)
UpdatesBy(W) == {<<w, EventOf(w).task>> : w \in {v \in W : wpc[v] = "write"}}

LEMMA SameUpdates ==
  ASSUME Typed, [Next]_vars, NEW W \in SUBSET Workers, SameWriters(W)
  PROVE  UpdatesBy(W)' = UpdatesBy(W)
<1>1. {v \in W : wpc'[v] = "write"} = {v \in W : wpc[v] = "write"}
  BY DEF SameWriters
<1>2. \A w \in W : wpc'[w] = "write" => hook'[msg'[w].hook] = EventOf(w)
  BY WriterEvent
<1> QED
  BY <1>1, <1>2 DEF UpdatesBy, EventOf

LEMMA LifecycleStep ==
  ASSUME Typed, [Next]_vars
  PROVE  [Lifecycle!Next]_(Lifecycle!vars)
<1> USE FeedbackAssumption DEF Typed, TypeOK
<1> DEFINE statuses == [c \in Tasks |-> IF tasks[c] = NoTask THEN "absent"
                                        ELSE tasks[c].status]
<1>1. Updates = UpdatesBy(Workers) /\ Updates' = UpdatesBy(Workers)'
  BY DEF Updates, UpdatesBy
<1>2. CASE UNCHANGED tasks /\ SameWriters(Workers)
  BY <1>1, <1>2, SameUpdates DEF Lifecycle!vars
<1>3. ASSUME NEW c \in Tasks, Recorded(c) PROVE Lifecycle!Next
  <2>1. Pending \in Record /\ Pending.status = "pending"
    BY DEF Pending, Record, Status
  <2>2. Updates' = Updates
    BY <1>1, <1>3, SameUpdates DEF Recorded
  <2>3. Lifecycle!Appear(c)
    BY <1>3, <2>1, <2>2 DEF Lifecycle!Appear, Recorded
  <2> QED
    BY <2>3 DEF Lifecycle!Next
<1>4. ASSUME NEW w \in Workers, Begins(w) PROVE Lifecycle!Next
  <2>1. PICK c \in Tasks : c = EventOf(w).task /\ hook'[msg'[w].hook] = EventOf(w)
    BY <1>4, WriterEvent DEF Begins
  <2>2. statuses[c] \in Lifecycle!Open
    BY <1>4, <2>1 DEF Begins, MayUpdate, Record, Status, Lifecycle!Open, Terminal
  <2>3. \A d \in Tasks : <<w, d>> \notin Updates
    BY <1>4 DEF Begins, Updates
  <2>4. Updates = UpdatesBy(Workers \ {w})
    BY <1>4 DEF Begins, Updates, UpdatesBy
  <2>5. Updates' = UpdatesBy(Workers \ {w})' \cup {<<w, c>>}
    BY <1>4, <2>1 DEF Begins, Updates, UpdatesBy, EventOf
  <2>6. Updates' = Updates \cup {<<w, c>>}
    BY <1>4, <2>4, <2>5, SameUpdates DEF Begins
  <2>7. Lifecycle!Begin(w, c)
    BY <1>4, <2>2, <2>3, <2>6 DEF Begins, Lifecycle!Begin
  <2> QED
    BY <2>7 DEF Lifecycle!Next
<1>5. ASSUME NEW w \in Workers, Finishes(w) PROVE Lifecycle!Next
  <2>1. PICK c \in Tasks : c = EventOf(w).task
    BY <1>5, EventTyped DEF Finishes, Event
  <2>2. Updates = UpdatesBy(Workers \ {w}) \cup {<<w, c>>}
    BY <1>5, <2>1 DEF Finishes, Updates, UpdatesBy
  <2>3. Updates' = UpdatesBy(Workers \ {w})'
    BY <1>5 DEF Finishes, Updates, UpdatesBy
  <2>4. <<w, c>> \notin UpdatesBy(Workers \ {w})
    BY DEF UpdatesBy
  <2>5. <<w, c>> \in Updates /\ Updates' = Updates \ {<<w, c>>}
    BY <1>5, <2>2, <2>3, <2>4, SameUpdates DEF Finishes
  <2>6. CASE UNCHANGED tasks
    <3>1. Lifecycle!Quit(w, c)
      BY <2>5, <2>6 DEF Lifecycle!Quit
    <3> QED
      BY <3>1 DEF Lifecycle!Next
  <2>7. CASE UpdateTask(w)
    <3>1. tasks[c] \in Record /\ seen[w] \in Record
      BY <1>5, <2>1 DEF Finishes, Filled, RowFound
    <3>2. PICK row \in Record : row = Updated(tasks[c], seen[w], EventOf(w).method)
      BY <3>1, UpdatedTyped
    <3>3. PICK s \in {"running"} \cup Lifecycle!Ended : s = row.status
      BY <3>2, TargetTyped DEF Updated, Lifecycle!Ended
    <3>4. tasks' = [tasks EXCEPT ![c] = row]
      BY <2>1, <2>7, <3>2 DEF UpdateTask
    <3>5. Lifecycle!Change(w, c, s)
      BY <2>5, <3>3, <3>4 DEF Lifecycle!Change
    <3> QED
      BY <3>5 DEF Lifecycle!Next
  <2> QED
    BY <1>5, <2>6, <2>7 DEF Finishes
<1> QED
  BY <1>2, <1>3, <1>4, <1>5, StepWrite DEF WriteStep

(* For any number of workers the pipeline implements the task lifecycle:   *)
(* a status changes only by an update whose read found the task open, so   *)
(* feedback that a worker takes up after the end changes nothing.          *)
THEOREM LifecycleImplemented == Spec => ImplementsLifecycle
<1>1. Init => Lifecycle!Init
  BY DEF Init, Lifecycle!Init, Updates
<1>2. Typed /\ [Next]_vars => [Lifecycle!Next]_(Lifecycle!vars)
  BY LifecycleStep
<1> QED
  BY <1>1, <1>2, TypeInit, TypeStep, PTL DEF Spec, ImplementsLifecycle, Lifecycle!Spec

=============================================================================
