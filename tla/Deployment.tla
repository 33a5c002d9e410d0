----------------------------- MODULE Deployment -----------------------------
(***************************************************************************)
(* Bringing the service up: the Alembic revisions an operator applies, and *)
(* the lifespan of the server processes, which may start at any time (the  *)
(* compose file restarts them) and seed robot_types.  MySQL commits every  *)
(* DDL statement by itself and alembic_version after the last one of a     *)
(* revision.  A DDL statement waits for transactions that read its table.  *)
(* Column types and defaults are left out: an altered column needs only    *)
(* its table.  One Alembic command runs at a time.                         *)
(***************************************************************************)
EXTENDS Naturals, FiniteSets, SequencesExt

CONSTANTS Processes,  \* server processes
          Idle        \* no Alembic command is running

ASSUME DeploymentAssumption ==
  /\ IsFiniteSet(Processes)
  /\ Idle \notin [dir : {"up", "down"}, at : Nat]

VARIABLES schema,     \* tables and indexes of the database
          version,    \* alembic_version: how many revisions are recorded
          cmd, torn,  \* the running command; directions that stopped half way
          names,      \* committed robot_types rows by name
          keyed,      \* task_history rows under one Idempotency-Key
          pc, lack, flushed,
          excused     \* processes whose seed met no table or a database error

vars == <<schema, version, cmd, torn, names, keyed, pc, lack, flushed, excused>>
database == <<schema, version, cmd, torn>>
process == <<pc, lack, flushed, excused>>

Tables == {"robot_types", "task_history", "webhook_logs", "system_config"}
DEFAULT_ROBOT_TYPES == <<"LMR", "FMR", "CT7">>
Seeds == ToSet(DEFAULT_ROBOT_TYPES)

-----------------------------------------------------------------------------
(* DDL statements.  An index is named by its prefix, table and columns.    *)
Index(kind, table, column, unique) ==
  [kind |-> kind, on |-> table, column |-> column, unique |-> unique]
Ix(table, column) == Index("ix", table, column, FALSE)
UniqueIx(table, column) == Index("ix", table, column, TRUE)
Uq(table, column) == Index("uq", table, column, TRUE)

Op(do, table, indexes) == [do |-> do, on |-> table, indexes |-> indexes]
CreateTable(t, uniques) == Op("create_table", t, uniques)
DropTable(t) == Op("drop_table", t, {})
CreateIndex(i) == Op("create_index", i.on, {i})
DropIndex(i) == Op("drop_index", i.on, {i})
AlterTimes(t) == Op("alter_column", t, {})

SameName(i, j) == i.kind = j.kind /\ i.on = j.on /\ i.column = j.column
Named(i, s) == {j \in s.indexes : SameName(i, j)}

Apply(s, op) ==
  LET creates == op.do = "create_table"
      drops == op.do = "drop_table"
      made == IF op.do \in {"create_table", "create_index"} THEN op.indexes ELSE {}
      gone == {i \in s.indexes :
                 \/ drops /\ i.on = op.on
                 \/ op.do = "drop_index" /\ \E j \in op.indexes : SameName(i, j)}
  IN [tables |-> (s.tables \cup IF creates THEN {op.on} ELSE {})
                   \ IF drops THEN {op.on} ELSE {},
      indexes |-> (s.indexes \ gone) \cup made]

Empty == [tables |-> {}, indexes |-> {}]

-----------------------------------------------------------------------------
(* The revisions.  Those of webhook_log rebuild the unique columns: it     *)
(* drops their indexes and creates others.                                 *)
InitialUp == <<
  CreateTable("robot_types", {Uq("robot_types", "name")}),
  CreateIndex(Ix("robot_types", "name")),
  CreateIndex(Ix("robot_types", "rcs_task_type")),
  CreateIndex(Ix("robot_types", "name_rcs")),
  CreateTable("task_history", {Uq("task_history", "robot_task_code"),
                               Uq("task_history", "idempotency_key")}),
  CreateIndex(Ix("task_history", "robot_task_code")),
  CreateIndex(Ix("task_history", "status")),
  CreateIndex(Ix("task_history", "robot_code")),
  CreateIndex(Ix("task_history", "idempotency_key")) >>

InitialDown == <<
  DropIndex(Ix("task_history", "idempotency_key")),
  DropIndex(Ix("task_history", "robot_code")),
  DropIndex(Ix("task_history", "status")),
  DropIndex(Ix("task_history", "robot_task_code")),
  DropTable("task_history"),
  DropIndex(Ix("robot_types", "name_rcs")),
  DropIndex(Ix("robot_types", "rcs_task_type")),
  DropIndex(Ix("robot_types", "name")),
  DropTable("robot_types") >>

(* Mutant: the key keeps its plain index only. *)
WebhookLogUpPlain == <<
  CreateTable("webhook_logs", {}),
  DropIndex(Uq("task_history", "idempotency_key")) >>

WebhookLogUp == <<
  CreateTable("webhook_logs", {}),
  CreateIndex(Ix("webhook_logs", "amr_code")),
  CreateIndex(Ix("webhook_logs", "method")),
  CreateIndex(Ix("webhook_logs", "robot_task_code")),
  AlterTimes("robot_types"),
  DropIndex(Uq("robot_types", "name")),
  DropIndex(Ix("robot_types", "name")),
  CreateIndex(UniqueIx("robot_types", "name")),
  AlterTimes("task_history"),
  DropIndex(Uq("task_history", "idempotency_key")),
  DropIndex(Uq("task_history", "robot_task_code")),
  DropIndex(Ix("task_history", "idempotency_key")),
  CreateIndex(UniqueIx("task_history", "idempotency_key")),
  DropIndex(Ix("task_history", "robot_task_code")),
  CreateIndex(UniqueIx("task_history", "robot_task_code")) >>

(* Mutant: the constraints of the first revision are not put back. *)
WebhookLogDownShort == <<
  DropIndex(Ix("task_history", "robot_task_code")),
  CreateIndex(Ix("task_history", "robot_task_code")),
  DropIndex(Ix("task_history", "idempotency_key")),
  CreateIndex(Ix("task_history", "idempotency_key")),
  DropIndex(Ix("robot_types", "name")),
  CreateIndex(Ix("robot_types", "name")),
  DropTable("webhook_logs") >>

WebhookLogDown == <<
  DropIndex(Ix("task_history", "robot_task_code")),
  CreateIndex(Ix("task_history", "robot_task_code")),
  DropIndex(Ix("task_history", "idempotency_key")),
  CreateIndex(Ix("task_history", "idempotency_key")),
  CreateIndex(Uq("task_history", "robot_task_code")),
  CreateIndex(Uq("task_history", "idempotency_key")),
  AlterTimes("task_history"),
  DropIndex(Ix("robot_types", "name")),
  CreateIndex(Ix("robot_types", "name")),
  CreateIndex(Uq("robot_types", "name")),
  AlterTimes("robot_types"),
  DropIndex(Ix("webhook_logs", "robot_task_code")),
  DropIndex(Ix("webhook_logs", "method")),
  DropIndex(Ix("webhook_logs", "amr_code")),
  DropTable("webhook_logs") >>

SystemConfigUp == <<
  CreateTable("system_config", {}), AlterTimes("robot_types"),
  AlterTimes("task_history"), AlterTimes("webhook_logs") >>

SystemConfigDown == <<
  AlterTimes("webhook_logs"), AlterTimes("task_history"),
  AlterTimes("robot_types"), DropTable("system_config") >>

Upgrades == <<InitialUp, WebhookLogUp, SystemConfigUp>>
Downgrades == <<InitialDown, WebhookLogDown, SystemConfigDown>>
HeadVersion == Len(Upgrades)

(* The tables and indexes that the ORM models declare. *)
Metadata ==
  [tables |-> Tables,
   indexes |-> {UniqueIx("robot_types", "name"), Ix("robot_types", "rcs_task_type"),
                Ix("robot_types", "name_rcs"),
                UniqueIx("task_history", "robot_task_code"),
                UniqueIx("task_history", "idempotency_key"),
                Ix("task_history", "status"), Ix("task_history", "robot_code"),
                Ix("webhook_logs", "robot_task_code"), Ix("webhook_logs", "method"),
                Ix("webhook_logs", "amr_code")}]

Stage == {"down", "booting", "seeding", "serving"}

Init ==
  /\ schema = Empty /\ version = 0 /\ cmd = Idle /\ torn = {}
  /\ names = [s \in Seeds |-> 0] /\ keyed = 0
  /\ pc = [p \in Processes |-> "down"]
  /\ lack = [p \in Processes |-> {}]
  /\ flushed = [p \in Processes |-> {}]
  /\ excused = {}

-----------------------------------------------------------------------------
(* alembic upgrade head, alembic downgrade -1 *)
Plan == IF cmd.dir = "up" THEN Upgrades[version + 1] ELSE Downgrades[version]

Command(dir) ==
  /\ cmd = Idle
  /\ IF dir = "up" THEN version < HeadVersion ELSE version > 0
  /\ cmd' = [dir |-> dir, at |-> 1]
  /\ UNCHANGED <<schema, version, torn, names, keyed, process>>

(* More than one row for a value of the column. *)
Repeated(table, column) ==
  \/ table = "robot_types" /\ column = "name" /\ \E s \in Seeds : names[s] > 1
  \/ table = "task_history" /\ column = "idempotency_key" /\ keyed > 1

Applicable(op) ==
  /\ op.do = "create_table" => op.on \notin schema.tables
  /\ op.do \in {"drop_table", "alter_column"} => op.on \in schema.tables
  /\ op.do = "create_index" =>
       \A i \in op.indexes : /\ i.on \in schema.tables
                             /\ Named(i, schema) = {}
                             /\ i.unique => ~Repeated(i.on, i.column)
  /\ op.do = "drop_index" => \A i \in op.indexes : Named(i, schema) # {}

(* A seeding process has a transaction open on robot_types. *)
TableFree(op) ==
  op.on = "robot_types" => \A p \in Processes : pc[p] # "seeding"

Ddl ==
  /\ cmd # Idle /\ cmd.at <= Len(Plan)
  /\ LET op == Plan[cmd.at] IN
     /\ TableFree(op) /\ Applicable(op)
     /\ schema' = Apply(schema, op)
     /\ names' = IF op = DropTable("robot_types")
                 THEN [s \in Seeds |-> 0] ELSE names
     /\ excused' = IF op = DropTable("robot_types") THEN Processes ELSE excused
     /\ keyed' = IF op = DropTable("task_history") THEN 0 ELSE keyed
  /\ cmd' = [cmd EXCEPT !.at = @ + 1]
  /\ UNCHANGED <<version, torn, pc, lack, flushed>>

Stopped ==
  /\ cmd' = Idle
  /\ torn' = IF cmd.at > 1 THEN torn \cup {cmd.dir} ELSE torn
  /\ UNCHANGED <<schema, version, names, keyed, process>>

(* The database refuses a statement: the exception ends the command. *)
DdlRefused ==
  /\ cmd # Idle /\ cmd.at <= Len(Plan)
  /\ TableFree(Plan[cmd.at]) /\ ~Applicable(Plan[cmd.at])
  /\ Stopped

Interrupt == cmd # Idle /\ Stopped

(* Mutant: a downgrade records the version it came from plus one. *)
RecordAscending ==
  /\ cmd # Idle /\ cmd.at > Len(Plan)
  /\ version' = version + 1
  /\ cmd' = Idle
  /\ UNCHANGED <<schema, torn, names, keyed, process>>

(* The revision's version is committed after its statements. *)
Record ==
  /\ cmd # Idle /\ cmd.at > Len(Plan)
  /\ version' = IF cmd.dir = "up" THEN version + 1 ELSE version - 1
  /\ cmd' = IF cmd.dir = "up" /\ version' < HeadVersion THEN [cmd EXCEPT !.at = 1] ELSE Idle
  /\ UNCHANGED <<schema, torn, names, keyed, process>>

-----------------------------------------------------------------------------
(* lifespan and seed_robot_types *)
Goto(p, from, to) == pc[p] = from /\ pc' = [pc EXCEPT ![p] = to]

EndTransaction(p) ==
  /\ lack' = [lack EXCEPT ![p] = {}]
  /\ flushed' = [flushed EXCEPT ![p] = {}]

Boot(p) ==
  /\ Goto(p, "down", "booting")
  /\ excused' = excused \ {p}
  /\ UNCHANGED <<database, names, keyed, lack, flushed>>

(* The database and Redis answered; the names are selected. *)
SelectNames(p) ==
  /\ "robot_types" \in schema.tables
  /\ lack' = [lack EXCEPT ![p] = {s \in Seeds : names[s] = 0}]
  /\ Goto(p, "booting", IF lack'[p] = {} THEN "serving" ELSE "seeding")
  /\ UNCHANGED <<database, names, keyed, flushed, excused>>

NameUnique == \E i \in schema.indexes :
                i.on = "robot_types" /\ i.column = "name" /\ i.unique

NextSeed(p) ==
  DEFAULT_ROBOT_TYPES[SelectInSeq(DEFAULT_ROBOT_TYPES, LAMBDA s : s \in lack[p])]

(* An insert waits for another transaction's row of the same name. *)
InsertSeed(p) ==
  /\ pc[p] = "seeding" /\ lack[p] # {}
  /\ LET s == NextSeed(p) IN
     /\ NameUnique => /\ names[s] = 0
                      /\ \A q \in Processes \ {p} : s \notin flushed[q]
     /\ flushed' = [flushed EXCEPT ![p] = @ \cup {s}]
     /\ lack' = [lack EXCEPT ![p] = @ \ {s}]
  /\ UNCHANGED <<database, names, keyed, pc, excused>>

(* The other process committed first: seed_failed, and the start goes on. *)
InsertRefused(p) ==
  /\ Goto(p, "seeding", "serving")
  /\ lack[p] # {} /\ NameUnique /\ names[NextSeed(p)] > 0
  /\ EndTransaction(p)
  /\ UNCHANGED <<database, names, keyed, excused>>

Committed(p) == [s \in Seeds |-> names[s] + IF s \in flushed[p] THEN 1 ELSE 0]

(* Mutant: a commit for every row. *)
CommitEachSeed(p) ==
  /\ pc[p] = "seeding" /\ flushed[p] # {}
  /\ names' = Committed(p)
  /\ pc' = [pc EXCEPT ![p] = IF lack[p] = {} THEN "serving" ELSE "seeding"]
  /\ flushed' = [flushed EXCEPT ![p] = {}]
  /\ UNCHANGED <<database, keyed, lack, excused>>

CommitSeeds(p) ==
  /\ Goto(p, "seeding", "serving")
  /\ lack[p] = {}
  /\ names' = Committed(p)
  /\ EndTransaction(p)
  /\ UNCHANGED <<database, keyed, excused>>

(* An error of the database, or no table: swallowed as well. *)
SeedFailed(p) ==
  /\ \/ Goto(p, "booting", "serving")
     \/ Goto(p, "seeding", "serving")
  /\ excused' = excused \cup {p}
  /\ EndTransaction(p)
  /\ UNCHANGED <<database, names, keyed>>

(* A failed check, a shutdown or a crash. *)
Exit(p) ==
  /\ pc[p] # "down" /\ pc' = [pc EXCEPT ![p] = "down"]
  /\ EndTransaction(p)
  /\ UNCHANGED <<database, names, keyed, excused>>

KeyUnique == \E i \in schema.indexes :
               i.on = "task_history" /\ i.column = "idempotency_key" /\ i.unique

(* A request inserts a row under the key, if the schema lets it. *)
InsertTask ==
  /\ \E p \in Processes : pc[p] = "serving"
  /\ "task_history" \in schema.tables
  /\ keyed < (IF KeyUnique THEN 1 ELSE 2)
  /\ keyed' = keyed + 1
  /\ UNCHANGED <<database, names, process>>

-----------------------------------------------------------------------------
Next ==
  \/ \E dir \in {"up", "down"} : Command(dir)
  \/ Ddl \/ DdlRefused \/ Interrupt \/ Record
  \/ \E p \in Processes :
        \/ Boot(p) \/ SelectNames(p) \/ InsertSeed(p) \/ InsertRefused(p)
        \/ CommitSeeds(p) \/ SeedFailed(p) \/ Exit(p)
  \/ InsertTask

Spec == Init /\ [][Next]_vars

-----------------------------------------------------------------------------
Indexes == [kind : {"ix", "uq"}, on : Tables, unique : BOOLEAN,
            column : {"name", "rcs_task_type", "name_rcs", "robot_task_code",
                      "idempotency_key", "status", "robot_code", "method",
                      "amr_code"}]

TypeOK ==
  /\ schema.tables \subseteq Tables /\ schema.indexes \subseteq Indexes
  /\ version \in 0..HeadVersion /\ torn \subseteq {"up", "down"}
  /\ cmd # Idle => cmd.dir \in {"up", "down"} /\ cmd.at \in 1..Len(Plan) + 1
  /\ names \in [Seeds -> 0..Cardinality(Processes)] /\ keyed \in 0..2
  /\ pc \in [Processes -> Stage]
  /\ lack \in [Processes -> SUBSET Seeds] /\ flushed \in [Processes -> SUBSET Seeds]
  /\ excused \subseteq Processes

(* The schema of each version: what the first revision makes, and from the *)
(* second on what the models declare, at first without system_config.      *)
InitialSchema ==
  [tables |-> {"robot_types", "task_history"},
   indexes |-> {Uq("robot_types", "name"), Ix("robot_types", "name"),
                Ix("robot_types", "rcs_task_type"), Ix("robot_types", "name_rcs"),
                Uq("task_history", "robot_task_code"),
                Uq("task_history", "idempotency_key"),
                Ix("task_history", "robot_task_code"), Ix("task_history", "status"),
                Ix("task_history", "robot_code"),
                Ix("task_history", "idempotency_key")}]

SchemaAt(v) ==
  IF v = 0 THEN Empty
  ELSE IF v = 1 THEN InitialSchema
  ELSE [Metadata EXCEPT !.tables = IF v = 2 THEN @ \ {"system_config"} ELSE @]

(* Between commands, if none stopped half way, the schema is the recorded  *)
(* version's, constraint and index names included: every downgrade undoes  *)
(* its upgrade, however they alternate.                                    *)
RoundTrip == cmd = Idle /\ torn = {} => schema = SchemaAt(version)

(* At head the database has the tables and indexes the ORM models declare, *)
(* unique ones included.  An upgrade that stopped half way is never taken  *)
(* for a complete one: running it again is refused, head is not reached.   *)
(* (A torn downgrade can be: the version stays and the indexes are gone.)  *)
HeadIsMetadata ==
  version = HeadVersion =>
    /\ "up" \notin torn
    /\ cmd = Idle /\ torn = {} => schema = Metadata

(* The rows the processes insert while unique indexes are being rebuilt do *)
(* not survive as duplicates into a version that is recorded as reached.   *)
UniqueAtRest ==
  cmd = Idle /\ torn = {} => keyed <= 1 /\ \A s \in Seeds : names[s] <= 1

(* The loser of a race to seed may ignore its error: a process that serves *)
(* without a database error of its own finds every robot type.             *)
SeededWhenServing ==
  \A p \in Processes : pc[p] = "serving" /\ p \notin excused =>
    \A s \in Seeds : names[s] >= 1
=============================================================================
