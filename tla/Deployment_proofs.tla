------------------------- MODULE Deployment_proofs --------------------------
(***************************************************************************)
(* Theorems about Deployment, for any finite set of server processes.      *)
(***************************************************************************)
EXTENDS Deployment, FiniteSetTheorems, TLAPS

(* A statement names its own table in its indexes, and none to drop it.    *)
Statement ==
  {o \in [do : {"create_table", "drop_table", "create_index", "drop_index",
                "alter_column"},
          on : Tables, indexes : SUBSET Indexes] :
     /\ \A i \in o.indexes : i.on = o.on
     /\ o.do = "drop_table" => o.indexes = {}}

LEMMA SeedsAre == Seeds = {"LMR", "FMR", "CT7"}
BY DEF Seeds, ToSet, DEFAULT_ROBOT_TYPES

LEMMA IndexTyped ==
  /\ \A t \in Tables, c \in {"name", "rcs_task_type", "name_rcs", "robot_task_code",
                             "idempotency_key", "status", "robot_code", "method",
                             "amr_code"} :
       /\ Ix(t, c) \in Indexes /\ Ix(t, c).on = t
       /\ UniqueIx(t, c) \in Indexes /\ UniqueIx(t, c).on = t
       /\ Uq(t, c) \in Indexes /\ Uq(t, c).on = t
BY DEF Ix, UniqueIx, Uq, Index, Indexes

LEMMA StatementTyped ==
  /\ \A t \in Tables : /\ DropTable(t) \in Statement /\ AlterTimes(t) \in Statement
                       /\ CreateTable(t, {}) \in Statement
  /\ \A i \in Indexes : CreateIndex(i) \in Statement /\ DropIndex(i) \in Statement
  /\ \A t \in Tables, u \in SUBSET Indexes :
       (\A i \in u : i.on = t) => CreateTable(t, u) \in Statement
BY DEF Statement, DropTable, AlterTimes, CreateTable, CreateIndex, DropIndex, Op, Indexes

LEMMA InitialTyped == InitialUp \in Seq(Statement) /\ InitialDown \in Seq(Statement)
<1>1. InitialUp \in Seq(Statement)
  BY IndexTyped, StatementTyped DEF InitialUp, Tables
<1>2. InitialDown \in Seq(Statement)
  BY IndexTyped, StatementTyped DEF InitialDown, Tables
<1> QED
  BY <1>1, <1>2

LEMMA WebhookLogTyped == WebhookLogUp \in Seq(Statement) /\ WebhookLogDown \in Seq(Statement)
<1>1. WebhookLogUp \in Seq(Statement)
  BY IndexTyped, StatementTyped DEF WebhookLogUp, Tables
<1>2. WebhookLogDown \in Seq(Statement)
  BY IndexTyped, StatementTyped DEF WebhookLogDown, Tables
<1> QED
  BY <1>1, <1>2

LEMMA SystemConfigTyped ==
  SystemConfigUp \in Seq(Statement) /\ SystemConfigDown \in Seq(Statement)
BY StatementTyped DEF SystemConfigUp, SystemConfigDown, Tables

LEMMA RevisionsTyped ==
  /\ HeadVersion = 3
  /\ \A v \in 1..3 : /\ Upgrades[v] \in Seq(Statement)
                     /\ Downgrades[v] \in Seq(Statement)
BY InitialTyped, WebhookLogTyped, SystemConfigTyped DEF Upgrades, Downgrades, HeadVersion

-----------------------------------------------------------------------------
(* A running command is at a statement of its revision or past the last;   *)
(* only a seeding process has a transaction.                               *)
Running ==
  cmd # Idle =>
    /\ cmd \in [dir : {"up", "down"}, at : Nat]
    /\ cmd.dir = "up" => version < HeadVersion
    /\ cmd.dir = "down" => version > 0
    /\ cmd.at \in 1..Len(Plan) + 1

Typed ==
  /\ schema \in [tables : SUBSET Tables, indexes : SUBSET Indexes]
  /\ version \in 0..HeadVersion /\ torn \subseteq {"up", "down"}
  /\ Running
  /\ names \in [Seeds -> Nat] /\ keyed \in 0..2
  /\ pc \in [Processes -> Stage]
  /\ lack \in [Processes -> SUBSET Seeds] /\ flushed \in [Processes -> SUBSET Seeds]
  /\ excused \subseteq Processes
  /\ \A p \in Processes : pc[p] # "seeding" => lack[p] = {} /\ flushed[p] = {}

(* A table has its indexes with it, and its rows: nothing seeds without    *)
(* robot_types, nor are there rows of a table that is not there.           *)
TablesFirst ==
  /\ \A i \in schema.indexes : i.on \in schema.tables
  /\ "robot_types" \notin schema.tables =>
       /\ \A s \in Seeds : names[s] = 0
       /\ \A p \in Processes : pc[p] # "seeding"
  /\ "task_history" \notin schema.tables => keyed = 0

(* The database keeps a unique column unique, while it has its index.      *)
Unique ==
  /\ NameUnique => \A s \in Seeds :
       /\ names[s] <= 1
       /\ \A p \in Processes : s \in flushed[p] =>
            names[s] = 0 /\ \A q \in Processes \ {p} : s \notin flushed[q]
  /\ KeyUnique => keyed <= 1

(* The robot types are committed together: all are there or none is.  What *)
(* a seeding process neither lacks nor has inserted is there.              *)
SeedsTogether ==
  /\ \/ \A s \in Seeds : names[s] = 0
     \/ \A s \in Seeds : names[s] >= 1
  /\ \A p \in Processes : pc[p] = "seeding" =>
       \A s \in Seeds : names[s] >= 1 \/ s \in lack[p] \cup flushed[p]

Seeding(s) == {p \in Processes : s \in lack[p] \cup flushed[p]}

(* Each process adds a robot type once at most while it is there.          *)
SeedBudget ==
  \A s \in Seeds : names[s] + Cardinality(Seeding(s)) <= Cardinality(Processes)

Inv ==
  Typed /\ TablesFirst /\ Unique /\ SeedsTogether /\ SeedBudget /\ SeededWhenServing

-----------------------------------------------------------------------------
LEMMA PlanTyped ==
  ASSUME Typed, cmd # Idle
  PROVE  /\ Plan \in Seq(Statement)
         /\ cmd.at <= Len(Plan) => Plan[cmd.at] \in Statement
<1>1. Plan \in Seq(Statement)
  BY RevisionsTyped DEF Typed, Running, Plan
<1>2. cmd.at \in Nat /\ cmd.at >= 1
  BY DEF Typed, Running
<1> QED
  BY <1>1, <1>2

LEMMA ApplyTyped ==
  ASSUME NEW s \in [tables : SUBSET Tables, indexes : SUBSET Indexes],
         NEW op \in Statement
  PROVE  Apply(s, op) \in [tables : SUBSET Tables, indexes : SUBSET Indexes]
BY DEF Apply, Statement

(* The first robot type that is lacking.                                   *)
LEMMA NextSeedLacks ==
  ASSUME NEW p \in Processes, lack[p] \subseteq Seeds, lack[p] # {}
  PROVE  NextSeed(p) \in lack[p]
<1> DEFINE D == DEFAULT_ROBOT_TYPES
           I == {i \in 1..Len(D) : D[i] \in lack[p]}
<1>1. Len(D) = 3 /\ D[1] = "LMR" /\ D[2] = "FMR" /\ D[3] = "CT7"
  BY DEF DEFAULT_ROBOT_TYPES
<1>2. I # {} /\ I \subseteq 1..3
  BY <1>1, SeedsAre
<1>3. \E x \in I : \A y \in I : x <= y
  <2>1. CASE 1 \in I
    BY <1>2, <2>1
  <2>2. CASE 1 \notin I /\ 2 \in I
    BY <1>2, <2>2
  <2>3. CASE 1 \notin I /\ 2 \notin I
    BY <1>2, <2>3
  <2> QED
    BY <2>1, <2>2, <2>3
<1>4. Min(I) \in I
  BY <1>3 DEF Min
<1>5. SelectInSeq(D, LAMBDA s : s \in lack[p]) = Min(I)
  BY <1>2 DEF SelectInSeq
<1> QED
  BY <1>4, <1>5 DEF NextSeed

(* A statement that ran is one of the revision's, applicable and waiting   *)
(* for no transaction; only dropping a table takes rows away.              *)
LEMMA DdlRuns ==
  ASSUME Typed, Ddl
  PROVE  \E op \in Statement :
           /\ TableFree(op) /\ Applicable(op)
           /\ schema' = Apply(schema, op)
           /\ names' = IF op = DropTable("robot_types")
                       THEN [s \in Seeds |-> 0] ELSE names
           /\ excused' = IF op = DropTable("robot_types") THEN Processes ELSE excused
           /\ keyed' = IF op = DropTable("task_history") THEN 0 ELSE keyed
           /\ UNCHANGED <<pc, lack, flushed>>
BY PlanTyped DEF Ddl

LEMMA TypeInit == Init => Typed
BY RevisionsTyped DEF Init, Typed, Running, Empty, Stage

LEMMA TypeStep == Typed /\ [Next]_vars => Typed'
<1> SUFFICES ASSUME Typed, [Next]_vars PROVE Typed'
  OBVIOUS
<1> USE DEF database, process
<1>1. ASSUME NEW dir \in {"up", "down"}, Command(dir) PROVE Typed'
  <2>1. cmd' \in [dir : {"up", "down"}, at : Nat] /\ cmd'.dir = dir /\ cmd'.at = 1
    BY <1>1 DEF Command
  <2>2. Plan' \in Seq(Statement)
    BY <1>1, <2>1, RevisionsTyped DEF Typed, Command, Plan
  <2>3. Running'
    BY <1>1, <2>1, <2>2 DEF Running, Command
  <2> QED
    BY <1>1, <2>3 DEF Typed, Command
<1>2. CASE Ddl
  <2>1. cmd # Idle /\ cmd.at <= Len(Plan) /\ cmd' = [cmd EXCEPT !.at = @ + 1]
        /\ UNCHANGED <<version, torn, pc, lack, flushed>>
    BY <1>2 DEF Ddl
  <2>2. Plan' = Plan
    BY <2>1 DEF Plan, Typed, Running
  <2>3. Len(Plan) \in Nat
    BY <2>1, PlanTyped
  <2>4. Running'
    BY <2>1, <2>2, <2>3 DEF Typed, Running
  <2>5. PICK op \in Statement :
           /\ schema' = Apply(schema, op)
           /\ names' = IF op = DropTable("robot_types")
                       THEN [s \in Seeds |-> 0] ELSE names
           /\ excused' = IF op = DropTable("robot_types") THEN Processes ELSE excused
           /\ keyed' = IF op = DropTable("task_history") THEN 0 ELSE keyed
    BY <1>2, DdlRuns
  <2>6. schema' \in [tables : SUBSET Tables, indexes : SUBSET Indexes]
    BY <2>5, ApplyTyped DEF Typed
  <2>7. names' \in [Seeds -> Nat] /\ excused' \subseteq Processes /\ keyed' \in 0..2
    BY <2>5 DEF Typed
  <2> QED
    BY <2>1, <2>4, <2>6, <2>7 DEF Typed
<1>3. CASE DdlRefused \/ Interrupt
  BY <1>3 DEF DdlRefused, Interrupt, Stopped, Typed, Running
<1>4. CASE Record
  <2>1. /\ cmd # Idle
        /\ version' = IF cmd.dir = "up" THEN version + 1 ELSE version - 1
        /\ cmd' = IF cmd.dir = "up" /\ version' < HeadVersion THEN [cmd EXCEPT !.at = 1]
                  ELSE Idle
        /\ UNCHANGED <<schema, torn, names, keyed, process>>
    BY <1>4 DEF Record
  <2>2. version' \in 0..HeadVersion
    BY <2>1, RevisionsTyped DEF Typed, Running
  <2>3. Running'
    <3> SUFFICES ASSUME cmd' # Idle PROVE Running'
      BY DEF Running
    <3>1. cmd.dir = "up" /\ version' < HeadVersion /\ cmd' = [cmd EXCEPT !.at = 1]
      BY <2>1
    <3>2. cmd' \in [dir : {"up", "down"}, at : Nat] /\ cmd'.dir = "up" /\ cmd'.at = 1
      BY <2>1, <3>1 DEF Typed, Running
    <3>3. Plan' \in Seq(Statement)
      BY <2>2, <3>1, <3>2, RevisionsTyped DEF Plan
    <3> QED
      BY <3>1, <3>2, <3>3 DEF Running
  <2> QED
    BY <2>1, <2>2, <2>3 DEF Typed
<1>5. ASSUME UNCHANGED database PROVE Running'
  BY <1>5 DEF Typed, Running, Plan
<1>6. ASSUME NEW p \in Processes, Boot(p) PROVE Typed'
  BY <1>5, <1>6 DEF Typed, Boot, Goto, Stage
<1>7. ASSUME NEW p \in Processes, SelectNames(p) PROVE Typed'
  BY <1>5, <1>7 DEF Typed, SelectNames, Goto, Stage
<1>8. ASSUME NEW p \in Processes, InsertSeed(p) PROVE Typed'
  <2>1. NextSeed(p) \in Seeds
    BY <1>8, NextSeedLacks DEF Typed, InsertSeed
  <2> QED
    BY <1>5, <1>8, <2>1 DEF Typed, InsertSeed
<1>9. ASSUME NEW p \in Processes, InsertRefused(p) PROVE Typed'
  BY <1>5, <1>9 DEF Typed, InsertRefused, Goto, EndTransaction, Stage
<1>10. ASSUME NEW p \in Processes, CommitSeeds(p) PROVE Typed'
  BY <1>5, <1>10 DEF Typed, CommitSeeds, Goto, EndTransaction, Stage, Committed
<1>11. ASSUME NEW p \in Processes, SeedFailed(p) PROVE Typed'
  BY <1>5, <1>11 DEF Typed, SeedFailed, Goto, EndTransaction, Stage
<1>12. ASSUME NEW p \in Processes, Exit(p) PROVE Typed'
  BY <1>5, <1>12 DEF Typed, Exit, EndTransaction, Stage
<1>13. CASE InsertTask
  BY <1>5, <1>13 DEF Typed, InsertTask
<1>14. CASE UNCHANGED vars
  BY <1>5, <1>14 DEF Typed, vars
<1> QED
  BY <1>1, <1>2, <1>3, <1>4, <1>6, <1>7, <1>8, <1>9, <1>10, <1>11, <1>12, <1>13, <1>14
  DEF Next

-----------------------------------------------------------------------------
(* Only dropping it takes a table or its rows away.                        *)
LEMMA DropIs ==
  ASSUME NEW op \in Statement, NEW t \in Tables, op.do = "drop_table", op.on = t
  PROVE  op = DropTable(t)
BY DEF Statement, DropTable, Op

LEMMA TablesKept ==
  ASSUME Typed, TablesFirst, NEW op \in Statement, schema' = Apply(schema, op)
  PROVE  /\ \A i \in schema'.indexes : i.on \in schema'.tables \/ op.do = "create_index"
         /\ \A t \in Tables : t \notin schema'.tables =>
              t \notin schema.tables \/ op = DropTable(t)
<1> USE DEF Statement, Typed, TablesFirst, Apply
<1>1. CASE op.do = "create_table"
  BY <1>1
<1>2. CASE op.do = "drop_table"
  <2>1. schema'.tables = schema.tables \ {op.on}
        /\ schema'.indexes = {i \in schema.indexes : i.on # op.on}
    BY <1>2
  <2> QED
    BY <1>2, <2>1, DropIs
<1>3. CASE op.do = "create_index"
  BY <1>3
<1>4. CASE op.do = "drop_index"
  BY <1>4
<1>5. CASE op.do = "alter_column"
  BY <1>5
<1> QED
  BY <1>1, <1>2, <1>3, <1>4, <1>5

LEMMA TablesDdl ==
  ASSUME Typed, TablesFirst, Ddl
  PROVE  TablesFirst'
<1>1. PICK op \in Statement :
        /\ TableFree(op) /\ Applicable(op)
        /\ schema' = Apply(schema, op)
        /\ names' = IF op = DropTable("robot_types") THEN [s \in Seeds |-> 0] ELSE names
        /\ keyed' = IF op = DropTable("task_history") THEN 0 ELSE keyed
        /\ pc' = pc
  BY DdlRuns
<1>2. ASSUME NEW i \in schema'.indexes PROVE i.on \in schema'.tables
  <2>1. CASE op.do = "create_index"
    <3>1. schema'.tables = schema.tables /\ i \in schema.indexes \cup op.indexes
      BY <1>1, <1>2, <2>1 DEF Apply, Typed
    <3> QED
      BY <1>1, <2>1, <3>1 DEF Applicable, TablesFirst
  <2> QED
    BY <1>1, <1>2, <2>1, TablesKept
<1>3. ASSUME "robot_types" \notin schema'.tables
      PROVE  /\ \A s \in Seeds : names'[s] = 0
             /\ \A p \in Processes : pc'[p] # "seeding"
  <2>1. CASE op = DropTable("robot_types")
    <3>1. op.on = "robot_types"
      BY <2>1 DEF DropTable, Op
    <3> QED
      BY <1>1, <2>1, <3>1 DEF TableFree
  <2>2. CASE "robot_types" \notin schema.tables
    BY <1>1, <2>2 DEF TablesFirst
  <2> QED
    BY <1>1, <1>3, <2>1, <2>2, TablesKept DEF Tables
<1>4. ASSUME "task_history" \notin schema'.tables PROVE keyed' = 0
  BY <1>1, <1>4, TablesKept DEF Tables, TablesFirst
<1> QED
  BY <1>2, <1>3, <1>4 DEF TablesFirst

LEMMA TablesStep == Typed /\ TablesFirst /\ [Next]_vars => TablesFirst'
<1> SUFFICES ASSUME Typed, TablesFirst, [Next]_vars PROVE TablesFirst'
  OBVIOUS
<1> USE DEF database, process
<1>1. CASE \/ \E dir \in {"up", "down"} : Command(dir)
           \/ DdlRefused \/ Interrupt \/ Record \/ UNCHANGED vars
  <2>1. UNCHANGED <<schema, names, keyed, pc>>
    BY <1>1 DEF Command, DdlRefused, Interrupt, Stopped, Record, vars
  <2> QED
    BY <2>1 DEF TablesFirst
<1>2. CASE Ddl
  BY <1>2, TablesDdl
<1>3. ASSUME NEW p \in Processes, SelectNames(p) PROVE TablesFirst'
  BY <1>3 DEF SelectNames, Goto, TablesFirst
<1>4. ASSUME NEW p \in Processes, CommitSeeds(p) PROVE TablesFirst'
  <2>1. "robot_types" \in schema.tables
    BY <1>4 DEF CommitSeeds, Goto, TablesFirst
  <2> QED
    BY <1>4, <2>1 DEF CommitSeeds, Goto, TablesFirst
<1>5. ASSUME NEW p \in Processes,
             Boot(p) \/ InsertSeed(p) \/ InsertRefused(p) \/ SeedFailed(p) \/ Exit(p)
      PROVE  TablesFirst'
  <2>1. UNCHANGED <<schema, names, keyed>>
        /\ \A r \in Processes : pc'[r] = "seeding" => pc[r] = "seeding"
    BY <1>5
    DEF Boot, InsertSeed, InsertRefused, SeedFailed, Exit, Goto, EndTransaction, Typed
  <2> QED
    BY <2>1 DEF TablesFirst
<1>6. CASE InsertTask
  BY <1>6 DEF InsertTask, TablesFirst
<1> QED
  BY <1>1, <1>2, <1>3, <1>4, <1>5, <1>6 DEF Next

-----------------------------------------------------------------------------
LEMMA UniqueDdl ==
  ASSUME Typed, TablesFirst, Unique, Ddl
  PROVE  Unique'
<1>1. PICK op \in Statement :
        /\ TableFree(op) /\ Applicable(op)
        /\ schema' = Apply(schema, op)
        /\ names' = IF op = DropTable("robot_types") THEN [s \in Seeds |-> 0] ELSE names
        /\ keyed' = IF op = DropTable("task_history") THEN 0 ELSE keyed
        /\ UNCHANGED <<pc, lack, flushed>>
  BY DdlRuns
<1>2. \A i \in schema'.indexes : \/ i \in schema.indexes
                                 \/ i \in op.indexes /\ op.do \in {"create_table", "create_index"}
  BY <1>1 DEF Typed, Apply, Statement
<1>3. ASSUME op.on = "robot_types" PROVE \A p \in Processes : flushed[p] = {}
  BY <1>1, <1>3 DEF TableFree, Typed
<1>4. ASSUME NameUnique', NEW s \in Seeds
      PROVE  /\ names'[s] <= 1
             /\ \A p \in Processes : s \in flushed'[p] =>
                  names'[s] = 0 /\ \A r \in Processes \ {p} : s \notin flushed'[r]
  <2>1. CASE op = DropTable("robot_types")
    <3>1. op.on = "robot_types"
      BY <2>1 DEF DropTable, Op
    <3> QED
      BY <1>1, <1>3, <2>1, <3>1
  <2>2. CASE op # DropTable("robot_types") /\ NameUnique
    BY <1>1, <2>2 DEF Unique
  <2>3. CASE op # DropTable("robot_types") /\ ~NameUnique
    <3>1. PICK i \in op.indexes : /\ i.on = "robot_types" /\ i.column = "name" /\ i.unique
                                  /\ op.do \in {"create_table", "create_index"}
      BY <1>2, <1>4, <2>3 DEF NameUnique
    <3>2. op.on = "robot_types"
      BY <3>1 DEF Statement
    <3>3. names[s] <= 1
      <4>1. CASE op.do = "create_table"
        BY <1>1, <3>2, <4>1 DEF Applicable, TablesFirst
      <4>2. CASE op.do = "create_index"
        BY <1>1, <3>1, <4>2 DEF Applicable, Repeated, Typed
      <4> QED
        BY <3>1, <4>1, <4>2
    <3> QED
      BY <1>1, <1>3, <2>3, <3>2, <3>3
  <2> QED
    BY <2>1, <2>2, <2>3
<1>5. ASSUME KeyUnique' PROVE keyed' <= 1
  <2>1. CASE op = DropTable("task_history")
    BY <1>1, <2>1
  <2>2. CASE op # DropTable("task_history") /\ KeyUnique
    BY <1>1, <2>2 DEF Unique
  <2>3. CASE op # DropTable("task_history") /\ ~KeyUnique
    <3>1. PICK i \in op.indexes :
             /\ i.on = "task_history" /\ i.column = "idempotency_key" /\ i.unique
             /\ op.do \in {"create_table", "create_index"}
      BY <1>2, <1>5, <2>3 DEF KeyUnique
    <3>2. op.on = "task_history"
      BY <3>1 DEF Statement
    <3>3. keyed <= 1
      <4>1. CASE op.do = "create_table"
        BY <1>1, <3>2, <4>1 DEF Applicable, TablesFirst
      <4>2. CASE op.do = "create_index"
        BY <1>1, <3>1, <4>2 DEF Applicable, Repeated, Typed
      <4> QED
        BY <3>1, <4>1, <4>2
    <3> QED
      BY <1>1, <2>3, <3>3
  <2> QED
    BY <2>1, <2>2, <2>3
<1> QED
  BY <1>4, <1>5 DEF Unique

LEMMA UniqueStep == Typed /\ TablesFirst /\ Unique /\ [Next]_vars => Unique'
<1> SUFFICES ASSUME Typed, TablesFirst, Unique, [Next]_vars PROVE Unique'
  OBVIOUS
<1> USE DEF database, process
<1>1. ASSUME UNCHANGED schema
      PROVE  (NameUnique' <=> NameUnique) /\ (KeyUnique' <=> KeyUnique)
  BY <1>1 DEF NameUnique, KeyUnique
<1>2. CASE \/ \E dir \in {"up", "down"} : Command(dir)
           \/ DdlRefused \/ Interrupt \/ Record \/ UNCHANGED vars
  <2>1. UNCHANGED <<schema, names, keyed, flushed>>
    BY <1>2 DEF Command, DdlRefused, Interrupt, Stopped, Record, vars
  <2> QED
    BY <1>1, <2>1 DEF Unique
<1>3. CASE Ddl
  BY <1>3, UniqueDdl
<1>4. ASSUME NEW p \in Processes,
             \/ Boot(p) \/ SelectNames(p) \/ InsertRefused(p) \/ SeedFailed(p) \/ Exit(p)
      PROVE  Unique'
  <2>1. UNCHANGED <<schema, names, keyed>>
        /\ \A r \in Processes : flushed'[r] \subseteq flushed[r]
    BY <1>4
    DEF Boot, SelectNames, InsertRefused, SeedFailed, Exit, EndTransaction, Typed
  <2> QED
    BY <1>1, <2>1 DEF Unique
<1>5. ASSUME NEW p \in Processes, InsertSeed(p) PROVE Unique'
  <2>1. NextSeed(p) \in Seeds
    BY <1>5, NextSeedLacks DEF Typed, InsertSeed
  <2> DEFINE n == NextSeed(p)
  <2>2. /\ UNCHANGED <<schema, names, keyed>>
        /\ \A r \in Processes : flushed'[r] = IF r = p THEN flushed[p] \cup {n} ELSE flushed[r]
        /\ NameUnique => names[n] = 0 /\ \A r \in Processes \ {p} : n \notin flushed[r]
    BY <1>5 DEF InsertSeed, Typed
  <2> HIDE DEF n
  <2> QED
    BY <1>1, <2>2 DEF Unique
<1>6. ASSUME NEW p \in Processes, CommitSeeds(p) PROVE Unique'
  <2>1. /\ UNCHANGED <<schema, keyed>>
        /\ \A s \in Seeds : names'[s] = names[s] + IF s \in flushed[p] THEN 1 ELSE 0
        /\ \A r \in Processes : flushed'[r] = IF r = p THEN {} ELSE flushed[r]
    BY <1>6 DEF CommitSeeds, Committed, EndTransaction, Typed
  <2>2. \A s \in Seeds : names[s] \in Nat
    BY DEF Typed
  <2> QED
    BY <1>1, <2>1, <2>2 DEF Unique
<1>7. CASE InsertTask
  <2>1. UNCHANGED <<schema, names, flushed>> /\ keyed' = keyed + 1
        /\ (KeyUnique => keyed < 1) /\ keyed \in 0..2
    BY <1>7 DEF InsertTask, Typed
  <2> QED
    BY <1>1, <2>1 DEF Unique
<1> QED
  BY <1>2, <1>3, <1>4, <1>5, <1>6, <1>7 DEF Next

-----------------------------------------------------------------------------
(* What a step does to the robot types: they stay, or the table is dropped *)
(* while nobody seeds it and every process is excused, or a process        *)
(* commits the rest of them.                                               *)
LEMMA NamesStep ==
  ASSUME Typed, SeedsTogether, [Next]_vars
  PROVE  \/ names' = names
         \/ /\ names' = [s \in Seeds |-> 0] /\ excused' = Processes
            /\ \A p \in Processes : pc'[p] # "seeding" /\ lack'[p] = {} /\ flushed'[p] = {}
         \/ \E p \in Processes : CommitSeeds(p) /\ \A s \in Seeds : names'[s] >= 1
<1> USE DEF database, process
<1>1. CASE Ddl
  <2>1. PICK op \in Statement :
          /\ TableFree(op)
          /\ names' = IF op = DropTable("robot_types") THEN [s \in Seeds |-> 0] ELSE names
          /\ excused' = IF op = DropTable("robot_types") THEN Processes ELSE excused
          /\ UNCHANGED <<pc, lack, flushed>>
    BY <1>1, DdlRuns
  <2>2. CASE op = DropTable("robot_types")
    <3>1. op.on = "robot_types"
      BY <2>2 DEF DropTable, Op
    <3>2. \A p \in Processes : pc[p] # "seeding" /\ lack[p] = {} /\ flushed[p] = {}
      BY <2>1, <3>1 DEF TableFree, Typed
    <3> QED
      BY <2>1, <2>2, <3>2
  <2> QED
    BY <2>1, <2>2
<1>2. ASSUME NEW p \in Processes, CommitSeeds(p)
      PROVE  CommitSeeds(p) /\ \A s \in Seeds : names'[s] >= 1
  <2>1. \A s \in Seeds : names[s] \in Nat /\ names'[s] = names[s] + IF s \in flushed[p] THEN 1 ELSE 0
    BY <1>2 DEF CommitSeeds, Committed, Typed
  <2>2. \A s \in Seeds : names[s] >= 1 \/ s \in flushed[p]
    BY <1>2 DEF CommitSeeds, Goto, SeedsTogether
  <2> QED
    BY <1>2, <2>1, <2>2
<1>3. ASSUME NEW p \in Processes,
             \/ Boot(p) \/ SelectNames(p) \/ InsertSeed(p) \/ InsertRefused(p)
             \/ SeedFailed(p) \/ Exit(p)
      PROVE  names' = names
  BY <1>3 DEF Boot, SelectNames, InsertSeed, InsertRefused, SeedFailed, Exit
<1>4. CASE \/ \E dir \in {"up", "down"} : Command(dir)
           \/ DdlRefused \/ Interrupt \/ Record \/ InsertTask \/ UNCHANGED vars
  BY <1>4 DEF Command, DdlRefused, Interrupt, Stopped, Record, InsertTask, vars
<1> QED
  BY <1>1, <1>2, <1>3, <1>4 DEF Next

(* A process that seeds has lacked what was missing when it selected, and  *)
(* keeps that, in lack or flushed, until its transaction ends.             *)
LEMMA SeedingStep ==
  ASSUME Typed, [Next]_vars, NEW p \in Processes, pc'[p] = "seeding"
  PROVE  \/ pc[p] = "seeding" /\ lack'[p] \cup flushed'[p] = lack[p] \cup flushed[p]
         \/ /\ names' = names /\ flushed'[p] = {}
            /\ \A s \in Seeds : names[s] = 0 <=> s \in lack'[p]
<1> USE DEF database, process
<1>1. CASE \/ \E dir \in {"up", "down"} : Command(dir)
           \/ Ddl \/ DdlRefused \/ Interrupt \/ Record \/ InsertTask \/ UNCHANGED vars
  BY <1>1 DEF Command, Ddl, DdlRefused, Interrupt, Stopped, Record, InsertTask, vars
<1>2. ASSUME NEW r \in Processes, SelectNames(r)
      PROVE  \/ pc[p] = "seeding" /\ lack'[p] \cup flushed'[p] = lack[p] \cup flushed[p]
             \/ /\ names' = names /\ flushed'[p] = {}
                /\ \A s \in Seeds : names[s] = 0 <=> s \in lack'[p]
  BY <1>2 DEF SelectNames, Goto, Typed
<1>3. ASSUME NEW r \in Processes, InsertSeed(r)
      PROVE  pc[p] = "seeding" /\ lack'[p] \cup flushed'[p] = lack[p] \cup flushed[p]
  <2>1. NextSeed(r) \in lack[r]
    BY <1>3, NextSeedLacks DEF Typed, InsertSeed
  <2> DEFINE n == NextSeed(r)
  <2>2. /\ pc' = pc
        /\ flushed' = [flushed EXCEPT ![r] = @ \cup {n}]
        /\ lack' = [lack EXCEPT ![r] = @ \ {n}]
    BY <1>3 DEF InsertSeed
  <2> HIDE DEF n
  <2>3. n \in lack[r]
    BY <2>1 DEF n
  <2> QED
    BY <2>2, <2>3 DEF Typed
<1>4. ASSUME NEW r \in Processes,
             \/ Boot(r) \/ InsertRefused(r) \/ CommitSeeds(r) \/ SeedFailed(r) \/ Exit(r)
      PROVE  pc[p] = "seeding" /\ lack'[p] \cup flushed'[p] = lack[p] \cup flushed[p]
  BY <1>4
  DEF Boot, InsertRefused, CommitSeeds, SeedFailed, Exit, Goto, EndTransaction, Typed
<1> QED
  BY <1>1, <1>2, <1>3, <1>4 DEF Next

LEMMA TogetherStep == Typed /\ SeedsTogether /\ [Next]_vars => SeedsTogether'
<1> SUFFICES ASSUME Typed, SeedsTogether, [Next]_vars PROVE SeedsTogether'
  OBVIOUS
<1>1. \A s \in Seeds : names[s] \in Nat
  BY DEF Typed
<1>2. \/ \A s \in Seeds : names'[s] = 0
      \/ \A s \in Seeds : names'[s] >= 1
  BY NamesStep DEF SeedsTogether
<1>3. ASSUME NEW p \in Processes, pc'[p] = "seeding", NEW s \in Seeds
      PROVE  names'[s] >= 1 \/ s \in lack'[p] \cup flushed'[p]
  <2>1. CASE pc[p] = "seeding" /\ lack'[p] \cup flushed'[p] = lack[p] \cup flushed[p]
    <3>1. names[s] >= 1 \/ s \in lack'[p] \cup flushed'[p]
      BY <2>1 DEF SeedsTogether
    <3> QED
      BY <1>3, <3>1, NamesStep
  <2>2. CASE names' = names /\ \A x \in Seeds : names[x] = 0 <=> x \in lack'[p]
    BY <1>1, <2>2
  <2> QED
    BY <1>3, <2>1, <2>2, SeedingStep
<1> QED
  BY <1>2, <1>3 DEF SeedsTogether

(* A process comes to serve with every robot type there, or excused; the   *)
(* one whose insert was refused relies on the robot types being together.  *)
LEMMA ServingStep ==
  Typed /\ SeedsTogether /\ SeededWhenServing /\ [Next]_vars => SeededWhenServing'
<1> SUFFICES ASSUME Typed, SeedsTogether, SeededWhenServing, [Next]_vars,
                    NEW p \in Processes, pc'[p] = "serving", p \notin excused'
             PROVE  \A s \in Seeds : names'[s] >= 1
  BY DEF SeededWhenServing
<1> USE DEF database, process
<1>1. \A s \in Seeds : names[s] \in Nat
  BY DEF Typed
<1>2. CASE pc[p] = "serving" /\ p \notin excused
  BY <1>2, NamesStep DEF SeededWhenServing
<1>3. CASE \/ \E dir \in {"up", "down"} : Command(dir)
           \/ Ddl \/ DdlRefused \/ Interrupt \/ Record \/ InsertTask \/ UNCHANGED vars
  <2>1. pc' = pc /\ (excused' = excused \/ excused' = Processes)
    BY <1>3 DEF Command, Ddl, DdlRefused, Interrupt, Stopped, Record, InsertTask, vars
  <2> QED
    BY <1>2, <2>1
<1>4. ASSUME NEW r \in Processes, SelectNames(r) PROVE \A s \in Seeds : names'[s] >= 1
  <2>1. CASE r = p
    <3>1. names' = names /\ lack'[p] = {s \in Seeds : names[s] = 0} /\ lack'[p] = {}
      BY <1>4, <2>1 DEF SelectNames, Goto, Typed
    <3> QED
      BY <1>1, <3>1
  <2>2. CASE r # p
    BY <1>2, <1>4, <2>2 DEF SelectNames, Goto, Typed
  <2> QED
    BY <2>1, <2>2
<1>5. ASSUME NEW r \in Processes, InsertRefused(r) PROVE \A s \in Seeds : names'[s] >= 1
  <2>1. CASE r = p
    <3>1. NextSeed(p) \in Seeds /\ names[NextSeed(p)] > 0 /\ names' = names
      BY <1>5, <2>1, NextSeedLacks DEF Typed, InsertRefused
    <3> QED
      BY <1>1, <3>1 DEF SeedsTogether
  <2>2. CASE r # p
    BY <1>2, <1>5, <2>2 DEF InsertRefused, Goto, Typed
  <2> QED
    BY <2>1, <2>2
<1>6. ASSUME NEW r \in Processes, CommitSeeds(r) PROVE \A s \in Seeds : names'[s] >= 1
  <2>1. \A s \in Seeds : names'[s] = names[s] + IF s \in flushed[r] THEN 1 ELSE 0
    BY <1>6 DEF CommitSeeds, Committed
  <2>2. \A s \in Seeds : names[s] >= 1 \/ s \in flushed[r]
    BY <1>6 DEF CommitSeeds, Goto, SeedsTogether
  <2> QED
    BY <1>1, <2>1, <2>2
<1>7. ASSUME NEW r \in Processes, Boot(r) \/ InsertSeed(r) \/ SeedFailed(r) \/ Exit(r)
      PROVE  \A s \in Seeds : names'[s] >= 1
  <2>1. pc[p] = "serving" /\ p \notin excused
    BY <1>7 DEF Boot, InsertSeed, SeedFailed, Exit, Goto, Typed
  <2> QED
    BY <1>2, <2>1
<1> QED
  BY <1>3, <1>4, <1>5, <1>6, <1>7 DEF Next

LEMMA SeedingFinite ==
  ASSUME NEW S, S \subseteq Processes
  PROVE  /\ IsFiniteSet(S) /\ Cardinality(S) \in Nat
         /\ Cardinality(S) <= Cardinality(Processes)
BY DeploymentAssumption, FS_Subset, FS_CardinalityType

LEMMA BudgetStep ==
  Typed /\ SeedsTogether /\ SeedBudget /\ [Next]_vars => SeedBudget'
<1> SUFFICES ASSUME Typed, SeedsTogether, SeedBudget, [Next]_vars, NEW s \in Seeds
             PROVE  names'[s] + Cardinality(Seeding(s)') <= Cardinality(Processes)
  BY DEF SeedBudget
<1> DEFINE before == Seeding(s)
           after == Seeding(s)'
<1>1. before \subseteq Processes /\ after \subseteq Processes
  BY DEF Seeding
<1>2. /\ IsFiniteSet(before) /\ Cardinality(before) \in Nat
      /\ IsFiniteSet(after) /\ Cardinality(after) \in Nat
      /\ Cardinality(after) <= Cardinality(Processes)
      /\ Cardinality(Processes) \in Nat
  BY <1>1, SeedingFinite
<1>3. names[s] \in Nat /\ names[s] + Cardinality(before) <= Cardinality(Processes)
  BY DEF Typed, SeedBudget
<1>4. ASSUME NEW r \in after
      PROVE  \/ r \in before
             \/ names' = names /\ names[s] = 0
  <2>1. r \in Processes /\ s \in lack'[r] \cup flushed'[r]
    BY <1>4 DEF Seeding
  <2>2. pc'[r] = "seeding"
    BY <2>1, TypeStep DEF Typed
  <2> QED
    BY <2>1, <2>2, SeedingStep DEF Seeding
<1>5. ASSUME NEW c, c \in SUBSET before, after \subseteq c
      PROVE  IsFiniteSet(c) /\ Cardinality(after) <= Cardinality(c)
  BY <1>2, <1>5, FS_Subset
<1>6. CASE names' = names
  <2>1. CASE names[s] = 0
    BY <1>2, <1>6, <2>1
  <2>2. CASE names[s] # 0
    <3>1. after \subseteq before
      BY <1>4, <2>2
    <3>2. Cardinality(after) <= Cardinality(before)
      BY <1>5, <3>1
    <3> QED
      BY <1>2, <1>3, <1>6, <3>2
  <2> QED
    BY <2>1, <2>2
<1>7. CASE names' = [x \in Seeds |-> 0]
  BY <1>2, <1>7
<1>8. ASSUME NEW p \in Processes, CommitSeeds(p), names' # names
      PROVE  names'[s] + Cardinality(after) <= Cardinality(Processes)
  <2>1. names'[s] = names[s] + IF s \in flushed[p] THEN 1 ELSE 0
    BY <1>8 DEF CommitSeeds, Committed
  <2>2. after \subseteq before
    BY <1>4, <1>8
  <2>3. CASE s \in flushed[p]
    <3>1. p \in before /\ p \notin after
      BY <1>8, <2>3 DEF Seeding, CommitSeeds, EndTransaction, Typed
    <3>2. Cardinality(before \ {p}) = Cardinality(before) - 1
      BY <1>2, <3>1, FS_RemoveElement, Zenon
    <3>3. Cardinality(after) <= Cardinality(before \ {p})
      BY <1>5, <2>2, <3>1
    <3> QED
      BY <1>2, <1>3, <2>1, <2>3, <3>2, <3>3
  <2>4. CASE s \notin flushed[p]
    <3>1. Cardinality(after) <= Cardinality(before)
      BY <1>5, <2>2
    <3> QED
      BY <1>2, <1>3, <2>1, <2>4, <3>1
  <2> QED
    BY <2>3, <2>4
<1> QED
  BY <1>6, <1>7, <1>8, NamesStep

-----------------------------------------------------------------------------
LEMMA InvInit == Init => Inv
<1> SUFFICES ASSUME Init PROVE Inv
  OBVIOUS
<1>1. TablesFirst /\ Unique /\ SeedsTogether /\ SeededWhenServing
  BY DEF Init, Empty, TablesFirst, Unique, NameUnique, KeyUnique, SeedsTogether,
         SeededWhenServing
<1>2. ASSUME NEW s \in Seeds PROVE names[s] + Cardinality(Seeding(s)) <= Cardinality(Processes)
  <2>1. Seeding(s) \subseteq Processes
    BY DEF Seeding
  <2>2. Cardinality(Seeding(s)) \in Nat /\ Cardinality(Seeding(s)) <= Cardinality(Processes)
    BY <2>1, SeedingFinite
  <2>3. Cardinality(Processes) \in Nat
    BY SeedingFinite
  <2> QED
    BY <2>2, <2>3 DEF Init
<1> QED
  BY <1>1, <1>2, TypeInit DEF Inv, SeedBudget

LEMMA InvStep == Inv /\ [Next]_vars => Inv'
BY TypeStep, TablesStep, UniqueStep, TogetherStep, BudgetStep, ServingStep DEF Inv

LEMMA InvAlways == Spec => []Inv
BY InvInit, InvStep, PTL DEF Spec

(* Type correctness; a robot type has a row of each process at most.       *)
THEOREM TypeCorrect == Spec => []TypeOK
<1>1. ASSUME Inv PROVE TypeOK
  <2>1. ASSUME NEW s \in Seeds PROVE names[s] \in 0..Cardinality(Processes)
    <3>1. Seeding(s) \subseteq Processes
      BY DEF Seeding
    <3>2. Cardinality(Seeding(s)) \in Nat /\ Cardinality(Processes) \in Nat
      BY <3>1, SeedingFinite
    <3> QED
      BY <1>1, <3>2 DEF Inv, Typed, SeedBudget
  <2>2. names \in [Seeds -> 0..Cardinality(Processes)]
    BY <1>1, <2>1 DEF Inv, Typed
  <2> QED
    BY <1>1, <2>2 DEF Inv, Typed, Running, TypeOK
<1> QED
  BY <1>1, InvAlways, PTL

(* A process that serves without a database error of its own finds every   *)
(* robot type, although its own insert may have been refused: all of them  *)
(* are committed together, by whoever was first.                           *)
THEOREM ServingSeeded == Spec => []SeededWhenServing
<1>1. Inv => SeededWhenServing
  BY DEF Inv
<1> QED
  BY <1>1, InvAlways, PTL

-----------------------------------------------------------------------------
(* What n statements of a plan make of a schema: each table and index is   *)
(* there if the last statement that concerns it created it, or if none     *)
(* concerns it and it was there.                                           *)
DropsTable(op, t) == op.do = "drop_table" /\ op.on = t
Drops(op, i) ==
  \/ DropsTable(op, i.on)
  \/ op.do = "drop_index" /\ \E j \in op.indexes : SameName(i, j)
Makes(op, i) == op.do \in {"create_table", "create_index"} /\ i \in op.indexes
MakesTable(op, t) == op.do = "create_table" /\ op.on = t

After(s, plan, n) ==
  [tables |-> {t \in Tables :
     \/ t \in s.tables /\ \A l \in 1..n : ~DropsTable(plan[l], t)
     \/ \E j \in 1..n : /\ MakesTable(plan[j], t)
                        /\ \A l \in j..n : ~DropsTable(plan[l], t)},
   indexes |-> {i \in Indexes :
     \/ i \in s.indexes /\ \A l \in 1..n : ~Drops(plan[l], i)
     \/ \E j \in 1..n : /\ Makes(plan[j], i)
                        /\ \A l \in j..n : ~Drops(plan[l], i)}]

Schema == [tables : SUBSET Tables, indexes : SUBSET Indexes]

LEMMA AfterNone ==
  ASSUME NEW s \in Schema, NEW plan
  PROVE  After(s, plan, 0) = s
BY DEF After, Schema

LEMMA AfterNext ==
  ASSUME NEW s \in Schema, NEW plan \in Seq(Statement), NEW n \in Nat, n < Len(plan)
  PROVE  After(s, plan, n + 1) = Apply(After(s, plan, n), plan[n + 1])
<1> DEFINE op == plan[n + 1]
           a == After(s, plan, n)
           b == After(s, plan, n + 1)
<1>1. op \in Statement
  OBVIOUS
<1>2. \A t \in Tables :
        t \in b.tables <=> /\ t \in a.tables \/ MakesTable(op, t)
                           /\ ~DropsTable(op, t)
  BY DEF After
<1>3. \A i \in Indexes :
        i \in b.indexes <=> /\ i \in a.indexes \/ Makes(op, i)
                            /\ ~Drops(op, i)
  BY DEF After
<1>4. a \in Schema /\ b \in Schema
  BY DEF After, Schema
<1> HIDE DEF a, b, op
<1>5. b = Apply(a, op)
  <2>1. Apply(a, op) \in Schema
    BY <1>1, <1>4, ApplyTyped DEF Schema
  <2>2. b.tables = Apply(a, op).tables
    BY <1>1, <1>2, <1>4, <2>1
    DEF Apply, Statement, Schema, MakesTable, DropsTable
  <2>3. ASSUME NEW i \in Indexes
        PROVE  i \in Apply(a, op).indexes <=> (i \in a.indexes \/ Makes(op, i)) /\ ~Drops(op, i)
    <3> USE <1>1, <1>4 DEF Apply, Statement, Schema, Makes, Drops, DropsTable
    <3>1. CASE op.do = "create_table"
      BY <3>1
    <3>2. CASE op.do = "drop_table"
      BY <3>2
    <3>3. CASE op.do = "create_index"
      BY <3>3
    <3>4. CASE op.do = "drop_index"
      BY <3>4 DEF Named, SameName
    <3>5. CASE op.do = "alter_column"
      BY <3>5
    <3> QED
      BY <3>1, <3>2, <3>3, <3>4, <3>5
  <2>4. b.indexes = Apply(a, op).indexes
    BY <1>3, <1>4, <2>1, <2>3 DEF Schema
  <2> QED
    BY <1>4, <2>1, <2>2, <2>4 DEF Schema
<1> QED
  BY <1>5 DEF a, b, op

-----------------------------------------------------------------------------
(* The schemas of the recorded versions.                                   *)
LEMMA MetadataTyped == Metadata \in Schema
BY IndexTyped DEF Metadata, Schema, Tables

LEMMA SchemaAtTyped == \A v \in 0..3 : SchemaAt(v) \in Schema
<1>1. SchemaAt(0) \in Schema
  BY DEF SchemaAt, Empty, Schema
<1>2. SchemaAt(1) \in Schema
  BY IndexTyped DEF SchemaAt, InitialSchema, Schema, Tables
<1>3. SchemaAt(2) \in Schema /\ SchemaAt(3) \in Schema
  BY MetadataTyped DEF SchemaAt, Schema
<1> QED
  BY <1>1, <1>2, <1>3

(* An index after one more statement, if x says whether it was there.      *)
Has(x, op, i) == (x \/ Makes(op, i)) /\ ~Drops(op, i)

LEMMA HasCreateTable ==
  ASSUME NEW x, NEW i, NEW t, NEW u
  PROVE  Has(x, CreateTable(t, u), i) <=> x \/ i \in u
BY DEF Has, Makes, Drops, DropsTable, CreateTable, Op

LEMMA HasDropTable ==
  ASSUME NEW x, NEW i, NEW t
  PROVE  Has(x, DropTable(t), i) <=> x /\ i.on # t
BY DEF Has, Makes, Drops, DropsTable, DropTable, Op

LEMMA HasAlterTimes ==
  ASSUME NEW x, NEW i, NEW t
  PROVE  Has(x, AlterTimes(t), i) <=> x
BY DEF Has, Makes, Drops, DropsTable, AlterTimes, Op

LEMMA HasCreateIndex ==
  ASSUME NEW x, NEW i, NEW j
  PROVE  Has(x, CreateIndex(j), i) <=> x \/ i = j
BY DEF Has, Makes, Drops, DropsTable, CreateIndex, Op

LEMMA HasDropIndex ==
  ASSUME NEW x, NEW i, NEW j
  PROVE  Has(x, DropIndex(j), i) <=> x /\ ~SameName(i, j)
BY DEF Has, Makes, Drops, DropsTable, DropIndex, Op

LEMMA IndexFields ==
  ASSUME NEW i \in Indexes
  PROVE  \A t, c :
    /\ i = Ix(t, c) <=> i.kind = "ix" /\ i.on = t /\ i.column = c /\ ~i.unique
    /\ i = UniqueIx(t, c) <=> i.kind = "ix" /\ i.on = t /\ i.column = c /\ i.unique
    /\ i = Uq(t, c) <=> i.kind = "uq" /\ i.on = t /\ i.column = c /\ i.unique
    /\ SameName(i, Ix(t, c)) <=> i.kind = "ix" /\ i.on = t /\ i.column = c
    /\ SameName(i, UniqueIx(t, c)) <=> i.kind = "ix" /\ i.on = t /\ i.column = c
    /\ SameName(i, Uq(t, c)) <=> i.kind = "uq" /\ i.on = t /\ i.column = c
BY DEF Indexes, Ix, Uq, UniqueIx, Index, SameName

(* Three statements more.                                                  *)
Three(x, p, n, i) == Has(Has(Has(x, p[n + 1], i), p[n + 2], i), p[n + 3], i)

LEMMA ThreeMore ==
  ASSUME NEW s \in Schema, NEW p \in Seq(Statement), NEW n \in Nat, n + 3 <= Len(p),
         NEW i \in Indexes
  PROVE  i \in After(s, p, n + 3).indexes <=> Three(i \in After(s, p, n).indexes, p, n, i)
<1> DEFINE b(m) == i \in After(s, p, m).indexes
<1>1. ASSUME NEW m \in Nat, m < Len(p)
      PROVE  b(m + 1) <=> Has(b(m), p[m + 1], i)
  BY <1>1 DEF Has, After
<1>2. /\ n + 1 \in Nat /\ n + 2 \in Nat
      /\ n < Len(p) /\ n + 1 < Len(p) /\ n + 2 < Len(p)
      /\ (n + 1) + 1 = n + 2 /\ (n + 2) + 1 = n + 3
  OBVIOUS
<1> HIDE DEF b
<1>3. b(n + 1) <=> Has(b(n), p[n + 1], i)
  BY <1>1, <1>2
<1>4. b(n + 2) <=> Has(b(n + 1), p[n + 2], i)
  BY <1>1, <1>2
<1>5. b(n + 3) <=> Has(b(n + 2), p[n + 3], i)
  BY <1>1, <1>2
<1>6. b(n + 3) <=> Three(b(n), p, n, i)
  BY <1>3, <1>4, <1>5 DEF Three, Has
<1> QED
  BY <1>6 DEF b

LEMMA InitialUpIndexes ==
  ASSUME NEW i \in Indexes
  PROVE  i \in After(SchemaAt(0), InitialUp, 9).indexes <=> i \in SchemaAt(1).indexes
<1> DEFINE p == InitialUp
           b(n) == i \in After(SchemaAt(0), p, n).indexes
<1>1. SchemaAt(0) \in Schema
  BY SchemaAtTyped
<1>2. p \in Seq(Statement) /\ Len(p) = 9
  BY InitialTyped DEF InitialUp
<1>3. b(0) <=> i \in SchemaAt(0).indexes
  BY <1>1, AfterNone
<1>4. ASSUME NEW n \in Nat, n + 3 <= 9 PROVE b(n + 3) <=> Three(b(n), p, n, i)
  <2> HIDE DEF p
  <2> QED
    BY <1>1, <1>2, <1>4, ThreeMore
<1> HIDE DEF b
<1>5. /\ b(3) <=> \/ b(0)
                  \/ i \in {Uq("robot_types", "name"), Ix("robot_types", "name"),
                            Ix("robot_types", "rcs_task_type")}
      /\ b(6) <=> \/ b(3)
                  \/ i \in {Ix("robot_types", "name_rcs"),
                            Uq("task_history", "robot_task_code"),
                            Uq("task_history", "idempotency_key"),
                            Ix("task_history", "robot_task_code")}
      /\ b(9) <=> \/ b(6)
                  \/ i \in {Ix("task_history", "status"), Ix("task_history", "robot_code"),
                            Ix("task_history", "idempotency_key")}
  <2>1. /\ b(3) <=> Three(b(0), p, 0, i)
        /\ b(6) <=> Three(b(3), p, 3, i)
        /\ b(9) <=> Three(b(6), p, 6, i)
    BY <1>4
  <2> QED
    BY <2>1, HasCreateTable, HasDropTable, HasAlterTimes, HasCreateIndex, HasDropIndex
    DEF InitialUp, Three
<1>6. b(9) <=> i \in SchemaAt(1).indexes
  BY <1>3, <1>5, IndexFields DEF SchemaAt, InitialSchema, Metadata, Empty
<1> QED
  BY <1>6 DEF b

LEMMA InitialDownIndexes ==
  ASSUME NEW i \in Indexes
  PROVE  i \in After(SchemaAt(1), InitialDown, 9).indexes <=> i \in SchemaAt(0).indexes
<1> DEFINE p == InitialDown
           b(n) == i \in After(SchemaAt(1), p, n).indexes
<1>1. SchemaAt(1) \in Schema
  BY SchemaAtTyped
<1>2. p \in Seq(Statement) /\ Len(p) = 9
  BY InitialTyped DEF InitialDown
<1>3. b(0) <=> i \in SchemaAt(1).indexes
  BY <1>1, AfterNone
<1>4. ASSUME NEW n \in Nat, n + 3 <= 9 PROVE b(n + 3) <=> Three(b(n), p, n, i)
  <2> HIDE DEF p
  <2> QED
    BY <1>1, <1>2, <1>4, ThreeMore
<1> HIDE DEF b
<1>5. /\ b(3) <=> /\ b(0)
                  /\ ~SameName(i, Ix("task_history", "idempotency_key"))
                  /\ ~SameName(i, Ix("task_history", "robot_code"))
                  /\ ~SameName(i, Ix("task_history", "status"))
      /\ b(6) <=> /\ b(3)
                  /\ ~SameName(i, Ix("task_history", "robot_task_code"))
                  /\ i.on # "task_history"
                  /\ ~SameName(i, Ix("robot_types", "name_rcs"))
      /\ b(9) <=> /\ b(6)
                  /\ ~SameName(i, Ix("robot_types", "rcs_task_type"))
                  /\ ~SameName(i, Ix("robot_types", "name"))
                  /\ i.on # "robot_types"
  <2>1. /\ b(3) <=> Three(b(0), p, 0, i)
        /\ b(6) <=> Three(b(3), p, 3, i)
        /\ b(9) <=> Three(b(6), p, 6, i)
    BY <1>4
  <2> QED
    BY <2>1, HasCreateTable, HasDropTable, HasAlterTimes, HasCreateIndex, HasDropIndex
    DEF InitialDown, Three
<1>6. b(9) <=> i \in SchemaAt(0).indexes
  BY <1>3, <1>5, IndexFields DEF SchemaAt, InitialSchema, Metadata, Empty
<1> QED
  BY <1>6 DEF b

LEMMA WebhookLogUpIndexes ==
  ASSUME NEW i \in Indexes
  PROVE  i \in After(SchemaAt(1), WebhookLogUp, 15).indexes <=> i \in SchemaAt(2).indexes
<1> DEFINE p == WebhookLogUp
           b(n) == i \in After(SchemaAt(1), p, n).indexes
<1>1. SchemaAt(1) \in Schema
  BY SchemaAtTyped
<1>2. p \in Seq(Statement) /\ Len(p) = 15
  BY WebhookLogTyped DEF WebhookLogUp
<1>3. b(0) <=> i \in SchemaAt(1).indexes
  BY <1>1, AfterNone
<1>4. ASSUME NEW n \in Nat, n + 3 <= 15 PROVE b(n + 3) <=> Three(b(n), p, n, i)
  <2> HIDE DEF p
  <2> QED
    BY <1>1, <1>2, <1>4, ThreeMore
<1> HIDE DEF b
<1>5. /\ b(3) <=> \/ b(0)
                  \/ i = Ix("webhook_logs", "amr_code")
                  \/ i = Ix("webhook_logs", "method")
      /\ b(6) <=> /\ b(3) \/ i = Ix("webhook_logs", "robot_task_code")
                  /\ ~SameName(i, Uq("robot_types", "name"))
      /\ b(9) <=> \/ b(6) /\ ~SameName(i, Ix("robot_types", "name"))
                  \/ i = UniqueIx("robot_types", "name")
      /\ b(12) <=> /\ b(9)
                   /\ ~SameName(i, Uq("task_history", "idempotency_key"))
                   /\ ~SameName(i, Uq("task_history", "robot_task_code"))
                   /\ ~SameName(i, Ix("task_history", "idempotency_key"))
      /\ b(15) <=> \/ /\ b(12) \/ i = UniqueIx("task_history", "idempotency_key")
                      /\ ~SameName(i, Ix("task_history", "robot_task_code"))
                   \/ i = UniqueIx("task_history", "robot_task_code")
  <2>1. /\ b(3) <=> Three(b(0), p, 0, i)
        /\ b(6) <=> Three(b(3), p, 3, i)
        /\ b(9) <=> Three(b(6), p, 6, i)
        /\ b(12) <=> Three(b(9), p, 9, i)
        /\ b(15) <=> Three(b(12), p, 12, i)
    BY <1>4
  <2> QED
    BY <2>1, HasCreateTable, HasDropTable, HasAlterTimes, HasCreateIndex, HasDropIndex
    DEF WebhookLogUp, Three
<1>6. b(15) <=> i \in SchemaAt(2).indexes
  BY <1>3, <1>5, IndexFields DEF SchemaAt, InitialSchema, Metadata, Empty
<1> QED
  BY <1>6 DEF b

LEMMA WebhookLogDownIndexes ==
  ASSUME NEW i \in Indexes
  PROVE  i \in After(SchemaAt(2), WebhookLogDown, 15).indexes <=> i \in SchemaAt(1).indexes
<1> DEFINE p == WebhookLogDown
           b(n) == i \in After(SchemaAt(2), p, n).indexes
<1>1. SchemaAt(2) \in Schema
  BY SchemaAtTyped
<1>2. p \in Seq(Statement) /\ Len(p) = 15
  BY WebhookLogTyped DEF WebhookLogDown
<1>3. b(0) <=> i \in SchemaAt(2).indexes
  BY <1>1, AfterNone
<1>4. ASSUME NEW n \in Nat, n + 3 <= 15 PROVE b(n + 3) <=> Three(b(n), p, n, i)
  <2> HIDE DEF p
  <2> QED
    BY <1>1, <1>2, <1>4, ThreeMore
<1> HIDE DEF b
<1>5. /\ b(3) <=> /\ \/ b(0) /\ ~SameName(i, Ix("task_history", "robot_task_code"))
                     \/ i = Ix("task_history", "robot_task_code")
                  /\ ~SameName(i, Ix("task_history", "idempotency_key"))
      /\ b(6) <=> \/ b(3)
                  \/ i \in {Ix("task_history", "idempotency_key"),
                            Uq("task_history", "robot_task_code"),
                            Uq("task_history", "idempotency_key")}
      /\ b(9) <=> \/ b(6) /\ ~SameName(i, Ix("robot_types", "name"))
                  \/ i = Ix("robot_types", "name")
      /\ b(12) <=> /\ b(9) \/ i = Uq("robot_types", "name")
                   /\ ~SameName(i, Ix("webhook_logs", "robot_task_code"))
      /\ b(15) <=> /\ b(12)
                   /\ ~SameName(i, Ix("webhook_logs", "method"))
                   /\ ~SameName(i, Ix("webhook_logs", "amr_code"))
                   /\ i.on # "webhook_logs"
  <2>1. /\ b(3) <=> Three(b(0), p, 0, i)
        /\ b(6) <=> Three(b(3), p, 3, i)
        /\ b(9) <=> Three(b(6), p, 6, i)
        /\ b(12) <=> Three(b(9), p, 9, i)
        /\ b(15) <=> Three(b(12), p, 12, i)
    BY <1>4
  <2> QED
    BY <2>1, HasCreateTable, HasDropTable, HasAlterTimes, HasCreateIndex, HasDropIndex
    DEF WebhookLogDown, Three
<1>6. b(15) <=> i \in SchemaAt(1).indexes
  BY <1>3, <1>5, IndexFields DEF SchemaAt, InitialSchema, Metadata, Empty
<1> QED
  BY <1>6 DEF b

-----------------------------------------------------------------------------
(* The statements that create or drop a table.                             *)
LEMMA PlanTables ==
  /\ \A t \in Tables, l \in 1..9 :
       /\ MakesTable(InitialUp[l], t) <=> \/ l = 1 /\ t = "robot_types"
                                          \/ l = 5 /\ t = "task_history"
       /\ ~DropsTable(InitialUp[l], t)
  /\ \A t \in Tables, l \in 1..9 :
       /\ ~MakesTable(InitialDown[l], t)
       /\ DropsTable(InitialDown[l], t) <=> \/ l = 5 /\ t = "task_history"
                                            \/ l = 9 /\ t = "robot_types"
  /\ \A t \in Tables, l \in 1..15 :
       /\ MakesTable(WebhookLogUp[l], t) <=> l = 1 /\ t = "webhook_logs"
       /\ ~DropsTable(WebhookLogUp[l], t)
  /\ \A t \in Tables, l \in 1..15 :
       /\ ~MakesTable(WebhookLogDown[l], t)
       /\ DropsTable(WebhookLogDown[l], t) <=> l = 15 /\ t = "webhook_logs"
  /\ \A t \in Tables, l \in 1..4 :
       /\ MakesTable(SystemConfigUp[l], t) <=> l = 1 /\ t = "system_config"
       /\ ~DropsTable(SystemConfigUp[l], t)
  /\ \A t \in Tables, l \in 1..4 :
       /\ ~MakesTable(SystemConfigDown[l], t)
       /\ DropsTable(SystemConfigDown[l], t) <=> l = 4 /\ t = "system_config"
<1>1. ASSUME NEW t \in Tables, NEW l \in 1..9
      PROVE  /\ MakesTable(InitialUp[l], t) <=> \/ l = 1 /\ t = "robot_types"
                                                \/ l = 5 /\ t = "task_history"
             /\ ~DropsTable(InitialUp[l], t)
  BY DEF InitialUp, MakesTable, DropsTable, CreateTable, DropTable, AlterTimes,
      CreateIndex, DropIndex, Op, Ix, Uq, UniqueIx, Index
<1>2. ASSUME NEW t \in Tables, NEW l \in 1..9
      PROVE  /\ ~MakesTable(InitialDown[l], t)
             /\ DropsTable(InitialDown[l], t) <=> \/ l = 5 /\ t = "task_history"
                                                  \/ l = 9 /\ t = "robot_types"
  BY DEF InitialDown, MakesTable, DropsTable, CreateTable, DropTable, AlterTimes,
      CreateIndex, DropIndex, Op, Ix, Uq, UniqueIx, Index
<1>3. ASSUME NEW t \in Tables, NEW l \in 1..15
      PROVE  /\ MakesTable(WebhookLogUp[l], t) <=> l = 1 /\ t = "webhook_logs"
             /\ ~DropsTable(WebhookLogUp[l], t)
  BY DEF WebhookLogUp, MakesTable, DropsTable, CreateTable, DropTable, AlterTimes,
      CreateIndex, DropIndex, Op, Ix, Uq, UniqueIx, Index
<1>4. ASSUME NEW t \in Tables, NEW l \in 1..15
      PROVE  /\ ~MakesTable(WebhookLogDown[l], t)
             /\ DropsTable(WebhookLogDown[l], t) <=> l = 15 /\ t = "webhook_logs"
  BY DEF WebhookLogDown, MakesTable, DropsTable, CreateTable, DropTable, AlterTimes,
      CreateIndex, DropIndex, Op, Ix, Uq, UniqueIx, Index
<1>5. ASSUME NEW t \in Tables, NEW l \in 1..4
      PROVE  /\ MakesTable(SystemConfigUp[l], t) <=> l = 1 /\ t = "system_config"
             /\ ~DropsTable(SystemConfigUp[l], t)
  BY DEF SystemConfigUp, MakesTable, DropsTable, CreateTable, DropTable, AlterTimes,
      CreateIndex, DropIndex, Op, Ix, Uq, UniqueIx, Index
<1>6. ASSUME NEW t \in Tables, NEW l \in 1..4
      PROVE  /\ ~MakesTable(SystemConfigDown[l], t)
             /\ DropsTable(SystemConfigDown[l], t) <=> l = 4 /\ t = "system_config"
  BY DEF SystemConfigDown, MakesTable, DropsTable, CreateTable, DropTable, AlterTimes,
      CreateIndex, DropIndex, Op, Ix, Uq, UniqueIx, Index
<1> QED
  BY <1>1, <1>2, <1>3, <1>4, <1>5, <1>6

LEMMA SystemConfigIndexes ==
  ASSUME NEW i \in Indexes
  PROVE  /\ i \in After(SchemaAt(2), SystemConfigUp, 4).indexes <=> i \in SchemaAt(3).indexes
         /\ i \in After(SchemaAt(3), SystemConfigDown, 4).indexes <=> i \in SchemaAt(2).indexes
<1>1. \A l \in 1..4 : ~Makes(SystemConfigUp[l], i) /\ ~Drops(SystemConfigUp[l], i)
  BY DEF SystemConfigUp, Makes, Drops, DropsTable, CreateTable, AlterTimes, Op
<1>2. \A l \in 1..4 : /\ ~Makes(SystemConfigDown[l], i)
                      /\ Drops(SystemConfigDown[l], i) => i.on = "system_config"
  BY DEF SystemConfigDown, Makes, Drops, DropsTable, DropTable, AlterTimes, Op
<1>3. SchemaAt(2).indexes = Metadata.indexes /\ SchemaAt(3).indexes = Metadata.indexes
  BY DEF SchemaAt, Metadata
<1>4. i \in Metadata.indexes => i.on # "system_config"
  BY IndexFields DEF Metadata
<1> QED
  BY <1>1, <1>2, <1>3, <1>4 DEF After

LEMMA SameTables ==
  ASSUME NEW s \in Schema, NEW r \in Schema,
         \A t \in Tables : t \in s.tables <=> t \in r.tables,
         \A i \in Indexes : i \in s.indexes <=> i \in r.indexes
  PROVE  s = r
<1>1. s.tables = r.tables /\ s.indexes = r.indexes
  BY DEF Schema
<1> QED
  BY <1>1 DEF Schema

LEMMA AfterTyped ==
  ASSUME NEW s, NEW p, NEW n
  PROVE  After(s, p, n) \in Schema
BY DEF After, Schema

(* Every upgrade leads to the next version's schema, every downgrade back. *)
LEMMA PlanEnds ==
  /\ After(SchemaAt(0), InitialUp, 9) = SchemaAt(1)
  /\ After(SchemaAt(1), InitialDown, 9) = SchemaAt(0)
  /\ After(SchemaAt(1), WebhookLogUp, 15) = SchemaAt(2)
  /\ After(SchemaAt(2), WebhookLogDown, 15) = SchemaAt(1)
  /\ After(SchemaAt(2), SystemConfigUp, 4) = SchemaAt(3)
  /\ After(SchemaAt(3), SystemConfigDown, 4) = SchemaAt(2)
<1>1. After(SchemaAt(0), InitialUp, 9) = SchemaAt(1)
  <2>1. ASSUME NEW t \in Tables
        PROVE  t \in After(SchemaAt(0), InitialUp, 9).tables <=> t \in SchemaAt(1).tables
    <3>1. /\ \A l \in 1..9 : ~DropsTable(InitialUp[l], t)
          /\ (\E l \in 1..9 : MakesTable(InitialUp[l], t)) <=> t \in {"robot_types", "task_history"}
      BY PlanTables
    <3>2. SchemaAt(0).tables = {} /\ SchemaAt(1).tables = {"robot_types", "task_history"}
      BY DEF SchemaAt, InitialSchema, Empty, Metadata
    <3> QED
      BY <3>1, <3>2 DEF After, Tables
  <2> QED
    BY <2>1, InitialUpIndexes, SameTables, AfterTyped, SchemaAtTyped
<1>2. After(SchemaAt(1), InitialDown, 9) = SchemaAt(0)
  <2>1. ASSUME NEW t \in Tables
        PROVE  t \in After(SchemaAt(1), InitialDown, 9).tables <=> t \in SchemaAt(0).tables
    <3>1. /\ \A l \in 1..9 : ~MakesTable(InitialDown[l], t)
          /\ (\E l \in 1..9 : DropsTable(InitialDown[l], t)) <=> t \in {"task_history", "robot_types"}
      BY PlanTables
    <3>2. SchemaAt(1).tables = {"robot_types", "task_history"} /\ SchemaAt(0).tables = {}
      BY DEF SchemaAt, InitialSchema, Empty, Metadata
    <3> QED
      BY <3>1, <3>2 DEF After, Tables
  <2> QED
    BY <2>1, InitialDownIndexes, SameTables, AfterTyped, SchemaAtTyped
<1>3. After(SchemaAt(1), WebhookLogUp, 15) = SchemaAt(2)
  <2>1. ASSUME NEW t \in Tables
        PROVE  t \in After(SchemaAt(1), WebhookLogUp, 15).tables <=> t \in SchemaAt(2).tables
    <3>1. /\ \A l \in 1..15 : ~DropsTable(WebhookLogUp[l], t)
          /\ (\E l \in 1..15 : MakesTable(WebhookLogUp[l], t)) <=> t \in {"webhook_logs"}
      BY PlanTables
    <3>2. SchemaAt(1).tables = {"robot_types", "task_history"} /\ SchemaAt(2).tables = Tables \ {"system_config"}
      BY DEF SchemaAt, InitialSchema, Empty, Metadata
    <3> QED
      BY <3>1, <3>2 DEF After, Tables
  <2> QED
    BY <2>1, WebhookLogUpIndexes, SameTables, AfterTyped, SchemaAtTyped
<1>4. After(SchemaAt(2), WebhookLogDown, 15) = SchemaAt(1)
  <2>1. ASSUME NEW t \in Tables
        PROVE  t \in After(SchemaAt(2), WebhookLogDown, 15).tables <=> t \in SchemaAt(1).tables
    <3>1. /\ \A l \in 1..15 : ~MakesTable(WebhookLogDown[l], t)
          /\ (\E l \in 1..15 : DropsTable(WebhookLogDown[l], t)) <=> t \in {"webhook_logs"}
      BY PlanTables
    <3>2. SchemaAt(2).tables = Tables \ {"system_config"} /\ SchemaAt(1).tables = {"robot_types", "task_history"}
      BY DEF SchemaAt, InitialSchema, Empty, Metadata
    <3> QED
      BY <3>1, <3>2 DEF After, Tables
  <2> QED
    BY <2>1, WebhookLogDownIndexes, SameTables, AfterTyped, SchemaAtTyped
<1>5. After(SchemaAt(2), SystemConfigUp, 4) = SchemaAt(3)
  <2>1. ASSUME NEW t \in Tables
        PROVE  t \in After(SchemaAt(2), SystemConfigUp, 4).tables <=> t \in SchemaAt(3).tables
    <3>1. /\ \A l \in 1..4 : ~DropsTable(SystemConfigUp[l], t)
          /\ (\E l \in 1..4 : MakesTable(SystemConfigUp[l], t)) <=> t \in {"system_config"}
      BY PlanTables
    <3>2. SchemaAt(2).tables = Tables \ {"system_config"} /\ SchemaAt(3).tables = Tables
      BY DEF SchemaAt, InitialSchema, Empty, Metadata
    <3> QED
      BY <3>1, <3>2 DEF After, Tables
  <2> QED
    BY <2>1, SystemConfigIndexes, SameTables, AfterTyped, SchemaAtTyped
<1>6. After(SchemaAt(3), SystemConfigDown, 4) = SchemaAt(2)
  <2>1. ASSUME NEW t \in Tables
        PROVE  t \in After(SchemaAt(3), SystemConfigDown, 4).tables <=> t \in SchemaAt(2).tables
    <3>1. /\ \A l \in 1..4 : ~MakesTable(SystemConfigDown[l], t)
          /\ (\E l \in 1..4 : DropsTable(SystemConfigDown[l], t)) <=> t \in {"system_config"}
      BY PlanTables
    <3>2. SchemaAt(3).tables = Tables /\ SchemaAt(2).tables = Tables \ {"system_config"}
      BY DEF SchemaAt, InitialSchema, Empty, Metadata
    <3> QED
      BY <3>1, <3>2 DEF After, Tables
  <2> QED
    BY <2>1, SystemConfigIndexes, SameTables, AfterTyped, SchemaAtTyped
<1> QED
  BY <1>1, <1>2, <1>3, <1>4, <1>5, <1>6

LEMMA PlanLengths ==
  /\ Len(InitialUp) = 9 /\ Len(InitialDown) = 9
  /\ Len(WebhookLogUp) = 15 /\ Len(WebhookLogDown) = 15
  /\ Len(SystemConfigUp) = 4 /\ Len(SystemConfigDown) = 4
BY DEF InitialUp, InitialDown, WebhookLogUp, WebhookLogDown, SystemConfigUp, SystemConfigDown

LEMMA RevisionsAre ==
  /\ Upgrades[1] = InitialUp /\ Upgrades[2] = WebhookLogUp /\ Upgrades[3] = SystemConfigUp
  /\ Downgrades[1] = InitialDown /\ Downgrades[2] = WebhookLogDown
  /\ Downgrades[3] = SystemConfigDown
BY DEF Upgrades, Downgrades

LEMMA RevisionEnds ==
  /\ \A v \in 0..2 : After(SchemaAt(v), Upgrades[v + 1], Len(Upgrades[v + 1])) = SchemaAt(v + 1)
  /\ \A v \in 1..3 : After(SchemaAt(v), Downgrades[v], Len(Downgrades[v])) = SchemaAt(v - 1)
<1>1. /\ After(SchemaAt(0), Upgrades[1], Len(Upgrades[1])) = SchemaAt(1)
      /\ After(SchemaAt(1), Upgrades[2], Len(Upgrades[2])) = SchemaAt(2)
      /\ After(SchemaAt(2), Upgrades[3], Len(Upgrades[3])) = SchemaAt(3)
      /\ After(SchemaAt(1), Downgrades[1], Len(Downgrades[1])) = SchemaAt(0)
      /\ After(SchemaAt(2), Downgrades[2], Len(Downgrades[2])) = SchemaAt(1)
      /\ After(SchemaAt(3), Downgrades[3], Len(Downgrades[3])) = SchemaAt(2)
  BY PlanEnds, PlanLengths, RevisionsAre
<1> QED
  BY <1>1

-----------------------------------------------------------------------------
(* As long as no command stopped half way, the schema is the version's, or *)
(* what the statements that ran have made of it.                           *)
OnTrack ==
  torn = {} => schema = IF cmd = Idle THEN SchemaAt(version)
                        ELSE After(SchemaAt(version), Plan, cmd.at - 1)

(* The table that the upgrade from a version creates first.                *)
First(v) == <<"robot_types", "webhook_logs", "system_config">>[v + 1]

UpStarted ==
  cmd # Idle /\ cmd.dir = "up" /\ cmd.at > 1 => First(version) \in schema.tables

(* A torn upgrade leaves its first table behind, which refuses it from     *)
(* then on: no downgrade of an earlier version drops that table.           *)
Blocked ==
  "up" \in torn =>
    \E v \in 0..2 : /\ version <= v
                    /\ First(v) \in schema.tables
                    /\ cmd # Idle /\ cmd.dir = "up" /\ version = v => cmd.at = 1

LEMMA UpPlan ==
  ASSUME NEW v \in 0..2
  PROVE  /\ Len(Upgrades[v + 1]) \in Nat /\ Len(Upgrades[v + 1]) > 1
         /\ First(v) \in Tables /\ MakesTable(Upgrades[v + 1][1], First(v))
         /\ \A t \in Tables, l \in 1..Len(Upgrades[v + 1]) : ~DropsTable(Upgrades[v + 1][l], t)
<1> DEFINE up(u, n) ==
             /\ Len(Upgrades[n]) \in Nat /\ Len(Upgrades[n]) > 1
             /\ First(u) \in Tables /\ MakesTable(Upgrades[n][1], First(u))
             /\ \A t \in Tables, l \in 1..Len(Upgrades[n]) : ~DropsTable(Upgrades[n][l], t)
<1>1. First(0) = "robot_types" /\ First(1) = "webhook_logs" /\ First(2) = "system_config"
  BY DEF First
<1>2. /\ MakesTable(InitialUp[1], "robot_types")
      /\ MakesTable(WebhookLogUp[1], "webhook_logs")
      /\ MakesTable(SystemConfigUp[1], "system_config")
      /\ {"robot_types", "webhook_logs", "system_config"} \subseteq Tables
  BY PlanTables DEF Tables
<1>3. /\ \A t \in Tables, l \in 1..9 : ~DropsTable(InitialUp[l], t)
      /\ \A t \in Tables, l \in 1..15 : ~DropsTable(WebhookLogUp[l], t)
      /\ \A t \in Tables, l \in 1..4 : ~DropsTable(SystemConfigUp[l], t)
  BY PlanTables
<1>4. /\ \A t \in Tables, l \in 1..Len(Upgrades[1]) : ~DropsTable(Upgrades[1][l], t)
      /\ \A t \in Tables, l \in 1..Len(Upgrades[2]) : ~DropsTable(Upgrades[2][l], t)
      /\ \A t \in Tables, l \in 1..Len(Upgrades[3]) : ~DropsTable(Upgrades[3][l], t)
  BY <1>3, PlanLengths, RevisionsAre, Zenon
<1>5. /\ MakesTable(Upgrades[1][1], First(0)) /\ First(0) \in Tables
      /\ MakesTable(Upgrades[2][1], First(1)) /\ First(1) \in Tables
      /\ MakesTable(Upgrades[3][1], First(2)) /\ First(2) \in Tables
  BY <1>1, <1>2, RevisionsAre
<1>6. Len(Upgrades[1]) = 9 /\ Len(Upgrades[2]) = 15 /\ Len(Upgrades[3]) = 4
  BY PlanLengths, RevisionsAre
<1>7. up(0, 1) /\ up(1, 2) /\ up(2, 3)
  BY <1>4, <1>5, <1>6
<1> HIDE DEF up
<1>8. up(v, v + 1)
  BY <1>7
<1> QED
  BY <1>8 DEF up

LEMMA DownPlan ==
  ASSUME NEW w \in 1..3, NEW v \in 0..2, w <= v
  PROVE  \A l \in 1..Len(Downgrades[w]) : ~DropsTable(Downgrades[w][l], First(v))
<1>1. First(1) = "webhook_logs" /\ First(2) = "system_config"
  BY DEF First
<1>2. /\ \A l \in 1..9 : /\ ~DropsTable(InitialDown[l], "webhook_logs")
                         /\ ~DropsTable(InitialDown[l], "system_config")
      /\ \A l \in 1..15 : ~DropsTable(WebhookLogDown[l], "system_config")
  BY PlanTables DEF Tables
<1>3. /\ \A l \in 1..Len(Downgrades[1]) : /\ ~DropsTable(Downgrades[1][l], First(1))
                                          /\ ~DropsTable(Downgrades[1][l], First(2))
      /\ \A l \in 1..Len(Downgrades[2]) : ~DropsTable(Downgrades[2][l], First(2))
  BY <1>1, <1>2, PlanLengths, RevisionsAre
<1>4. \/ w = 1 /\ v = 1
      \/ w = 1 /\ v = 2
      \/ w = 2 /\ v = 2
  OBVIOUS
<1> QED
  BY <1>3, <1>4

LEMMA TableStays ==
  ASSUME Typed, NEW op \in Statement, schema' = Apply(schema, op),
         NEW t \in schema.tables, ~DropsTable(op, t)
  PROVE  t \in schema'.tables
BY DEF Typed, Statement, Apply, DropsTable

LEMMA DdlIs ==
  ASSUME Typed, Ddl
  PROVE  /\ cmd # Idle /\ cmd.at \in 1..Len(Plan) /\ Len(Plan) \in Nat
         /\ Plan[cmd.at] \in Statement /\ Applicable(Plan[cmd.at])
         /\ schema' = Apply(schema, Plan[cmd.at])
         /\ cmd' = [cmd EXCEPT !.at = @ + 1] /\ cmd' # Idle
         /\ cmd'.dir = cmd.dir /\ cmd'.at = cmd.at + 1
         /\ UNCHANGED <<version, torn>>
         /\ Plan' = Plan
<1>1. /\ cmd # Idle /\ cmd.at <= Len(Plan)
      /\ Applicable(Plan[cmd.at])
      /\ schema' = Apply(schema, Plan[cmd.at])
      /\ cmd' = [cmd EXCEPT !.at = @ + 1]
      /\ UNCHANGED <<version, torn>>
  BY DEF Ddl
<1>2. cmd \in [dir : {"up", "down"}, at : Nat] /\ cmd.at \in 1..Len(Plan) + 1
  BY <1>1 DEF Typed, Running
<1>3. Plan \in Seq(Statement) /\ Plan[cmd.at] \in Statement
  BY <1>1, PlanTyped
<1>4. cmd' \in [dir : {"up", "down"}, at : Nat] /\ cmd'.dir = cmd.dir /\ cmd'.at = cmd.at + 1
  BY <1>1, <1>2
<1>5. cmd' # Idle
  BY <1>4, DeploymentAssumption
<1>6. Plan' = Plan
  BY <1>1, <1>4 DEF Plan
<1> QED
  BY <1>1, <1>2, <1>3, <1>4, <1>5, <1>6

LEMMA TrackStep == Typed /\ OnTrack /\ [Next]_vars => OnTrack'
<1> SUFFICES ASSUME Typed, OnTrack, [Next]_vars PROVE OnTrack'
  OBVIOUS
<1> USE DEF database, process
<1>a. HeadVersion = 3
  BY RevisionsTyped
<1>1. ASSUME NEW dir \in {"up", "down"}, Command(dir) PROVE OnTrack'
  <2>1. cmd' \in [dir : {"up", "down"}, at : Nat] /\ cmd'.at = 1
        /\ cmd = Idle /\ UNCHANGED <<schema, version, torn>>
    BY <1>1 DEF Command
  <2>2. cmd' # Idle
    BY <2>1, DeploymentAssumption
  <2>3. SchemaAt(version) \in Schema
    BY <1>a, SchemaAtTyped DEF Typed
  <2>4. After(SchemaAt(version), Plan', 0) = SchemaAt(version)
    BY <2>3, AfterNone
  <2> QED
    BY <2>1, <2>2, <2>4 DEF OnTrack
<1>2. CASE Ddl
  <2>1. SchemaAt(version) \in Schema /\ Plan \in Seq(Statement)
    BY <1>2, <1>a, SchemaAtTyped, PlanTyped, DdlIs DEF Typed
  <2>2. cmd.at - 1 \in Nat /\ cmd.at - 1 < Len(Plan) /\ (cmd.at - 1) + 1 = cmd.at
    BY <1>2, DdlIs
  <2>3. After(SchemaAt(version), Plan, cmd.at)
          = Apply(After(SchemaAt(version), Plan, cmd.at - 1), Plan[cmd.at])
    BY <2>1, <2>2, AfterNext
  <2>4. cmd'.at - 1 = cmd.at
    BY <1>2, <2>2, DdlIs
  <2> QED
    BY <1>2, <2>3, <2>4, DdlIs DEF OnTrack
<1>3. CASE DdlRefused \/ Interrupt
  <2>1. cmd # Idle /\ cmd' = Idle /\ UNCHANGED <<schema, version>>
        /\ torn' = IF cmd.at > 1 THEN torn \cup {cmd.dir} ELSE torn
    BY <1>3 DEF DdlRefused, Interrupt, Stopped
  <2>2. CASE cmd.at > 1
    BY <2>1, <2>2 DEF OnTrack
  <2>3. CASE ~(cmd.at > 1)
    <3>1. cmd.at = 1
      BY <2>1, <2>3 DEF Typed, Running
    <3>2. SchemaAt(version) \in Schema
      BY <1>a, SchemaAtTyped DEF Typed
    <3>3. After(SchemaAt(version), Plan, 0) = SchemaAt(version)
      BY <3>2, AfterNone
    <3> QED
      BY <2>1, <3>1, <3>3 DEF OnTrack
  <2> QED
    BY <2>2, <2>3
<1>4. CASE Record
  <2>1. /\ cmd # Idle /\ cmd.at > Len(Plan)
        /\ version' = IF cmd.dir = "up" THEN version + 1 ELSE version - 1
        /\ \/ cmd' = Idle
           \/ cmd.dir = "up" /\ version' < HeadVersion /\ cmd' = [cmd EXCEPT !.at = 1]
        /\ UNCHANGED <<schema, torn>>
    BY <1>4 DEF Record
  <2>2. /\ cmd \in [dir : {"up", "down"}, at : Nat] /\ cmd.at \in 1..Len(Plan) + 1
        /\ cmd.dir = "up" => version \in 0..2
        /\ cmd.dir = "down" => version \in 1..3
    BY <1>a, <2>1 DEF Typed, Running
  <2>3. Len(Plan) \in Nat
    BY <2>1, PlanTyped
  <2>4. cmd.at - 1 = Len(Plan)
    BY <2>1, <2>2, <2>3
  <2>5. After(SchemaAt(version), Plan, Len(Plan)) = SchemaAt(version')
    <3>1. CASE cmd.dir = "up"
      BY <2>1, <2>2, <3>1, RevisionEnds DEF Plan
    <3>2. CASE cmd.dir = "down"
      BY <2>1, <2>2, <3>2, RevisionEnds DEF Plan
    <3> QED
      BY <2>2, <3>1, <3>2
  <2>6. torn = {} => schema = SchemaAt(version')
    BY <2>1, <2>4, <2>5 DEF OnTrack
  <2>7. ASSUME cmd' # Idle PROVE cmd'.at = 1 /\ After(SchemaAt(version'), Plan', 0) = SchemaAt(version')
    <3>1. version' \in 0..3
      BY <1>a, <2>1, <2>2
    <3>2. SchemaAt(version') \in Schema
      BY <3>1, SchemaAtTyped
    <3> QED
      BY <2>1, <2>2, <2>7, <3>2, AfterNone
  <2> QED
    BY <2>1, <2>6, <2>7 DEF OnTrack
<1>5. CASE UNCHANGED database
  BY <1>5 DEF OnTrack, Plan
<1>6. ASSUME NEW p \in Processes,
             \/ Boot(p) \/ SelectNames(p) \/ InsertSeed(p) \/ InsertRefused(p)
             \/ CommitSeeds(p) \/ SeedFailed(p) \/ Exit(p)
      PROVE  UNCHANGED database
  BY <1>6 DEF Boot, SelectNames, InsertSeed, InsertRefused, CommitSeeds, SeedFailed, Exit
<1>7. InsertTask \/ UNCHANGED vars => UNCHANGED database
  BY DEF InsertTask, vars
<1> QED
  BY <1>1, <1>2, <1>3, <1>4, <1>5, <1>6, <1>7 DEF Next

(* A table that is there is dropped by no upgrade, nor by the downgrade of *)
(* a version that does not exceed its own.                                 *)
LEMMA FirstStays ==
  ASSUME Typed, Ddl, NEW v \in 0..2, First(v) \in schema.tables,
         cmd.dir = "down" => version <= v
  PROVE  First(v) \in schema'.tables
<1>a. HeadVersion = 3
  BY RevisionsTyped
<1>1. /\ cmd # Idle /\ cmd.at \in 1..Len(Plan)
      /\ Plan[cmd.at] \in Statement /\ schema' = Apply(schema, Plan[cmd.at])
  BY DdlIs
<1>2. /\ cmd.dir \in {"up", "down"}
      /\ cmd.dir = "up" => version \in 0..2
      /\ cmd.dir = "down" => version \in 1..3
  BY <1>a, <1>1 DEF Typed, Running
<1>3. ~DropsTable(Plan[cmd.at], First(v))
  <2>1. CASE cmd.dir = "up"
    BY <1>1, <1>2, <2>1, UpPlan DEF Plan
  <2>2. CASE cmd.dir = "down"
    BY <1>1, <1>2, <2>2, DownPlan DEF Plan
  <2> QED
    BY <1>2, <2>1, <2>2
<1> QED
  BY <1>1, <1>3, TableStays

LEMMA StartedStep == Typed /\ UpStarted /\ [Next]_vars => UpStarted'
<1> SUFFICES ASSUME Typed, UpStarted, [Next]_vars,
                    cmd' # Idle, cmd'.dir = "up", cmd'.at > 1
             PROVE  First(version') \in schema'.tables
  BY DEF UpStarted
<1> USE DEF database, process
<1>a. HeadVersion = 3
  BY RevisionsTyped
<1>1. CASE Ddl
  <2>1. /\ cmd # Idle /\ cmd.dir = "up" /\ cmd.at \in 1..Len(Plan) /\ Len(Plan) \in Nat
        /\ version' = version
    BY <1>1, DdlIs
  <2>2. version \in 0..2 /\ Plan = Upgrades[version + 1]
    BY <1>a, <2>1 DEF Typed, Running, Plan
  <2>3. CASE cmd.at = 1
    <3>1. MakesTable(Plan[1], First(version))
      BY <2>2, UpPlan
    <3>2. schema' = Apply(schema, Plan[1])
      BY <1>1, <2>3, DdlIs
    <3> QED
      BY <2>1, <3>1, <3>2 DEF MakesTable, Apply
  <2>4. CASE cmd.at > 1
    <3>1. First(version) \in schema.tables
      BY <2>1, <2>4 DEF UpStarted
    <3> QED
      BY <1>1, <2>1, <2>2, <3>1, FirstStays
  <2> QED
    BY <2>1, <2>3, <2>4
<1>2. CASE (\E dir \in {"up", "down"} : Command(dir)) \/ DdlRefused \/ Interrupt \/ Record
  <2>1. CASE \E dir \in {"up", "down"} : Command(dir)
    BY <2>1 DEF Command
  <2>2. CASE DdlRefused \/ Interrupt
    BY <2>2 DEF DdlRefused, Interrupt, Stopped
  <2>3. CASE Record
    <3>1. cmd \in [dir : {"up", "down"}, at : Nat] /\ cmd' = [cmd EXCEPT !.at = 1]
      BY <2>3 DEF Record, Typed, Running
    <3> QED
      BY <3>1
  <2> QED
    BY <1>2, <2>1, <2>2, <2>3
<1>3. CASE UNCHANGED database
  BY <1>3 DEF UpStarted
<1>4. ASSUME NEW p \in Processes,
             \/ Boot(p) \/ SelectNames(p) \/ InsertSeed(p) \/ InsertRefused(p)
             \/ CommitSeeds(p) \/ SeedFailed(p) \/ Exit(p)
      PROVE  UNCHANGED database
  BY <1>4 DEF Boot, SelectNames, InsertSeed, InsertRefused, CommitSeeds, SeedFailed, Exit
<1>5. InsertTask \/ UNCHANGED vars => UNCHANGED database
  BY DEF InsertTask, vars
<1> QED
  BY <1>1, <1>2, <1>3, <1>4, <1>5 DEF Next

LEMMA BlockedStep == Typed /\ UpStarted /\ Blocked /\ [Next]_vars => Blocked'
<1> SUFFICES ASSUME Typed, UpStarted, Blocked, [Next]_vars, "up" \in torn' PROVE Blocked'
  BY DEF Blocked
<1> USE DEF database, process
<1>a. HeadVersion = 3
  BY RevisionsTyped
<1> DEFINE blocks(v) ==
             /\ version <= v
             /\ First(v) \in schema.tables
             /\ cmd # Idle /\ cmd.dir = "up" /\ version = v => cmd.at = 1
<1>b. "up" \in torn => \E v \in 0..2 : blocks(v)
  BY DEF Blocked
<1>1. ASSUME NEW dir \in {"up", "down"}, Command(dir) PROVE Blocked'
  BY <1>1, <1>b DEF Command, Blocked
<1>2. CASE Ddl
  <2>1. /\ cmd # Idle /\ cmd.at \in 1..Len(Plan) /\ Applicable(Plan[cmd.at])
        /\ cmd'.dir = cmd.dir /\ cmd'.at = cmd.at + 1
        /\ UNCHANGED <<version, torn>>
    BY <1>2, DdlIs
  <2>2. PICK v \in 0..2 : blocks(v)
    BY <1>b, <2>1
  <2>3. First(v) \in schema'.tables
    BY <1>2, <2>2, FirstStays
  <2>4. ~(cmd.dir = "up" /\ version = v)
    <3> SUFFICES ASSUME cmd.dir = "up", version = v PROVE FALSE
      OBVIOUS
    <3>1. cmd.at = 1
      BY <2>1, <2>2
    <3>2. Plan = Upgrades[v + 1]
      BY DEF Plan
    <3>3. MakesTable(Plan[1], First(v))
      BY <3>2, UpPlan
    <3> QED
      BY <2>1, <2>2, <3>1, <3>3 DEF Applicable, MakesTable
  <2> QED
    BY <2>1, <2>2, <2>3, <2>4 DEF Blocked
<1>3. CASE DdlRefused \/ Interrupt
  <2>1. cmd # Idle /\ cmd' = Idle /\ UNCHANGED <<schema, version>>
        /\ torn' = IF cmd.at > 1 THEN torn \cup {cmd.dir} ELSE torn
    BY <1>3 DEF DdlRefused, Interrupt, Stopped
  <2>2. CASE "up" \in torn
    BY <1>b, <2>1, <2>2 DEF Blocked
  <2>3. CASE "up" \notin torn
    <3>1. cmd.dir = "up" /\ cmd.at > 1
      BY <2>1, <2>3
    <3>2. version \in 0..2 /\ First(version) \in schema.tables
      BY <1>a, <2>1, <3>1 DEF Typed, Running, UpStarted
    <3> QED
      BY <2>1, <3>2 DEF Blocked
  <2> QED
    BY <2>2, <2>3
<1>4. CASE Record
  <2>1. /\ cmd # Idle /\ cmd.at > Len(Plan)
        /\ version' = IF cmd.dir = "up" THEN version + 1 ELSE version - 1
        /\ \/ cmd' = Idle
           \/ cmd' = [cmd EXCEPT !.at = 1]
        /\ UNCHANGED <<schema, torn>>
    BY <1>4 DEF Record
  <2>2. /\ cmd \in [dir : {"up", "down"}, at : Nat] /\ version \in 0..3
        /\ cmd.dir = "up" => version \in 0..2
    BY <1>a, <2>1 DEF Typed, Running
  <2>3. PICK v \in 0..2 : blocks(v)
    BY <1>b, <2>1
  <2>4. version' <= v
    <3>1. CASE cmd.dir = "up"
      <4>1. Len(Plan) \in Nat /\ Len(Plan) > 1
        BY <2>2, <3>1, UpPlan DEF Plan
      <4>2. cmd.at \in Nat /\ cmd.at # 1
        BY <2>1, <2>2, <4>1
      <4>3. version # v
        BY <2>1, <2>3, <3>1, <4>2
      <4> QED
        BY <2>1, <2>2, <2>3, <3>1, <4>3
    <3>2. CASE cmd.dir # "up"
      BY <2>1, <2>2, <2>3, <3>2
    <3> QED
      BY <3>1, <3>2
  <2>5. cmd' # Idle => cmd'.at = 1
    BY <2>1, <2>2
  <2> QED
    BY <2>1, <2>3, <2>4, <2>5 DEF Blocked
<1>5. CASE UNCHANGED database
  BY <1>b, <1>5 DEF Blocked
<1>6. ASSUME NEW p \in Processes,
             \/ Boot(p) \/ SelectNames(p) \/ InsertSeed(p) \/ InsertRefused(p)
             \/ CommitSeeds(p) \/ SeedFailed(p) \/ Exit(p)
      PROVE  UNCHANGED database
  BY <1>6 DEF Boot, SelectNames, InsertSeed, InsertRefused, CommitSeeds, SeedFailed, Exit
<1>7. InsertTask \/ UNCHANGED vars => UNCHANGED database
  BY DEF InsertTask, vars
<1> QED
  BY <1>1, <1>2, <1>3, <1>4, <1>5, <1>6, <1>7 DEF Next

-----------------------------------------------------------------------------
Migrations == Typed /\ OnTrack /\ UpStarted /\ Blocked

LEMMA MigrationsAlways == Spec => []Migrations
<1>1. ASSUME Init PROVE Migrations
  <2>1. Typed
    BY <1>1, TypeInit
  <2> QED
    BY <1>1, <2>1 DEF Init, Migrations, OnTrack, UpStarted, Blocked, SchemaAt
<1>2. Migrations /\ [Next]_vars => Migrations'
  BY TypeStep, TrackStep, StartedStep, BlockedStep DEF Migrations
<1> QED
  BY <1>1, <1>2, PTL DEF Spec

(* However upgrades and downgrades alternate, a recorded version has its   *)
(* schema, unless a command was stopped half way.                          *)
THEOREM VersionsHaveSchemas == Spec => []RoundTrip
<1>1. Migrations => RoundTrip
  BY DEF Migrations, OnTrack, RoundTrip
<1> QED
  BY <1>1, MigrationsAlways, PTL

(* At head the database has the tables and indexes the ORM models declare, *)
(* and no upgrade that stopped half way has been taken for complete.       *)
THEOREM HeadComplete == Spec => []HeadIsMetadata
<1>1. ASSUME Migrations PROVE HeadIsMetadata
  <2> SUFFICES ASSUME version = 3
               PROVE  /\ "up" \notin torn
                      /\ cmd = Idle /\ torn = {} => schema = Metadata
    BY RevisionsTyped DEF HeadIsMetadata
  <2>1. "up" \notin torn
    BY <1>1 DEF Migrations, Blocked
  <2>2. SchemaAt(3) = Metadata
    BY DEF SchemaAt, Metadata
  <2> QED
    BY <1>1, <2>1, <2>2 DEF Migrations, OnTrack
<1> QED
  BY <1>1, MigrationsAlways, PTL

(* Rows inserted while the unique indexes are rebuilt do not survive as    *)
(* duplicates into a version that is recorded as reached, with any number  *)
(* of processes seeding and inserting tasks meanwhile.                     *)
THEOREM RestUnique == Spec => []UniqueAtRest
<1>1. ASSUME Migrations, Inv PROVE UniqueAtRest
  <2> SUFFICES ASSUME cmd = Idle, torn = {}
               PROVE  keyed <= 1 /\ \A s \in Seeds : names[s] <= 1
    BY DEF UniqueAtRest
  <2>1. schema = SchemaAt(version) /\ version \in 0..3
    BY <1>1, RevisionsTyped DEF Migrations, OnTrack, Typed
  <2>2. CASE version = 0
    <3>1. schema.tables = {}
      BY <2>1, <2>2 DEF SchemaAt, Empty
    <3> QED
      BY <1>1, <3>1 DEF Inv, TablesFirst
  <2>3. CASE version \in 1..3
    <3>1. /\ Uq("robot_types", "name") \in SchemaAt(1).indexes
          /\ Uq("task_history", "idempotency_key") \in SchemaAt(1).indexes
      BY DEF SchemaAt, InitialSchema
    <3>2. /\ UniqueIx("robot_types", "name") \in Metadata.indexes
          /\ UniqueIx("task_history", "idempotency_key") \in Metadata.indexes
          /\ SchemaAt(2).indexes = Metadata.indexes /\ SchemaAt(3).indexes = Metadata.indexes
      BY DEF SchemaAt, Metadata
    <3>3. NameUnique /\ KeyUnique
      <4>1. CASE version = 1
        BY <2>1, <3>1, <4>1 DEF NameUnique, KeyUnique, Uq, Index
      <4>2. CASE version \in {2, 3}
        BY <2>1, <3>2, <4>2 DEF NameUnique, KeyUnique, UniqueIx, Index
      <4> QED
        BY <2>3, <4>1, <4>2
    <3> QED
      BY <1>1, <3>3 DEF Inv, Unique
  <2> QED
    BY <2>1, <2>2, <2>3
<1> QED
  BY <1>1, MigrationsAlways, InvAlways, PTL
=============================================================================
