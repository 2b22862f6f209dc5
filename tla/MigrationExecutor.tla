--------------------------- MODULE MigrationExecutor ---------------------------
(***************************************************************************)
(* MigrationExecutor: executePendingMigrations and undoLastMigration of    *)
(* several processes on one database, any of which may crash between two   *)
(* statements (its transaction, if any, is then rolled back).  Nothing in  *)
(* the code keeps the processes apart; what does is that a migration that  *)
(* changes the schema cannot be applied twice.  One that only changes data *)
(* can.                                                                    *)
(*                                                                         *)
(* Migrations are numbered in the order of their timestamps.  A row of the *)
(* migrations table has an id that the database gives when it is inserted. *)
(* An executor's statements, none of which it sends twice in a             *)
(* transaction, are in its log until it commits and take effect at once    *)
(* when it has no transaction.  (Its transaction is always one it started  *)
(* itself; the flag transactionStartedByUs, which is not reset between     *)
(* migrations, therefore makes no difference.)                             *)
(***************************************************************************)
EXTENDS Integers, FiniteSetsExt

CONSTANTS Executors,
          Latest,     \* the migrations in the source code are 1..Latest
          Options,    \* what the migrations and the data source may ask for
          MaxRecords, \* bound: ids of the migrations table
          MaxRunners  \* bound: query runners an executor has without releasing them

VARIABLES options,  \* what they ask for
          records,  \* rows of the migrations table
          applied,  \* how many times each migration is applied
          pc,       \* "idle", "up", "recordUp", "commit", "down", "recordDown", "failed"
          pending,  \* the migrations an executor has still to do
          inTx,     \* queryRunner.isTransactionActive
          log,      \* statements of the open transaction
          runners   \* how many query runners it has created and not released

vars == <<options, records, applied, pc, pending, inTx, log, runners>>

Migrations == 1..Latest

\* transaction is the data source's option; on and off are the migrations whose
\* own property transaction is true and false; detached those whose statements
\* fail inside a transaction; exclusive those whose up (down) fails when they
\* are (not) applied already; processes are those that run; undoing says that
\* they call undoLastMigration too.
OptionsType ==
  [transaction : {"all", "each", "none"}, on : SUBSET Migrations, off : SUBSET Migrations,
   detached : SUBSET Migrations, exclusive : SUBSET Migrations,
   processes : SUBSET Executors, undoing : BOOLEAN]

ASSUME MigrationAssumption ==
  /\ Latest \in Nat /\ MaxRecords \in Nat /\ MaxRunners \in Nat
  /\ Options \subseteq OptionsType
  /\ \A o \in Options : o.on \cap o.off = {}

Rows == [id : 1..MaxRecords, name : Migrations]

Statement == ({"up", "down", "delete"} \X Migrations) \cup ({"insert"} \X Rows)

TypeOK ==
  /\ options \in Options
  /\ records \subseteq Rows
  /\ applied \in [Migrations -> Int]
  /\ pc \in [Executors -> {"idle", "up", "recordUp", "commit", "down", "recordDown", "failed"}]
  /\ pending \in [Executors -> SUBSET Migrations]
  /\ inTx \in [Executors -> BOOLEAN]
  /\ log \in [Executors -> SUBSET Statement]
  /\ runners \in [Executors -> Int]
  /\ \A e \in Executors : pc[e] = "idle" <=> pending[e] = {}

Init ==
  /\ options \in Options
  /\ records = {}
  /\ applied = [m \in Migrations |-> 0]
  /\ pc = [e \in Executors |-> "idle"]
  /\ pending = [e \in Executors |-> {}]
  /\ inTx = [e \in Executors |-> FALSE]
  /\ log = [e \in Executors |-> {}]
  /\ runners = [e \in Executors |-> 0]

Recorded == {row.name : row \in records}

\* Mutant: newest first.
NewestFirst(e) == Max(pending[e])

\* They are run in the order of their timestamps.
Current(e) == Min(pending[e])

\* migration.transaction, once executePendingMigrations has set it.
OwnTransaction(m) == m \in options.on \/ (options.transaction = "each" /\ m \notin options.off)

Goto(e, step) == pc' = [pc EXCEPT ![e] = step]

----------------------------------------------------------------------------

\* The durable effect of statements.
Change(m, statements) ==
  (IF <<"up", m>> \in statements THEN 1 ELSE 0) - (IF <<"down", m>> \in statements THEN 1 ELSE 0)

Perform(statements) ==
  /\ applied' = [m \in Migrations |-> applied[m] + Change(m, statements)]
  /\ records' = {row \in records : <<"delete", row.name>> \notin statements}
                  \cup {row \in Rows : <<"insert", row>> \in statements}

Run(e, statement, transaction) ==
  /\ inTx' = [inTx EXCEPT ![e] = transaction]
  /\ IF transaction
     THEN log' = [log EXCEPT ![e] = @ \cup {statement}] /\ UNCHANGED <<records, applied>>
     ELSE Perform({statement}) /\ UNCHANGED log

CommitTx(e) ==
  /\ Perform(log[e])
  /\ log' = [log EXCEPT ![e] = {}]
  /\ inTx' = [inTx EXCEPT ![e] = FALSE]

Rollback(e) ==
  /\ log' = [log EXCEPT ![e] = {}]
  /\ inTx' = [inTx EXCEPT ![e] = FALSE]
  /\ UNCHANGED <<records, applied>>

\* What e's connection sees of m.
Seen(e, m) == applied[m] + Change(m, log[e])

\* Another transaction has changed the same objects and holds their locks.
Blocked(e, m) ==
  /\ m \in options.exclusive
  /\ \E d \in Executors \ {e} : <<"up", m>> \in log[d] \/ <<"down", m>> \in log[d]

Refused(e, m, transaction, expected) ==
  \/ m \in options.exclusive /\ Seen(e, m) # expected
  \/ m \in options.detached /\ transaction

----------------------------------------------------------------------------

CreateRunner(e) ==
  /\ runners[e] < MaxRunners
  /\ runners' = [runners EXCEPT ![e] = @ + 1]

ReleaseRunner(e) == runners' = [runners EXCEPT ![e] = @ - 1]

\* A call fails before its try block, the one that releases the query runner:
\* the migrations table is not created or not read, the transaction is not
\* started, or the migration to undo is not in the source code any more.
FailsEarly(e) ==
  /\ pc[e] = "idle"
  /\ CreateRunner(e)
  /\ UNCHANGED <<records, applied, pc, pending, inTx, log>>

\* executePendingMigrations up to its loop.
ExecutePending(e) ==
  LET todo == Migrations \ Recorded
  IN /\ pc[e] = "idle" /\ todo # {}
     /\ CreateRunner(e)
     /\ IF options.transaction = "all" /\ todo \cap (options.on \cup options.off) # {}
        THEN UNCHANGED <<pc, pending, inTx>>  \* ForbiddenTransactionModeOverrideError
        ELSE /\ Goto(e, "up")
             /\ pending' = [pending EXCEPT ![e] = todo]
             /\ inTx' = [inTx EXCEPT ![e] = options.transaction = "all"]
     /\ UNCHANGED <<records, applied, log>>

\* The transaction in which up() of e's current migration runs.
UpTransaction(e) == inTx[e] \/ OwnTransaction(Current(e))

Up(e) ==
  /\ pc[e] = "up" /\ ~Blocked(e, Current(e))
  /\ IF Refused(e, Current(e), UpTransaction(e), 0)
     THEN /\ inTx' = [inTx EXCEPT ![e] = UpTransaction(e)]
          /\ Goto(e, "failed")
          /\ UNCHANGED <<records, applied, log>>
     ELSE Run(e, <<"up", Current(e)>>, UpTransaction(e)) /\ Goto(e, "recordUp")
  /\ UNCHANGED <<pending, runners>>

\* Rows that are there or will be once everybody has committed.
Written == records \cup {row \in Rows : \E d \in Executors : <<"insert", row>> \in log[d]}

\* The row that an INSERT writes: its id is the next one.
NewRow(row, m) ==
  /\ row.name = m
  /\ \A old \in Written : old.id < row.id
  /\ row.id = 1 \/ \E old \in Written : old.id = row.id - 1

\* Mutant: the record is written on another connection.
RecordUpOutside(e) ==
  /\ pc[e] = "recordUp"
  /\ \E row \in Rows : NewRow(row, Current(e)) /\ Perform({<<"insert", row>>})
  /\ Goto(e, "commit")
  /\ UNCHANGED <<pending, runners, inTx, log>>

RecordUp(e) ==
  /\ pc[e] = "recordUp"
  /\ \E row \in Rows : NewRow(row, Current(e)) /\ Run(e, <<"insert", row>>, inTx[e])
  /\ Goto(e, "commit")
  /\ UNCHANGED <<pending, runners>>

IsLast(e) == pending[e] = {Current(e)}

\* Mutant: commits after every migration.
CommitsAlways(e) == inTx[e]

Commits(e) == inTx[e] /\ (IsLast(e) \/ options.transaction # "all")

\* After a migration: commit its own transaction, or after the last one the
\* transaction of all, and go on with the next migration or release the runner.
Commit(e) ==
  LET last == IsLast(e)
  IN /\ pc[e] = "commit"
     /\ IF Commits(e)
        THEN CommitTx(e)
        ELSE UNCHANGED <<records, applied, inTx, log>>
     /\ pending' = [pending EXCEPT ![e] = @ \ {Current(e)}]
     /\ Goto(e, IF last THEN "idle" ELSE "up")
     /\ IF last THEN ReleaseRunner(e) ELSE UNCHANGED runners

\* undoLastMigration.
UndoLast(e) ==
  /\ options.undoing
  /\ pc[e] = "idle"
  /\ \E row \in records : /\ \A other \in records : other.id <= row.id
                          /\ pending' = [pending EXCEPT ![e] = {row.name}]
  /\ CreateRunner(e)
  /\ inTx' = [inTx EXCEPT ![e] = options.transaction # "none"]
  /\ Goto(e, "down")
  /\ UNCHANGED <<records, applied, log>>

Down(e) ==
  /\ pc[e] = "down" /\ ~Blocked(e, Current(e))
  /\ IF Refused(e, Current(e), inTx[e], 1)
     THEN Goto(e, "failed") /\ UNCHANGED <<records, applied, inTx, log>>
     ELSE Run(e, <<"down", Current(e)>>, inTx[e]) /\ Goto(e, "recordDown")
  /\ UNCHANGED <<pending, runners>>

RecordDown(e) ==
  /\ pc[e] = "recordDown"
  /\ Run(e, <<"delete", Current(e)>>, inTx[e])
  /\ Goto(e, "commit")
  /\ UNCHANGED <<pending, runners>>

\* A statement fails on the connection.
Fails(e) ==
  /\ pc[e] \in {"up", "recordUp", "down", "recordDown"} \/ (pc[e] = "commit" /\ Commits(e))
  /\ Goto(e, "failed")
  /\ UNCHANGED <<records, applied, pending, inTx, log, runners>>

\* The catch and finally blocks.
GiveUp(e) ==
  /\ pc[e] = "failed"
  /\ Rollback(e)
  /\ Goto(e, "idle")
  /\ pending' = [pending EXCEPT ![e] = {}]
  /\ ReleaseRunner(e)

\* The process dies, and another takes its place.
Crash(e) ==
  /\ pc[e] # "idle" \/ runners[e] > 0
  /\ Rollback(e)
  /\ Goto(e, "idle")
  /\ pending' = [pending EXCEPT ![e] = {}]
  /\ runners' = [runners EXCEPT ![e] = 0]

Step(e) ==
  \/ FailsEarly(e)
  \/ ExecutePending(e)
  \/ Up(e)
  \/ RecordUp(e)
  \/ Commit(e)
  \/ UndoLast(e)
  \/ Down(e)
  \/ RecordDown(e)
  \/ Fails(e)
  \/ GiveUp(e)
  \/ Crash(e)

Next == (\E e \in options.processes : Step(e)) /\ UNCHANGED options

Spec == Init /\ [][Next]_vars

----------------------------------------------------------------------------

\* The migrations table tells the truth about every migration that runs in a
\* transaction: whatever crashed or ran at the same time, it has as many rows
\* as there are times that the migration is applied, and no more than one if
\* it cannot be applied twice.
RecordsTellTheTruth ==
  \A m \in Migrations : (options.transaction = "all" \/ OwnTransaction(m)) =>
    /\ applied[m] = Cardinality({row \in records : row.name = m})
    /\ m \in options.exclusive => applied[m] \in {0, 1}

\* Rows of those that are applied once have ids in the order of the timestamps.
Rising(table) ==
  \A row, other \in {old \in table : options.undoing \/ old.name \in options.exclusive} :
    row.id < other.id <=> row.name < other.name

\* No migration is recorded before the ones with older timestamps: up() of each
\* can rely on what those before it leave.  And the newest row is the one that
\* undoLastMigration has to take back, unless two processes recorded the same.
RecordedInOrder ==
  /\ \A m \in Recorded : 1..m \subseteq Recorded
  /\ Rising(records)

\* In mode "all" a run is applied as a whole: other sessions never see the
\* migrations of a run half recorded.
AllOrNothing ==
  [][ \A m \in Recorded' \ Recorded : options.transaction = "all" => Recorded' = Migrations ]_vars

\* What the comments at both finally blocks say: an executor that is done has
\* released the query runner it created.  It has not when it failed early.
RunnerReleased == \A e \in Executors : pc[e] = "idle" => runners[e] = 0

\* What the documentation says: migrations are run in a sequence, so that none
\* is applied twice.  Two processes that start together apply one that only
\* changes data twice.
AppliedOnce == \A m \in Migrations : applied[m] <= 1

\* What the comment on undoLastMigration says: it reverts the last migration
\* that was run.  It does not when another process has run one meanwhile.
RevertsTheLast ==
  [][ \A m \in Recorded \ Recorded' : \A n \in Recorded : n <= m ]_vars
===============================================================================
