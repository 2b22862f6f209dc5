# TypeORM in TLA+

TLA+ modules for the parts of TypeORM whose correctness depends on the order of
things: transactions and their savepoints, queries that share a connection,
saves whose statements run in parallel, the order in which a save inserts,
updates and removes, retries, the bookkeeping of tree entities, migrations of
several processes, the synchronization of a schema, and a cache of results over
a pool of connections. Every definition is translated
from the code under `src/src/`; `PROJECT.json` names the lines of each one.

## 1. Inventory

| Component | State it keeps | Operations | Talks to | What makes it correct |
|---|---|---|---|---|
| Query runners (`query-runner/BaseQueryRunner.ts`, `driver/*/…QueryRunner.ts`) | `isReleased`, `isTransactionActive`, `transactionDepth`, connection, `sqlInMemory`, `loadedTables` | `connect`, `release`, `startTransaction`, `commitTransaction`, `rollbackTransaction`, `query`, DDL | the database session; `Broadcaster` (subscribers may throw at each broadcast) | the two transaction fields agree with the session whatever fails; a session goes back to the pool clean |
| `EntityManager.transaction` | the stack of calls under way | run a callback in a transaction, nested at will | a query runner of its own, or the one of the manager | all or nothing, nested calls too; nothing durable early |
| `QueryLock` | queue of promises | `acquire`, `release` | `SqlServerQueryRunner.query`, `SapQueryRunner.query` | mutual exclusion, first come first served, nobody starves |
| Persist operation (`EntityPersistExecutor`, `SubjectExecutor`, `Subject`, subject builders, topological sorter) | subjects and their change maps | `execute` with its own transaction; cascades, loading, inserts, updates, removals, soft removals, recoveries | the query runner, subscribers, tree executors | what is in memory is stored, once; statements respect dependencies; nobody else's rows change; a save is atomic; the caller gets an answer |
| Tree executors (`persistence/tree/*`) and `TreeRepository` | interval columns, closure table, or path column beside the parent column | `insert`, `update`, `remove`; `findDescendants`, `findAncestors`, `findRoots` | `SubjectExecutor`, `SubjectDatabaseEntityLoader`, `OneToManySubjectBuilder` | the second representation always agrees with the parent column |
| `MigrationExecutor` | migrations table, the schema, its transaction | `executePendingMigrations`, `undoLastMigration`, fake runs | a query runner of its own; other processes on the same database | recorded if and only if applied; order; overrides; no leaked runner |
| `CockroachQueryRunner` retry | `queries`, `storeQueries`, `transactionRetries` | `query` with replay after error 40001 | the server; parallel callers | a retry is not to be noticed |
| Query result cache (`cache/*`, `SelectQueryBuilder.loadRawResults`) | rows with time and duration | get, expire, store, clear, remove | query runners | never older than its duration; writers do not undo one another |
| PostgreSQL connections (`PostgresQueryRunner.connect/release`, `PostgresDriver`) | `databaseConnectionPromise`, `releaseCallback`, `connectedQueryRunners` | connect, release, error callback | the pool | every client obtained is released |
| Drivers with one runner (better-sqlite3, sqljs, …) | the runner; sqljs: the exported file | `createQueryRunner`, `autoSave` | every caller | callers do not join transactions of others |
| `Broadcaster`, `RelationLoader`, query builders, `DataSource` | little | event order, lazy relations, SQL text, optimistic lock, life cycle | all of the above | see the plan |
| Schema builder (`RdbmsSchemaBuilder`, the schema methods of `PostgresQueryRunner`, `loadTables`, `findChangedColumns`) | `loadedTables`, `sqlInMemory`, the catalog | `build`, `log`; seventeen phases of DDL | a query runner; migrations generated from `log` | the schema becomes what the entities declare, without loss of data; down undoes up; the cached tables are those of the database |
| Metadata builder, decorators, command line, MongoDB | — | sequential construction, wrappers | — | not modelled |

The hard behaviours: **failure in the middle** of a method that sets two fields
at different awaits; **interleaving** of the promises under a `Promise.all`
with the executor that has given up on them; **state read before a wait and
used after it** (`isReleased` before the lock, `isTransactionActive` after it,
the migrations table before a long loop, the intervals of all nodes before any
gap is closed, the tables before any statement changes them, the rows of a save
before its own statements); **crashes** between a migration and its record, or
in the middle of a synchronization; **retries** inside retries; **long
sequences** of legal tree operations; a **pool at its limit**. `PROJECT.json`
lists each hazard at its line.

## 2. Modules

```
NestedTransactions   what EntityManager.transaction promises
        ^ implements
ManagedTransactions  EntityManager.transaction and its callers      <- ManagedTransactions_proof
   extends QueryRunner        startTransaction, commit…, rollback…
   extends DatabaseSession    what PostgreSQL, MySQL and SQLite do (external)

QueryLock            acquire and release                            <- SqlServerSave_proof
   extended by SqlServerSave  EntityPersistExecutor + SubjectExecutor + query()
                                                                    <- SqlServerSave_proof

TreeRepository       an entity with a @Tree decorator and what reads it
                                                                    <- TreeRepository_proof
   instances of NestedSet, ClosureTable, MaterializedPath
   each extends TreeRows      rows and parent column; how callers use trees

MigrationExecutor    several processes, crashes                     <- MigrationExecutor_proof
CockroachRetry       one transaction with replays                   <- CockroachRetry_proof

SubjectExecutor      the statements of a save, and the database they meet
                                                                    <- SubjectExecutor_proof
   extends SubjectTopologicalSorter   the order of insertions and removals
   extends PersistenceSubjects        cascades, loading, relation builders
   each extends Lists                 parts of a list
   FoldFacts                          lemmas on folds: what one keeps, and how often it steps

RdbmsSchemaBuilder   build() and log(), phase by phase
   extends PostgresDdl                what the query runner sends, and caches
   extends PostgresCatalog            what PostgreSQL makes of it (external)

CachedQueries        a cached query, called at the same time        <- CachedQueries_proof
   extends PostgresConnections        query runners and their pool
```

The modules named `MC…` give the constants that a configuration file cannot
write: sets of records and functions.
Each run chooses among them in its initial states, so that one run looks at all
the configurations in which the code keeps its promises.

**DatabaseSession** is the server's side, modelled from how the drivers use it:
an open transaction with what it has written (`work`), its savepoints (`saves`,
oldest first, names may repeat), whether it is aborted (PostgreSQL only), and
what is durable. Statements are accepted or refused as the three dialects do:
SQLite refuses `BEGIN` inside a transaction, PostgreSQL refuses everything but
`ROLLBACK`, `ROLLBACK TO` and `COMMIT` in an aborted one and answers that
`COMMIT` with a rollback.

**QueryRunner** has `isTransactionActive` and `transactionDepth` and the three
methods as relations between the state before and after the call. A method may
fail before its first await (an isolation level that the driver does not have)
and at each of its awaits; `TopFaults` and `NestedFaults` name the points that
may, for outermost and nested calls. What a failing point leaves behind is what
the code had assigned by then.

**ManagedTransactions** stacks calls of `EntityManager.transaction`: one action
for each thing that can happen to the innermost call (it starts, a statement
runs or fails, the callback throws, the commit resolves or rejects, the catch
block rolls back, the finally block releases the runner). `runnerKept`, which
`Init` chooses, says whose the runner is. `FALSE`: each outermost call creates
one and releases it, and the fields are then those of the next one. `TRUE`: one
runner for all calls, the caller's own or the only one of its driver. SQLite
drivers have only one, whose `release()` resets nothing, so that on SQLite it is
always `TRUE`.

**NestedTransactions** knows nothing of that: levels of uncommitted writes.
`PromiseKept` is its `Spec` under the refinement mapping
`levels <- <<frames[i].work>>`.

**QueryLock** keeps for every client the set of those it waits for, the copy of
the queue in `acquire`. **SqlServerSave** composes it with
`SqlServerQueryRunner.query` (look at `isReleased`, wait for the lock,
broadcast, choose transaction or pool by `isTransactionActive`, send, release)
and with `EntityPersistExecutor.execute`; one client per updated entity. A
`workload` says which of them nested sets make sequential (`OneByOne`) and what
may fail (`Faults`). It moves the lock by `Acquire`, `Enter` and `Release` only,
so that what is proved of `QueryLock` holds in it.

**TreeRows** is the table without the tree columns, and what callers do:
`Usage` adds to the ordinary usage moves to the root, under ancestors or
descendants, and removals of whole families. **NestedSet**, **ClosureTable**
and **MaterializedPath** add the columns that the executors maintain, with the
statements that they send. A save is one step: it is one transaction, and the
callers of these modules follow one another. **TreeRepository** puts the three
behind the entity's `treeType`, as `SubjectExecutor` and
`createDescendantsQueryBuilder` do, with nodes, foreign key and usage for each.
Ids of materialized paths are written as the `Digits` say, so that text
may be found inside of other text. `Renamed`, `Adopted` and `Orphaned` are saves
of nodes whose parent property is not loaded: a node that is changed by a
cascade from its parent or beside a move, one that is put among the children of
its new parent, one that is left out of its parent's children.

**MigrationExecutor** has a program counter, the set of pending migrations (the
next is the one with the smallest timestamp), an open transaction and the
statements in it for each process. A row of the migrations table has an id, by
which `undoLastMigration` finds the last one. `options` are the data source's mode, the overrides of the migrations, and who calls what.
Of the migrations, `exclusive` ones fail when applied twice (a `CREATE TABLE`),
the others only change data and are applied as often as they are run; `detached`
ones fail inside a transaction (`CREATE INDEX CONCURRENTLY`), and a statement
waits for those of another open transaction on the same thing (`Blocked`). A
process counts the query runners that it has created and not released
(`runners`): a call that fails before its try block (`FailsEarly`, and the
forbidden override in `ExecutePending`) adds one.

**CockroachRetry** has one stack of `query()` calls for each statement that the
caller sends, the record that a retry replays, and the queue of requests in the
client. `together` is a caller that does not await one statement before the
next; `ReplayConflicts` says which statements of a replay may conflict again.

**PersistenceSubjects** works out, before the transaction, what a save, remove,
softRemove or recover will do: the subjects that cascades add, the rows that are
loaded for them, the changes that relations ask for, the columns that differ.
An entity has an identifier, one more column and relations of the six types
(both sides of each); identifiers are numbers that the database gives, or are
given on creation. **SubjectTopologicalSorter** orders the subjects by their
kinds of entity. **SubjectExecutor** sends the statements in groups, as the code
does, with what it notes down in the subjects (identifiers, changes that have to
wait for one), lets a listener change an object before it is updated, and has
the foreign keys, unique columns and junction tables that may refuse a
statement. What the objects and rows were at the start of a call is kept in
`start`, for the properties to compare with. `Init` allows any metadata, objects
and rows that belong together (`Consistent`); `MCSpec` begins with some of them.
The recursions of the code, which add subjects along cascades and sort kinds of
entity depth first, are folds with a stack of what is yet to be looked at.

**PostgresCatalog** is the server's side of a schema: columns, keys that hold
columns, enum types and sequences, and what each statement does or refuses; a
column has one row's worth of data, known by where it came from, so that a
dropped and re-added column is seen to have lost it. **PostgresDdl** has the
schema methods of `PostgresQueryRunner`: for a call, the statements up and down
and the table that it puts into its cache afterwards. **RdbmsSchemaBuilder** goes
through the phases and entities; each takes the tables from the cache, and so
what earlier calls have left there. Its names for keys are injective images of
what the naming strategy hashes.

**PostgresConnections** has for each query runner whether it waits for a client,
is connected or was refused one, which client it sends to, whether the pool has
not got that back, whether it is listed among the `connectedQueryRunners` and
whether it has been released; and for the pool its queue of requests. A client
that is given back is given back as it is: with its open transaction, and with
the statements that were sent to it and are still answered. **CachedQueries**
runs calls of one cached query over it: `getFromCache`, the query,
`storeInCache` each ask for the client that they need; the transactions are
those of the clients, whoever uses them; a row of the cache that a transaction
has changed is locked. The query is two steps, what the database reads (`Read`)
and the answer, at whose time `Date.now()` is taken (`Answer`). A statement under
way when its runner is released goes on, the next one is refused (`Connect`).
`Break`, `Timeout` and `Destroy` are the broken connection, `connectTimeoutMS`
and `DataSource.destroy`; a `remove` that fails is in the place `"failed"` for
good, with its client.

Operators marked "Mutant" repeat an action with a plausible bug in it; they
show that the properties can fail and are used by no specification.

## 3. Runs

Runs that pass:

| Run | Question | Bounds, and why they are enough |
|---|---|---|
| `transactions` | does every call leave a clean session, do flags and depth agree with it whatever failed before, and do the calls keep their promise? | three dialects; runners of a call's own, and one that is kept (on SQLite always); three levels (a middle call has both a parent and a child), two writes, four savepoints (one stale name under a fresh one), two starts that fail and whose rollback is accepted (`MaxFailedStarts`), so that one can fail after another has; for every value of these the theorems below hold |
| `save` | what survives updates that fail while others wait, and does everybody get an answer? | four updates: one that fails, one that holds the lock, two that wait; three, two or none of them sent together |
| `trees` | does every sequence of inserts, moves and removals keep the second representation? | four nodes: a moved node, its child, its new parent and a bystander, and a fifth for the arithmetic of intervals; every tree and every history on them is reached. The ids 1, 2, 11 and 12 of materialized paths begin and end with one another |
| `migrations` | what do crashes, failures and other processes leave behind? | two processes and three migrations, or one that undoes them too, in each mode, with migrations that can be applied twice in some; ids of records up to six, so that both processes record everything; two runners not released, since what is not released changes nothing else |
| `retry` | are retries noticed? | three statements, so that a conflict can come before, at and after another; four conflicts, more than `maxTransactionRetries`, one after another, or one among statements sent together; the record has room for twice the statements |
| `schema` | does a synchronization, or a generated migration, lead from any version to any other and back? | eighteen versions of two tables that refer to one another, each with something of its own (all pairs but those below): types, defaults, names, enums, uniques, indices, checks, exclusions, foreign keys, primary keys; two builds, the first of which may be cut off |
| `persist` | is what is in memory what is stored, once, in an order that the foreign keys allow? | two to four objects of five schemas (one-to-many with each kind of orphan, many-to-many, one-to-one, a category with its children, a required and a cascaded chain); every way to be stored before and related after; two calls, to see that the second has nothing to do |
| `cache` | do cached results, transactions and failures over one pool leave anything behind, and does anybody wait for ever? | a reader that stores by a runner of its own, a transaction that stores by its own, and a remove; two clients, one more than the calls that hold one while they ask for another (see below); two versions and two times; three calls, so that one follows a store and a remove, and one disturbance (a failure, a break, a timeout or a destroy); 450 000 states |

`transactions`, `retry`, `schema`, `persist` and `cache` do not check for
deadlock: everything may have been done, their calls are bounded, and a kept
runner whose depth has come down to the bound starts nothing any more. No run
uses symmetry.

Two properties of `transactions` say for which runners they hold. On SQLite a
`BEGIN` that fails leaves `isTransactionActive` set, as SQLite refuses the
`ROLLBACK` too (`AbstractSqliteQueryRunner.ts:96`), and on a kept runner of the
other dialects every `START TRANSACTION` that fails takes one off the depth, as
they accept it (`PostgresQueryRunner.ts:245`). `ActiveMeansInProgress` and
`DepthCountsTheCalls` leave these out; `TracksRunningCalls`, `SessionLeftClean`
and `PromiseKept` hold on all runners, also after such a start. In the same way
`EverythingEnds` and `OnlyRemoveKeepsClients` except a `remove` whose `DELETE`
failed, and `NothingUncommitted` the time from a destroy on.

No property of these runs speaks of the transaction that a migration asks for:
`undoLastMigration` ignores its `transaction` property (`MigrationExecutor.ts:458`),
so that the `down` of a `detached` one fails inside a transaction. An option that
undoes and has a `detached` migration shows it in the trace.

Fairness. `SqlServerSave` and `CockroachRetry`: the event loop runs what is
ready and the server answers; it is weak fairness of the caller's steps and of
the steps of queries, nothing more. `CachedQueries`: weak fairness of all
statements, requests and steps of a disconnect together, so some one of those
that can be answered is; no caller begins a call, and nothing breaks, because of
it. No other module needs any: their properties are safety properties. `SaveSettles` and `EveryQueryAnswers` say `Clean`: where
a subscriber throws in `BeforeQuery` the lock is never given back, and where one
throws in `AfterTransactionCommit` or `AfterTransactionRollback` inside mssql's
callback the promise never settles.

Runs that end in a violation, each of one property that a comment or a document
of the repository states (`PROJECT.json`, "findings", quotes it):

| Run | What the code does |
|---|---|
| `save_SaveIsAtomic` | SQL Server: the rollback after a failed update overtakes updates that wait for the lock; they then run outside the transaction |
| `trees_renamed` | a node saved by a cascade from its parent, its own parent property not loaded, is moved under the parent that it has, which spoils the intervals of a nested set |
| `retry_in_replay` | CockroachDB: a conflict during a replay executes statements twice, in a loop that feeds itself |
| `persist_moving` | a post given to another author, when both authors are saved with their posts, ends up with no author, or is deleted |

The passing runs leave out the inputs of these, by a constant that names them,
and some more, which can be put back to see what they do. The table names the
property that a caller would notice; TLC may report first an invariant that goes
wrong on the way there (`IInv`, `DepthCountsTheCalls`, `Laminar`,
`PathsSpellTheTree`), and names the other one when those are left out of the
configuration:

| Change | What it shows |
|---|---|
| `transactions`: `"beforeStart"` in `NestedFaults` | `ActiveMeansInProgress`, `SessionLeftClean`: a `BeforeTransactionStart` subscriber that throws in a nested call clears `isTransactionActive` of the transaction around it (`PostgresQueryRunner.ts:186`), whose commit and rollback are then refused: the session is given back with the transaction open |
| `transactions`: `"refused"` or `"startQuery"` in `NestedFaults` | `TracksRunningCalls`: a nested call that is refused before anything was sent (an isolation level that the driver does not have), or whose `SAVEPOINT` fails, rolls back the transaction around it, whose callback goes on without one (`EntityManager.ts:165`) |
| `transactions`: `"beforeRollback"` or `"rollbackQuery"` in `TopFaults` | `SessionLeftClean`: the catch block ignores the error of the rollback, and the session is given back with the transaction open (`EntityManager.ts:165`) |
| `transactions`: `ActiveMeansInProgress` or `DepthCountsTheCalls` without its exception | the flag and the depth after a failing start, as above: on SQLite a save that follows believes itself in a transaction and opens none (`BaseQueryRunner.ts:54` says "Indicates if transaction is in progress."), and at depth -1 the next start sends `SAVEPOINT typeorm_-1` |
| `transactions`: `"postgres"` in `CatchesErrorsIn` | `PromiseKept`: a call whose callback swallowed an error resolves although `COMMIT` of the aborted transaction was answered by a rollback; a nested call in it rolls back its caller's transaction, whose later writes are durable at once |
| `transactions`: `"afterCommit"` in `NestedFaults` | `PromiseKept`: the same after an `AfterTransactionCommit` subscriber throws in a nested call |
| `save_SaveIsAtomic`: `Workloads <- MCUnconnected` and `PROPERTY RunnerGivenBack` | the pool has no connection for the `BEGIN`: `obtainMasterConnection` rejects inside the async executor of a `Promise`, which nothing settles then; the save never ends and its query runner is never released (`SqlServerQueryRunner.ts:119`, against `EntityPersistExecutor.ts:211`, "release query runner only if its created by us") |
| `save`: `SilentOnceReleased` without `Sequential` | the updates that the rollback overtook are sent after the runner has been released |
| `trees`: `"toAncestor"` or `"family"` for nested sets | `FindsTheFamily`: moving under an ancestor shifts the node out of it; removing a node with its descendant closes the descendant's gap twice |
| `trees_renamed`: `TreeTypes = {"materialized-path"}`, `Nodes <- MCEndingNodes`, `Usage <- MCEnding` and `Spec` | `FindsTheFamily`: the path of a root is its id and a dot, and `REPLACE` replaces it everywhere: moving 1 under 2 turns 1.11. into 2.1.12.1. (`MaterializedPathSubjectExecutor.ts:129`) |
| `trees_renamed`: `TreeTypes = {"materialized-path"}`, `Nodes <- MCEndingNodes` and `SpecAdopted` | `FindsTheFamily`: a node put among the children of its new parent, its own parent property not loaded, keeps its path, as no old parent is known (`MaterializedPathSubjectExecutor.ts:97`) |
| `trees_renamed`: `TreeTypes = {"closure-table"}` and `SpecOrphaned` | `FindsTheFamily`: a child left out of its parent's children becomes a root whose closure rows still say otherwise: the subject that `OneToManySubjectBuilder` makes for it has no entity, and `update` returns (`ClosureSubjectExecutor.ts:160`) |
| `migrations`: `RunnerReleased` among the `INVARIANTS` | a call that fails before its try block never releases the query runner it has created: when the migrations table cannot be created or read, a migration overrides mode `"all"` (`MigrationExecutor.ts:286`), the migration to undo is not in the source code (438) or `startTransaction` fails (318, 459); line 389 says "if query runner was created by us then release it" |
| `migrations`: `Options <- MCData` and `AppliedOnce` among the `INVARIANTS` | two processes read the same pending migrations and both run one that only changes data (`MigrationExecutor.ts:210`; `docs/docs/migrations/05-executing.md:27`, "execute all pending migrations and run them in a sequence ordered by their timestamps") |
| `migrations`: `Options <- MCUndoing` and `RevertsTheLast` among the `PROPERTIES` | one process reads the last record, another runs and records the next migration, and the first undoes the one before it (`MigrationExecutor.ts:416`; 396 says "Reverts last migration that were run."); `RecordedInOrder` goes wrong too |
| `retry`: more than one conflict among statements sent together | `OncePerAttempt`; and a statement sent during a replay is never recorded, so that the next retry loses it |
| `schema`: without `MCDowns` | `DownUndoesUp`: the column that the down adds again has lost its comment (3 to 7); the down of an added enum value and a dropped default sets the default before it replaces the type, which PostgreSQL refuses while there is one (12 to 11) |
| `schema`: without `MCWrong` | `Converges`, `CacheIsTrue`: a generated migration that replaces an enum column by another one leaves the enum type behind; a column that `updatePrimaryKeys` took out of the primary key stays primary in the cache |
| `schema`: without `NotResumed` | `Converges`: with mode `"none"`, a build that is cut off between the statements that replace an enum type or rename a key along with its column cannot be taken up again: the next one meets the intermediate names |
| `persist`: `Moved` or `Replaced` not excluded | `SavedIsStored`, `NothingRefused`: see `persist_moving`; and a one-to-one partner that changes hands is bound to the new side before the old one lets go |
| `persist`: `Tags` with both sides defined | `NothingRefused`: a link that both sides add is inserted twice |
| `persist`: two chunks that share a new object | `NothingRefused`: it is inserted by both, as both are built before either is executed (`EntityPersistExecutor.ts:153`) |
| `persist`: `Orders({"coupon"})`, `Orders({"order"})` | `NothingRefused`, `SavedIsStored`: the two sorts put one after the other insert an order before its coupon when the coupon has its identifier already; the relation of an object with its own identifier is not put off |
| `persist`: roots that other rows refer to, removed | `NothingRefused`: the code leaves it to the database to refuse |
| `cache`: `Readers = {r1, r2}`, or `Clients = {k1}` | `EverythingEnds`: two calls each hold a client for the read or the transaction and wait for another one to store with, or one does with the only client: everybody waits for everybody (`DbQueryResultCache.ts:234`) |
| `cache`: `ClientsAreReturned` for `OnlyRemoveKeepsClients` | `remove` does not give its runner back when the `DELETE` fails (`DbQueryResultCache.ts:338`; `docs/docs/query-runner.md:36`, "make sure to release the `QueryRunner` when it is no longer necessary to return the connection back to the connection pool") |
| `cache`: `ServedIsCommitted` for `NothingUncommitted` | the data source is destroyed during a transaction: `closePool` releases its runner (`PostgresDriver.ts:1818`), the client goes back with the transaction open and to the next call that waits for one, which reads inside of that transaction and serves what is never committed |
| `cache`: `InvalidAfterDuration` for `ServedInTime` | a version is committed between the query and its answer: the old result is kept with the time of the answer and served for the whole duration from then on (`SelectQueryBuilder.ts:3909`; `docs/docs/query-builder/6-caching.md:44`, "This means the cache will be invalid 1 second after the query builder code is called.") |

## 4. Proofs

`ManagedTransactions_proof` proves, for any number of writes, any nesting, any
number of savepoints, every dialect, and runners of either kind, `Spec =>` always
`TypeOK`, `SessionLeftClean`, `ActiveMeansInProgress`, `DepthCountsTheCalls` and
`TracksRunningCalls`, and that the calls implement `NestedTransactions`
(`KeepsThePromise`). The assumption besides those on the constants is
`SafeFaults`. It allows every fault of a start that is not nested (refused, a
subscriber before or after it, the statement itself), also on a runner that is
kept and used again; of a nested call the faults after its `SAVEPOINT`; and the
faults before and in a commit. It leaves out the faults of a nested start before
its `SAVEPOINT`, those of a rollback, subscribers that throw after a commit, and
callbacks on PostgreSQL that swallow the error of a statement. The table above
puts each of these back and names what goes wrong then.

None of the properties is inductive: that a rollback leaves its caller what it
had depends on the savepoints. The inductive invariant `IInv` says in which of
four situations the calls are: in progress (the session sees what the innermost
call sees, and for every enclosing call the newest savepoint of its name holds
what that call sees, with only savepoints of deeper calls above it:
`Boundary`), never begun, refused at `COMMIT`, or idle. There is one lemma per
action, split where an outermost call differs from a nested one; the lemmas on
`Pushed`, `Replaced` and `Prefix` say what the stack operations keep, and
`PopKeepsBoundaries` is where savepoints that share a name are dealt with. What a
failing start leaves on a kept runner is part of `NeverBegan` and `Idle`: a depth
below 0, but not on SQLite; a flag that is set, but only there. The
refinement uses the same invariant: `Seen` maps the frames to levels, and every
action is a step of `NestedTransactions` or changes none of its variables. The
run `transactions` checks `IInv` too.

`SqlServerSave_proof` first proves `LockInv` of `QueryLock`, mutual exclusion and
the order of service, for any set of clients. The invariant is that a client waits for exactly those
before it in the queue; whoever waits for nobody is then the first.

It then shows that every step of a save moves the lock as a
client of `QueryLock` does, or not at all (`MovesTheLock`, a refinement under the
identity), so that what is proved of the lock holds in a save of any number of
updates. `ResolvedIsDurable` needs `DurableInv`: the transaction is open as long
as nobody has tried to end it, and an update that has been executed is held where
it was sent. `SequentialSaveIsAtomic` and `SilentOnceReleased` need
`SequentialInv`: of updates that follow one another at most one is under way,
none goes to the pool, and none is under way but a failed one when the executor
goes on. Nothing is assumed; that updates sent together break both is what the
run `save_SaveIsAtomic` shows.

`TreeRepository_proof` is about trees of any size and any foreign key. `Below` is
`Descendants` as an operator on rows and a parent column, so that it can be said
of this state and of the next; lemmas on it say what an insertion, a move and a
removal do to who is below whom. For each type the inductive invariant says
exactly what the columns or the closure table hold, because a move reads no
more than them:

- Closure table, for any callers: it holds the pairs of a node and a node below
  it, no more and no fewer, and no node has its parent below it (`Exact`). Only
  with both is what a move deletes and inserts the difference between the old
  tree's pairs and the new one's.
- Nested set: the intervals are within one another as the nodes are (`Nested`).
  It is because nothing but x and what is below x lies within x's interval that
  the `UPDATE` of a move shifts the right rows. Removals close the gaps of the
  removed intervals one after the other; that this goes well, in whatever order
  and number, is an induction on the gaps that remain. Assumed: `UsageWithstood`,
  that callers move nodes aside or to the root and remove none together with
  one below it.
- Materialized path: the paths spell the tree (`Spelled`). The lemmas about text
  say that a path begins with another if and only if its node is below the
  other's, that x's path occurs once in the path of what is below x, and that
  `REPLACE` puts the new one there. The ids may be any numbers, and begin and end
  with one another: behind a dot an id is found only as a whole, and only the path
  of a root begins without one. Assumed: `PathsWithstood`, that callers move no
  node below itself and no root that has an id ending in its own below it.

`FindsTheFamily` follows for each type and then for all. The table above shows
what happens to callers and ids outside of the assumptions.

`MigrationExecutor_proof` has any number of processes, migrations and records.
`RecordsTellTheTruth` needs `TruthInv`: an exclusive migration is applied once or
not at all, what an open transaction has applied was not applied before it, no two
open transactions have touched the same one (the statement of the second waits,
`Blocked`), and each executor's log is what its program counter says. Of a
migration that only changes data it says that there are as many records as
applications, so that the race of two processes on one is included. Executing
needs no assumption. Where migrations are undone, none may be applied twice
(`UndoneOnce`), and none asks for a transaction of its own in mode `"none"`, since
`undoLastMigration` would not give it one (`UndoneAsDone`). `RecordedInOrder` and
`AllOrNothing` need `OrderInv` as well: an executor has recorded, durably or in
its transaction, all migrations before the one at hand, whoever else applies the
same ones; of those that are applied once (`Once`), at most one executor has one
whose record is not durable (`Claims`), because no other can get past the oldest
that is not recorded. Assumed besides: who undoes is alone (`UndoneByOne`). The
options of the run meet all of these, and the table above drops the last.
`RunnerReleased` is not proved, since it is not true.

`CockroachRetry_proof` proves `Atomic` for any number of statements and
conflicts, from the assumption `ReplayConflicts = "last"`, that of a replay only
the statement it ends with conflicts again; what other conflicts do is the run
`retry_in_replay`. The invariant, `AwaitedInv`, follows the phases of the
transaction: of the `query()` calls on the stack all but the innermost two wait
at the end of their replays (`AtEnds`), and the transaction holds the first k
statements in order, each once, where k is how far the innermost replay has come
(`Before`, `Replaying`). `Atomic` says nothing of statements sent together, and
`OncePerAttempt` is proved for callers that await each statement
(`Togethers \subseteq {FALSE}`); for statements sent together the run checks it
with one conflict.

`CachedQueries_proof` proves, for any callers, any pool, any duration and any
number of failures, breaks, timeouts and destroys, `OnlyRemoveKeepsClients`,
`NothingUncommitted` and `ServedInTime`, without assumptions. None is inductive.
For the first, `ConnectionsInv` adds where a caller can be when one of its runners
waits for a client (at a statement that needs it) or holds one (in a call; the
runner that stores, only while it stores), that the requests are those of waiting
runners, each once, that holding a client and being on the list are the same, and
that a client is held by one runner. An event of the process changes several
runners in turn, so the lemmas are about `Connect`, `Release` and what is made of
them, from one pair of runners and requests to the next; the actions then cite
them. For the second, `ResultsInv` says, as long as the pool is up, that an open
transaction belongs to one writer, whose main runner holds its client, and of
every result in a call and every value of a row that it is a committed version or
the version of that transaction which owns the row or the call; a transaction that
ends takes its version away with it or commits it. (Once `closePool` hands out
clients with open transactions, the first part is false, and so is the property.)
For the third, `TimesInv` adds that versions are committed in the order of their
numbers, that the one a transaction holds is newer than all of them, and that
every result in a call or a row was still true at the time that is kept with it
less the time that the answer took (`lag`): the version after it was committed no
earlier.

`SubjectExecutor_proof` proves `OthersAreKept` of any metadata, objects and rows,
any number of chunks and any listener, from `Consistent` alone: relations and
objects have the parts that their types say, and what is stored is what the
database admits. `IInv`, the inductive invariant, says of every subject that it
is lawful, in one of three ways: it stands for an object that the call operates
on (`Own`), for a row of a junction table (`Link`), or for a row without an
object that some such object has, or had, related (`Bare`), in which case it may
only change the join column of that relation (`Held`) or, when the options say
so, remove the row as an orphan (`Orphaned`). The first part of the proof follows
`BuildExecutor` through cascades, loading, the three builders and the computing of
changes, whose loops are folds: `FoldFacts` proves for any step and predicate that
a fold keeps what its step keeps, and is instantiated for each. The second part
shows that the sort and the grouping only rearrange subjects. Then every
statement changes only rows that its subjects may change (`Kept`): an
insertion takes an identifier that no row of the start has, or the object's own;
an update or removal goes by the subject's kind and identifier; and what an
object is given as its identifier is one that it was inserted with.

`RemovedIsGoneHolds` goes the other way, from what may be changed to what must
be: a remove that resolved has removed the row of every object it takes in, and
left none with its identifier. It assumes that no two objects stand for one row
(`OneEach`): an object reached through a relation that has the identifier of a
subject already there is taken for it, so that its own relations are not followed
and it keeps its identifier. The proof first follows the cascades to their end: a
subject is made for whatever a visited object relates to, the fold has as many
steps as there are objects and values to visit (`StepsSuffice`, by counting:
`FoldCounts`), so that the objects with a subject are closed under what cascades
(`NoneLeft`, `BuildCascadesFollows`). Loading and computing changes leave the
subjects what they are (`Alike`). The sort and the grouping lose none of them
(`SortedAll`, `BulkGroupsAll`), nor do the chunks (`ChunksAll`). The invariant
`RInv` then says that each subject that is to go has its row gone or is in a group
to come, that executors that are done have only removed rows and new objects
(`DoneWith`), and that nothing is inserted, updated, soft-removed or recovered on
the way, so that what is gone stays gone. For soft removals and recoveries the
property is left to the run: the orphans of a relation may take a row away that is
to be marked.

Two arguments recur. Where a proof needs a least element (the oldest pending
migration, the shortest path that begins with another) or what a recursive
function computes (`Replace`, `Closing`), it takes the smallest number with a
property from the well-foundedness of the natural numbers (`SmallestExists`),
since the induction rules themselves are out of reach. And where a step concerns
one of many processes, a lemma says that the others keep their part of the
invariant.

Only model-checked: liveness (`SaveSettles`, `EveryQueryAnswers`, `Settles`,
`EverythingEnds`), for which the proof system has no means; and `OncePerAttempt`
for statements sent together. Of `SubjectExecutor`: `SavedIsStored`,
`SecondSaveIsSilent` and `NothingRefused`, which are true only of the
schemas and graphs that the run lists (the table above has the others), and
`RemovedIsGone` for soft removals and recoveries. Of `RdbmsSchemaBuilder`: all five, whose subject is what a whole
sequence of phases arrives at from one of the versions listed.

## 5. Plan

Done: (1) transactions, (2) the lock and the save on SQL Server, (3) trees,
(4) migrations, (5) the retry of CockroachDB, (6) the persist pipeline, (7) the
schema builder on PostgreSQL, (8) the cache of results over a pool of
connections. To do, in this order:

1. `SharedRunner`: two saves and a transaction on the single runner of
   better-sqlite3 (`EntityPersistExecutor.ts:176` joins whatever is open);
   sqljs `autoSave` while one is open.
2. Concurrent saves of nested sets; lazy relations (`RelationLoader`);
   optimistic locks; SQL Server's nested transactions; a release that overtakes
   `connect`.
3. Views and generated columns in the schema builder, and the DDL of MySQL,
   whose transactions do not hold it.
4. Proofs: `OncePerAttempt` for statements sent together with one conflict.

## 6. Not modelled

SQL text, parameters, hydration of entities and metadata: sequential
transformations of data with no order to get wrong. That is most of the code
by length: the query builders, the type definitions of the drivers, and the
drivers themselves, whose schema methods follow the pattern of those modelled.

*Schema.* Views, generated columns, partitions, schemas and databases; the DDL of
other drivers. Also outside the versions of the run, since the code goes wrong or
gives up there: a column with a default that becomes generated loses the
sequence's default; a new enum value is used as a default in the transaction that
adds it, which PostgreSQL refuses; a change of type drops checks and exclusions
over several columns, and a second foreign key on the column; more than one
renamed column is dropped and added again; a build without a transaction that is
cut off leaves enum types and sequences of no column.

*Persistence.* Composite identifiers and relations in the primary key,
inheritance, lazy relations, `reload: false`, MongoDB, and two saves at a time.
A relation to a new object without a cascade, and kinds that need one another
without a nullable column, are refused by the code before it sends anything.
That the identifiers of a rolled back save stay on the objects is not compared.

*Cache and connections.* The connection to redis, `clear` and `synchronize`;
replication; a release before `connect` has resolved, after which the client is
never given back. Callers that wait for a client when the pool ends are not
answered, which `EverythingEnds` excepts. A redis cache knows nothing of
transactions, so `NothingUncommitted` speaks of the table only. Queries that share an identifier but
not a text, and readers who ask for different durations, are one query here.

*Trees.* `LIKE` takes the `_` with which composite ids are joined for a wildcard;
ids here are single numbers. Two saves at a time.

*Others.* The fake mode of migrations. `findTrees` and `findAncestors` beyond what
the closure table's own statements use. Savepoints in `CockroachRetry` and
nested transactions of `SqlServerQueryRunner`. `asyncDispose` of a runner, which
commits whatever is open at depth 1.
