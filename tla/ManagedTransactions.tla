-------------------------- MODULE ManagedTransactions --------------------------
(***************************************************************************)
(* EntityManager.transaction: a callback run between startTransaction and  *)
(* commitTransaction of a query runner, rolled back when anything throws,  *)
(* calls of it nested in the callbacks of others.                          *)
(*                                                                         *)
(* frames is the stack of the calls under way.  A call is "running" while  *)
(* its callback runs and "failed" once something was thrown and its catch  *)
(* block has not run yet.  The caller awaits every call before it makes    *)
(* the next one, so all steps are of the innermost call.  A callback that  *)
(* catches the rejection of a nested call goes on; one that does not is    *)
(* CallbackThrows right after it.                                          *)
(*                                                                         *)
(* runnerKept says whose query runner it is: FALSE, the entity manager is  *)
(* the data source's, and every outermost call creates a runner and        *)
(* releases it, which gives its session back to the pool for the next;     *)
(* TRUE, the same runner is used for one call after another: the manager   *)
(* is that of a runner of the caller's (createQueryRunner().manager), or   *)
(* the driver has a single one, whose release() resets none of the fields  *)
(* that matter here.  That is so of every SQLite driver.                   *)
(***************************************************************************)
EXTENDS QueryRunner

CONSTANTS CatchesErrorsIn, \* dialects in which callbacks catch a statement's error
          MaxDepth,        \* bound: nesting of the calls
          MaxFailedStarts, \* bound: how far failing starts take the depth below 0
          MaxSaves         \* bound: savepoints on the session

VARIABLES runnerKept, frames,
          isReleased       \* the outermost call's own query runner is released

vars == <<dialect, runnerKept, session, runner, frames, isReleased>>

ASSUME ManagedAssumption ==
  /\ CatchesErrorsIn \subseteq Dialects
  /\ MaxDepth \in Nat
  /\ MaxFailedStarts \in Nat
  /\ MaxSaves \in Nat

Frame == [status : {"running", "failed"}, work : SUBSET Writes]

TypeOK ==
  /\ SessionTypeOK
  /\ RunnerTypeOK
  /\ runnerKept \in BOOLEAN
  /\ transactionDepth \in -MaxFailedStarts..MaxDepth
  /\ frames \in Seq(Frame)
  /\ isReleased \in BOOLEAN

Init ==
  /\ SessionInit
  /\ RunnerInit
  /\ runnerKept \in BOOLEAN
  /\ dialect = "sqlite" => runnerKept
  /\ frames = <<>>
  /\ isReleased = ~runnerKept

Top == frames[Len(frames)]

Running == frames # <<>> /\ Top.status = "running"

Failed == frames # <<>> /\ Top.status = "failed"

SetTop(status, written) ==
  frames' = [frames EXCEPT ![Len(frames)] = [status |-> status, work |-> written]]

----------------------------------------------------------------------------

\* A call of EntityManager.transaction up to the start of its callback.
TransactionStarts(ok) ==
  /\ (frames = <<>> /\ isReleased = ~runnerKept) \/ Running
  /\ Len(frames) < MaxDepth
  /\ Len(saves) < MaxSaves
  /\ transactionDepth > -MaxFailedStarts
  /\ startTransaction(ok)
  /\ frames' = Append(frames, [status |-> IF ok THEN "running" ELSE "failed",
                               work |-> IF frames = <<>> THEN {} ELSE Top.work])
  /\ isReleased' = FALSE

\* The callback runs a statement.
StatementRuns(w) ==
  /\ Running
  /\ w \notin Top.work \cup durable
  /\ AcceptsWrite
  /\ Write(w)
  /\ SetTop("running", Top.work \cup {w})
  /\ UNCHANGED <<runner, isReleased>>

\* A statement fails; its error leaves the callback, or the callback catches it.
StatementFails ==
  /\ Running
  /\ Error
  /\ \/ SetTop("failed", Top.work)
     \/ dialect \in CatchesErrorsIn /\ UNCHANGED frames
  /\ UNCHANGED <<runner, isReleased>>

CallbackThrows ==
  /\ Running
  /\ SetTop("failed", Top.work)
  /\ UNCHANGED <<session, runner, isReleased>>

\* The callback has returned and the call resolves: what a nested call wrote
\* now belongs to its parent.
TransactionResolves ==
  /\ Running
  /\ commitTransaction(TRUE)
  /\ LET parent == Len(frames) - 1
     IN frames' = IF parent = 0
                  THEN <<>>
                  ELSE [SubSeq(frames, 1, parent) EXCEPT ![parent] = Top]
  /\ UNCHANGED isReleased

CommitFails ==
  /\ Running
  /\ commitTransaction(FALSE)
  /\ SetTop("failed", Top.work)
  /\ UNCHANGED isReleased

\* Mutant: the catch block rejects without a rollback.
TransactionRejectsOnly ==
  /\ Failed
  /\ frames' = SubSeq(frames, 1, Len(frames) - 1)
  /\ UNCHANGED <<session, runner, isReleased>>

\* The catch block, which swallows the error of the rollback and rejects.
TransactionRejects ==
  /\ Failed
  /\ rollbackTransaction
  /\ frames' = SubSeq(frames, 1, Len(frames) - 1)
  /\ UNCHANGED isReleased

\* The finally block of an outermost call that created its runner.  The fields
\* are those of the next runner from here on.
ReleaseRunner ==
  /\ frames = <<>> /\ ~isReleased /\ ~runnerKept
  /\ isReleased' = TRUE
  /\ isTransactionActive' = FALSE
  /\ transactionDepth' = 0
  /\ UNCHANGED <<session, frames>>

Step ==
  \/ \E ok \in BOOLEAN : TransactionStarts(ok)
  \/ \E w \in Writes : StatementRuns(w)
  \/ StatementFails
  \/ CallbackThrows
  \/ TransactionResolves
  \/ CommitFails
  \/ TransactionRejects
  \/ ReleaseRunner

Next == Step /\ UNCHANGED <<dialect, runnerKept>>

Spec == Init /\ [][Next]_vars

----------------------------------------------------------------------------

\* Between two calls, or while the innermost callback runs.
Quiet == \/ Running
         \/ frames = <<>> /\ isReleased = ~runnerKept

\* The calls under way, their savepoints and the session together keep the
\* promise of NestedTransactions: a call that resolves hands its writes to its
\* parent, one that rejects leaves no trace in it, and nothing is durable
\* before the outermost call resolves.
Promise == INSTANCE NestedTransactions
             WITH levels <- [i \in 1..Len(frames) |-> frames[i].work]

PromiseKept == Promise!Spec

\* No call leaves an open transaction behind, whatever subscribers and
\* statements failed on the way: the pool's next borrower, or the next call on
\* a runner that is kept, begins a transaction of its own.
SessionLeftClean == frames = <<>> => ~open

\* BaseQueryRunner.isTransactionActive is true exactly while a transaction is
\* in progress on the runner's session, while a callback runs and between two
\* calls: EntityPersistExecutor and the query builders decide by it whether
\* they still need a transaction of their own.  Not so on SQLite, where a BEGIN
\* that fails leaves it set.
ActiveMeansInProgress ==
  Quiet /\ dialect # "sqlite" => (isTransactionActive <=> open)

\* BaseQueryRunner.transactionDepth counts the calls under way, so that the
\* savepoint of every one of them has a name of its own.  Not so on a runner
\* that is kept and whose server accepts the ROLLBACK after a start that failed:
\* every such start takes one off it.
DepthCountsTheCalls ==
  Quiet /\ (runnerKept => dialect = "sqlite") => transactionDepth = Len(frames)

\* The same two fields while a callback runs, on any runner, also one that
\* outlives a start that failed: it starts no transaction with a wrong depth or
\* without the flag.
TracksRunningCalls ==
  Running => isTransactionActive /\ open /\ transactionDepth = Len(frames)

----------------------------------------------------------------------------

(***************************************************************************)
(* Why the promise is kept, as an inductive invariant.  It holds for the   *)
(* faults the methods withstand, SafeFaults: every one of a start that is  *)
(* not nested, but none of a start that is nested.  There "beforeStart"    *)
(* clears the flag of the transaction around it, and after "refused" and   *)
(* "startQuery" the catch block rolls that transaction back.  Nor do they  *)
(* withstand a rollback that fails, whose error the catch block ignores,   *)
(* or a subscriber that throws after a COMMIT, which makes a call reject   *)
(* that is durable.                                                        *)
(***************************************************************************)
SafeFaults ==
  /\ TopFaults \subseteq {"refused", "beforeStart", "startQuery", "afterStart",
                          "beforeCommit", "commitQuery"}
  /\ NestedFaults \subseteq {"afterStart", "beforeCommit", "commitQuery"}
  /\ "postgres" \notin CatchesErrorsIn

\* The newest savepoint named k holds what call k sees, and everything set
\* after it belongs to the calls nested in k.
Boundary(k, i) ==
  /\ saves[i].name = k
  /\ saves[i].work = frames[k].work
  /\ \A j \in DOMAIN saves : j > i => saves[j].name > k

\* The session is in the transaction that the calls believe it to be in.
InProgress ==
  /\ frames # <<>>
  /\ isTransactionActive
  /\ transactionDepth = Len(frames)
  /\ open
  /\ work = Top.work
  /\ aborted => Top.status = "failed"
  /\ \A k \in 1..(Len(frames) - 1) : \E i \in DOMAIN saves : Boundary(k, i)

\* The outermost call failed before its transaction began.
NeverBegan ==
  /\ Len(frames) = 1 /\ Failed /\ Top.work = {}
  /\ transactionDepth <= 0 /\ transactionDepth > -MaxFailedStarts
  /\ transactionDepth < 0 => dialect # "sqlite"
  /\ work = {}
  /\ open => isTransactionActive /\ dialect = "postgres"

\* The server refused the outermost COMMIT and rolled back.
CommitRefused ==
  /\ Len(frames) = 1 /\ Failed
  /\ isTransactionActive /\ transactionDepth = 1
  /\ ~open /\ dialect = "postgres"

\* Between two calls.  SQLite refuses the ROLLBACK after a BEGIN that failed,
\* and the flag stays; the other servers accept it, and the depth falls.
Idle ==
  /\ frames = <<>>
  /\ ~open
  /\ transactionDepth <= 0
  /\ transactionDepth < 0 => dialect # "sqlite"
  /\ isTransactionActive => dialect = "sqlite"
  /\ isReleased => ~isTransactionActive /\ transactionDepth = 0

IInv ==
  /\ TypeOK
  /\ dialect = "sqlite" => runnerKept
  /\ ~open => ~aborted /\ work = {} /\ saves = <<>>
  /\ \A k \in 1..(Len(frames) - 1) : frames[k].status = "running"
  /\ isReleased => frames = <<>> /\ ~runnerKept
  /\ InProgress \/ NeverBegan \/ CommitRefused \/ Idle
===============================================================================
