------------------------------ MODULE QueryRunner ------------------------------
(***************************************************************************)
(* The transaction methods of a query runner: startTransaction,            *)
(* commitTransaction and rollbackTransaction as PostgresQueryRunner writes *)
(* them and MysqlQueryRunner and AbstractSqliteQueryRunner repeat them,    *)
(* over the two fields of BaseQueryRunner that drive them.                 *)
(*                                                                         *)
(* Each method is a relation between the state before the call and the     *)
(* state after it; `ok` says whether its promise resolved.  A method can   *)
(* fail before its first await and at each of them:                        *)
(*   refused         the driver has no such isolation level, no            *)
(*                   transactions, or none inside of others                *)
(*   beforeStart     a subscriber's beforeTransactionStart throws          *)
(*   startQuery      START TRANSACTION, SET TRANSACTION ISOLATION LEVEL or *)
(*                   SAVEPOINT fails                                       *)
(*   afterStart      a subscriber's afterTransactionStart throws           *)
(*   beforeCommit, commitQuery, afterCommit                                *)
(*   beforeRollback, rollbackQuery                                         *)
(* A statement the session refuses fails whatever the fault constants say. *)
(* TopFaults and NestedFaults are the points that may fail in a call for   *)
(* the outermost transaction and in a call for a nested one.  The depth of *)
(* a runner falls below 0 when a start fails and the rollback after it is  *)
(* accepted; it then asks for savepoints named typeorm_-1 and so on, which *)
(* no server takes.                                                        *)
(***************************************************************************)
EXTENDS DatabaseSession

CONSTANTS TopFaults, NestedFaults

VARIABLES isTransactionActive, transactionDepth

runner == <<isTransactionActive, transactionDepth>>

FaultPoints == {"refused", "beforeStart", "startQuery", "afterStart", "beforeCommit",
                "commitQuery", "afterCommit", "beforeRollback", "rollbackQuery"}

ASSUME FaultsAssumption ==
  TopFaults \subseteq FaultPoints /\ NestedFaults \subseteq FaultPoints

RunnerTypeOK ==
  /\ isTransactionActive \in BOOLEAN
  /\ transactionDepth \in Int

RunnerInit ==
  /\ isTransactionActive = FALSE
  /\ transactionDepth = 0

Fault(point, nested) == point \in (IF nested THEN NestedFaults ELSE TopFaults)

----------------------------------------------------------------------------

\* The statement of startTransaction, sent at the current depth.
StartQuerySucceeds ==
  IF transactionDepth = 0
  THEN AcceptsBegin /\ Begin
  ELSE AcceptsSavepoint(transactionDepth) /\ Savepoint(transactionDepth)

\* START TRANSACTION may also succeed and the isolation level be refused.
IsolationQueryFails ==
  /\ dialect = "postgres" /\ AcceptsBegin /\ ~open
  /\ open' = TRUE /\ aborted' = TRUE
  /\ UNCHANGED <<durable, work, saves>>

StartQueryFails ==
  \/ /\ \/ Fault("startQuery", transactionDepth > 0)
        \/ ~(IF transactionDepth = 0 THEN AcceptsBegin ELSE AcceptsSavepoint(transactionDepth))
     /\ Error
  \/ transactionDepth = 0 /\ Fault("startQuery", FALSE) /\ IsolationQueryFails

startTransaction(ok) ==
  LET nested == transactionDepth > 0
  IN \/ /\ ~ok /\ Fault("refused", nested)
        /\ UNCHANGED <<runner, session>>
     \/ /\ ~ok /\ Fault("beforeStart", nested)
        /\ isTransactionActive' = FALSE
        /\ UNCHANGED <<transactionDepth, session>>
     \/ /\ ~ok /\ StartQueryFails
        /\ isTransactionActive' = TRUE
        /\ UNCHANGED transactionDepth
     \/ /\ ok \/ Fault("afterStart", nested)
        /\ StartQuerySucceeds
        /\ isTransactionActive' = TRUE
        /\ transactionDepth' = transactionDepth + 1

----------------------------------------------------------------------------

\* Mutant: the end of a nested transaction clears the flag as well.
LeaveTransactionClearing ==
  /\ isTransactionActive' = FALSE
  /\ transactionDepth' = transactionDepth - 1

\* Mutant: the end of a nested transaction does not count down.
LeaveTransactionUncounted ==
  IF transactionDepth > 1
  THEN UNCHANGED runner
  ELSE isTransactionActive' = FALSE /\ transactionDepth' = transactionDepth - 1

\* What both ends of a transaction do to the fields: only the end of the
\* outermost one clears the flag.
LeaveTransaction ==
  /\ IF transactionDepth > 1
     THEN UNCHANGED isTransactionActive
     ELSE isTransactionActive' = FALSE
  /\ transactionDepth' = transactionDepth - 1

CommitQuerySucceeds ==
  IF transactionDepth > 1
  THEN AcceptsRelease(transactionDepth - 1) /\ Release(transactionDepth - 1)
  ELSE AcceptsEnd /\ Commit

CommitQueryFails ==
  IF transactionDepth > 1
  THEN /\ Fault("commitQuery", TRUE) \/ ~AcceptsRelease(transactionDepth - 1)
       /\ Error
  ELSE /\ Fault("commitQuery", FALSE) \/ ~AcceptsEnd
       /\ CommitError

commitTransaction(ok) ==
  LET nested == transactionDepth > 1
  IN \/ /\ ~ok
        /\ ~isTransactionActive \/ Fault("beforeCommit", nested)
        /\ UNCHANGED <<runner, session>>
     \/ /\ ~ok /\ isTransactionActive
        /\ CommitQueryFails
        /\ UNCHANGED runner
     \/ /\ ok \/ Fault("afterCommit", nested)
        /\ isTransactionActive
        /\ CommitQuerySucceeds
        /\ LeaveTransaction

----------------------------------------------------------------------------

\* Mutant: a nested rollback is a ROLLBACK too.
RollbackQueryOutright == AcceptsEnd /\ Rollback

RollbackQuerySucceeds ==
  IF transactionDepth > 1
  THEN AcceptsRollbackTo(transactionDepth - 1) /\ RollbackTo(transactionDepth - 1)
  ELSE AcceptsEnd /\ Rollback

RollbackQueryFails ==
  LET nested == transactionDepth > 1
      accepted == IF nested THEN AcceptsRollbackTo(transactionDepth - 1) ELSE AcceptsEnd
  IN (Fault("rollbackQuery", nested) \/ ~accepted) /\ Error

\* Its callers swallow a failure, so its outcome is not told apart.
rollbackTransaction ==
  \/ /\ ~isTransactionActive \/ Fault("beforeRollback", transactionDepth > 1)
     /\ UNCHANGED <<runner, session>>
  \/ /\ isTransactionActive
     /\ RollbackQueryFails
     /\ UNCHANGED runner
  \/ /\ isTransactionActive
     /\ RollbackQuerySucceeds
     /\ LeaveTransaction
===============================================================================
