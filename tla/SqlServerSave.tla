---------------------------- MODULE SqlServerSave ----------------------------
(***************************************************************************)
(* One repository.save() on SQL Server: EntityPersistExecutor.execute      *)
(* opens a transaction on a query runner of its own, the SubjectExecutor   *)
(* sends the updates, and the executor commits, or rolls back when         *)
(* anything rejected, and releases the runner.                             *)
(*                                                                         *)
(* executeUpdateOperations calls every update at once under a Promise.all, *)
(* except those of nested sets, which follow one another.  The queries of  *)
(* all of them meet at the runner's QueryLock, whose clients they are.     *)
(* Promise.all rejects as soon as one of them does; the others go on.      *)
(*                                                                         *)
(* A query decides when it holds the lock, not when it is called, whether  *)
(* it goes to the runner's transaction or to any connection of the pool,   *)
(* and looks at isReleased only before it asks for the lock.  commit and   *)
(* rollback do not take the lock; the mssql package (external) refuses     *)
(* them while a request of the transaction is in progress.                 *)
(***************************************************************************)
EXTENDS QueryLock

CONSTANT Workloads  \* what is saved, and what may fail while it is

VARIABLES workload,
          phase,               \* where EntityPersistExecutor.execute is
          isTransactionActive,
          isReleased,
          stage,               \* where each update's query is
          target,              \* where each update's query was sent
          tx,                  \* the server's side of the transaction
          written,             \* what the transaction holds
          durable,             \* what other sessions see
          outcome              \* of the promise that save() returned

saveVars == <<phase, isTransactionActive, isReleased, tx, outcome>>

queryVars == <<stage, target, written, durable>>

vars == <<workload, lockVars, saveVars, queryVars>>

\* What may fail: a subscriber, the pool ("connect") or the server.  Of some
\* failures nobody hears: they leave a promise or the lock unsettled.
Unanswered == {"connect", "beforeQuery", "afterCommit", "afterRollback"}

Answered == {"beforeStart", "begin", "afterStart", "statement", "beforeCommit", "commit",
             "beforeRollback", "rollback"}

WorkloadType == [oneByOne : SUBSET Clients, faults : SUBSET (Answered \cup Unanswered)]

ASSUME SaveAssumption == Workloads \subseteq WorkloadType

\* The clients that are updates of nested sets.
OneByOne == workload.oneByOne

Faults == workload.faults

SaveTypeOK ==
  /\ LockTypeOK
  /\ workload \in WorkloadType
  /\ phase \in {"idle", "calling", "updating", "committing", "rollingBack",
                "rollbackSent", "releasing", "stuck", "settled"}
  /\ isTransactionActive \in BOOLEAN
  /\ isReleased \in BOOLEAN
  /\ stage \in [Clients -> {"todo", "called", "sent", "executed", "refused", "done", "failed"}]
  /\ target \in [Clients -> {"none", "transaction", "pool"}]
  /\ tx \in {"none", "open", "over"}
  /\ written \subseteq Clients
  /\ durable \subseteq Clients
  /\ outcome \in {"pending", "resolved", "rejected"}
  /\ \A c \in Clients : stage[c] \in {"called", "sent", "executed"} => lock[c] # "out"

Init ==
  /\ LockInit
  /\ workload \in Workloads
  /\ phase = "idle"
  /\ isTransactionActive = FALSE
  /\ isReleased = FALSE
  /\ stage = [c \in Clients |-> "todo"]
  /\ target = [c \in Clients |-> "none"]
  /\ tx = "none"
  /\ written = {}
  /\ durable = {}
  /\ outcome = "pending"

\* Nothing else runs while the synchronous part of Promise.all's argument does.
EventLoopFree == phase # "calling"

----------------------------------------------------------------------------

\* startTransaction, before any query is called.  When the pool has no
\* connection, the executor function of its promise rejects, and the promise
\* is never settled.
StartTransaction ==
  /\ phase = "idle"
  /\ \/ /\ tx' = "open" /\ isTransactionActive' = TRUE
        /\ \/ phase' = "calling"
           \/ phase' = "rollingBack" /\ "afterStart" \in Faults
     \/ /\ Faults \cap {"beforeStart", "begin"} # {}
        /\ phase' = "rollingBack"
        /\ UNCHANGED <<tx, isTransactionActive>>
     \/ /\ "connect" \in Faults
        /\ phase' = "stuck" /\ isTransactionActive' = TRUE
        /\ UNCHANGED tx
  /\ UNCHANGED <<lockVars, queryVars, isReleased, outcome>>

\* SqlServerQueryRunner.query up to its first await.
Query(c) ==
  /\ stage[c] = "todo"
  /\ IF isReleased
     THEN /\ stage' = [stage EXCEPT ![c] = "failed"]
          /\ UNCHANGED lockVars
     ELSE /\ stage' = [stage EXCEPT ![c] = "called"]
          /\ Acquire(c)
  /\ UNCHANGED <<saveVars, target, written, durable>>

CallAtOnce(c) ==
  /\ phase = "calling"
  /\ c \notin OneByOne
  /\ Query(c)

CalledAll ==
  /\ phase = "calling"
  /\ \A c \in Clients \ OneByOne : stage[c] # "todo"
  /\ phase' = "updating"
  /\ UNCHANGED <<lockVars, queryVars, isTransactionActive, isReleased, tx, outcome>>

\* Mutant: the update before is not awaited.
CallNextUnawaited(c) ==
  /\ EventLoopFree
  /\ phase = "updating" \/ \E d \in Clients : stage[d] # "todo"
  /\ c \in OneByOne
  /\ Query(c)

\* updateNestSetSubjects goes on with the next update, whatever became of the
\* save in the meantime.
CallNext(c) ==
  /\ EventLoopFree
  /\ phase = "updating" \/ \E d \in Clients : stage[d] # "todo"
  /\ c \in OneByOne
  /\ \A d \in OneByOne : stage[d] \in {"todo", "done"}
  /\ Query(c)

\* acquire() has resolved.
GetLock(c) ==
  /\ EventLoopFree
  /\ Enter(c)
  /\ UNCHANGED <<saveVars, queryVars>>

\* A subscriber's beforeQuery throws: that is before the try block whose
\* finally gives the lock back.
BeforeQueryThrows(c) ==
  /\ "beforeQuery" \in Faults
  /\ lock[c] = "holding" /\ stage[c] = "called"
  /\ stage' = [stage EXCEPT ![c] = "failed"]
  /\ UNCHANGED <<lockVars, saveVars, target, written, durable>>

\* Mutant: the request is made on the pool and not on the transaction.
SendToPool(c) ==
  /\ lock[c] = "holding" /\ stage[c] = "called"
  /\ stage' = [stage EXCEPT ![c] = "sent"]
  /\ target' = [target EXCEPT ![c] = "pool"]
  /\ UNCHANGED <<lockVars, saveVars, written, durable>>

Send(c) ==
  /\ lock[c] = "holding" /\ stage[c] = "called"
  /\ stage' = [stage EXCEPT ![c] = "sent"]
  /\ target' = [target EXCEPT ![c] = IF isTransactionActive THEN "transaction" ELSE "pool"]
  /\ UNCHANGED <<lockVars, saveVars, written, durable>>

StatementExecutes(c) ==
  /\ stage[c] = "sent"
  /\ IF target[c] = "pool"
     THEN durable' = durable \cup {c} /\ UNCHANGED written
     ELSE tx = "open" /\ written' = written \cup {c} /\ UNCHANGED durable
  /\ stage' = [stage EXCEPT ![c] = "executed"]
  /\ UNCHANGED <<lockVars, saveVars, target>>

StatementFails(c) ==
  /\ stage[c] = "sent"
  /\ "statement" \in Faults \/ (target[c] = "transaction" /\ tx # "open")
  /\ stage' = [stage EXCEPT ![c] = "refused"]
  /\ UNCHANGED <<lockVars, saveVars, target, written, durable>>

\* Mutant: the lock is given back in the try block.
QuerySettlesLocked(c) ==
  /\ stage[c] \in {"executed", "refused"}
  /\ stage' = [stage EXCEPT ![c] = IF @ = "executed" THEN "done" ELSE "failed"]
  /\ IF stage[c] = "executed" THEN Release(c) ELSE UNCHANGED lockVars
  /\ UNCHANGED <<saveVars, target, written, durable>>

\* The finally block, after which the query's promise settles.
QuerySettles(c) ==
  /\ stage[c] \in {"executed", "refused"}
  /\ stage' = [stage EXCEPT ![c] = IF @ = "executed" THEN "done" ELSE "failed"]
  /\ Release(c)
  /\ UNCHANGED <<saveVars, target, written, durable>>

----------------------------------------------------------------------------

\* Mutant: the first update that resolves is enough.
UpdatesResolveAtFirst ==
  /\ phase = "updating"
  /\ \E c \in Clients : stage[c] = "done"
  /\ phase' = "committing"
  /\ UNCHANGED <<lockVars, queryVars, isTransactionActive, isReleased, tx, outcome>>

\* The promise that executeUpdateOperations awaits.
UpdatesResolve ==
  /\ phase = "updating"
  /\ \A c \in Clients : stage[c] = "done"
  /\ phase' = "committing"
  /\ UNCHANGED <<lockVars, queryVars, isTransactionActive, isReleased, tx, outcome>>

UpdatesReject ==
  /\ phase = "updating"
  /\ \E c \in Clients : stage[c] = "failed"
  /\ phase' = "rollingBack"
  /\ UNCHANGED <<lockVars, queryVars, isTransactionActive, isReleased, tx, outcome>>

\* A request of the transaction is in progress.
Busy == \E c \in Clients : stage[c] = "sent" /\ target[c] = "transaction"

CommitTransaction ==
  /\ phase = "committing" /\ ~Busy
  /\ durable' = durable \cup written
  /\ written' = {}
  /\ tx' = "over"
  /\ isTransactionActive' = FALSE
  /\ \/ phase' = "releasing" /\ outcome' = "resolved"
     \/ phase' = "stuck" /\ "afterCommit" \in Faults /\ UNCHANGED outcome
  /\ UNCHANGED <<lockVars, isReleased, stage, target>>

CommitFails ==
  /\ phase = "committing"
  /\ Busy \/ Faults \cap {"beforeCommit", "commit"} # {}
  /\ phase' = "rollingBack"
  /\ UNCHANGED <<lockVars, queryVars, isTransactionActive, isReleased, tx, outcome>>

\* Mutant: a rollback that is refused does not settle its promise.
RollbackTransactionUnanswered ==
  /\ phase = "rollingBack"
  /\ phase' = IF isTransactionActive /\ ~Busy THEN "rollbackSent" ELSE "stuck"
  /\ tx' = IF isTransactionActive /\ ~Busy THEN "over" ELSE tx
  /\ written' = IF isTransactionActive /\ ~Busy THEN {} ELSE written
  /\ UNCHANGED <<lockVars, isTransactionActive, isReleased, stage, target, durable, outcome>>

\* rollbackTransaction up to the ROLLBACK it sends; when it throws before
\* that, its error is swallowed.
RollbackTransaction ==
  /\ phase = "rollingBack"
  /\ \/ /\ isTransactionActive /\ ~Busy
        /\ phase' = "rollbackSent"
        /\ tx' = "over" /\ written' = {}
        /\ UNCHANGED outcome
     \/ /\ ~isTransactionActive \/ Busy \/ "beforeRollback" \in Faults
        /\ phase' = "releasing" /\ outcome' = "rejected"
        /\ UNCHANGED <<tx, written>>
  /\ UNCHANGED <<lockVars, isTransactionActive, isReleased, stage, target, durable>>

\* The callback of the ROLLBACK, whose error is swallowed as well.
RollbackDone ==
  /\ phase = "rollbackSent"
  /\ \/ phase' = "releasing" /\ outcome' = "rejected" /\ isTransactionActive' = FALSE
     \/ /\ phase' = "stuck" /\ "afterRollback" \in Faults
        /\ isTransactionActive' = FALSE /\ UNCHANGED outcome
     \/ /\ phase' = "releasing" /\ outcome' = "rejected" /\ "rollback" \in Faults
        /\ UNCHANGED isTransactionActive
  /\ UNCHANGED <<lockVars, queryVars, isReleased, tx>>

ReleaseRunner ==
  /\ phase = "releasing"
  /\ phase' = "settled"
  /\ isReleased' = TRUE
  /\ UNCHANGED <<lockVars, queryVars, isTransactionActive, tx, outcome>>

\* The event loop has nothing left to do.
Finished ==
  /\ phase \in {"settled", "stuck"}
  /\ UNCHANGED vars

Executor ==
  /\ \/ StartTransaction
     \/ CalledAll
     \/ UpdatesResolve
     \/ UpdatesReject
     \/ CommitTransaction
     \/ CommitFails
     \/ RollbackTransaction
     \/ RollbackDone
     \/ ReleaseRunner
  /\ UNCHANGED workload

OneQuery(c) ==
  /\ \/ CallAtOnce(c)
     \/ CallNext(c)
     \/ GetLock(c)
     \/ BeforeQueryThrows(c)
     \/ Send(c)
     \/ StatementExecutes(c)
     \/ StatementFails(c)
     \/ QuerySettles(c)
  /\ UNCHANGED workload

Next == Executor \/ (\E c \in Clients : OneQuery(c)) \/ Finished

\* The event loop runs what is ready, and the server answers.
Fairness == WF_vars(Executor) /\ \A c \in Clients : WF_vars(OneQuery(c))

Spec == Init /\ [][Next]_vars /\ Fairness

----------------------------------------------------------------------------

\* save() is atomic: what it tells its caller is what other sessions see,
\* then and ever after.
SaveIsAtomic ==
  /\ outcome = "resolved" => durable = Clients
  /\ outcome = "rejected" => durable = {}

\* A save that resolves has made every update durable, whichever failed
\* attempts of the executor went on in the background.
ResolvedIsDurable == outcome = "resolved" => durable = Clients

\* When every update is awaited before the next is called, ...
Sequential == OneByOne = Clients

\* ... a save is atomic whatever fails, ...
SequentialSaveIsAtomic == Sequential => SaveIsAtomic

\* ... no query reaches the server over a runner that has been released, as
\* QueryRunner.isReleased promises, ...
SilentOnceReleased ==
  [][ Sequential /\ isReleased =>
        \A c \in Clients : stage'[c] = "sent" => stage[c] = "sent" ]_vars

\* Nothing fails where neither the promise nor the lock would be settled.
Clean == Faults \cap Unanswered = {}

\* save() answers its caller.
SaveSettles == <>(Clean => phase = "settled")

\* Whatever fails, save() releases the query runner that it created.
RunnerGivenBack == <>isReleased

\* No query waits for the lock for ever, also when the save has been given up.
EveryQueryAnswers ==
  \A c \in Clients : Clean /\ stage[c] = "called" ~> stage[c] \in {"done", "failed"}
===============================================================================
