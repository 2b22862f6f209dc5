---------------------------- MODULE CockroachRetry ----------------------------
(***************************************************************************)
(* One transaction of a CockroachQueryRunner.  The runner records the      *)
(* statements of the transaction, and when the server answers one with     *)
(* error 40001 it rolls back to the savepoint cockroach_restart, sleeps    *)
(* and runs the recorded statements again, inside the query() call that    *)
(* failed.  A replayed statement is a query() call too, which may conflict *)
(* and start a replay of its own: calls[t] is the stack of the query()     *)
(* calls of thread t.                                                      *)
(*                                                                         *)
(* The statements are 1..Latest, and statement s is sent by thread s; the  *)
(* caller's commit or rollback is thread 0.  A caller either awaits one    *)
(* statement before the next, as SubjectExecutor does with its own on      *)
(* CockroachDB, or sends them together, as the subscribers may whose       *)
(* promises SubjectExecutor.execute awaits under one Promise.all.  The     *)
(* client (pg, external) queues what it is given; the server (external)    *)
(* answers in that order.                                                  *)
(* When the caller has its answer the runner is released.                  *)
(***************************************************************************)
EXTENDS Integers, Sequences, SequencesExt

CONSTANTS Latest,
          Togethers,             \* what together may be
          ReplayConflicts,       \* which statements of a replay may conflict: "last", "any"
          maxTransactionRetries,
          MaxConflicts,          \* bound: conflicts that the server finds ...
          MaxConflictsTogether,  \* ... and those when statements are sent together
          MaxQueries             \* bound: length of the record

VARIABLES together,           \* the caller sends its statements together
          queries,            \* the record
          storeQueries,
          transactionRetries,
          calls,
          answer,             \* how the promise of each thread's call settled
          phase,              \* where the caller is
          wire,               \* requests that the server has not answered
          server, tx, durable,
          conflicts

runnerVars == <<queries, storeQueries, transactionRetries>>

serverVars == <<server, tx, durable, conflicts>>

vars == <<together, runnerVars, calls, answer, phase, wire, serverVars>>

Statements == 1..Latest
ReleaseRestart == Latest + 1
Commit == Latest + 2
Rollback == Latest + 3
RollbackToRestart == Latest + 4
Requests == 1..RollbackToRestart
Threads == 0..Latest

ASSUME RetryAssumption ==
  /\ Latest \in Nat /\ maxTransactionRetries \in Nat
  /\ MaxConflicts \in Nat /\ MaxConflictsTogether \in Nat /\ MaxQueries \in Nat
  /\ Togethers \subseteq BOOLEAN /\ ReplayConflicts \in {"last", "any"}

\* at is 0 while a call awaits its own statement, -1 while it awaits ROLLBACK
\* TO, and in a replay the place of the next statement in the record.
Call == [query : Requests, at : Int]

TypeOK ==
  /\ together \in BOOLEAN
  /\ queries \in Seq(Requests)
  /\ storeQueries \in BOOLEAN
  /\ transactionRetries \in 0..maxTransactionRetries
  /\ calls \in [Threads -> Seq(Call)]
  /\ answer \in [Threads -> {"none", "pending", "resolved", "rejected"}]
  /\ phase \in {"running", "releasing", "committing", "rollingBack", "resolved", "rejected"}
  /\ wire \in Seq([thread : Threads, query : Requests])
  /\ server \in {"open", "aborted", "released", "over"}
  /\ tx \in Seq(Statements)
  /\ durable \in Seq(Statements)
  /\ \A t \in Threads : calls[t] # <<>> <=> answer[t] = "pending"

Init ==
  /\ together \in Togethers
  /\ queries = <<>> /\ storeQueries = TRUE /\ transactionRetries = 0
  /\ calls = [t \in Threads |-> <<>>]
  /\ answer = [t \in Threads |-> "none"]
  /\ phase = "running"
  /\ wire = <<>>
  /\ server = "open" /\ tx = <<>> /\ durable = <<>>
  /\ conflicts = 0

----------------------------------------------------------------------------

\* isTransactionActive, until the caller's commit or rollback is answered.
Active == phase \notin {"resolved", "rejected"}

Innermost(t) == calls[t][Len(calls[t])]

\* query() of thread t, on top of the calls under way.
Query(t, q, under) ==
  /\ calls' = [calls EXCEPT ![t] = Append(under, [query |-> q, at |-> 0])]
  /\ wire' = Append(wire, [thread |-> t, query |-> q])
  /\ answer' = [answer EXCEPT ![t] = "pending"]

\* Mutant: storeQueries is not looked at.
RecordAlways(q) == queries' = Append(queries, q)

Record(q) == queries' = IF Active /\ storeQueries THEN Append(queries, q) ELSE queries

\* The innermost call of thread t returns to the replay it is part of, or to
\* the caller.
Return(t) ==
  /\ calls' = [calls EXCEPT ![t] = Front(@)]
  /\ answer' = [answer EXCEPT ![t] = IF Len(calls[t]) = 1 THEN "resolved" ELSE "pending"]

\* Nothing in query() catches what a replay throws.
Throw(t) ==
  /\ calls' = [calls EXCEPT ![t] = <<>>]
  /\ answer' = [answer EXCEPT ![t] = "rejected"]

----------------------------------------------------------------------------

\* The caller.
CallStatement(s) ==
  /\ answer[s] = "none"
  /\ phase = "running" \/ (together /\ phase = "rollingBack")
  /\ together \/ \A r \in 1..(s - 1) : answer[r] = "resolved"
  /\ Query(s, s, <<>>)
  /\ Record(s)
  /\ UNCHANGED <<storeQueries, transactionRetries, phase, serverVars>>

CommitTransaction ==
  /\ phase = "running" /\ \A s \in Statements : answer[s] = "resolved"
  /\ phase' = "releasing"
  /\ storeQueries' = FALSE
  /\ Query(0, ReleaseRestart, <<>>)
  /\ UNCHANGED <<queries, transactionRetries, serverVars>>

SendCommit ==
  /\ phase = "releasing" /\ answer[0] = "resolved"
  /\ phase' = "committing"
  /\ Query(0, Commit, <<>>)
  /\ Record(Commit)
  /\ UNCHANGED <<storeQueries, transactionRetries, serverVars>>

RollbackTransaction ==
  /\ \/ phase = "running" /\ \E s \in Statements : answer[s] = "rejected"
     \/ phase \in {"releasing", "committing"} /\ answer[0] = "rejected"
  /\ phase' = "rollingBack"
  /\ storeQueries' = FALSE
  /\ Query(0, Rollback, <<>>)
  /\ UNCHANGED <<queries, transactionRetries, serverVars>>

\* Mutant: rollbackTransaction does not settle.
TransactionEndsByCommit ==
  /\ phase = "committing" /\ answer[0] = "resolved"
  /\ phase' = "resolved"
  /\ queries' = <<>>
  /\ transactionRetries' = 0
  /\ UNCHANGED <<storeQueries, calls, answer, wire, serverVars>>

TransactionEnds ==
  /\ phase \in {"committing", "rollingBack"} /\ answer[0] = "resolved"
  /\ phase' = IF phase = "committing" THEN "resolved" ELSE "rejected"
  /\ queries' = <<>>
  /\ transactionRetries' = 0
  /\ UNCHANGED <<storeQueries, calls, answer, wire, serverVars>>

----------------------------------------------------------------------------

\* The server takes the next request.
Accepts(q) ==
  \/ /\ q \in Statements /\ server = "open"
     /\ tx' = Append(tx, q)
     /\ UNCHANGED <<server, durable>>
  \/ /\ q \in Statements /\ server = "over"
     /\ durable' = Append(durable, q)
     /\ UNCHANGED <<server, tx>>
  \/ /\ q \in {ReleaseRestart, Commit} /\ server = "open"
     /\ server' = IF q = Commit THEN "over" ELSE "released"
     /\ durable' = durable \o tx /\ tx' = <<>>
  \/ /\ q = Commit /\ server = "released"
     /\ server' = "over"
     /\ UNCHANGED <<tx, durable>>
  \/ /\ q = Rollback
     /\ server' = "over" /\ tx' = <<>>
     /\ UNCHANGED durable
  \/ /\ q = RollbackToRestart /\ server \in {"open", "aborted"}
     /\ server' = "open" /\ tx' = <<>>
     /\ UNCHANGED durable

\* A statement of query() succeeds, or its ROLLBACK TO, after which it sleeps.
Succeeds(t, q) ==
  /\ wire # <<>> /\ Head(wire) = [thread |-> t, query |-> q]
  /\ Accepts(q)
  /\ wire' = Tail(wire)
  /\ IF q = RollbackToRestart
     THEN /\ calls' = [calls EXCEPT ![t][Len(calls[t])].at = 1]
          /\ UNCHANGED answer
     ELSE Return(t)
  /\ UNCHANGED <<runnerVars, phase, conflicts>>

\* What a replayed statement's place in the record must be to conflict.
MayConflict(t) ==
  Len(calls[t]) > 1 /\ ReplayConflicts = "last"
    => calls[t][Len(calls[t]) - 1].at = Len(queries) + 1

\* Error 40001 sends ROLLBACK TO SAVEPOINT cockroach_restart, or is thrown
\* when there have been too many.  A COMMIT that fails ends the transaction.
Conflict(t, q) ==
  /\ wire # <<>> /\ Head(wire) = [thread |-> t, query |-> q]
  /\ q \in Statements \cup {ReleaseRestart, Commit} /\ server = "open"
  /\ conflicts < (IF together THEN MaxConflictsTogether ELSE MaxConflicts)
  /\ MayConflict(t)
  /\ conflicts' = conflicts + 1
  /\ IF q = Commit THEN server' = "over" /\ tx' = <<>>
                   ELSE server' = "aborted" /\ UNCHANGED tx
  /\ IF Active /\ transactionRetries < maxTransactionRetries
     THEN /\ transactionRetries' = transactionRetries + 1
          /\ storeQueries' = FALSE
          /\ calls' = [calls EXCEPT ![t][Len(calls[t])].at = -1]
          /\ wire' = Append(Tail(wire), [thread |-> t, query |-> RollbackToRestart])
          /\ UNCHANGED answer
     ELSE /\ Throw(t)
          /\ wire' = Tail(wire)
          /\ UNCHANGED <<transactionRetries, storeQueries>>
  /\ UNCHANGED <<queries, phase, durable>>

\* Any other error is thrown: of a statement that is wrong, or of one in a
\* transaction that is aborted, released or over.
Fails(t, q) ==
  /\ wire # <<>> /\ Head(wire) = [thread |-> t, query |-> q]
  /\ \/ q \in Statements /\ server \in {"open", "aborted", "released"}
     \/ q \in {ReleaseRestart, Commit} /\ server = "aborted"
     \/ q = RollbackToRestart /\ server \in {"released", "over"}
  /\ server' = IF server = "open" THEN "aborted" ELSE server
  /\ wire' = Tail(wire)
  /\ Throw(t)
  /\ UNCHANGED <<runnerVars, phase, tx, durable, conflicts>>

----------------------------------------------------------------------------

\* The replay in the innermost call of t goes on: for (const q of this.queries).
Replay(t) ==
  /\ calls[t] # <<>> /\ Innermost(t).at \in 1..Len(queries)
  /\ Active /\ Len(queries) < MaxQueries
  /\ LET at == Innermost(t).at
     IN /\ Query(t, queries[at], [calls[t] EXCEPT ![Len(calls[t])].at = at + 1])
        /\ Record(queries[at])
  /\ UNCHANGED <<storeQueries, transactionRetries, phase, serverVars>>

\* Mutant: the record is not kept after a replay.
ReplayEndsUnrecorded(t) ==
  /\ calls[t] # <<>> /\ Innermost(t).at > Len(queries)
  /\ transactionRetries' = 0
  /\ Return(t)
  /\ UNCHANGED <<queries, storeQueries, phase, wire, serverVars>>

\* Commit and rollback empty the record, but a loop under way keeps the array
\* that it began with: it may end as well as go on.
ReplayEnds(t) ==
  /\ calls[t] # <<>> /\ Innermost(t).at > Len(queries)
  /\ transactionRetries' = 0 /\ storeQueries' = TRUE
  /\ Return(t)
  /\ UNCHANGED <<queries, phase, wire, serverVars>>

\* The runner was released during the replay.
ReplayRefused(t) ==
  /\ calls[t] # <<>> /\ Innermost(t).at > 1
  /\ ~Active
  /\ Throw(t)
  /\ UNCHANGED <<runnerVars, phase, wire, serverVars>>

Caller ==
  /\ \/ \E s \in Statements : CallStatement(s)
     \/ CommitTransaction
     \/ SendCommit
     \/ RollbackTransaction
     \/ TransactionEnds
  /\ UNCHANGED together

Answers ==
  /\ \E t \in Threads, q \in Requests : Succeeds(t, q) \/ Conflict(t, q) \/ Fails(t, q)
  /\ UNCHANGED together

Replays ==
  /\ \E t \in Threads : Replay(t) \/ ReplayEnds(t) \/ ReplayRefused(t)
  /\ UNCHANGED together

Next == Caller \/ Answers \/ Replays

\* The server answers and the event loop runs what is ready.
Spec == Init /\ [][Next]_vars /\ WF_vars(Caller) /\ WF_vars(Answers) /\ WF_vars(Replays)

----------------------------------------------------------------------------

\* Retries are not to be noticed by a caller that awaits its statements: a
\* transaction that resolves has made each of them durable once, one that
\* rejects none.
Atomic == ~together =>
  /\ phase = "resolved" => Len(durable) = Latest /\ ToSet(durable) = Statements
  /\ phase = "rejected" => durable = <<>>

\* No attempt at the transaction runs a statement twice, however replays of
\* replays were nested.
OncePerAttempt == \A i, j \in DOMAIN tx : tx[i] = tx[j] => i = j

\* The caller gets an answer.
Settles == <>(~Active)
===============================================================================
