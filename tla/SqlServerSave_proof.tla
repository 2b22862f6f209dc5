-------------------------- MODULE SqlServerSave_proof --------------------------
(***************************************************************************)
(* Proofs about QueryLock, for any set of clients: mutual exclusion and    *)
(* the order in which the lock is taken.  Then proofs about SqlServerSave, *)
(* for any number of updates, sent together or one by one in any mixture,  *)
(* whatever fails: the save moves its lock as QueryLock says, so that what *)
(* is proved of the lock holds in it; a save that resolves is durable; and *)
(* one whose updates follow one another is atomic and silent once its      *)
(* runner is released.                                                     *)
(***************************************************************************)
EXTENDS SqlServerSave, SequenceTheorems, TLAPS

\* The queue is a sequence of clients with its length and its elements.
LEMMA QueueTyped ==
  ASSUME LockTypeOK
  PROVE  /\ queue \in Seq(Clients) /\ Len(queue) \in Nat
         /\ DOMAIN queue = 1..Len(queue)
         /\ \A i \in 1..Len(queue) : queue[i] \in Clients
BY LenProperties, ElementOfSeq DEF LockTypeOK

\* Whoever waits for nobody is the first in the queue.
LEMMA FirstInQueue ==
  ASSUME LockInv, NEW c \in Clients, lock[c] # "out", waits[c] = {}
  PROVE  Len(queue) \in Nat \ {0} /\ queue[1] = c
<1>1. PICK j \in 1..Len(queue) : queue[j] = c
  BY DEF LockInv, Queued
<1>2. Len(queue) \in Nat
  BY QueueTyped DEF LockInv
<1>3. j = 1
  <2>1. CASE j > 1
    <3>1. 1 \in 1..(j - 1)
      BY <1>2, <2>1
    <3>2. waits[c] = {queue[i] : i \in 1..(j - 1)}
      BY <1>1 DEF LockInv
    <3>3. queue[1] \in {queue[i] : i \in 1..(j - 1)}
      BY <3>1
    <3> QED
      BY <3>2, <3>3
  <2> QED
    BY <1>2, <2>1
<1> QED
  BY <1>1, <1>2, <1>3

\* Settling the promise of the first in the queue takes it off the front.
LEMMA WithoutFirst ==
  ASSUME LockInv, NEW c \in Clients, lock[c] = "holding"
  PROVE  /\ queue[1] = c
         /\ Without(c) \in Seq(Clients)
         /\ Len(Without(c)) = Len(queue) - 1
         /\ \A i \in 1..(Len(queue) - 1) : Without(c)[i] = queue[i + 1]
<1>1. Len(queue) \in Nat \ {0} /\ queue[1] = c
  BY FirstInQueue DEF LockInv
<1>2. \A i \in 1..Len(queue) : queue[i] = c => i = 1
  BY <1>1 DEF LockInv
<1>3. Without(c) = SubSeq(queue, 1, 0) \o SubSeq(queue, 2, Len(queue))
  <2>1. (CHOOSE i \in 1..Len(queue) : queue[i] = c) = 1
    BY <1>1, <1>2
  <2>2. 1 - 1 = 0 /\ 1 + 1 = 2
    OBVIOUS
  <2> QED
    BY <2>1, <2>2, Zenon DEF Without
<1>4. SubSeq(queue, 1, 0) = <<>>
  BY SubSeqEmpty
<1>5. /\ SubSeq(queue, 2, Len(queue)) \in Seq(Clients)
      /\ Len(SubSeq(queue, 2, Len(queue))) = Len(queue) - 1
      /\ \A i \in 1..(Len(queue) - 1) : SubSeq(queue, 2, Len(queue))[i] = queue[i + 1]
  <2>1. \A i \in 2..Len(queue) : queue[i] \in Clients
    BY QueueTyped DEF LockInv
  <2>2. PICK n \in Nat : n = Len(queue) /\ n >= 1
    BY <1>1
  <2>3. /\ SubSeq(queue, 2, n) \in Seq(Clients)
        /\ Len(SubSeq(queue, 2, n)) = IF 2 <= n THEN n - 2 + 1 ELSE 0
        /\ \A i \in 1..(n - 2 + 1) : SubSeq(queue, 2, n)[i] = queue[2 + i - 1]
    BY <2>1, <2>2, SubSeqProperties
  <2>4. n - 2 + 1 = n - 1 /\ Len(SubSeq(queue, 2, n)) = n - 1
    BY <2>2, <2>3
  <2>5. ASSUME NEW i \in 1..(n - 1) PROVE SubSeq(queue, 2, n)[i] = queue[i + 1]
    <3>1. 2 + i - 1 = i + 1
      BY <2>2
    <3> QED
      BY <2>3, <2>4, <3>1
  <2> QED
    BY <2>2, <2>3, <2>4, <2>5
<1>6. Without(c) = SubSeq(queue, 2, Len(queue))
  BY <1>3, <1>4, <1>5, ConcatEmptySeq
<1> QED
  BY <1>1, <1>5, <1>6

-----------------------------------------------------------------------------

\* A new lock has an empty queue.
LEMMA InitLockInv == LockInit => LockInv
<1> SUFFICES ASSUME LockInit PROVE LockInv
  OBVIOUS
<1>1. queue = <<>> /\ queue \in Seq(Clients) /\ Len(queue) = 0
  BY EmptySeq DEF LockInit
<1>2. LockTypeOK
  BY <1>1 DEF LockInit, LockTypeOK
<1> QED
  BY <1>1, <1>2 DEF LockInit, LockInv, Queued

\* acquire() puts the caller behind all that are queued, and it waits for them.
LEMMA AcquireKeeps ==
  ASSUME LockInv, NEW c \in Clients, Acquire(c)
  PROVE  LockInv'
<1> DEFINE n == Len(queue)
<1>1. /\ queue \in Seq(Clients) /\ n \in Nat
      /\ waits \in [Clients -> SUBSET Clients]
      /\ lock \in [Clients -> {"out", "waiting", "holding"}]
      /\ \A i \in 1..n : queue[i] \in Clients
  BY QueueTyped DEF LockInv, LockTypeOK
<1>2. /\ queue' \in Seq(Clients) /\ Len(queue') = n + 1 /\ queue'[n + 1] = c
      /\ \A i \in 1..n : queue'[i] = queue[i]
  BY <1>1, AppendProperties DEF Acquire
<1>3. c \notin Queued /\ Queued \subseteq Clients
  BY <1>1 DEF Acquire, LockInv, Queued
<1>4. LockTypeOK'
  BY <1>1, <1>2, <1>3 DEF Acquire, LockTypeOK
<1>5. ASSUME NEW i \in 1..(n + 1), NEW j \in 1..(n + 1), queue'[i] = queue'[j]
      PROVE  i = j
  <2>1. \A k \in 1..n : queue[k] # c
    BY <1>3 DEF Queued
  <2>2. CASE i \in 1..n /\ j \in 1..n
    BY <1>2, <1>5, <2>2 DEF LockInv
  <2>3. CASE i = n + 1 \/ j = n + 1
    BY <1>1, <1>2, <1>5, <2>1, <2>3
  <2> QED
    BY <1>1, <2>2, <2>3
<1>6. Queued' = Queued \cup {c}
  BY <1>1, <1>2 DEF Queued
<1>7. ASSUME NEW d \in Clients PROVE (lock[d] # "out")' <=> d \in Queued'
  BY <1>1, <1>6 DEF Acquire, LockInv
<1>8. ASSUME NEW j \in 1..(n + 1)
      PROVE  waits'[queue'[j]] = {queue'[i] : i \in 1..(j - 1)}
  <2>1. CASE j = n + 1
    <3>1. waits'[c] = Queued
      BY <1>1 DEF Acquire
    <3>2. {queue'[i] : i \in 1..n} = Queued
      BY <1>2 DEF Queued
    <3> QED
      BY <1>1, <1>2, <2>1, <3>1, <3>2
  <2>2. CASE j \in 1..n
    <3>1. queue'[j] = queue[j] /\ queue[j] # c /\ queue[j] \in Clients
      BY <1>1, <1>2, <1>3, <2>2 DEF Queued
    <3>2. waits'[queue[j]] = waits[queue[j]]
      BY <1>1, <3>1 DEF Acquire
    <3>3. \A i \in 1..(j - 1) : queue'[i] = queue[i]
      BY <1>1, <1>2, <2>2
    <3> QED
      BY <2>2, <3>1, <3>2, <3>3 DEF LockInv
  <2> QED
    BY <1>1, <2>1, <2>2
<1>9. ASSUME NEW d \in Clients, lock'[d] = "holding" PROVE waits'[d] = {}
  BY <1>1, <1>9 DEF Acquire, LockInv
<1> QED
  BY <1>2, <1>4, <1>5, <1>7, <1>8, <1>9 DEF LockInv

\* The wait of acquire() ends only when nobody before the caller is left.
LEMMA EnterKeeps ==
  ASSUME LockInv, NEW c \in Clients, Enter(c)
  PROVE  LockInv'
<1>1. LockTypeOK'
  BY DEF LockInv, LockTypeOK, Enter
<1>2. \A d \in Clients : (lock'[d] # "out" <=> lock[d] # "out")
  BY DEF LockInv, LockTypeOK, Enter
<1>3. \A d \in Clients : lock'[d] = "holding" => waits'[d] = {}
  BY DEF LockInv, LockTypeOK, Enter
<1>4. queue' = queue /\ waits' = waits /\ Queued' = Queued
  BY DEF Enter, Queued
<1>5. \A d \in Clients : lock'[d] # "out" <=> d \in Queued'
  BY <1>2, <1>4 DEF LockInv
<1>6. /\ \A i, j \in 1..Len(queue') : queue'[i] = queue'[j] => i = j
      /\ \A j \in 1..Len(queue') : waits'[queue'[j]] = {queue'[i] : i \in 1..(j - 1)}
  BY <1>4 DEF LockInv
<1> QED
  BY <1>1, <1>3, <1>5, <1>6 DEF LockInv

\* release() takes the holder from the front of the queue and out of every wait.
LEMMA ReleaseKeeps ==
  ASSUME LockInv, NEW c \in Clients, Release(c)
  PROVE  LockInv'
<1> DEFINE n == Len(queue)
<1>1. /\ queue \in Seq(Clients) /\ n \in Nat \ {0} /\ queue[1] = c
      /\ waits \in [Clients -> SUBSET Clients]
      /\ lock \in [Clients -> {"out", "waiting", "holding"}]
      /\ \A i \in 1..n : queue[i] \in Clients
  BY QueueTyped, FirstInQueue DEF LockInv, LockTypeOK, Release
<1>2. /\ queue' \in Seq(Clients) /\ Len(queue') = n - 1
      /\ \A i \in 1..(n - 1) : queue'[i] = queue[i + 1]
  BY WithoutFirst DEF Release
<1>3. LockTypeOK'
  BY <1>1, <1>2 DEF Release, LockTypeOK
<1>4. ASSUME NEW i \in 1..(n - 1), NEW j \in 1..(n - 1), queue'[i] = queue'[j]
      PROVE  i = j
  <2>1. i + 1 \in 1..n /\ j + 1 \in 1..n /\ queue[i + 1] = queue[j + 1]
    BY <1>1, <1>2, <1>4
  <2>2. i + 1 = j + 1
    BY <2>1 DEF LockInv
  <2> QED
    BY <1>1, <2>2
<1>5. Queued' = Queued \ {c}
  <2>1. ASSUME NEW i \in 1..n, i # 1 PROVE queue[i] # c /\ queue[i] \in Queued'
    <3>1. queue[i] # c
      BY <1>1, <2>1 DEF LockInv
    <3>2. i - 1 \in 1..(n - 1) /\ (i - 1) + 1 = i
      BY <1>1, <2>1
    <3>3. queue'[i - 1] = queue[i]
      BY <1>2, <3>2
    <3> QED
      BY <1>2, <3>1, <3>2, <3>3 DEF Queued
  <2>2. ASSUME NEW i \in 1..(n - 1) PROVE queue'[i] # c /\ queue'[i] \in Queued
    <3>1. i + 1 \in 1..n /\ i + 1 # 1
      BY <1>1
    <3> QED
      BY <1>2, <2>1, <3>1 DEF Queued
  <2>3. Queued' \subseteq Queued \ {c}
    BY <1>2, <2>2 DEF Queued
  <2>4. Queued \ {c} \subseteq Queued'
    BY <1>1, <2>1 DEF Queued
  <2> QED
    BY <2>3, <2>4
<1>6. ASSUME NEW d \in Clients PROVE lock'[d] # "out" <=> d \in Queued'
  BY <1>1, <1>5 DEF Release, LockInv
<1>7. ASSUME NEW j \in 1..(n - 1)
      PROVE  waits'[queue'[j]] = {queue'[i] : i \in 1..(j - 1)}
  <2>1. queue'[j] = queue[j + 1] /\ j + 1 \in 1..n /\ queue[j + 1] \in Clients
    BY <1>1, <1>2
  <2>2. waits'[queue[j + 1]] = waits[queue[j + 1]] \ {c}
    BY <2>1 DEF Release
  <2>3. waits[queue[j + 1]] = {queue[i] : i \in 1..j}
    BY <1>1, <2>1 DEF LockInv
  <2>4. \A i \in 1..j : queue[i] = c <=> i = 1
    BY <1>1, <2>1 DEF LockInv
  <2>5. \A i \in 1..(j - 1) : queue'[i] = queue[i + 1] /\ i + 1 \in 1..j /\ i + 1 # 1
    <3> TAKE i \in 1..(j - 1)
    <3>1. i \in 1..(n - 1) /\ i + 1 \in 1..j /\ i + 1 # 1
      BY <1>1
    <3> QED
      BY <1>2, <3>1
  <2>6. \A i \in 1..j : i # 1 => i - 1 \in 1..(j - 1) /\ queue'[i - 1] = queue[i]
    <3> TAKE i \in 1..j
    <3> HAVE i # 1
    <3>1. i - 1 \in 1..(j - 1) /\ i - 1 \in 1..(n - 1) /\ (i - 1) + 1 = i
      BY <1>1
    <3> QED
      BY <1>2, <3>1
  <2>7. {queue[i] : i \in 1..j} \ {c} = {queue'[i] : i \in 1..(j - 1)}
    <3>1. {queue[i] : i \in 1..j} \ {c} \subseteq {queue'[i] : i \in 1..(j - 1)}
      BY <2>4, <2>6
    <3>2. {queue'[i] : i \in 1..(j - 1)} \subseteq {queue[i] : i \in 1..j} \ {c}
      BY <2>4, <2>5
    <3> QED
      BY <3>1, <3>2
  <2> QED
    BY <2>1, <2>2, <2>3, <2>7
<1>8. ASSUME NEW d \in Clients, lock'[d] = "holding" PROVE waits'[d] = {}
  BY <1>1, <1>8 DEF Release, LockInv
<1> QED
  BY <1>2, <1>3, <1>4, <1>6, <1>7, <1>8 DEF LockInv

\* No step of the lock's clients breaks the invariant.
LEMMA StepLockInv == LockInv /\ [LockNext]_lockVars => LockInv'
<1> SUFFICES ASSUME LockInv, [LockNext]_lockVars PROVE LockInv'
  OBVIOUS
<1>1. CASE UNCHANGED lockVars
  BY <1>1 DEF LockInv, LockTypeOK, Queued, lockVars
<1>2. CASE LockNext
  BY <1>2, AcquireKeeps, EnterKeeps, ReleaseKeeps DEF LockNext
<1> QED
  BY <1>1, <1>2

\* The inductive invariant of the lock.
THEOREM LockInvariance == LockSpec => []LockInv
BY InitLockInv, StepLockInv, PTL DEF LockSpec

\* Two queries are never on the connection together, however many calls wait.
THEOREM Exclusive == LockSpec => []MutualExclusion
<1>1. LockInv => MutualExclusion
  <2> SUFFICES ASSUME LockInv, NEW c \in Clients, NEW d \in Clients,
                      lock[c] = "holding", lock[d] = "holding"
               PROVE  c = d
    BY DEF MutualExclusion
  <2>1. queue[1] = c
    BY FirstInQueue DEF LockInv
  <2>2. queue[1] = d
    BY FirstInQueue DEF LockInv
  <2> QED
    BY <2>1, <2>2
<1> QED
  BY <1>1, LockInvariance, PTL

\* The lock is taken in the order of the calls of acquire().
THEOREM InOrder == LockSpec => FirstComeFirstServed
<1> DEFINE Served == \A c \in Clients :
                       lock[c] = "waiting" /\ lock'[c] = "holding" => c = queue[1]
<1>1. LockInv /\ [LockNext]_lockVars => [Served]_lockVars
  <2> SUFFICES ASSUME LockInv, LockNext, NEW c \in Clients,
                      lock[c] = "waiting", lock'[c] = "holding"
               PROVE  c = queue[1]
    OBVIOUS
  <2>1. Enter(c)
    BY DEF LockNext, Acquire, Enter, Release, LockInv, LockTypeOK
  <2>2. waits[c] = {}
    BY <2>1 DEF Enter
  <2> QED
    BY <2>2, FirstInQueue
<1> QED
  BY <1>1, LockInvariance, PTL DEF LockSpec, FirstComeFirstServed

-----------------------------------------------------------------------------

Stages == {"todo", "called", "sent", "executed", "refused", "done", "failed"}
Phases == {"idle", "calling", "updating", "committing", "rollingBack",
           "rollbackSent", "releasing", "stuck", "settled"}

\* The variables that the invariant is about.
SaveTyped ==
  /\ phase \in Phases
  /\ isTransactionActive \in BOOLEAN /\ isReleased \in BOOLEAN
  /\ stage \in [Clients -> Stages]
  /\ target \in [Clients -> {"none", "transaction", "pool"}]
  /\ written \subseteq Clients /\ durable \subseteq Clients

\* Until a commit or rollback is tried, the transaction is open and known to be.
InTransaction == tx = "open" /\ isTransactionActive

\* An update that has been executed is held where it was sent.
Held(c) ==
  stage[c] \in {"executed", "done"} =>
    /\ target[c] # "none"
    /\ target[c] = "pool" => c \in durable
    /\ target[c] = "transaction" /\ tx = "open" => c \in written

DurableInv ==
  /\ SaveTyped
  /\ phase = "idle" => \A c \in Clients : stage[c] = "todo"
  /\ phase \in {"calling", "updating", "committing"} => InTransaction
  /\ phase = "committing" => \A c \in Clients : stage[c] = "done"
  /\ \A c \in Clients : stage[c] = "sent" => target[c] # "none"
  /\ \A c \in Clients : Held(c)
  /\ ResolvedIsDurable

-----------------------------------------------------------------------------

(***************************************************************************)
(* The save as a client of QueryLock.                                      *)
(***************************************************************************)
\* Every step of a save moves the lock as one of its clients does, or not at all.
LEMMA StepMovesTheLock == [Next]_vars => [LockNext]_lockVars
<1> SUFFICES ASSUME [Next]_vars PROVE [LockNext]_lockVars
  OBVIOUS
<1>1. CASE UNCHANGED vars
  BY <1>1 DEF vars, lockVars
<1>2. CASE Finished
  BY <1>2 DEF Finished, vars, lockVars
<1>3. CASE Executor
  BY <1>3 DEF Executor, StartTransaction, CalledAll, UpdatesResolve, UpdatesReject,
              CommitTransaction, CommitFails, RollbackTransaction, RollbackDone, ReleaseRunner
<1>4. ASSUME NEW c \in Clients, OneQuery(c)
      PROVE  LockNext \/ UNCHANGED lockVars
  <2>1. CASE CallAtOnce(c) \/ CallNext(c)
    BY <2>1 DEF CallAtOnce, CallNext, Query, LockNext
  <2>2. CASE GetLock(c) \/ QuerySettles(c)
    BY <2>2 DEF GetLock, QuerySettles, LockNext
  <2>3. CASE BeforeQueryThrows(c) \/ Send(c) \/ StatementExecutes(c) \/ StatementFails(c)
    BY <2>3 DEF BeforeQueryThrows, Send, StatementExecutes, StatementFails
  <2> QED
    BY <1>4, <2>1, <2>2, <2>3 DEF OneQuery
<1> QED
  BY <1>1, <1>2, <1>3, <1>4 DEF Next

\* The queries of a save use the connection as QueryLock specifies.
THEOREM MovesTheLock == Spec => LockSpec
<1>1. Init => LockInit
  BY DEF Init
<1> QED
  BY <1>1, StepMovesTheLock, PTL DEF Spec, LockSpec

\* In a save a waiting query waits exactly for those queued before it.
THEOREM SaveLockInvariance == Spec => []LockInv
BY MovesTheLock, LockInvariance, PTL

\* In a save two queries are never on the connection together.
THEOREM SaveExclusive == Spec => []MutualExclusion
BY MovesTheLock, Exclusive, PTL

\* In a save the connection goes to the query that has waited longest.
THEOREM SaveInOrder == Spec => FirstComeFirstServed
BY MovesTheLock, InOrder, PTL

-----------------------------------------------------------------------------

(***************************************************************************)
(* A save that resolves is durable.                                        *)
(***************************************************************************)
LEMMA InitDurable == Init => DurableInv
BY DEF Init, DurableInv, SaveTyped, Phases, Stages, Held, ResolvedIsDurable

LEMMA StartKeepsDurable ==
  ASSUME DurableInv, StartTransaction PROVE DurableInv'
BY DEF DurableInv, SaveTyped, Phases, Stages, Held, ResolvedIsDurable, InTransaction,
       StartTransaction, queryVars

\* The executor goes on to commit when all have been updated, and then only.
LEMMA UpdatesKeepDurable ==
  ASSUME DurableInv, CalledAll \/ UpdatesResolve \/ UpdatesReject \/ CommitFails
  PROVE  DurableInv'
BY DEF DurableInv, SaveTyped, Phases, Stages, Held, ResolvedIsDurable, InTransaction,
       CalledAll, UpdatesResolve, UpdatesReject, CommitFails, queryVars

\* What the transaction holds and what the pool has executed are all the updates.
LEMMA CommitKeepsDurable ==
  ASSUME DurableInv, CommitTransaction PROVE DurableInv'
<1>1. durable \cup written = Clients
  BY DEF DurableInv, SaveTyped, Held, InTransaction, CommitTransaction
<1>2. tx' = "over" /\ durable' = Clients /\ written' = {}
  BY <1>1 DEF CommitTransaction
<1>3. SaveTyped' /\ phase' \in {"releasing", "stuck"}
  BY <1>2 DEF DurableInv, SaveTyped, Phases, CommitTransaction
<1>4. \A c \in Clients : Held(c)'
  BY <1>2 DEF DurableInv, Held, CommitTransaction
<1> QED
  BY <1>2, <1>3, <1>4 DEF DurableInv, ResolvedIsDurable, CommitTransaction

LEMMA RollbackKeepsDurable ==
  ASSUME DurableInv, RollbackTransaction \/ RollbackDone \/ ReleaseRunner
  PROVE  DurableInv'
BY DEF DurableInv, SaveTyped, Phases, Stages, Held, ResolvedIsDurable, InTransaction,
       RollbackTransaction, RollbackDone, ReleaseRunner, queryVars

\* A query called, given the lock, or settled changes nothing that is held.
LEMMA QueryKeepsDurable ==
  ASSUME DurableInv, NEW c \in Clients,
         CallAtOnce(c) \/ CallNext(c) \/ GetLock(c) \/ BeforeQueryThrows(c) \/ QuerySettles(c)
  PROVE  DurableInv'
BY DEF DurableInv, SaveTyped, Phases, Stages, Held, ResolvedIsDurable, InTransaction,
       CallAtOnce, CallNext, Query, GetLock, BeforeQueryThrows, QuerySettles,
       saveVars, queryVars

LEMMA StatementKeepsDurable ==
  ASSUME DurableInv, NEW c \in Clients,
         Send(c) \/ StatementExecutes(c) \/ StatementFails(c)
  PROVE  DurableInv'
BY DEF DurableInv, SaveTyped, Phases, Stages, Held, ResolvedIsDurable, InTransaction,
       Send, StatementExecutes, StatementFails, saveVars

LEMMA StepDurable == DurableInv /\ [Next]_vars => DurableInv'
<1> SUFFICES ASSUME DurableInv, [Next]_vars PROVE DurableInv'
  OBVIOUS
<1>1. CASE UNCHANGED vars \/ Finished
  BY <1>1 DEF Finished, vars, saveVars, queryVars, DurableInv, SaveTyped, Held,
              ResolvedIsDurable, InTransaction
<1>2. CASE Executor
  BY <1>2, StartKeepsDurable, UpdatesKeepDurable, CommitKeepsDurable, RollbackKeepsDurable
     DEF Executor
<1>3. ASSUME NEW c \in Clients, OneQuery(c) PROVE DurableInv'
  BY <1>3, QueryKeepsDurable, StatementKeepsDurable DEF OneQuery
<1> QED
  BY <1>1, <1>2, <1>3 DEF Next

\* Where each update is held agrees with how far the save has come.
THEOREM DurableInvariance == Spec => []DurableInv
BY InitDurable, StepDurable, PTL DEF Spec

\* A save that resolves has made every update durable, whichever failed attempts of
\* the executor went on in the background.
THEOREM AlwaysResolvedIsDurable == Spec => []ResolvedIsDurable
BY DurableInvariance, PTL DEF DurableInv

-----------------------------------------------------------------------------

(***************************************************************************)
(* A save whose updates follow one another.                                *)
(***************************************************************************)
UnderWay == {c \in Clients : stage[c] \notin {"todo", "done"}}

\* Nobody will call a query any more: one has failed, all are done, or none was called.
Quiet ==
  /\ \A c \in UnderWay : stage[c] = "failed"
  /\ \/ UnderWay # {}
     \/ \A c \in Clients : stage[c] = "done"
     \/ \A c \in Clients : stage[c] = "todo"

\* One update at a time is under way, in the transaction, and none once the executor
\* has gone on; then nothing is durable but by the commit that resolves the save.
SequentialInv ==
  /\ DurableInv
  /\ Sequential =>
       /\ \A c, d \in UnderWay : c = d
       /\ phase \notin {"idle", "calling", "updating"} => Quiet
       /\ phase \in {"calling"} => UnderWay = {}
       /\ \A c \in Clients : target[c] # "pool"
       /\ phase \notin {"releasing", "settled", "stuck"} => outcome = "pending" /\ durable = {}
       /\ phase = "stuck" => outcome = "pending"
       /\ outcome = "rejected" => durable = {}
       /\ isReleased => phase = "settled"

LEMMA InitSequential == Init => SequentialInv
<1> SUFFICES ASSUME Init PROVE SequentialInv
  OBVIOUS
<1>1. UnderWay = {}
  BY DEF Init, UnderWay
<1> QED
  BY <1>1, InitDurable DEF Init, SequentialInv

\* The steps of the executor leave the updates alone.
LEMMA ExecutorKeepsSequential ==
  ASSUME SequentialInv, DurableInv', Executor
  PROVE  SequentialInv'
<1> SUFFICES ASSUME Sequential PROVE SequentialInv'
  BY DEF SequentialInv, Sequential, OneByOne, Executor
<1>1. stage' = stage /\ target' = target /\ UnderWay' = UnderWay
  BY DEF Executor, StartTransaction, CalledAll, UpdatesResolve, UpdatesReject, CommitTransaction,
         CommitFails, RollbackTransaction, RollbackDone, ReleaseRunner, queryVars, UnderWay
<1>2. Quiet' <=> Quiet
  BY <1>1 DEF Quiet
<1>3. CASE StartTransaction
  <2>1. Quiet /\ UnderWay = {}
    BY <1>3 DEF StartTransaction, SequentialInv, DurableInv, Quiet, UnderWay
  <2> QED
    BY <1>1, <1>2, <1>3, <2>1 DEF StartTransaction, SequentialInv, queryVars, DurableInv, SaveTyped, Phases
<1>4. CASE CalledAll
  BY <1>1, <1>2, <1>4 DEF CalledAll, SequentialInv, queryVars
<1>5. CASE UpdatesResolve \/ UpdatesReject
  <2>1. Quiet
    BY <1>5 DEF UpdatesResolve, UpdatesReject, SequentialInv, Quiet, UnderWay
  <2> QED
    BY <1>1, <1>2, <1>5, <2>1 DEF UpdatesResolve, UpdatesReject, SequentialInv, queryVars
<1>6. CASE CommitTransaction \/ CommitFails
  BY <1>1, <1>2, <1>6 DEF CommitTransaction, CommitFails, SequentialInv, queryVars
<1>7. CASE RollbackTransaction
  BY <1>1, <1>2, <1>7 DEF RollbackTransaction, SequentialInv
<1>8. CASE RollbackDone
  BY <1>1, <1>2, <1>8 DEF RollbackDone, SequentialInv, queryVars
<1>9. CASE ReleaseRunner
  BY <1>1, <1>2, <1>9 DEF ReleaseRunner, SequentialInv, queryVars
<1> QED
  BY <1>3, <1>4, <1>5, <1>6, <1>7, <1>8, <1>9 DEF Executor

\* The next update is called when no other is under way, and while the executor
\* still waits for them.
LEMMA CallKeepsSequential ==
  ASSUME SequentialInv, DurableInv', NEW c \in Clients, CallAtOnce(c) \/ CallNext(c),
         Sequential, UNCHANGED workload
  PROVE  SequentialInv'
<1>1. CallNext(c) /\ UnderWay = {}
  BY DEF CallAtOnce, CallNext, Sequential, UnderWay
<1>2. phase = "updating"
  <2> SUFFICES ASSUME phase # "updating" PROVE FALSE
    OBVIOUS
  <2>1. phase # "idle"
    BY <1>1 DEF CallNext, SequentialInv, DurableInv
  <2>2. Quiet
    BY <1>1, <2>1 DEF CallNext, EventLoopFree, SequentialInv
  <2> QED
    BY <1>1, <2>2 DEF Quiet, CallNext, Query, EventLoopFree
<1>3. ~isReleased
  BY <1>2 DEF SequentialInv
<1>4. stage' = [stage EXCEPT ![c] = "called"] /\ UnderWay' = {c}
  BY <1>1, <1>3 DEF CallNext, Query, UnderWay, SequentialInv, DurableInv, SaveTyped
<1> QED
  BY <1>1, <1>2, <1>4 DEF CallNext, Query, SequentialInv, saveVars

\* An update under way is the only one, in a phase that waits for it.
LEMMA QueryKeepsSequential ==
  ASSUME SequentialInv, DurableInv', Sequential, UNCHANGED workload, NEW c \in Clients,
         GetLock(c) \/ BeforeQueryThrows(c) \/ Send(c) \/ StatementExecutes(c)
           \/ StatementFails(c) \/ QuerySettles(c)
  PROVE  SequentialInv'
<1>1. CASE GetLock(c)
  BY <1>1 DEF GetLock, SequentialInv, UnderWay, Quiet, saveVars, queryVars
<1>2. CASE ~GetLock(c)
  <2>1. UnderWay = {c} /\ stage[c] # "failed"
    BY <1>2 DEF BeforeQueryThrows, Send, StatementExecutes, StatementFails, QuerySettles,
                SequentialInv, UnderWay
  <2>2. phase = "updating"
    <3>1. ~Quiet
      BY <2>1 DEF Quiet
    <3> QED
      BY <2>1, <3>1 DEF SequentialInv, DurableInv, UnderWay
  <2>3. UnderWay' \subseteq {c}
    BY <1>2, <2>1 DEF BeforeQueryThrows, Send, StatementExecutes, StatementFails, QuerySettles,
                      SequentialInv, DurableInv, SaveTyped, UnderWay
  <2>4. phase' = phase /\ outcome' = outcome /\ isReleased' = isReleased
    BY <1>2 DEF BeforeQueryThrows, Send, StatementExecutes, StatementFails, QuerySettles, saveVars
  <2>5. (\A d \in Clients : target[d] # "pool")' /\ durable' = durable
    BY <1>2, <2>2 DEF BeforeQueryThrows, Send, StatementExecutes, StatementFails, QuerySettles,
                      SequentialInv, DurableInv, SaveTyped, InTransaction
  <2> QED
    BY <2>2, <2>3, <2>4, <2>5 DEF SequentialInv
<1> QED
  BY <1>1, <1>2

LEMMA StepSequential == SequentialInv /\ [Next]_vars => SequentialInv'
<1> SUFFICES ASSUME SequentialInv, [Next]_vars PROVE SequentialInv'
  OBVIOUS
<1>1. DurableInv'
  BY StepDurable DEF SequentialInv
<1>2. CASE UNCHANGED vars \/ Finished
  <2>1. UNCHANGED vars
    BY <1>2 DEF Finished
  <2> QED
    BY <1>1, <2>1 DEF vars, saveVars, queryVars, SequentialInv, UnderWay, Quiet, Sequential, OneByOne
<1>3. CASE Executor
  BY <1>1, <1>3, ExecutorKeepsSequential
<1>4. ASSUME NEW c \in Clients, OneQuery(c) PROVE SequentialInv'
  <2>1. workload' = workload /\ (Sequential' <=> Sequential)
    BY <1>4 DEF OneQuery, Sequential, OneByOne
  <2>2. CASE ~Sequential
    BY <1>1, <2>1, <2>2 DEF SequentialInv
  <2>3. CASE Sequential
    BY <1>1, <1>4, <2>1, <2>3, CallKeepsSequential, QueryKeepsSequential DEF OneQuery
  <2> QED
    BY <2>2, <2>3
<1> QED
  BY <1>2, <1>3, <1>4 DEF Next

\* Of updates that follow one another one at a time is under way, in the transaction.
THEOREM SequentialInvariance == Spec => []SequentialInv
BY InitSequential, StepSequential, PTL DEF Spec

\* When every update is awaited before the next is called, a save is atomic whatever
\* fails: what it tells its caller is what other sessions see.
THEOREM AlwaysSequentialSaveIsAtomic == Spec => []SequentialSaveIsAtomic
<1>1. SequentialInv => SequentialSaveIsAtomic
  BY DEF SequentialInv, DurableInv, ResolvedIsDurable, SequentialSaveIsAtomic, SaveIsAtomic
<1> QED
  BY <1>1, SequentialInvariance, PTL

\* ... and no query of it reaches the server over a runner that has been released.
THEOREM AlwaysSilentOnceReleased == Spec => SilentOnceReleased
<1> DEFINE Silent == Sequential /\ isReleased =>
                       \A c \in Clients : stage'[c] = "sent" => stage[c] = "sent"
<1>1. SequentialInv /\ [Next]_vars => [Silent]_vars
  <2> SUFFICES ASSUME SequentialInv, Next, Sequential, isReleased, NEW c \in Clients,
                      stage'[c] = "sent"
               PROVE  stage[c] = "sent"
    OBVIOUS
  <2>1. \A d \in Clients : stage[d] # "called"
    BY DEF SequentialInv, Quiet, UnderWay
  <2>2. CASE Executor \/ Finished
    BY <2>2 DEF Executor, StartTransaction, CalledAll, UpdatesResolve, UpdatesReject, CommitTransaction,
                CommitFails, RollbackTransaction, RollbackDone, ReleaseRunner, Finished, vars, queryVars
  <2>3. ASSUME NEW d \in Clients, OneQuery(d) PROVE stage[c] = "sent"
    BY <2>1, <2>3 DEF OneQuery, CallAtOnce, CallNext, Query, GetLock, BeforeQueryThrows, Send,
                      StatementExecutes, StatementFails, QuerySettles, queryVars,
                      SequentialInv, DurableInv, SaveTyped
  <2> QED
    BY <2>2, <2>3 DEF Next
<1> QED
  BY <1>1, SequentialInvariance, PTL DEF Spec, SilentOnceReleased
===============================================================================
