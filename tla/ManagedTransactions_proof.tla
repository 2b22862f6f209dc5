----------------------- MODULE ManagedTransactions_proof -----------------------
(***************************************************************************)
(* Proofs about ManagedTransactions, for every set of writes, every bound  *)
(* on the nesting and every choice of dialects: when no fault occurs but   *)
(* those of SafeFaults, the calls keep the promise of NestedTransactions.  *)
(***************************************************************************)
EXTENDS ManagedTransactions, SequenceTheorems, TLAPS

-----------------------------------------------------------------------------
(* Stacks: what pushing, replacing the top and popping do to a sequence.   *)

\* Calling transaction() pushes a frame: the others stay where they are.
LEMMA Pushed ==
  ASSUME NEW S, NEW s \in Seq(S), NEW e \in S
  PROVE  /\ Append(s, e) \in Seq(S)
         /\ Len(Append(s, e)) = Len(s) + 1
         /\ DOMAIN Append(s, e) = 1..(Len(s) + 1)
         /\ Append(s, e) # <<>>
         /\ Append(s, e)[Len(s) + 1] = e
         /\ \A i \in 1..Len(s) : Append(s, e)[i] = s[i]
BY AppendProperties, LenProperties

\* Changing the innermost call's frame leaves those below it alone.
LEMMA Replaced ==
  ASSUME NEW S, NEW s \in Seq(S), s # <<>>, NEW e \in S,
         NEW t, t = [s EXCEPT ![Len(s)] = e]
  PROVE  /\ t \in Seq(S)
         /\ Len(t) = Len(s)
         /\ t # <<>>
         /\ t[Len(s)] = e
         /\ \A i \in 1..(Len(s) - 1) : t[i] = s[i]
<1>1. Len(s) \in Nat \ {0}
  BY EmptySeq
<1>2. Len(s) \in 1..Len(s)
  BY <1>1
<1>3. /\ t \in Seq(S)
      /\ Len(t) = Len(s)
      /\ \A j \in 1..Len(s) : t[j] = IF j = Len(s) THEN e ELSE s[j]
  BY <1>2, ExceptSeq
<1>4. t # <<>>
  BY <1>1, <1>3
<1>5. t[Len(s)] = e
  BY <1>2, <1>3
<1>6. ASSUME NEW i \in 1..(Len(s) - 1) PROVE t[i] = s[i]
  <2>1. i \in 1..Len(s) /\ i # Len(s)
    BY <1>1
  <2> QED
    BY <2>1, <1>3
<1> QED
  BY <1>3, <1>4, <1>5, <1>6

\* Popping frames or savepoints keeps those below.
LEMMA Prefix ==
  ASSUME NEW S, NEW s \in Seq(S), NEW n \in 0..Len(s)
  PROVE  /\ SubSeq(s, 1, n) \in Seq(S)
         /\ Len(SubSeq(s, 1, n)) = n
         /\ DOMAIN SubSeq(s, 1, n) = 1..n
         /\ SubSeq(s, 1, n) = <<>> <=> n = 0
         /\ \A i \in 1..n : SubSeq(s, 1, n)[i] = s[i]
<1>1. Len(s) \in Nat /\ n \in Nat
  BY LenProperties
<1>2. \A i \in 1..n : s[i] \in S
  BY <1>1, ElementOfSeq
<1>3. /\ SubSeq(s, 1, n) \in Seq(S)
      /\ Len(SubSeq(s, 1, n)) = n
      /\ \A i \in 1..n : SubSeq(s, 1, n)[i] = s[i]
  BY <1>1, <1>2, SubSeqProperties, Z3
<1>4. DOMAIN SubSeq(s, 1, n) = 1..n
  BY <1>3, LenProperties
<1>5. SubSeq(s, 1, n) = <<>> <=> n = 0
  BY <1>1, <1>3, EmptySeq
<1> QED
  BY <1>3, <1>4, <1>5

-----------------------------------------------------------------------------
(* What the faults, the invariant and the savepoints allow a step to do.   *)

\* Under SafeFaults rollbackTransaction never fails and a commit's statement,
\* once it went through, is not followed by a failing subscriber.
LEMMA AllowedFaults ==
  ASSUME SafeFaults, NEW nested \in BOOLEAN
  PROVE  /\ ~Fault("beforeRollback", nested)
         /\ ~Fault("rollbackQuery", nested)
         /\ ~Fault("afterCommit", nested)
         /\ Fault("refused", nested) => ~nested
         /\ Fault("beforeStart", nested) => ~nested
         /\ Fault("startQuery", nested) => ~nested
BY DEF SafeFaults, Fault

\* The calls under way and the savepoints are sequences of the right things.
LEMMA TypedStacks ==
  ASSUME TypeOK
  PROVE  /\ frames \in Seq(Frame) /\ Len(frames) \in Nat
         /\ frames = <<>> <=> Len(frames) = 0
         /\ frames # <<>> => /\ Len(frames) \in 1..Len(frames)
                             /\ Top \in Frame
         /\ saves \in Seq(SavedState) /\ Len(saves) \in Nat
         /\ DOMAIN saves = 1..Len(saves)
<1>1. frames \in Seq(Frame) /\ saves \in Seq(SavedState)
  BY DEF TypeOK, SessionTypeOK
<1>2. /\ Len(frames) \in Nat
      /\ frames = <<>> <=> Len(frames) = 0
      /\ Len(saves) \in Nat /\ DOMAIN saves = 1..Len(saves)
  BY <1>1, EmptySeq, LenProperties
<1>3. ASSUME frames # <<>>
      PROVE  Len(frames) \in 1..Len(frames) /\ Top \in Frame
  <2>1. Len(frames) \in 1..Len(frames)
    BY <1>2, <1>3
  <2> QED
    BY <1>1, <2>1, ElementOfSeq DEF Top
<1> QED
  BY <1>1, <1>2, <1>3

\* A running call is in its transaction, and the session takes its statements.
LEMMA RunningInProgress ==
  ASSUME IInv, Running
  PROVE  InProgress /\ ~aborted
<1>1. Top.status = "running" /\ frames # <<>>
  BY DEF Running
<1> QED
  BY <1>1 DEF IInv, InProgress, NeverBegan, CommitRefused, Idle, Failed

\* The invariant is about the state alone: a step that changes nothing, as
\* that of a callback that catches an error, keeps it.
LEMMA UnchangedKeeps ==
  ASSUME IInv, UNCHANGED vars
  PROVE  IInv'
<1>1. /\ UNCHANGED <<dialect, runnerKept, frames, isReleased>>
      /\ UNCHANGED <<durable, open, aborted, work, saves>>
      /\ UNCHANGED <<isTransactionActive, transactionDepth>>
  BY DEF vars, session, runner
<1>2. TypeOK'
  BY <1>1 DEF IInv, TypeOK, SessionTypeOK, RunnerTypeOK
<1>3. (dialect = "sqlite" => runnerKept)' /\ (isReleased => frames = <<>> /\ ~runnerKept)'
  BY <1>1, Zenon DEF IInv
<1>4. (~open => ~aborted /\ work = {} /\ saves = <<>>)'
  BY <1>1 DEF IInv
<1>5. (\A k \in 1..(Len(frames) - 1) : frames[k].status = "running")'
  BY <1>1 DEF IInv
<1>6. (InProgress \/ NeverBegan \/ CommitRefused \/ Idle)'
  BY <1>1 DEF IInv, InProgress, NeverBegan, CommitRefused, Idle, Top, Failed, Boundary
<1> QED
  BY <1>2, <1>3, <1>4, <1>5, <1>6 DEF IInv

\* RELEASE and ROLLBACK TO find the savepoint at the boundary of the call.
LEMMA NewestIsBoundary ==
  ASSUME TypeOK, NEW k \in Int, NEW i \in DOMAIN saves, Boundary(k, i)
  PROVE  Named(k) # {} /\ Newest(k) = i
<1>1. DOMAIN saves = 1..Len(saves) /\ Len(saves) \in Nat
  BY TypedStacks
<1>2. ASSUME NEW j \in DOMAIN saves PROVE saves[j].name \in Int
  <2>1. saves[j] \in SavedState
    BY <1>1, TypedStacks, ElementOfSeq
  <2> QED
    BY <2>1 DEF SavedState
<1>3. i \in Named(k)
  BY DEF Named, Boundary
<1>4. \A j \in Named(k) : j <= i
  BY <1>1, <1>2 DEF Named, Boundary
<1>5. \A x \in Named(k) : (\A j \in Named(k) : j <= x) => x = i
  BY <1>1, <1>3, <1>4 DEF Named
<1> QED
  BY <1>3, <1>4, <1>5 DEF Newest

-----------------------------------------------------------------------------
(* Every action preserves the invariant.                                   *)

\* startTransaction of an outermost call, resolved or rejected, keeps the
\* invariant: rejected, the call waits for its rollback in NeverBegan.
LEMMA StartOutermostKeeps ==
  ASSUME SafeFaults, IInv, dialect' = dialect, runnerKept' = runnerKept, frames = <<>>,
         NEW ok \in BOOLEAN, TransactionStarts(ok)
  PROVE  IInv'
<1> USE ManagedAssumption
<1>0. TypeOK
  BY DEF IInv
<1>1. /\ open = FALSE /\ aborted = FALSE /\ work = {} /\ saves = <<>>
      /\ transactionDepth <= 0 /\ transactionDepth > -MaxFailedStarts
      /\ transactionDepth < 0 => dialect # "sqlite"
  <2>1. Idle
    BY DEF IInv, InProgress, NeverBegan, CommitRefused, Failed
  <2> QED
    BY <1>0, <2>1 DEF IInv, Idle, TypeOK, SessionTypeOK, TransactionStarts
<1>2. /\ Len(frames') = 1 /\ frames' \in Seq(Frame)
      /\ frames'[1] = [status |-> IF ok THEN "running" ELSE "failed", work |-> {}]
      /\ frames' # <<>>
  <2>1. frames' = <<[status |-> IF ok THEN "running" ELSE "failed", work |-> {}]>>
    BY DEF TransactionStarts
  <2> QED
    BY <2>1 DEF Frame
<1>3. isReleased' = FALSE /\ 1 <= MaxDepth
  BY <1>0, TypedStacks DEF TransactionStarts
<1>4. CASE /\ ~ok
           /\ isTransactionActive' \in {isTransactionActive, FALSE}
           /\ UNCHANGED <<transactionDepth, session>>
  <2>1. TypeOK'
    BY <1>0, <1>1, <1>2, <1>3, <1>4 DEF TypeOK, SessionTypeOK, RunnerTypeOK, session
  <2>2. NeverBegan'
    BY <1>1, <1>2, <1>4 DEF NeverBegan, Failed, Top, session
  <2> QED
    BY <1>1, <1>2, <1>3, <1>4, <2>1, <2>2 DEF IInv, session
<1>5. CASE ~ok /\ StartQueryFails /\ isTransactionActive' = TRUE /\ UNCHANGED transactionDepth
  <2>1. Error \/ IsolationQueryFails
    BY <1>5 DEF StartQueryFails
  <2>2. /\ UNCHANGED <<durable, work, saves>>
        /\ open' \in BOOLEAN /\ aborted' \in BOOLEAN
        /\ open' => dialect' = "postgres"
        /\ ~open' => ~aborted'
    <3>1. CASE Error
      <4>1. aborted' = FALSE /\ open' = FALSE
        BY <1>1, <3>1 DEF Error
      <4> QED
        BY <3>1, <4>1 DEF Error
    <3>2. CASE IsolationQueryFails
      BY <3>2 DEF IsolationQueryFails
    <3> QED
      BY <2>1, <3>1, <3>2
  <2>3. TypeOK'
    BY <1>0, <1>1, <1>2, <1>3, <1>5, <2>2 DEF TypeOK, SessionTypeOK, RunnerTypeOK
  <2>4. NeverBegan'
    BY <1>1, <1>2, <1>5, <2>1, <2>2 DEF NeverBegan, Failed, Top
  <2> QED
    BY <1>1, <1>2, <1>3, <2>2, <2>3, <2>4 DEF IInv
<1>6. CASE StartQuerySucceeds /\ isTransactionActive' = TRUE
           /\ transactionDepth' = transactionDepth + 1
  <2>0. transactionDepth = 0
    BY <1>0, <1>1, <1>6 DEF StartQuerySucceeds, AcceptsSavepoint, TypeOK, RunnerTypeOK
  <2>1. durable' = durable /\ open' = TRUE /\ work' = {} /\ saves' = <<>> /\ aborted' = FALSE
    BY <1>0, <1>1, <1>6, <2>0 DEF StartQuerySucceeds, Begin, TypeOK, SessionTypeOK
  <2>2. TypeOK'
    <3>1. SessionTypeOK'
      <4>1. saves' \in Seq(SavedState)
        BY <2>1, EmptySeq
      <4> QED
        BY <1>0, <2>1, <4>1 DEF TypeOK, SessionTypeOK
    <3>2. RunnerTypeOK' /\ transactionDepth' \in -MaxFailedStarts..MaxDepth
      BY <1>3, <1>6, <2>0 DEF RunnerTypeOK
    <3> QED
      BY <1>0, <1>2, <1>3, <3>1, <3>2 DEF TypeOK
  <2>3. InProgress'
    BY <1>1, <1>2, <1>6, <2>0, <2>1 DEF InProgress, Top
  <2> QED
    BY <1>2, <1>3, <2>1, <2>2, <2>3 DEF IInv
<1> QED
  BY <1>1, <1>4, <1>5, <1>6 DEF TransactionStarts, startTransaction, runner

\* startTransaction of a nested call sets the savepoint that will be the
\* boundary of the call it is nested in.
LEMMA StartNestedKeeps ==
  ASSUME SafeFaults, IInv, dialect' = dialect, runnerKept' = runnerKept, frames # <<>>,
         NEW ok \in BOOLEAN, TransactionStarts(ok)
  PROVE  IInv'
<1> DEFINE d == Len(frames)
           e == [status |-> IF ok THEN "running" ELSE "failed", work |-> Top.work]
<1>0. TypeOK /\ Running
  BY DEF IInv, TransactionStarts
<1>1. InProgress /\ aborted = FALSE
  BY <1>0, RunningInProgress DEF TypeOK, SessionTypeOK
<1>2. /\ frames \in Seq(Frame) /\ d \in Nat \ {0} /\ Top \in Frame /\ d < MaxDepth
      /\ saves \in Seq(SavedState) /\ Len(saves) \in Nat /\ DOMAIN saves = 1..Len(saves)
      /\ transactionDepth = d /\ open = TRUE /\ work = Top.work
  BY <1>0, <1>1, TypedStacks DEF InProgress, TransactionStarts, TypeOK, SessionTypeOK
<1>3. /\ StartQuerySucceeds
      /\ isTransactionActive' = TRUE
      /\ transactionDepth' = transactionDepth + 1
  <2>1. ~Fault("refused", TRUE) /\ ~Fault("beforeStart", TRUE) /\ ~Fault("startQuery", TRUE)
    BY AllowedFaults
  <2>2. transactionDepth > 0 /\ transactionDepth # 0 /\ AcceptsSavepoint(transactionDepth)
    BY <1>1, <1>2 DEF AcceptsSavepoint
  <2>3. ~StartQueryFails
    BY <2>1, <2>2 DEF StartQueryFails
  <2> QED
    BY <2>1, <2>2, <2>3 DEF TransactionStarts, startTransaction
<1>4. /\ saves' = Append(saves, [name |-> d, work |-> work])
      /\ UNCHANGED <<durable, open, aborted, work>>
  BY <1>2, <1>3 DEF StartQuerySucceeds, Savepoint
<1>5. frames' = Append(frames, e) /\ isReleased' = FALSE
  BY DEF TransactionStarts
<1>6. /\ frames' \in Seq(Frame) /\ Len(frames') = d + 1 /\ frames' # <<>>
      /\ frames'[d + 1] = e
      /\ \A i \in 1..d : frames'[i] = frames[i]
  <2>1. e \in Frame
    BY <1>2 DEF Frame
  <2> QED
    BY <1>2, <1>5, <2>1, Pushed
<1>7. /\ saves' \in Seq(SavedState) /\ DOMAIN saves' = 1..(Len(saves) + 1)
      /\ saves'[Len(saves) + 1] = [name |-> d, work |-> work]
      /\ \A i \in 1..Len(saves) : saves'[i] = saves[i]
  <2>1. [name |-> d, work |-> work] \in SavedState
    BY <1>0, <1>2 DEF SavedState, TypeOK, SessionTypeOK
  <2> QED
    BY <1>2, <1>4, <2>1, Pushed
<1>8. TypeOK'
  <2>1. SessionTypeOK'
    BY <1>0, <1>4, <1>7 DEF TypeOK, SessionTypeOK
  <2>2. RunnerTypeOK' /\ transactionDepth' \in -MaxFailedStarts..MaxDepth
    BY <1>2, <1>3, ManagedAssumption DEF RunnerTypeOK
  <2> QED
    BY <1>0, <1>5, <1>6, <2>1, <2>2 DEF TypeOK
<1>9. \A k \in 1..d : frames'[k].status = "running"
  BY <1>0, <1>2, <1>6 DEF IInv, Running, Top
<1>10. ASSUME NEW k \in 1..d
       PROVE  \E i \in DOMAIN saves' : Boundary(k, i)'
  <2>1. CASE k = d
    <3>1. PICK m \in Nat : m = Len(saves) + 1
      BY <1>2
    <3>2. m \in DOMAIN saves' /\ saves'[m].name = k /\ saves'[m].work = frames'[k].work
      BY <1>2, <1>6, <1>7, <2>1, <3>1 DEF Top
    <3>3. \A j \in DOMAIN saves' : ~(j > m)
      BY <1>2, <1>7, <3>1
    <3> QED
      BY <3>2, <3>3 DEF Boundary
  <2>2. CASE k # d
    <3>1. PICK i \in DOMAIN saves : Boundary(k, i)
      BY <1>1, <1>2, <2>2 DEF InProgress
    <3>2. i \in DOMAIN saves' /\ saves'[i].name = k /\ saves'[i].work = frames'[k].work
      BY <1>2, <1>6, <1>7, <3>1 DEF Boundary
    <3>3. ASSUME NEW j \in DOMAIN saves', j > i
          PROVE  saves'[j].name > k
      <4>1. CASE j \in DOMAIN saves
        BY <1>2, <1>7, <3>1, <3>3, <4>1 DEF Boundary
      <4>2. CASE j = Len(saves) + 1
        BY <1>2, <1>7, <2>2, <4>2
      <4> QED
        BY <1>2, <1>7, <4>1, <4>2
    <3> QED
      BY <3>2, <3>3 DEF Boundary
  <2> QED
    BY <2>1, <2>2
<1>11. InProgress'
  BY <1>1, <1>2, <1>3, <1>4, <1>6, <1>10 DEF InProgress, Top
<1> QED
  BY <1>2, <1>4, <1>5, <1>6, <1>8, <1>9, <1>11 DEF IInv

\* A step of the running call that stays in its transaction.
LEMMA SetTopKeeps ==
  ASSUME IInv, Running, dialect' = dialect, runnerKept' = runnerKept,
         NEW status \in {"running", "failed"}, NEW written \in SUBSET Writes,
         SetTop(status, written),
         durable' \in SUBSET Writes, open' = open, work' = written, saves' = saves,
         aborted' \in BOOLEAN, aborted' => status = "failed",
         UNCHANGED <<runner, isReleased>>
  PROVE  IInv'
<1> DEFINE d == Len(frames)
           e == [status |-> status, work |-> written]
<1>1. TypeOK /\ InProgress
  BY RunningInProgress DEF IInv
<1>2. /\ frames \in Seq(Frame) /\ frames # <<>> /\ d \in Nat \ {0}
      /\ open = TRUE
  BY <1>1, TypedStacks DEF InProgress, TypeOK, SessionTypeOK
<1>3. /\ frames' \in Seq(Frame) /\ Len(frames') = d /\ frames' # <<>>
      /\ frames'[d] = e
      /\ \A i \in 1..(d - 1) : frames'[i] = frames[i]
  <2>1. e \in Frame
    BY DEF Frame
  <2>2. frames' = [frames EXCEPT ![d] = e]
    BY DEF SetTop
  <2> QED
    BY <1>2, <2>1, <2>2, Replaced
<1>4. TypeOK'
  <2>1. SessionTypeOK'
    BY <1>1, <1>2 DEF TypeOK, SessionTypeOK
  <2>2. RunnerTypeOK' /\ transactionDepth' \in -MaxFailedStarts..MaxDepth
    BY <1>1 DEF TypeOK, RunnerTypeOK, runner
  <2> QED
    BY <1>1, <1>3, <2>1, <2>2 DEF TypeOK
<1>5. ASSUME NEW k \in 1..(d - 1)
      PROVE  \E i \in DOMAIN saves' : Boundary(k, i)'
  <2>1. PICK i \in DOMAIN saves : Boundary(k, i)
    BY <1>1 DEF InProgress
  <2>2. Boundary(k, i)'
    BY <1>3, <2>1 DEF Boundary
  <2> QED
    BY <2>1, <2>2
<1>6. InProgress'
  BY <1>1, <1>2, <1>3, <1>5 DEF InProgress, Top, runner
<1>7. \A k \in 1..(Len(frames') - 1) : frames'[k].status = "running"
  BY <1>3 DEF IInv
<1> QED
  BY <1>2, <1>3, <1>4, <1>6, <1>7 DEF IInv

\* A data statement changes what the innermost call and the session see alike.
LEMMA StatementRunsKeeps ==
  ASSUME IInv, dialect' = dialect, runnerKept' = runnerKept, NEW w \in Writes, StatementRuns(w)
  PROVE  IInv'
<1>1. InProgress /\ TypeOK /\ Top \in Frame /\ Running /\ aborted = FALSE
  BY RunningInProgress, TypedStacks DEF StatementRuns, Running, IInv, TypeOK, SessionTypeOK
<1>2. /\ open' = open /\ aborted' = FALSE /\ saves' = saves /\ durable' = durable
      /\ work' = Top.work \cup {w}
  BY <1>1 DEF StatementRuns, Write, InProgress
<1>3. Top.work \cup {w} \in SUBSET Writes
  BY <1>1 DEF Frame
<1>4. durable' \in SUBSET Writes
  BY <1>1, <1>2 DEF TypeOK, SessionTypeOK
<1>5. SetTop("running", Top.work \cup {w}) /\ UNCHANGED <<runner, isReleased>>
  BY DEF StatementRuns
<1> QED
  BY <1>1, <1>2, <1>3, <1>4, <1>5, SetTopKeeps

\* The steps in which the running call fails but its transaction stays open.
LEMMA FailureKeeps ==
  ASSUME IInv, Running, dialect' = dialect, runnerKept' = runnerKept, SetTop("failed", Top.work),
         Error \/ UNCHANGED session,
         UNCHANGED <<runner, isReleased>>
  PROVE  IInv'
<1>1. InProgress /\ TypeOK /\ Top \in Frame
  BY RunningInProgress, TypedStacks DEF Running, IInv
<1>2. aborted' \in BOOLEAN
  BY <1>1 DEF Error, session, TypeOK, SessionTypeOK
<1>3. /\ durable' = durable /\ open' = open /\ work' = work /\ saves' = saves
  BY DEF Error, session
<1>4. work' = Top.work /\ Top.work \in SUBSET Writes /\ durable' \in SUBSET Writes
  BY <1>1, <1>3 DEF InProgress, Frame, TypeOK, SessionTypeOK
<1> QED
  BY <1>2, <1>3, <1>4, SetTopKeeps

\* A refused statement fails the call, or leaves the session usable when the
\* callback catches its error.
LEMMA StatementFailsKeeps ==
  ASSUME SafeFaults, IInv, dialect' = dialect, runnerKept' = runnerKept, StatementFails
  PROVE  IInv'
<1>1. Running /\ Error /\ UNCHANGED <<runner, isReleased>>
  BY DEF StatementFails
<1>2. CASE SetTop("failed", Top.work)
  BY <1>1, <1>2, FailureKeeps
<1>3. CASE dialect \in CatchesErrorsIn /\ UNCHANGED frames
  <2>1. dialect # "postgres" /\ aborted = FALSE
    BY <1>1, <1>3, RunningInProgress DEF SafeFaults, IInv, TypeOK, SessionTypeOK
  <2>2. aborted' = FALSE
    BY <1>1, <2>1 DEF Error
  <2>3. UNCHANGED <<dialect, runnerKept, session, runner, frames, isReleased>>
    BY <1>1, <1>3, <2>1, <2>2 DEF Error, session
  <2>4. vars' = vars
    BY <2>3 DEF vars
  <2> QED
    BY <2>4, UnchangedKeeps
<1> QED
  BY <1>2, <1>3 DEF StatementFails

\* A callback that throws leaves its transaction open for the catch block.
LEMMA CallbackThrowsKeeps ==
  ASSUME IInv, dialect' = dialect, runnerKept' = runnerKept, CallbackThrows
  PROVE  IInv'
<1>1. /\ Running /\ SetTop("failed", Top.work)
      /\ UNCHANGED session /\ UNCHANGED <<runner, isReleased>>
  BY DEF CallbackThrows
<1> QED
  BY <1>1, FailureKeeps

\* commitTransaction that rejects leaves a transaction to roll back, except
\* when PostgreSQL has rolled it back already (CommitRefused).
LEMMA CommitFailsKeeps ==
  ASSUME SafeFaults, IInv, dialect' = dialect, runnerKept' = runnerKept, CommitFails
  PROVE  IInv'
<1>1. /\ Running /\ SetTop("failed", Top.work) /\ isReleased' = isReleased
      /\ commitTransaction(FALSE)
  BY DEF CommitFails
<1>2. /\ TypeOK /\ InProgress /\ Top \in Frame
      /\ frames \in Seq(Frame) /\ frames # <<>> /\ Len(frames) \in Nat \ {0}
      /\ transactionDepth = Len(frames)
  BY <1>1, RunningInProgress, TypedStacks DEF Running, IInv, InProgress
<1>3. /\ UNCHANGED runner
      /\ CommitQueryFails \/ UNCHANGED session
  <2>1. ~Fault("afterCommit", transactionDepth > 1)
    BY DEF SafeFaults, Fault
  <2> QED
    BY <1>1, <2>1 DEF commitTransaction
<1>4. CASE Error \/ UNCHANGED session
  BY <1>1, <1>3, <1>4, FailureKeeps
<1>5. CASE transactionDepth = 1 /\ dialect = "postgres" /\ End({})
  <2>1. frames' = [frames EXCEPT ![Len(frames)] = [status |-> "failed", work |-> Top.work]]
    BY <1>1 DEF SetTop
  <2>2. /\ frames' \in Seq(Frame) /\ Len(frames') = 1 /\ frames' # <<>>
        /\ frames'[1].status = "failed"
    <3>1. [status |-> "failed", work |-> Top.work] \in Frame
      BY <1>2 DEF Frame
    <3>2. Len(frames) = 1
      BY <1>2, <1>5
    <3> QED
      BY <1>2, <2>1, <3>1, <3>2, Replaced
  <2>3. /\ durable' = durable /\ open' = FALSE /\ aborted' = FALSE /\ work' = {} /\ saves' = <<>>
    BY <1>2, <1>5 DEF End, TypeOK, SessionTypeOK
  <2>4. SessionTypeOK'
    <3>1. saves' \in Seq(SavedState)
      BY <2>3, EmptySeq
    <3> QED
      BY <1>2, <2>3, <3>1 DEF TypeOK, SessionTypeOK
  <2>5. TypeOK'
    BY <1>1, <1>2, <1>3, <2>2, <2>4 DEF TypeOK, RunnerTypeOK, runner
  <2>6. CommitRefused'
    BY <1>2, <1>3, <1>5, <2>2, <2>3 DEF CommitRefused, Failed, Top, InProgress, runner
  <2> QED
    BY <1>1, <1>2, <2>2, <2>3, <2>5, <2>6 DEF IInv
<1>6. CASE CommitQueryFails
  <2>1. CASE transactionDepth > 1
    BY <1>4, <1>6, <2>1 DEF CommitQueryFails
  <2>2. CASE transactionDepth = 1
    <3>1. CommitError
      BY <1>6, <2>2 DEF CommitQueryFails
    <3> QED
      BY <1>4, <1>5, <2>2, <3>1 DEF CommitError
  <2> QED
    BY <1>2, <2>1, <2>2
<1> QED
  BY <1>3, <1>4, <1>6

\* Popping the innermost call leaves the savepoints of the others in place,
\* whether its own is dropped with it (RELEASE) or kept (ROLLBACK TO).
LEMMA PopKeepsBoundaries ==
  ASSUME TypeOK, InProgress, Len(frames) > 1,
         NEW top \in DOMAIN saves, Boundary(Len(frames) - 1, top),
         NEW m \in {top - 1, top}, saves' = SubSeq(saves, 1, m),
         \A k \in 1..(Len(frames) - 2) : frames'[k].work = frames[k].work
  PROVE  /\ saves' \in Seq(SavedState)
         /\ \A k \in 1..(Len(frames) - 2) : \E i \in DOMAIN saves' : Boundary(k, i)'
<1>1. /\ saves \in Seq(SavedState) /\ Len(saves) \in Nat /\ DOMAIN saves = 1..Len(saves)
      /\ Len(frames) \in Nat
  BY TypedStacks
<1>2. m \in 0..Len(saves)
  BY <1>1
<1>3. /\ saves' \in Seq(SavedState) /\ DOMAIN saves' = 1..m
      /\ \A i \in 1..m : saves'[i] = saves[i]
  BY <1>1, <1>2, Prefix
<1>4. ASSUME NEW k \in 1..(Len(frames) - 2)
      PROVE  \E i \in DOMAIN saves' : Boundary(k, i)'
  <2>1. PICK i \in DOMAIN saves : Boundary(k, i)
    BY <1>1 DEF InProgress
  <2>2. i < top
    <3>1. i # top /\ ~(i > top)
      BY <1>1, <2>1 DEF Boundary
    <3> QED
      BY <1>1, <3>1
  <2>3. i \in DOMAIN saves'
    BY <1>1, <1>2, <1>3, <2>2
  <2>4. saves'[i] = saves[i] /\ frames'[k].work = frames[k].work
    BY <1>3, <2>3
  <2>5. \A j \in DOMAIN saves' : j \in DOMAIN saves /\ saves'[j] = saves[j]
    BY <1>1, <1>2, <1>3
  <2>6. Boundary(k, i)'
    BY <2>1, <2>4, <2>5 DEF Boundary
  <2> QED
    BY <2>3, <2>6
<1> QED
  BY <1>3, <1>4

\* The end of the outermost call whose session has closed its transaction.
LEMMA ClosedKeeps ==
  ASSUME IInv, dialect' = dialect, runnerKept' = runnerKept, Len(frames) = 1, isReleased' = isReleased,
         frames' = <<>>, NEW written \in SUBSET Writes, End(written),
         transactionDepth <= 1, transactionDepth > -MaxFailedStarts, LeaveTransaction,
         transactionDepth < 1 => dialect # "sqlite"
  PROVE  IInv'
<1>0. TypeOK /\ isReleased \in BOOLEAN /\ frames # <<>>
  BY EmptySeq DEF IInv, TypeOK
<1>1. TypeOK /\ isReleased = FALSE
  BY <1>0 DEF IInv
<1>2. SessionTypeOK'
  <2>1. saves' \in Seq(SavedState)
    BY EmptySeq DEF End
  <2> QED
    BY <1>1, <2>1 DEF End, TypeOK, SessionTypeOK
<1>3. /\ isTransactionActive' = FALSE
      /\ transactionDepth' \in Int /\ transactionDepth' \in -MaxFailedStarts..0
      /\ transactionDepth' < 0 => dialect' # "sqlite"
  <2>1. ~(transactionDepth > 1) /\ transactionDepth \in Int
    BY <1>1 DEF TypeOK, RunnerTypeOK
  <2>2. isTransactionActive' = FALSE
    BY <2>1 DEF LeaveTransaction
  <2>3. transactionDepth' = transactionDepth - 1
    BY DEF LeaveTransaction
  <2> QED
    BY <2>1, <2>2, <2>3, ManagedAssumption
<1>4. TypeOK'
  <2>1. frames' \in Seq(Frame) /\ Len(frames') = 0
    BY EmptySeq
  <2>2. transactionDepth' \in -MaxFailedStarts..MaxDepth
    BY <1>3, ManagedAssumption
  <2>3. RunnerTypeOK'
    BY <1>3 DEF RunnerTypeOK
  <2> QED
    BY <1>1, <1>2, <2>1, <2>2, <2>3 DEF TypeOK
<1>5. Idle'
  BY <1>1, <1>3, ManagedAssumption DEF Idle, End
<1>6. Len(frames') = 0
  BY EmptySeq
<1> QED
  BY <1>1, <1>4, <1>5, <1>6 DEF IInv, End

\* A call that resolves: RELEASE of its savepoint, or COMMIT of the outermost.
LEMMA ResolvesKeeps ==
  ASSUME SafeFaults, IInv, dialect' = dialect, runnerKept' = runnerKept, TransactionResolves
  PROVE  IInv'
<1> DEFINE d == Len(frames)
           rest == SubSeq(frames, 1, d - 1)
<1>1. Running /\ isReleased' = isReleased /\ commitTransaction(TRUE)
  BY DEF TransactionResolves
<1>2. /\ TypeOK /\ InProgress /\ aborted = FALSE
      /\ Top \in Frame
      /\ frames \in Seq(Frame) /\ d \in Nat \ {0}
      /\ transactionDepth = d /\ isTransactionActive
  BY <1>1, RunningInProgress, TypedStacks
     DEF Running, IInv, InProgress, TypeOK, SessionTypeOK
<1>3. /\ rest \in Seq(Frame) /\ Len(rest) = d - 1
      /\ d > 1 => rest # <<>>
      /\ \A k \in 1..(d - 1) : rest[k] = frames[k]
  <2>1. d - 1 \in 0..Len(frames)
    BY <1>2
  <2>2. /\ rest \in Seq(Frame) /\ Len(rest) = d - 1
        /\ \A k \in 1..(d - 1) : rest[k] = frames[k]
    BY <1>2, <2>1, Prefix
  <2>3. d > 1 => rest # <<>>
    <3>1. rest = <<>> => Len(rest) = 0
      BY EmptySeq
    <3> QED
      BY <1>2, <2>2, <3>1
  <2> QED
    BY <2>2, <2>3
<1> HIDE DEF rest
<1>4. CommitQuerySucceeds /\ LeaveTransaction
  BY <1>1 DEF commitTransaction
<1>5. CASE d = 1
  <2>1. frames' = <<>>
    BY <1>3, <1>5 DEF TransactionResolves
  <2>2. End(work) /\ work \in SUBSET Writes
    BY <1>2, <1>4, <1>5 DEF CommitQuerySucceeds, Commit, TypeOK, SessionTypeOK
  <2> QED
    BY <1>1, <1>2, <1>4, <1>5, <2>1, <2>2, ClosedKeeps, ManagedAssumption
<1>6. CASE d > 1
  <2>1. PICK top \in DOMAIN saves : Boundary(d - 1, top)
    BY <1>2, <1>6 DEF InProgress
  <2>2. Newest(d - 1) = top
    BY <1>2, <2>1, NewestIsBoundary
  <2>3. /\ saves' = SubSeq(saves, 1, top - 1)
        /\ UNCHANGED <<durable, open, aborted, work>>
    BY <1>2, <1>4, <1>6, <2>2 DEF CommitQuerySucceeds, Release
  <2>4. frames' = [rest EXCEPT ![d - 1] = Top]
    BY <1>2, <1>6 DEF TransactionResolves, rest
  <2>5. Top.status = "running"
    BY <1>1 DEF Running
  <2>6. /\ frames' \in Seq(Frame) /\ Len(frames') = d - 1 /\ frames' # <<>>
        /\ frames'[d - 1] = Top
        /\ \A k \in 1..(d - 2) : frames'[k] = frames[k]
    <3>1. rest # <<>> /\ frames' = [rest EXCEPT ![Len(rest)] = Top]
      BY <1>3, <1>6, <2>4
    <3>2. /\ frames' \in Seq(Frame) /\ Len(frames') = Len(rest) /\ frames' # <<>>
          /\ frames'[Len(rest)] = Top
          /\ \A k \in 1..(Len(rest) - 1) : frames'[k] = rest[k]
      BY <1>2, <1>3, <3>1, Replaced
    <3> QED
      BY <1>2, <1>3, <3>2
  <2>7. /\ saves' \in Seq(SavedState)
        /\ \A k \in 1..(d - 2) : \E i \in DOMAIN saves' : Boundary(k, i)'
    <3>1. \A k \in 1..(d - 2) : frames'[k].work = frames[k].work
      BY <2>6
    <3>2. DOMAIN saves = 1..Len(saves) /\ top - 1 \in {top - 1, top}
      BY <1>2, TypedStacks
    <3> QED
      BY <1>2, <1>6, <2>1, <2>3, <3>1, <3>2, PopKeepsBoundaries
  <2>8. isTransactionActive' = isTransactionActive /\ transactionDepth' = d - 1
    BY <1>2, <1>4, <1>6 DEF LeaveTransaction
  <2>9. TypeOK'
    <3>1. SessionTypeOK'
      BY <1>2, <2>3, <2>7 DEF TypeOK, SessionTypeOK
    <3>2. RunnerTypeOK' /\ transactionDepth' \in -MaxFailedStarts..MaxDepth
      BY <1>2, <2>8, ManagedAssumption DEF TypeOK, RunnerTypeOK
    <3> QED
      BY <1>1, <1>2, <2>6, <3>1, <3>2 DEF TypeOK
  <2>10. InProgress'
    <3>1. Top'.work = Top.work
      BY <2>6 DEF Top
    <3>2. work = Top.work /\ open
      BY <1>2 DEF InProgress
    <3> QED
      BY <1>2, <2>3, <2>6, <2>7, <2>8, <3>1, <3>2 DEF InProgress
  <2>11. \A k \in 1..(Len(frames') - 1) : frames'[k].status = "running"
    BY <1>2, <2>6 DEF IInv
  <2> QED
    BY <1>1, <1>2, <2>3, <2>6, <2>9, <2>10, <2>11 DEF IInv, InProgress
<1> QED
  BY <1>2, <1>5, <1>6

\* A rollback that is not withheld by a fault runs its statement.
LEMMA RollbackRuns ==
  ASSUME SafeFaults, rollbackTransaction, isTransactionActive
  PROVE  \/ RollbackQuerySucceeds /\ LeaveTransaction
         \/ /\ Error /\ UNCHANGED runner
            /\ IF transactionDepth > 1
               THEN ~AcceptsRollbackTo(transactionDepth - 1)
               ELSE ~AcceptsEnd
<1>1. /\ ~Fault("beforeRollback", transactionDepth > 1)
      /\ ~Fault("rollbackQuery", transactionDepth > 1)
  BY DEF SafeFaults, Fault
<1>2. CASE RollbackQueryFails /\ UNCHANGED runner
  <2>1. CASE transactionDepth > 1
    BY <1>1, <1>2, <2>1 DEF RollbackQueryFails
  <2>2. CASE ~(transactionDepth > 1)
    BY <1>1, <1>2, <2>2 DEF RollbackQueryFails
  <2> QED
    BY <2>1, <2>2
<1> QED
  BY <1>1, <1>2 DEF rollbackTransaction

\* The catch block of a nested call: ROLLBACK TO its savepoint puts the session
\* back to what its caller sees.
LEMMA NestedRejectsKeeps ==
  ASSUME SafeFaults, IInv, dialect' = dialect, runnerKept' = runnerKept, TransactionRejects, Len(frames) > 1
  PROVE  IInv'
<1> DEFINE d == Len(frames)
           rest == SubSeq(frames, 1, d - 1)
<1>1. frames' = rest /\ isReleased' = isReleased /\ rollbackTransaction /\ Failed
  BY DEF TransactionRejects
<1>2. /\ TypeOK /\ InProgress
      /\ frames \in Seq(Frame) /\ d \in Nat \ {0}
      /\ transactionDepth = d /\ isTransactionActive
  <2>1. Len(frames) # 1 /\ frames # <<>>
    BY <1>1, TypedStacks DEF Failed, IInv
  <2>2. TypeOK /\ InProgress
    BY <2>1 DEF IInv, NeverBegan, CommitRefused, Idle
  <2> QED
    BY <2>2, TypedStacks DEF InProgress
<1>3. /\ rest \in Seq(Frame) /\ Len(rest) = d - 1 /\ rest # <<>>
      /\ \A k \in 1..(d - 1) : rest[k] = frames[k]
  <2>1. d - 1 \in 0..Len(frames)
    BY <1>2
  <2>2. /\ rest \in Seq(Frame) /\ Len(rest) = d - 1
        /\ \A k \in 1..(d - 1) : rest[k] = frames[k]
    BY <1>2, <2>1, Prefix
  <2>3. rest = <<>> => Len(rest) = 0
    BY EmptySeq
  <2> QED
    BY <1>2, <2>2, <2>3
<1> HIDE DEF rest
<1>4. PICK top \in DOMAIN saves : Boundary(d - 1, top)
  BY <1>2 DEF InProgress
<1>5. Named(d - 1) # {} /\ Newest(d - 1) = top
  BY <1>2, <1>4, NewestIsBoundary
<1>6. RollbackQuerySucceeds /\ LeaveTransaction
  BY <1>1, <1>2, <1>5, RollbackRuns DEF AcceptsRollbackTo
<1>7. /\ work' = saves[top].work /\ saves' = SubSeq(saves, 1, top) /\ aborted' = FALSE
      /\ durable' = durable /\ open' = open
      /\ isTransactionActive' = isTransactionActive /\ transactionDepth' = d - 1
  BY <1>2, <1>5, <1>6 DEF RollbackQuerySucceeds, RollbackTo, LeaveTransaction
<1>8. /\ saves' \in Seq(SavedState)
      /\ \A k \in 1..(d - 2) : \E i \in DOMAIN saves' : Boundary(k, i)'
  <2>1. \A k \in 1..(d - 2) : frames'[k].work = frames[k].work
    BY <1>1, <1>2, <1>3
  <2>2. top \in {top - 1, top}
    OBVIOUS
  <2> QED
    BY <1>2, <1>4, <1>7, <2>1, <2>2, PopKeepsBoundaries
<1>9. Top' = frames[d - 1] /\ Top' \in Frame
  <2>1. d - 1 \in 1..(d - 1) /\ d - 1 \in 1..d
    BY <1>2
  <2> QED
    BY <1>1, <1>2, <1>3, <2>1, ElementOfSeq DEF Top
<1>10. work' = Top'.work /\ work' \in SUBSET Writes
  BY <1>4, <1>7, <1>9 DEF Boundary, Frame
<1>11. TypeOK'
  <2>1. SessionTypeOK'
    BY <1>2, <1>7, <1>8, <1>10 DEF TypeOK, SessionTypeOK
  <2>2. RunnerTypeOK' /\ transactionDepth' \in -MaxFailedStarts..MaxDepth
    BY <1>2, <1>7, ManagedAssumption DEF TypeOK, RunnerTypeOK
  <2> QED
    BY <1>1, <1>2, <1>3, <2>1, <2>2 DEF TypeOK
<1>12. InProgress'
  BY <1>1, <1>2, <1>3, <1>7, <1>8, <1>10 DEF InProgress
<1>13. \A k \in 1..(Len(frames') - 1) : frames'[k].status = "running"
  BY <1>1, <1>2, <1>3 DEF IInv
<1> QED
  BY <1>1, <1>2, <1>3, <1>7, <1>11, <1>12, <1>13 DEF IInv, InProgress

\* The catch block of the outermost call: no transaction is left, also when
\* isTransactionActive made it skip the ROLLBACK.
LEMMA OutermostRejectsKeeps ==
  ASSUME SafeFaults, IInv, dialect' = dialect, runnerKept' = runnerKept, TransactionRejects, Len(frames) = 1
  PROVE  IInv'
<1>1. /\ TypeOK /\ isReleased = FALSE /\ isReleased' = FALSE
      /\ rollbackTransaction /\ Failed /\ frames # <<>>
  BY DEF TransactionRejects, IInv, TypeOK, Failed
<1>2. frames' = <<>> /\ frames' \in Seq(Frame) /\ Len(frames') = 0
  <2>1. frames \in Seq(Frame) /\ 0 \in 0..Len(frames) /\ Len(frames) - 1 = 0
    BY <1>1, TypedStacks
  <2> QED
    BY <2>1, Prefix, EmptySeq DEF TransactionRejects
<1>3. CASE ~isTransactionActive
  <2>1. UNCHANGED <<runner, session>>
    BY <1>1, <1>3 DEF rollbackTransaction
  <2>2. ~open /\ NeverBegan
    BY <1>1, <1>3 DEF IInv, InProgress, NeverBegan, CommitRefused, Idle
  <2>3. TypeOK'
    BY <1>1, <1>2, <2>1 DEF TypeOK, SessionTypeOK, RunnerTypeOK, session, runner
  <2>4. Idle'
    BY <1>1, <1>2, <1>3, <2>1, <2>2 DEF Idle, NeverBegan, session, runner
  <2> QED
    BY <1>1, <1>2, <2>1, <2>3, <2>4 DEF IInv, session
<1>4. CASE isTransactionActive
  <2>1. /\ transactionDepth \in Int /\ transactionDepth <= 1
        /\ transactionDepth > -MaxFailedStarts
        /\ transactionDepth < 0 => dialect # "sqlite"
    BY <1>1, <1>4, ManagedAssumption DEF TypeOK, RunnerTypeOK, IInv, InProgress, NeverBegan, CommitRefused, Idle
  <2>2. CASE RollbackQuerySucceeds /\ LeaveTransaction
    <3>1. End({}) /\ AcceptsEnd
      BY <2>1, <2>2 DEF RollbackQuerySucceeds, Rollback
    <3>2. transactionDepth < 1 => dialect # "sqlite"
      BY <1>1, <2>1, <3>1 DEF AcceptsEnd, IInv, InProgress, NeverBegan, CommitRefused, Idle
    <3>3. {} \in SUBSET Writes
      OBVIOUS
    <3> QED
      BY <1>1, <1>2, <2>1, <2>2, <3>1, <3>2, <3>3, ClosedKeeps
  <2>3. CASE Error /\ UNCHANGED runner /\ ~AcceptsEnd
    <3>1. open = FALSE /\ aborted = FALSE /\ dialect = "sqlite"
      BY <1>1, <2>3 DEF AcceptsEnd, IInv, TypeOK, SessionTypeOK
    <3>2. NeverBegan
      BY <1>1, <1>4, <3>1 DEF IInv, InProgress, NeverBegan, CommitRefused, Idle
    <3>3. UNCHANGED session
      BY <2>3, <3>1 DEF Error, session
    <3>4. TypeOK'
      BY <1>1, <1>2, <2>3, <3>3 DEF TypeOK, SessionTypeOK, RunnerTypeOK, session, runner
    <3>5. Idle'
      BY <1>1, <1>2, <2>3, <3>1, <3>2, <3>3 DEF Idle, NeverBegan, session, runner
    <3> QED
      BY <1>1, <1>2, <3>1, <3>3, <3>4, <3>5 DEF IInv, session
  <2> QED
    BY <1>1, <1>4, <2>1, <2>2, <2>3, RollbackRuns
<1> QED
  BY <1>3, <1>4

\* The finally block: the runner returns its session and a new one begins.
LEMMA ReleaseKeeps ==
  ASSUME IInv, dialect' = dialect, runnerKept' = runnerKept, ReleaseRunner
  PROVE  IInv'
<1>1. TypeOK /\ frames = <<>> /\ frames' = frames /\ UNCHANGED session /\ ~runnerKept
  BY DEF ReleaseRunner, IInv
<1>2. Idle
  BY <1>1 DEF IInv, InProgress, NeverBegan, CommitRefused, Failed
<1>3. TypeOK'
  <2>1. transactionDepth' \in -MaxFailedStarts..MaxDepth
    BY ManagedAssumption DEF ReleaseRunner
  <2>2. transactionDepth' \in Int
    BY <2>1, ManagedAssumption
  <2>3. RunnerTypeOK'
    BY <2>2 DEF ReleaseRunner, RunnerTypeOK
  <2> QED
    BY <1>1, <2>1, <2>3 DEF ReleaseRunner, TypeOK, SessionTypeOK, session
<1>4. Idle'
  <2>1. ~isTransactionActive' /\ transactionDepth' = 0
    BY DEF ReleaseRunner
  <2>2. frames' = <<>> /\ ~open'
    BY <1>1, <1>2 DEF Idle, session
  <2> QED
    BY <2>1, <2>2 DEF Idle
<1> QED
  BY <1>1, <1>2, <1>3, <1>4 DEF ReleaseRunner, IInv, session

-----------------------------------------------------------------------------

\* A new query runner satisfies the invariant.
LEMMA InitIInv == Init => IInv
<1> SUFFICES ASSUME Init PROVE IInv
  OBVIOUS
<1>1. /\ dialect \in Dialects /\ durable = {} /\ open = FALSE /\ aborted = FALSE
      /\ work = {} /\ saves = <<>> /\ isTransactionActive = FALSE
      /\ transactionDepth = 0 /\ frames = <<>> /\ isReleased = ~runnerKept
      /\ runnerKept \in BOOLEAN /\ (dialect = "sqlite" => runnerKept)
  BY DEF Init, SessionInit, RunnerInit
<1>2. /\ frames \in Seq(Frame) /\ Len(frames) = 0 /\ saves \in Seq(SavedState)
  BY <1>1, EmptySeq
<1>3. TypeOK
  <2>1. transactionDepth \in -MaxFailedStarts..MaxDepth
    BY <1>1, ManagedAssumption
  <2>2. isReleased \in BOOLEAN
    BY <1>1
  <2>3. SessionTypeOK
    BY <1>1, <1>2 DEF SessionTypeOK
  <2>4. transactionDepth \in Int
    BY <2>1, ManagedAssumption
  <2> QED
    BY <1>1, <1>2, <2>1, <2>2, <2>3, <2>4 DEF TypeOK, RunnerTypeOK
<1>4. Idle
  BY <1>1 DEF Idle
<1>5. isReleased => ~runnerKept
  BY <1>1
<1> QED
  BY <1>1, <1>2, <1>3, <1>4, <1>5 DEF IInv

\* No step of a call of EntityManager.transaction breaks the invariant.
LEMMA StepIInv ==
  ASSUME SafeFaults, IInv, [Next]_vars
  PROVE  IInv'
<1>1. CASE UNCHANGED vars
  BY <1>1, UnchangedKeeps
<1>2. ASSUME Next PROVE IInv'
  <2>1. dialect' = dialect /\ runnerKept' = runnerKept
    BY <1>2 DEF Next
  <2>2. ASSUME NEW ok \in BOOLEAN, TransactionStarts(ok) PROVE IInv'
    <3>1. CASE frames = <<>>
      BY <2>1, <2>2, <3>1, StartOutermostKeeps
    <3>2. CASE frames # <<>>
      BY <2>1, <2>2, <3>2, StartNestedKeeps
    <3> QED
      BY <3>1, <3>2
  <2>3. ASSUME NEW w \in Writes, StatementRuns(w) PROVE IInv'
    BY <2>1, <2>3, StatementRunsKeeps
  <2>4. CASE StatementFails
    BY <2>1, <2>4, StatementFailsKeeps
  <2>5. CASE CallbackThrows
    BY <2>1, <2>5, CallbackThrowsKeeps
  <2>6. CASE TransactionResolves
    BY <2>1, <2>6, ResolvesKeeps
  <2>7. CASE CommitFails
    BY <2>1, <2>7, CommitFailsKeeps
  <2>8. CASE TransactionRejects
    <3>1. Len(frames) \in Nat /\ Len(frames) # 0
      BY <2>8, TypedStacks DEF TransactionRejects, Failed, IInv
    <3>2. CASE Len(frames) = 1
      BY <2>1, <2>8, <3>2, OutermostRejectsKeeps
    <3>3. CASE Len(frames) > 1
      BY <2>1, <2>8, <3>3, NestedRejectsKeeps
    <3>4. Len(frames) = 1 \/ Len(frames) > 1
      BY <3>1
    <3> QED
      BY <3>2, <3>3, <3>4
  <2>9. CASE ReleaseRunner
    BY <2>1, <2>9, ReleaseKeeps
  <2> QED
    BY <1>2, <2>2, <2>3, <2>4, <2>5, <2>6, <2>7, <2>8, <2>9 DEF Next, Step
<1> QED
  BY <1>1, <1>2

\* The inductive invariant of the transaction methods and their callers.
THEOREM Invariance == ASSUME SafeFaults PROVE Spec => []IInv
<1>1. IInv /\ [Next]_vars => IInv'
  BY StepIInv
<1> QED
  BY <1>1, InitIInv, PTL DEF Spec

\* Type correctness; in particular the depth falls below 0 only by starts that
\* fail, one at a time.
THEOREM TypeCorrect == ASSUME SafeFaults PROVE Spec => []TypeOK
<1>1. IInv => TypeOK
  BY DEF IInv
<1> QED
  BY <1>1, Invariance, PTL

\* No call leaves a transaction open, whatever subscribers and statements
\* failed in it, on a runner of its own and on one that is kept.
THEOREM AlwaysLeftClean == ASSUME SafeFaults PROVE Spec => []SessionLeftClean
<1>1. IInv => SessionLeftClean
  BY DEF SessionLeftClean, IInv, InProgress, NeverBegan, CommitRefused, Idle, Failed
<1> QED
  BY <1>1, Invariance, PTL

\* On PostgreSQL and MySQL isTransactionActive tells the truth whenever
\* somebody may ask.  (On SQLite a BEGIN that fails leaves it set.)
THEOREM ActiveAlways == ASSUME SafeFaults PROVE Spec => []ActiveMeansInProgress
<1>1. IInv => ActiveMeansInProgress
  <2> SUFFICES ASSUME IInv, Quiet, dialect # "sqlite" PROVE isTransactionActive <=> open
    BY DEF ActiveMeansInProgress
  <2>1. CASE Running
    BY <2>1, RunningInProgress DEF InProgress
  <2>2. CASE frames = <<>> /\ isReleased = ~runnerKept
    BY <2>2 DEF IInv, TypeOK, SessionTypeOK, InProgress, NeverBegan, CommitRefused, Idle, Failed
  <2> QED
    BY <2>1, <2>2 DEF Quiet
<1> QED
  BY <1>1, Invariance, PTL

\* transactionDepth is the nesting depth, so no two open calls share the name
\* of a savepoint, on a runner of the outermost call's own and on SQLite.  (A
\* runner that is kept counts below 0 when the other servers accept the
\* ROLLBACK after a start that failed.)
THEOREM DepthAlways == ASSUME SafeFaults PROVE Spec => []DepthCountsTheCalls
<1>1. IInv => DepthCountsTheCalls
  <2> SUFFICES ASSUME IInv, Quiet, ~runnerKept \/ dialect = "sqlite"
               PROVE  transactionDepth = Len(frames)
    BY DEF DepthCountsTheCalls, IInv, TypeOK
  <2>1. CASE Running
    BY <2>1, RunningInProgress DEF InProgress
  <2>2. CASE frames = <<>> /\ isReleased = ~runnerKept
    <3>1. Len(frames) = 0
      BY <2>2, EmptySeq
    <3>2. Idle /\ dialect \in Dialects /\ transactionDepth \in Int
      BY <2>2 DEF IInv, TypeOK, SessionTypeOK, RunnerTypeOK, InProgress, NeverBegan,
         CommitRefused, Failed
    <3>3. CASE ~runnerKept
      BY <2>2, <3>1, <3>2, <3>3 DEF Idle
    <3>4. CASE dialect = "sqlite"
      BY <3>1, <3>2, <3>4 DEF Idle
    <3> QED
      BY <3>3, <3>4
  <2> QED
    BY <2>1, <2>2 DEF Quiet
<1> QED
  BY <1>1, Invariance, PTL

\* Whatever failed before, on any runner and any dialect: while a callback
\* runs, its transaction is open, the flag is set and the depth is right.
THEOREM RunningCallsAlwaysTracked ==
  ASSUME SafeFaults PROVE Spec => []TracksRunningCalls
<1>1. IInv => TracksRunningCalls
  BY RunningInProgress DEF TracksRunningCalls, InProgress
<1> QED
  BY <1>1, Invariance, PTL

-----------------------------------------------------------------------------
(* The refinement mapping: what each call sees, and how it follows the     *)
(* stack of the calls.                                                     *)

Seen(f) == [i \in 1..Len(f) |-> f[i].work]

\* What the calls see is a state of the promise.
LEMMA SeenTyped ==
  ASSUME NEW f \in Seq(Frame)
  PROVE  /\ Seen(f) \in Seq(SUBSET Writes)
         /\ Len(Seen(f)) = Len(f)
         /\ \A i \in 1..Len(f) : Seen(f)[i] = f[i].work
         /\ Seen(f) = <<>> <=> f = <<>>
<1>1. Len(f) \in Nat
  BY LenProperties
<1>2. Seen(f) \in [1..Len(f) -> SUBSET Writes]
  <2>1. ASSUME NEW i \in 1..Len(f) PROVE f[i].work \in SUBSET Writes
    <3>1. f[i] \in Frame
      BY ElementOfSeq
    <3> QED
      BY <3>1 DEF Frame
  <2> QED
    BY <2>1 DEF Seen
<1>3. Seen(f) \in Seq(SUBSET Writes)
  BY <1>1, <1>2, SeqDef
<1>4. DOMAIN Seen(f) = 1..Len(f)
  BY DEF Seen
<1>5. Len(Seen(f)) \in Nat /\ DOMAIN Seen(f) = 1..Len(Seen(f))
  BY <1>3, LenProperties
<1>6. Len(Seen(f)) = Len(f)
  BY <1>1, <1>4, <1>5
<1>7. Seen(f) = <<>> <=> f = <<>>
  BY <1>3, <1>6, EmptySeq
<1> QED
  BY <1>3, <1>6, <1>7 DEF Seen

\* A call that starts opens a level of the promise.
LEMMA SeenAppend ==
  ASSUME NEW f \in Seq(Frame), NEW e \in Frame
  PROVE  Seen(Append(f, e)) = Append(Seen(f), e.work)
<1> DEFINE g == Append(f, e)
           t == Append(Seen(f), e.work)
<1>1. e.work \in SUBSET Writes /\ Len(f) \in Nat
  BY LenProperties DEF Frame
<1>2. g \in Seq(Frame) /\ Len(g) = Len(f) + 1 /\ g[Len(f) + 1] = e
      /\ \A i \in 1..Len(f) : g[i] = f[i]
  BY Pushed
<1>3. t \in Seq(SUBSET Writes) /\ Len(t) = Len(f) + 1 /\ t[Len(f) + 1] = e.work
      /\ \A i \in 1..Len(f) : t[i] = f[i].work
  BY <1>1, SeenTyped, Pushed
<1> HIDE DEF g, t
<1>4. Seen(g) \in Seq(SUBSET Writes) /\ Len(Seen(g)) = Len(t)
  BY <1>2, <1>3, SeenTyped
<1>5. ASSUME NEW i \in 1..Len(t) PROVE Seen(g)[i] = t[i]
  BY <1>1, <1>2, <1>3, SeenTyped
<1>6. Seen(g) = t
  BY <1>3, <1>4, <1>5, SeqEqual
<1> QED
  BY <1>6 DEF g, t

\* A write of the innermost call is a write of the innermost level.
LEMMA SeenReplace ==
  ASSUME NEW f \in Seq(Frame), f # <<>>, NEW e \in Frame
  PROVE  Seen([f EXCEPT ![Len(f)] = e]) = [Seen(f) EXCEPT ![Len(f)] = e.work]
<1>0. PICK g, t : /\ g = [f EXCEPT ![Len(f)] = e]
                  /\ t = [Seen(f) EXCEPT ![Len(f)] = e.work]
  OBVIOUS
<1>1. e.work \in SUBSET Writes /\ Len(f) \in Nat
  BY LenProperties DEF Frame
<1>2. g \in Seq(Frame) /\ Len(g) = Len(f) /\ g[Len(f)] = e
      /\ \A i \in 1..(Len(f) - 1) : g[i] = f[i]
  BY <1>0, Replaced
<1>3. t \in Seq(SUBSET Writes) /\ Len(t) = Len(f) /\ t[Len(f)] = e.work
      /\ \A i \in 1..(Len(f) - 1) : t[i] = f[i].work
  <2>1. /\ Seen(f) \in Seq(SUBSET Writes) /\ Len(Seen(f)) = Len(f) /\ Seen(f) # <<>>
        /\ \A i \in 1..(Len(f) - 1) : Seen(f)[i] = f[i].work
    BY <1>1, SeenTyped
  <2>2. t \in Seq(SUBSET Writes) /\ Len(t) = Len(Seen(f)) /\ t[Len(Seen(f))] = e.work
        /\ \A i \in 1..(Len(Seen(f)) - 1) : t[i] = Seen(f)[i]
    BY <1>0, <1>1, <2>1, Replaced
  <2> QED
    BY <2>1, <2>2
<1>4. Seen(g) \in Seq(SUBSET Writes) /\ Len(Seen(g)) = Len(t)
  BY <1>2, <1>3, SeenTyped
<1>5. ASSUME NEW i \in 1..Len(t) PROVE Seen(g)[i] = t[i]
  <2>1. Seen(g)[i] = g[i].work
    <3>1. i \in 1..Len(g)
      BY <1>2, <1>3
    <3> QED
      BY <1>2, <3>1, SeenTyped
  <2>2. CASE i = Len(f)
    BY <1>2, <1>3, <2>1, <2>2
  <2>3. CASE i \in 1..(Len(f) - 1)
    BY <1>2, <1>3, <2>1, <2>3
  <2> QED
    BY <1>1, <1>3, <2>2, <2>3
<1>6. Seen(g) = t
  BY <1>3, <1>4, <1>5, SeqEqual
<1> QED
  BY <1>0, <1>6

\* Calls that end close their levels.
LEMMA SeenPrefix ==
  ASSUME NEW f \in Seq(Frame), NEW n \in 0..Len(f)
  PROVE  Seen(SubSeq(f, 1, n)) = SubSeq(Seen(f), 1, n)
<1> DEFINE g == SubSeq(f, 1, n)
           t == SubSeq(Seen(f), 1, n)
<1>1. g \in Seq(Frame) /\ Len(g) = n /\ \A i \in 1..n : g[i] = f[i]
  BY Prefix
<1>2. t \in Seq(SUBSET Writes) /\ Len(t) = n /\ \A i \in 1..n : t[i] = Seen(f)[i]
  <2>1. Seen(f) \in Seq(SUBSET Writes) /\ n \in 0..Len(Seen(f))
    BY SeenTyped
  <2> QED
    BY <2>1, Prefix
<1> HIDE DEF g, t
<1>3. \A i \in 1..n : Seen(f)[i] = f[i].work
  BY SeenTyped, LenProperties
<1>4. Seen(g) \in Seq(SUBSET Writes) /\ Len(Seen(g)) = n
      /\ \A i \in 1..n : Seen(g)[i] = g[i].work
  BY <1>1, SeenTyped
<1>5. ASSUME NEW i \in 1..n PROVE Seen(g)[i] = t[i]
  BY <1>1, <1>2, <1>3, <1>4
<1>6. Seen(g) = t
  BY <1>2, <1>4, <1>5, SeqEqual
<1> QED
  BY <1>6 DEF g, t

Levels == [i \in 1..Len(frames) |-> frames[i].work]

\* The refinement mapping is Seen of the calls under way.
LEMMA LevelsAreSeen == Levels = Seen(frames) /\ Levels' = Seen(frames')
BY DEF Levels, Seen

\* The promise's next-state relation under the mapping.
PromiseStep == Promise!Next \/ UNCHANGED <<durable, Levels>>

\* startTransaction is the promise's Begin, also when it rejects: the call
\* then is a level that will be rolled back.
LEMMA StartImplements ==
  ASSUME SafeFaults, IInv, NEW ok \in BOOLEAN, TransactionStarts(ok)
  PROVE  PromiseStep
<1> DEFINE e == [status |-> IF ok THEN "running" ELSE "failed",
                 work |-> IF frames = <<>> THEN {} ELSE Top.work]
<1>1. TypeOK /\ frames \in Seq(Frame)
  BY TypedStacks DEF IInv
<1>2. e \in Frame /\ frames' = Append(frames, e)
  BY <1>1, TypedStacks DEF TransactionStarts, Frame
<1>3. Levels' = Append(Levels, e.work)
  BY <1>1, <1>2, SeenAppend, LevelsAreSeen
<1>4. e.work = IF Levels = <<>> THEN {} ELSE Levels[Len(Levels)]
  <2>1. Levels = <<>> <=> frames = <<>>
    BY <1>1, SeenTyped, LevelsAreSeen
  <2>2. frames # <<>> => Levels[Len(Levels)] = Top.work
    BY <1>1, TypedStacks, SeenTyped, LevelsAreSeen DEF Top
  <2> QED
    BY <2>1, <2>2
<1>5. durable' = durable
  <2>1. CASE frames = <<>>
    <3>1. Idle
      BY <2>1 DEF IInv, InProgress, NeverBegan, CommitRefused, Failed
    <3>2. work = {} /\ durable \in SUBSET Writes
      BY <1>1, <3>1 DEF IInv, Idle, TypeOK, SessionTypeOK
    <3> QED
      BY <3>2 DEF TransactionStarts, startTransaction, StartQueryFails, Error,
         IsolationQueryFails, StartQuerySucceeds, Begin, Savepoint, session
  <2>2. CASE frames # <<>>
    <3>1. InProgress
      BY <2>2, RunningInProgress DEF TransactionStarts
    <3>2. transactionDepth # 0
      BY <1>1, <3>1, TypedStacks DEF InProgress
    <3> QED
      BY <3>2 DEF TransactionStarts, startTransaction, StartQueryFails, Error,
         StartQuerySucceeds, Savepoint, session
  <2> QED
    BY <2>1, <2>2
<1>6. Promise!Begin
  BY <1>3, <1>4, <1>5 DEF Promise!Begin, Promise!Depth, Levels
<1> QED
  BY <1>6 DEF PromiseStep, Promise!Next

\* A data statement is the promise's Write.
LEMMA WriteImplements ==
  ASSUME IInv, NEW w \in Writes, StatementRuns(w)
  PROVE  PromiseStep
<1> DEFINE e == [status |-> "running", work |-> Top.work \cup {w}]
<1>1. TypeOK /\ InProgress /\ frames \in Seq(Frame) /\ frames # <<>> /\ Top \in Frame
  BY RunningInProgress, TypedStacks DEF StatementRuns, Running, IInv
<1>2. e \in Frame /\ frames' = [frames EXCEPT ![Len(frames)] = e]
  BY <1>1 DEF StatementRuns, SetTop, Frame
<1>3. Levels' = [Levels EXCEPT ![Len(Levels)] = Top.work \cup {w}]
  <2>1. Seen(frames') = [Seen(frames) EXCEPT ![Len(frames)] = e.work]
    BY <1>1, <1>2, SeenReplace
  <2> QED
    BY <1>1, <2>1, SeenTyped, LevelsAreSeen
<1>4. Levels # <<>> /\ Levels[Len(Levels)] = Top.work
  BY <1>1, TypedStacks, SeenTyped, LevelsAreSeen DEF Top
<1>5. durable' = durable
  BY <1>1 DEF StatementRuns, Write, InProgress
<1>6. Promise!Write(w)
  BY <1>3, <1>4, <1>5 DEF Promise!Write, Promise!Depth, Levels
<1> QED
  BY <1>6 DEF PromiseStep, Promise!Next

\* A call that fails still sees what it saw.
LEMMA FailureImplements ==
  ASSUME IInv, Running, SetTop("failed", Top.work), durable' = durable
  PROVE  PromiseStep
<1> DEFINE e == [status |-> "failed", work |-> Top.work]
<1>1. frames \in Seq(Frame) /\ frames # <<>> /\ Top \in Frame
  BY TypedStacks DEF Running, IInv
<1>2. e \in Frame /\ frames' = [frames EXCEPT ![Len(frames)] = e]
  BY <1>1 DEF SetTop, Frame
<1>3. Levels' = [Levels EXCEPT ![Len(Levels)] = Top.work]
  <2>1. Seen(frames') = [Seen(frames) EXCEPT ![Len(frames)] = e.work]
    BY <1>1, <1>2, SeenReplace
  <2> QED
    BY <1>1, <2>1, SeenTyped, LevelsAreSeen
<1>4. Levels[Len(Levels)] = Top.work /\ Levels \in Seq(SUBSET Writes)
  BY <1>1, TypedStacks, SeenTyped, LevelsAreSeen DEF Top, IInv
<1>5. Levels' = Levels
  BY <1>3, <1>4
<1> QED
  BY <1>5 DEF PromiseStep

\* commitTransaction that resolves is CommitNested or CommitOutermost: what it
\* makes durable is exactly what the outermost level saw.
LEMMA ResolveImplements ==
  ASSUME SafeFaults, IInv, TransactionResolves
  PROVE  PromiseStep
<1> DEFINE d == Len(frames)
           rest == SubSeq(frames, 1, d - 1)
<1>1. /\ TypeOK /\ InProgress /\ aborted = FALSE /\ Top \in Frame
      /\ frames \in Seq(Frame) /\ d \in Nat \ {0} /\ transactionDepth = d
      /\ CommitQuerySucceeds
  BY RunningInProgress, TypedStacks
     DEF Running, IInv, InProgress, TypeOK, SessionTypeOK, TransactionResolves, commitTransaction
<1>2. /\ Len(Levels) = d /\ Levels \in Seq(SUBSET Writes) /\ Levels[d] = Top.work
      /\ work = Top.work
  BY <1>1, SeenTyped, LevelsAreSeen DEF Top, InProgress
<1>3. CASE d = 1
  <2>1. frames' = <<>>
    BY <1>3 DEF TransactionResolves
  <2>2. Levels' = <<>>
    <3>1. frames' \in Seq(Frame)
      BY <2>1, EmptySeq
    <3> QED
      BY <2>1, <3>1, SeenTyped, LevelsAreSeen
  <2>3. durable' = durable \cup Levels[1]
    BY <1>1, <1>2, <1>3 DEF CommitQuerySucceeds, Commit, End
  <2>4. Promise!CommitOutermost
    BY <1>2, <1>3, <2>2, <2>3 DEF Promise!CommitOutermost, Promise!Depth, Levels
  <2> QED
    BY <2>4 DEF PromiseStep, Promise!Next
<1>4. CASE d > 1
  <2>1. /\ rest \in Seq(Frame) /\ Len(rest) = d - 1 /\ rest # <<>>
        /\ Seen(rest) = SubSeq(Levels, 1, d - 1) /\ Len(Seen(rest)) = d - 1
    <3>1. d - 1 \in 0..Len(frames)
      BY <1>1
    <3>2. rest \in Seq(Frame) /\ Len(rest) = d - 1
      BY <1>1, <3>1, Prefix
    <3>3. rest = <<>> => Len(rest) = 0
      BY EmptySeq
    <3>4. Seen(rest) = SubSeq(Levels, 1, d - 1)
      BY <1>1, <3>1, SeenPrefix, LevelsAreSeen
    <3> HIDE DEF rest
    <3>5. Len(Seen(rest)) = d - 1
      BY <3>2, SeenTyped
    <3> QED
      BY <1>4, <3>2, <3>3, <3>4, <3>5
  <2>2. frames' = [rest EXCEPT ![d - 1] = Top]
    BY <1>1, <1>4 DEF TransactionResolves
  <2> HIDE DEF rest
  <2>3. Levels' = [Seen(rest) EXCEPT ![d - 1] = Top.work]
    <3>1. frames' = [rest EXCEPT ![Len(rest)] = Top]
      BY <2>1, <2>2
    <3>2. Seen(frames') = [Seen(rest) EXCEPT ![Len(rest)] = Top.work]
      BY <1>1, <2>1, <3>1, SeenReplace
    <3> QED
      BY <2>1, <3>2, LevelsAreSeen
  <2>4. durable' = durable
    BY <1>1, <1>4 DEF CommitQuerySucceeds, Release
  <2>5. Levels' = [SubSeq(Levels, 1, Len(Levels) - 1) EXCEPT ![Len(Levels) - 1] = Levels[Len(Levels)]]
    BY <1>2, <2>1, <2>3
  <2>6. Promise!CommitNested
    BY <1>2, <1>4, <2>4, <2>5 DEF Promise!CommitNested, Promise!Depth, Levels
  <2> QED
    BY <2>6 DEF PromiseStep, Promise!Next
<1> QED
  BY <1>1, <1>3, <1>4

\* The catch block is the promise's Rollback: nothing becomes durable by it.
LEMMA RejectImplements ==
  ASSUME SafeFaults, IInv, TransactionRejects
  PROVE  PromiseStep
<1>1. TypeOK /\ frames \in Seq(Frame) /\ frames # <<>> /\ Len(frames) - 1 \in 0..Len(frames)
  BY TypedStacks DEF TransactionRejects, Failed, IInv
<1>2. Levels' = SubSeq(Levels, 1, Len(frames) - 1)
  BY <1>1, SeenPrefix, LevelsAreSeen DEF TransactionRejects
<1>3. Len(Levels) = Len(frames) /\ Levels # <<>>
  BY <1>1, SeenTyped, LevelsAreSeen
<1>4. durable' = durable
  <2>1. durable \in SUBSET Writes
    BY <1>1 DEF TypeOK, SessionTypeOK
  <2> QED
    BY <2>1 DEF TransactionRejects, rollbackTransaction, RollbackQueryFails,
       RollbackQuerySucceeds, Rollback, RollbackTo, End, Error, session
<1>5. Promise!Rollback
  BY <1>2, <1>3, <1>4 DEF Promise!Rollback, Promise!Depth, Levels
<1> QED
  BY <1>5 DEF PromiseStep, Promise!Next

\* A commitTransaction that rejects makes nothing durable.
LEMMA CommitFailsImplements ==
  ASSUME SafeFaults, IInv, CommitFails
  PROVE  PromiseStep
<1>1. Running /\ SetTop("failed", Top.work) /\ commitTransaction(FALSE)
  BY DEF CommitFails
<1>2. ~Fault("afterCommit", transactionDepth > 1) /\ durable \in SUBSET Writes
  BY DEF SafeFaults, Fault, IInv, TypeOK, SessionTypeOK
<1>3. durable' = durable
  BY <1>1, <1>2 DEF commitTransaction, CommitQueryFails, CommitError, End, Error, session
<1> QED
  BY <1>1, <1>3, FailureImplements

\* A new query runner has promised nothing yet.
LEMMA InitImplements == Init => Promise!Init
<1> SUFFICES ASSUME Init PROVE Promise!Init
  OBVIOUS
<1>1. frames = <<>> /\ durable = {}
  BY DEF Init, SessionInit
<1>2. frames \in Seq(Frame)
  BY <1>1, EmptySeq
<1>3. Levels = <<>>
  BY <1>1, <1>2, SeenTyped, LevelsAreSeen
<1> QED
  BY <1>1, <1>3 DEF Promise!Init, Levels

\* Every step of a call is a step of the promise or changes nothing in it.
LEMMA StepImplements ==
  ASSUME SafeFaults, IInv, [Next]_vars
  PROVE  PromiseStep
<1>1. CASE UNCHANGED vars
  BY <1>1 DEF PromiseStep, Levels, vars, session
<1>2. CASE Next
  <2>1. ASSUME NEW ok \in BOOLEAN, TransactionStarts(ok) PROVE PromiseStep
    BY <2>1, StartImplements
  <2>2. ASSUME NEW w \in Writes, StatementRuns(w) PROVE PromiseStep
    BY <2>2, WriteImplements
  <2>3. CASE StatementFails
    <3>1. Running /\ durable' = durable
      BY <2>3 DEF StatementFails, Error
    <3>2. CASE SetTop("failed", Top.work)
      BY <3>1, <3>2, FailureImplements
    <3>3. CASE UNCHANGED frames
      BY <3>1, <3>3 DEF PromiseStep, Levels
    <3> QED
      BY <2>3, <3>2, <3>3 DEF StatementFails
  <2>4. CASE CallbackThrows
    BY <2>4, FailureImplements DEF CallbackThrows, session
  <2>5. CASE TransactionResolves
    BY <2>5, ResolveImplements
  <2>6. CASE CommitFails
    BY <2>6, CommitFailsImplements
  <2>7. CASE TransactionRejects
    BY <2>7, RejectImplements
  <2>8. CASE ReleaseRunner
    BY <2>8 DEF ReleaseRunner, PromiseStep, Levels, session
  <2> QED
    BY <1>2, <2>1, <2>2, <2>3, <2>4, <2>5, <2>6, <2>7, <2>8 DEF Next, Step
<1> QED
  BY <1>1, <1>2

\* Nested calls of EntityManager.transaction implement nested transactions:
\* all or nothing for every call, for any nesting depth, in all dialects.
THEOREM KeepsThePromise == ASSUME SafeFaults PROVE Spec => PromiseKept
<1>1. PromiseStep => [Promise!Next]_(Promise!vars)
  BY DEF PromiseStep, Promise!vars, Levels
<1>2. IInv /\ [Next]_vars => [Promise!Next]_(Promise!vars)
  BY <1>1, StepImplements
<1> QED
  BY <1>2, InitImplements, Invariance, PTL DEF Spec, PromiseKept, Promise!Spec
===============================================================================
