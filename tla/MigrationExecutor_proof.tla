----------------------- MODULE MigrationExecutor_proof -----------------------
(***************************************************************************)
(* Proofs about MigrationExecutor, for any number of processes and of      *)
(* migrations, and any options.                                            *)
(***************************************************************************)
EXTENDS MigrationExecutor, FiniteSetTheorems, WellFoundedInduction, TLAPS

-----------------------------------------------------------------------------
(***************************************************************************)
(* The migration whose turn it is.                                         *)
(***************************************************************************)
LEMMA SmallestExists ==
  ASSUME NEW T \in SUBSET Nat, T # {}
  PROVE  \E m \in T : \A n \in T : m <= n
<1>1. PICK m \in T : \A n \in T : ~(<<n, m>> \in OpToRel(<, Nat))
  BY WFMin, NatLessThanWellFounded, Zenon
<1>2. \A n \in T : <<n, m>> \in OpToRel(<, Nat) <=> n < m
  BY DEF OpToRel
<1>3. \A n \in T : ~(n < m)
  BY <1>1, <1>2
<1>4. T \subseteq Nat
  OBVIOUS
<1>5. \A n \in T : m <= n
  BY <1>3, <1>4
<1> QED
  BY <1>5

LEMMA MinIsSmallest ==
  ASSUME NEW T \in SUBSET Migrations, T # {}
  PROVE  Min(T) \in T /\ \A n \in T : Min(T) <= n
<1>1. T \in SUBSET Nat
  BY MigrationAssumption DEF Migrations
<1>2. \E m \in T : \A n \in T : m <= n
  BY <1>1, SmallestExists
<1> QED
  BY <1>2 DEF Min

LEMMA CurrentIsSmallest ==
  ASSUME TypeOK, NEW e \in Executors, pending[e] # {}
  PROVE  Current(e) \in pending[e] /\ Current(e) \in Migrations /\ \A m \in pending[e] : Current(e) <= m
BY MinIsSmallest DEF Current, TypeOK

-----------------------------------------------------------------------------
(***************************************************************************)
(* Types.                                                                  *)
(***************************************************************************)
LEMMA ChangeIsInt == \A m, S : Change(m, S) \in Int
BY DEF Change

LEMMA RunnersTyped ==
  ASSUME TypeOK, NEW e \in Executors,
         CreateRunner(e) \/ ReleaseRunner(e) \/ runners' = [runners EXCEPT ![e] = 0] \/ UNCHANGED runners
  PROVE  runners' \in [Executors -> Int]
BY DEF TypeOK, CreateRunner, ReleaseRunner

LEMMA TypeNext == ASSUME TypeOK, [Next]_vars PROVE TypeOK'
<1>1. CASE UNCHANGED vars
  BY <1>1 DEF vars, TypeOK
<1>2. ASSUME NEW e \in options.processes, Step(e), options' = options PROVE TypeOK'
  <2>1. e \in Executors
    BY MigrationAssumption DEF TypeOK, OptionsType
  <2>2. pc[e] # "idle" => Current(e) \in pending[e] /\ Current(e) \in Migrations
    BY <2>1, CurrentIsSmallest DEF TypeOK
  <2>3. CASE ExecutePending(e)
    <3>1. CASE UNCHANGED <<pc, pending, inTx>>
      BY <1>2, <2>1, <2>3, <3>1, RunnersTyped DEF ExecutePending, TypeOK
    <3>2. CASE /\ pc' = [pc EXCEPT ![e] = "up"]
               /\ pending' = [pending EXCEPT ![e] = Migrations \ Recorded]
               /\ inTx' = [inTx EXCEPT ![e] = options.transaction = "all"]
      BY <1>2, <2>1, <2>3, <3>2, RunnersTyped DEF ExecutePending, TypeOK
    <3> QED
      BY <2>3, <3>1, <3>2 DEF ExecutePending, Goto
  <2>4. CASE Up(e) \/ RecordUp(e) \/ Down(e) \/ RecordDown(e)
    <3> DEFINE Writes == {<<"up", Current(e)>>, <<"down", Current(e)>>, <<"delete", Current(e)>>}
                           \cup {<<"insert", row>> : row \in Rows}
    <3>1. /\ UNCHANGED <<options, pending, runners>> /\ pc[e] # "idle"
          /\ \E step \in {"recordUp", "commit", "recordDown", "failed"} : pc' = [pc EXCEPT ![e] = step]
      BY <1>2, <2>4 DEF Up, RecordUp, Down, RecordDown, Goto
    <3>2. \/ UNCHANGED <<records, applied, log>> /\ \E tx \in BOOLEAN : inTx' = [inTx EXCEPT ![e] = tx]
          \/ \E statement \in Writes, tx \in BOOLEAN : Run(e, statement, tx)
      <4>1. inTx[e] \in BOOLEAN /\ UpTransaction(e) \in BOOLEAN /\ inTx = [inTx EXCEPT ![e] = inTx[e]]
        BY <2>1 DEF TypeOK, UpTransaction, OwnTransaction
      <4> QED
        BY <2>4, <4>1 DEF Up, RecordUp, Down, RecordDown
    <3>3. Writes \subseteq Statement
      BY <2>2, <3>1 DEF Statement
    <3>4. records' \subseteq Rows /\ applied' \in [Migrations -> Int] /\ log' \in [Executors -> SUBSET Statement]
          /\ inTx' \in [Executors -> BOOLEAN]
      BY <2>1, <3>2, <3>3 DEF Run, Perform, Change, TypeOK
    <3> QED
      BY <2>1, <3>1, <3>4 DEF TypeOK
  <2>5. CASE Commit(e)
    <3>1. records' \subseteq Rows /\ applied' \in [Migrations -> Int] /\ log' \in [Executors -> SUBSET Statement]
          /\ inTx' \in [Executors -> BOOLEAN]
      <4>1. CASE Commits(e)
        <5>1. Perform(log[e]) /\ log' = [log EXCEPT ![e] = {}] /\ inTx' = [inTx EXCEPT ![e] = FALSE]
          BY <2>5, <4>1 DEF Commit, CommitTx
        <5>2. \A m \in Migrations : applied[m] + Change(m, log[e]) \in Int
          BY ChangeIsInt DEF TypeOK
        <5>3. applied' \in [Migrations -> Int]
          BY <5>1, <5>2 DEF Perform
        <5>4. records' \subseteq Rows
          BY <5>1 DEF Perform, TypeOK
        <5> QED
          BY <2>1, <5>1, <5>3, <5>4 DEF TypeOK
      <4>2. CASE ~Commits(e)
        BY <2>5, <4>2 DEF Commit, TypeOK
      <4> QED
        BY <4>1, <4>2
    <3> QED
      <4>1. runners' \in [Executors -> Int]
        BY <2>1, <2>5, RunnersTyped DEF Commit
      <4> QED
        BY <1>2, <2>1, <2>2, <2>5, <3>1, <4>1 DEF Commit, Goto, IsLast, TypeOK
  <2>6. CASE UndoLast(e)
    <3>1. runners' \in [Executors -> Int]
      BY <2>1, <2>6, RunnersTyped DEF UndoLast
    <3>2. PICK row \in records : pending' = [pending EXCEPT ![e] = {row.name}]
      BY <2>6 DEF UndoLast
    <3>3. row.name \in Migrations
      BY <3>2 DEF TypeOK, Rows
    <3>4. UNCHANGED <<records, applied, log>> /\ pc' = [pc EXCEPT ![e] = "down"] /\ pc[e] = "idle"
          /\ inTx' = [inTx EXCEPT ![e] = options.transaction # "none"]
      BY <2>6 DEF UndoLast, Goto
    <3> QED
      BY <1>2, <2>1, <3>1, <3>2, <3>3, <3>4 DEF TypeOK
  <2>7. CASE Fails(e)
    BY <1>2, <2>1, <2>7 DEF Fails, Goto, TypeOK
  <2>8. CASE GiveUp(e) \/ Crash(e)
    <3>1. runners' \in [Executors -> Int]
      BY <2>1, <2>8, RunnersTyped DEF GiveUp, Crash
    <3> QED
      BY <1>2, <2>1, <2>8, <3>1 DEF GiveUp, Crash, Rollback, Goto, TypeOK
  <2>9. CASE FailsEarly(e)
    BY <1>2, <2>1, <2>9, RunnersTyped DEF FailsEarly, TypeOK
  <2> QED
    BY <1>2, <2>3, <2>4, <2>5, <2>6, <2>7, <2>8, <2>9 DEF Step
<1> QED
  BY <1>1, <1>2 DEF Next

\* What the variables range over.
THEOREM TypeCorrectness == Spec => []TypeOK
<1>1. Init => TypeOK
  BY DEF Init, TypeOK
<1> QED
  BY <1>1, TypeNext, PTL DEF Spec

-----------------------------------------------------------------------------
(***************************************************************************)
(* First inductive invariant: what the log of a transaction holds at every *)
(* place, and that it agrees with what is durable.  An open transaction    *)
(* has applied what it has recorded, once, except the migration at hand;   *)
(* the rows it is going to add are new; and where a migration cannot be    *)
(* applied twice, nobody else has touched it, and it was not applied (or   *)
(* applied) when it was.                                                   *)
(***************************************************************************)
LEMMA RowsAreFinite == ASSUME NEW S \in SUBSET Rows PROVE IsFiniteSet(S)
<1>1. IsFiniteSet(1..MaxRecords) /\ IsFiniteSet(Migrations)
  BY FS_Interval, MigrationAssumption DEF Migrations
<1>2. IsFiniteSet((1..MaxRecords) \X Migrations)
  BY <1>1, FS_Product
<1> DEFINE RowOf == [p \in (1..MaxRecords) \X Migrations |-> [id |-> p[1], name |-> p[2]]]
<1>3. RowOf \in Surjection((1..MaxRecords) \X Migrations, Rows)
  <2>1. RowOf \in [(1..MaxRecords) \X Migrations -> Rows]
    BY DEF Rows
  <2>2. ASSUME NEW row \in Rows
        PROVE  \E p \in (1..MaxRecords) \X Migrations : RowOf[p] = row
    <3>1. /\ <<row.id, row.name>> \in (1..MaxRecords) \X Migrations
          /\ RowOf[<<row.id, row.name>>] = row
      BY DEF Rows
    <3> QED
      BY <3>1
  <2> QED
    BY <2>1, <2>2 DEF Surjection
<1>4. IsFiniteSet(Rows)
  BY <1>2, <1>3, FS_Surjection
<1> QED
  BY <1>4, FS_Subset

RowsOf(m) == {row \in records : row.name = m}

Inserted(S) == {row \in Rows : <<"insert", row>> \in S}

Names(S) == {row.name : row \in Inserted(S)}

NoDown(S) == \A m \in Migrations : <<"down", m>> \notin S

Balanced(S) ==
  \A m \in Migrations :
    /\ <<"up", m>> \in S <=> \E row \in Rows : <<"insert", row>> \in S /\ row.name = m
    /\ <<"down", m>> \in S <=> <<"delete", m>> \in S
    /\ ~(<<"up", m>> \in S /\ <<"down", m>> \in S)
    /\ \A row, other \in Inserted(S) : row.name = m /\ other.name = m => row = other

LogSound(e) ==
  /\ ~inTx[e] \/ pc[e] \in {"idle", "down"} => log[e] = {}
  /\ pc[e] \in {"up", "commit"} => Balanced(log[e])
  /\ pc[e] = "recordUp" /\ inTx[e] => /\ <<"up", Current(e)>> \in log[e]
                                      /\ Balanced(log[e] \ {<<"up", Current(e)>>})
  /\ pc[e] = "recordDown" /\ inTx[e] => log[e] = {<<"down", Current(e)>>}
  /\ pc[e] \in {"up", "recordUp"} \/ (pc[e] = "commit" /\ ~IsLast(e)) => NoDown(log[e])
  /\ pc[e] \in {"up", "recordUp", "commit"} =>
       \A m \in Migrations : <<"up", m>> \in log[e] => m \notin pending[e] \/ (m = Current(e) /\ pc[e] # "up")
  /\ options.undoing \/ NoDown(log[e])

TransactionSound(e) ==
  /\ pc[e] = "idle" => ~inTx[e]
  /\ pc[e] = "up" /\ options.transaction # "all" => ~inTx[e]
  /\ pc[e] # "idle" /\ options.transaction = "all" => inTx[e]
  /\ pc[e] = "recordUp" /\ OwnTransaction(Current(e)) => inTx[e]
  /\ pc[e] \in {"down", "recordDown"} => /\ options.undoing /\ pending[e] = {Current(e)}
                                         /\ (inTx[e] <=> options.transaction # "none")

Touches(e, m) == <<"up", m>> \in log[e] \/ <<"down", m>> \in log[e]

AppliedSound ==
  \A m \in options.exclusive :
    /\ applied[m] \in {0, 1}
    /\ \A e \in Executors : /\ <<"up", m>> \in log[e] => applied[m] = 0
                            /\ <<"down", m>> \in log[e] => applied[m] = 1
    /\ \A d, e \in Executors : Touches(d, m) /\ Touches(e, m) => d = e

RowsApart ==
  \A e \in Executors : /\ Inserted(log[e]) \cap records = {}
                       /\ \A d \in Executors \ {e} : Inserted(log[d]) \cap Inserted(log[e]) = {}

TruthInv ==
  /\ TypeOK /\ RecordsTellTheTruth /\ AppliedSound /\ RowsApart
  /\ \A e \in Executors : LogSound(e) /\ TransactionSound(e)

-----------------------------------------------------------------------------
(***************************************************************************)
(* How the statements of one executor keep it.                             *)
(***************************************************************************)

\* What a step of e leaves alone.
OnlyOf(e) ==
  /\ options' = options
  /\ \A d \in Executors \ {e} : /\ pc'[d] = pc[d] /\ pending'[d] = pending[d]
                                /\ inTx'[d] = inTx[d] /\ log'[d] = log[d]

LEMMA OthersAreSound ==
  ASSUME NEW e \in Executors, OnlyOf(e), NEW d \in Executors, d # e, LogSound(d), TransactionSound(d)
  PROVE  LogSound(d)' /\ TransactionSound(d)'
BY DEF OnlyOf, LogSound, TransactionSound, Current, IsLast, OwnTransaction

\* Nothing new is touched.
LEMMA SameApplied ==
  ASSUME TypeOK, NEW e \in Executors, OnlyOf(e), AppliedSound, applied' = applied,
         \A m \in Migrations : /\ <<"up", m>> \in log'[e] => <<"up", m>> \in log[e]
                               /\ <<"down", m>> \in log'[e] => <<"down", m>> \in log[e]
  PROVE  AppliedSound'
<1>1. \A d \in Executors, m \in Migrations : /\ <<"up", m>> \in log'[d] => <<"up", m>> \in log[d]
                                             /\ <<"down", m>> \in log'[d] => <<"down", m>> \in log[d]
  BY DEF OnlyOf
<1>2. options'.exclusive = options.exclusive /\ options.exclusive \subseteq Migrations
  BY MigrationAssumption DEF OnlyOf, TypeOK, OptionsType
<1>3. ASSUME NEW m \in options.exclusive
      PROVE  /\ applied'[m] \in {0, 1}
             /\ \A d \in Executors : /\ <<"up", m>> \in log'[d] => applied'[m] = 0
                                     /\ <<"down", m>> \in log'[d] => applied'[m] = 1
             /\ \A d, f \in Executors : Touches(d, m)' /\ Touches(f, m)' => d = f
  <2>1. m \in Migrations
    BY <1>2
  <2>2. \A d \in Executors : Touches(d, m)' => Touches(d, m)
    BY <1>1, <2>1 DEF Touches
  <2> QED
    BY <1>1, <2>1, <2>2 DEF AppliedSound
<1> QED
  BY <1>2, <1>3 DEF AppliedSound

\* e touches c in its transaction, which nobody has if it is exclusive.
LEMMA TouchedInside ==
  ASSUME TypeOK, NEW e \in Executors, OnlyOf(e), AppliedSound, applied' = applied, NEW c \in Migrations,
         c \in options.exclusive => \A d \in Executors : ~Touches(d, c),
         \/ log'[e] = log[e] \cup {<<"up", c>>} /\ (c \in options.exclusive => applied[c] = 0)
         \/ log'[e] = log[e] \cup {<<"down", c>>} /\ (c \in options.exclusive => applied[c] = 1)
  PROVE  AppliedSound'
<1>1. \A d \in Executors, m \in Migrations \ {c} :
         /\ <<"up", m>> \in log'[d] <=> <<"up", m>> \in log[d]
         /\ <<"down", m>> \in log'[d] <=> <<"down", m>> \in log[d]
  BY DEF OnlyOf
<1>2. c \in options.exclusive =>
        /\ \A d \in Executors \ {e} : <<"up", c>> \notin log'[d] /\ <<"down", c>> \notin log'[d]
        /\ <<"up", c>> \in log'[e] => applied[c] = 0
        /\ <<"down", c>> \in log'[e] => applied[c] = 1
  BY DEF OnlyOf, Touches
<1>3. options'.exclusive = options.exclusive /\ options.exclusive \subseteq Migrations
  BY MigrationAssumption DEF OnlyOf, TypeOK, OptionsType
<1> QED
  BY <1>1, <1>2, <1>3 DEF AppliedSound, Touches

\* It does so outside a transaction.
LEMMA TouchedOutside ==
  ASSUME TypeOK, log' = log, options' = options, AppliedSound, NEW c \in Migrations,
         c \in options.exclusive => /\ \A d \in Executors : ~Touches(d, c)
                                    /\ applied'[c] \in {0, 1},
         \A m \in Migrations \ {c} : applied'[m] = applied[m]
  PROVE  AppliedSound'
<1>1. options.exclusive \subseteq Migrations
  BY MigrationAssumption DEF TypeOK, OptionsType
<1> QED
  BY <1>1 DEF AppliedSound, Touches

\* What an executor touches commits.
LEMMA CommittedApplied ==
  ASSUME TypeOK, NEW e \in Executors, OnlyOf(e), AppliedSound, Perform(log[e]), log'[e] = {}
  PROVE  AppliedSound'
<1> SUFFICES ASSUME NEW m \in options.exclusive
             PROVE  /\ applied'[m] \in {0, 1}
                    /\ \A d \in Executors : /\ <<"up", m>> \in log'[d] => applied'[m] = 0
                                            /\ <<"down", m>> \in log'[d] => applied'[m] = 1
                    /\ \A d1, d2 \in Executors : Touches(d1, m)' /\ Touches(d2, m)' => d1 = d2
  BY DEF AppliedSound, OnlyOf
<1>1. applied'[m] = applied[m] + Change(m, log[e])
  BY MigrationAssumption DEF Perform, TypeOK, OptionsType
<1>2. \A d \in Executors : log'[d] = log[d] \/ log'[d] = {}
  BY DEF OnlyOf
<1>3. /\ applied[m] \in {0, 1}
      /\ <<"up", m>> \in log[e] => applied[m] = 0
      /\ <<"down", m>> \in log[e] => applied[m] = 1
      /\ \A d1, d2 \in Executors : Touches(d1, m) /\ Touches(d2, m) => d1 = d2
  BY DEF AppliedSound
<1>4. CASE ~Touches(e, m)
  <2>1. applied'[m] = applied[m]
    BY <1>1, <1>3, <1>4 DEF Change, Touches
  <2> QED
    BY <1>2, <1>3, <2>1 DEF AppliedSound, Touches
<1>5. CASE Touches(e, m)
  <2>1. applied'[m] \in {0, 1}
    BY <1>1, <1>3, <1>5 DEF Change, Touches
  <2>2. \A d \in Executors : <<"up", m>> \notin log'[d] /\ <<"down", m>> \notin log'[d]
    BY <1>3, <1>5 DEF OnlyOf, Touches
  <2> QED
    BY <2>1, <2>2 DEF Touches
<1> QED
  BY <1>4, <1>5

\* e inserts a new row, or none.
LEMMA RowsStayApart ==
  ASSUME NEW e \in Executors, OnlyOf(e), RowsApart,
         NEW new \in SUBSET Rows, new \cap Written = {},
         Inserted(log'[e]) \subseteq Inserted(log[e]) \cup new,
         \/ records' \subseteq records
         \/ records' \subseteq records \cup Inserted(log[e]) \cup new /\ Inserted(log'[e]) = {}
  PROVE  RowsApart'
<1>1. \A d \in Executors : Inserted(log[d]) \subseteq Written /\ records \subseteq Written
  BY DEF Inserted, Written
<1>2. \A d \in Executors \ {e} : Inserted(log'[d]) = Inserted(log[d])
  BY DEF OnlyOf, Inserted
<1>3. \A d \in Executors \ {e} : /\ Inserted(log[d]) \cap (Inserted(log[e]) \cup new) = {}
                                 /\ Inserted(log[d]) \cap records = {}
  BY <1>1 DEF RowsApart
<1>4. (Inserted(log[e]) \cup new) \cap records = {}
  BY <1>1 DEF RowsApart
<1>5. \A d, f \in Executors \ {e} : d # f => Inserted(log[d]) \cap Inserted(log[f]) = {}
  BY DEF RowsApart
<1>6. \A d \in Executors \ {e} : /\ Inserted(log'[d]) \cap records' = {}
                                 /\ Inserted(log'[d]) \cap Inserted(log'[e]) = {}
  BY <1>2, <1>3
<1>7. Inserted(log'[e]) \cap records' = {}
  BY <1>4
<1> HIDE DEF Inserted
<1>8. ASSUME NEW d \in Executors, NEW f \in Executors \ {d}
      PROVE  Inserted(log'[f]) \cap Inserted(log'[d]) = {}
  BY <1>2, <1>5, <1>6, <1>8
<1> QED
  BY <1>6, <1>7, <1>8 DEF RowsApart, Inserted

LEMMA TruthOfOne ==
  ASSUME TruthInv, NEW e \in Executors, OnlyOf(e), TypeOK', AppliedSound', RecordsTellTheTruth', RowsApart',
         LogSound(e)', TransactionSound(e)'
  PROVE  TruthInv'
BY OthersAreSound DEF TruthInv

\* A step that changes nothing durable and writes nothing.
LEMMA TruthOfSilent ==
  ASSUME TruthInv, NEW e \in Executors, OnlyOf(e), TypeOK', UNCHANGED <<records, applied>>,
         log'[e] = log[e] \/ log'[e] = {}, LogSound(e)', TransactionSound(e)'
  PROVE  TruthInv'
<1>1. AppliedSound'
  BY SameApplied DEF TruthInv
<1>2. RecordsTellTheTruth'
  BY DEF TruthInv, RecordsTellTheTruth, OwnTransaction, OnlyOf
<1>3. RowsApart'
  <2>1. Inserted(log'[e]) \subseteq Inserted(log[e]) \cup {}
    BY DEF Inserted
  <2>2. {} \cap Written = {} /\ {} \in SUBSET Rows
    OBVIOUS
  <2> QED
    BY <2>1, <2>2, RowsStayApart DEF TruthInv
<1> QED
  BY <1>1, <1>2, <1>3, TruthOfOne

-----------------------------------------------------------------------------
(***************************************************************************)
(* The steps.                                                              *)
(***************************************************************************)

\* Where migrations are undone, none of them can be applied twice.
UndoneOnce == \A o \in Options : o.undoing => o.exclusive = Migrations

\* Who undoes without transactions has no migrations that ask for one.
UndoneAsDone == \A o \in Options : o.undoing /\ o.transaction = "none" => o.on = {}

LEMMA ExecutePendingKeepsTruth ==
  ASSUME TruthInv, TypeOK', NEW e \in Executors, ExecutePending(e), options' = options
  PROVE  TruthInv'
<1>1. TypeOK /\ LogSound(e) /\ TransactionSound(e) /\ pc[e] = "idle"
  BY DEF TruthInv, ExecutePending
<1>2. OnlyOf(e) /\ log' = log /\ UNCHANGED <<records, applied>>
  BY <1>1 DEF ExecutePending, OnlyOf, Goto, TypeOK
<1>3. log[e] = {} /\ ~inTx[e]
  BY <1>1 DEF LogSound, TransactionSound
<1>4. CASE UNCHANGED <<pc, pending, inTx>>
  <2>1. LogSound(e)' /\ TransactionSound(e)'
    BY <1>1, <1>2, <1>4 DEF LogSound, TransactionSound, OnlyOf
  <2> QED
    BY <1>2, <2>1, TruthOfSilent
<1>5. CASE /\ pc' = [pc EXCEPT ![e] = "up"]
           /\ pending' = [pending EXCEPT ![e] = Migrations \ Recorded]
           /\ inTx' = [inTx EXCEPT ![e] = options.transaction = "all"]
  <2>1. pc'[e] = "up" /\ inTx'[e] = (options.transaction = "all") /\ log'[e] = {} /\ options' = options
    BY <1>1, <1>2, <1>3, <1>5 DEF TypeOK
  <2>2. LogSound(e)' /\ TransactionSound(e)'
    BY <2>1 DEF LogSound, TransactionSound, Balanced, NoDown, Inserted
  <2> QED
    BY <1>2, <2>2, TruthOfSilent
<1> QED
  BY <1>4, <1>5 DEF ExecutePending, Goto

LEMMA UndoLastKeepsTruth ==
  ASSUME TruthInv, TypeOK', NEW e \in Executors, UndoLast(e), options' = options
  PROVE  TruthInv'
<1>1. TypeOK /\ LogSound(e) /\ TransactionSound(e) /\ pc[e] = "idle" /\ options.undoing
  BY DEF TruthInv, UndoLast
<1>2. PICK row \in records : pending' = [pending EXCEPT ![e] = {row.name}]
  BY DEF UndoLast
<1>3. /\ OnlyOf(e) /\ log' = log /\ UNCHANGED <<records, applied>>
      /\ pc'[e] = "down" /\ inTx'[e] = (options.transaction # "none") /\ pending'[e] = {row.name}
      /\ row.name \in Migrations
  BY <1>1, <1>2 DEF UndoLast, OnlyOf, Goto, TypeOK, Rows
<1>4. log[e] = {}
  BY <1>1 DEF LogSound
<1>5. Current(e)' = row.name
  BY <1>3, MinIsSmallest DEF Current
<1>6. LogSound(e)' /\ TransactionSound(e)'
  BY <1>1, <1>3, <1>4, <1>5 DEF LogSound, TransactionSound, OnlyOf
<1> QED
  BY <1>3, <1>6, TruthOfSilent

LEMMA EndsKeepTruth ==
  ASSUME TruthInv, TypeOK', NEW e \in Executors,
         FailsEarly(e) \/ Fails(e) \/ GiveUp(e) \/ Crash(e), options' = options
  PROVE  TruthInv'
<1>1. TypeOK /\ LogSound(e) /\ TransactionSound(e)
  BY DEF TruthInv
<1>2. CASE Fails(e)
  <2>1. /\ OnlyOf(e) /\ log' = log /\ inTx' = inTx /\ pending' = pending /\ UNCHANGED <<records, applied>>
        /\ pc'[e] = "failed" /\ pc[e] \notin {"idle", "failed"}
    BY <1>1, <1>2 DEF Fails, OnlyOf, Goto, TypeOK
  <2>2. LogSound(e)' /\ TransactionSound(e)'
    BY <1>1, <2>1 DEF LogSound, TransactionSound, OnlyOf
  <2> QED
    BY <2>1, <2>2, TruthOfSilent
<1>3. CASE GiveUp(e) \/ Crash(e)
  <2>1. /\ OnlyOf(e) /\ log'[e] = {} /\ inTx'[e] = FALSE /\ UNCHANGED <<records, applied>>
        /\ pc'[e] = "idle"
    BY <1>1, <1>3 DEF GiveUp, Crash, Rollback, OnlyOf, Goto, TypeOK
  <2>2. LogSound(e)' /\ TransactionSound(e)'
    BY <2>1 DEF LogSound, TransactionSound, OnlyOf, NoDown
  <2> QED
    BY <2>1, <2>2, TruthOfSilent
<1>4. CASE FailsEarly(e)
  <2>1. OnlyOf(e) /\ UNCHANGED <<records, applied, pc, pending, inTx, log>>
    BY <1>4 DEF FailsEarly, OnlyOf
  <2>2. LogSound(e)' /\ TransactionSound(e)'
    BY <1>1, <2>1 DEF LogSound, TransactionSound, OnlyOf, Current, IsLast, OwnTransaction
  <2> QED
    BY <2>1, <2>2, TruthOfSilent
<1> QED
  BY <1>2, <1>3, <1>4

\* Where up() or down() succeeds, nobody has touched c, if it is exclusive.
LEMMA Untouched ==
  ASSUME TypeOK, AppliedSound, NEW e \in Executors, NEW c \in Migrations, ~Blocked(e, c),
         NEW transaction, NEW expected \in {0, 1}, ~Refused(e, c, transaction, expected),
         NoDown(log[e]) \/ log[e] = {}, expected = 1 => log[e] = {}
  PROVE  c \in options.exclusive => applied[c] = expected /\ \A d \in Executors : ~Touches(d, c)
<1> SUFFICES ASSUME c \in options.exclusive
             PROVE  applied[c] = expected /\ \A d \in Executors : ~Touches(d, c)
  OBVIOUS
<1>1. applied[c] \in {0, 1} /\ applied[c] + Change(c, log[e]) = expected
  BY DEF Refused, Seen, AppliedSound
<1>2. ~Touches(e, c)
  BY <1>1 DEF AppliedSound, Touches, NoDown, Change
<1>3. applied[c] = expected
  BY <1>1, <1>2 DEF Change, Touches
<1> QED
  BY <1>2, <1>3 DEF Blocked, Touches

LEMMA UpKeepsTruth ==
  ASSUME TruthInv, TypeOK', NEW e \in Executors, Up(e), options' = options
  PROVE  TruthInv'
<1> DEFINE c == Current(e)
<1>1. TypeOK /\ LogSound(e) /\ TransactionSound(e) /\ AppliedSound /\ pc[e] = "up" /\ c \in Migrations
  BY CurrentIsSmallest DEF TruthInv, Up, TypeOK
<1>2. OnlyOf(e) /\ pending' = pending /\ Current(e)' = c /\ UpTransaction(e) \in BOOLEAN
  BY <1>1 DEF Up, OnlyOf, Goto, TypeOK, Run, Current, UpTransaction, OwnTransaction
<1>3. Balanced(log[e]) /\ NoDown(log[e]) /\ (~inTx[e] => log[e] = {})
  BY <1>1 DEF LogSound
<1>4. CASE Refused(e, c, UpTransaction(e), 0)
  <2>1. /\ pc'[e] = "failed" /\ log' = log /\ UNCHANGED <<records, applied>> /\ inTx'[e] = UpTransaction(e)
    BY <1>1, <1>4 DEF Up, Goto, TypeOK
  <2>2. LogSound(e)' /\ TransactionSound(e)'
    BY <1>1, <1>2, <2>1 DEF LogSound, TransactionSound, OnlyOf, UpTransaction
  <2> QED
    BY <1>2, <2>1, <2>2, TruthOfSilent
<1>5. CASE ~Refused(e, c, UpTransaction(e), 0)
  <2>1. Run(e, <<"up", c>>, UpTransaction(e)) /\ pc' = [pc EXCEPT ![e] = "recordUp"] /\ runners' = runners
    BY <1>5 DEF Up, Goto
  <2>2. c \in options.exclusive => applied[c] = 0 /\ \A d \in Executors : ~Touches(d, c)
    BY <1>1, <1>3, <1>5, Untouched DEF Up
  <2>3. <<"up", c>> \notin log[e]
    BY <1>1, CurrentIsSmallest DEF LogSound, TypeOK
  <2>4. CASE UpTransaction(e)
    <3>1. /\ log' = [log EXCEPT ![e] = log[e] \cup {<<"up", c>>}] /\ inTx' = [inTx EXCEPT ![e] = TRUE]
          /\ UNCHANGED <<records, applied>>
      BY <2>1, <2>4 DEF Run
    <3>2. log'[e] = log[e] \cup {<<"up", c>>} /\ inTx'[e] = TRUE /\ pc'[e] = "recordUp"
      BY <1>1, <2>1, <3>1 DEF TypeOK
    <3>3. AppliedSound'
      BY <1>1, <1>2, <2>2, <3>1, <3>2, TouchedInside
    <3>4. log'[e] \ {<<"up", c>>} = log[e]
      BY <1>1, <2>3, <3>2
    <3>5. LogSound(e)' /\ TransactionSound(e)'
      <4>1. \A m \in Migrations : <<"up", m>> \in log'[e] => m \notin pending'[e] \/ m = Current(e)'
        BY <1>1, <1>2, <3>2 DEF LogSound
      <4> QED
        BY <1>2, <1>3, <3>2, <3>4, <4>1 DEF LogSound, TransactionSound, NoDown, OnlyOf
    <3>6. RecordsTellTheTruth' /\ RowsApart'
      <4>1. Inserted(log'[e]) \subseteq Inserted(log[e]) \cup {}
        BY <3>2 DEF Inserted
      <4>2. {} \cap Written = {} /\ {} \in SUBSET Rows
        OBVIOUS
      <4>3. RowsApart'
        BY <1>2, <3>1, <4>1, <4>2, RowsStayApart DEF TruthInv
      <4> QED
        BY <1>2, <3>1, <4>3 DEF TruthInv, RecordsTellTheTruth, OwnTransaction, OnlyOf
    <3> QED
      BY <1>2, <3>3, <3>5, <3>6, TruthOfOne
  <2>5. CASE ~UpTransaction(e)
    <3>1. inTx' = [inTx EXCEPT ![e] = UpTransaction(e)] /\ log' = log /\ Perform({<<"up", c>>})
      BY <2>1, <2>5 DEF Run
    <3>2. /\ applied' = [m \in Migrations |-> applied[m] + Change(m, {<<"up", c>>})]
          /\ records' = records
      BY <3>1 DEF Perform
    <3>3. /\ c \in options.exclusive => applied'[c] = 1
          /\ \A m \in Migrations \ {c} : applied'[m] = applied[m]
      BY <1>1, <2>2, <3>2 DEF Change, TypeOK
    <3>4. ~inTx[e] /\ ~inTx'[e] /\ ~OwnTransaction(c) /\ options.transaction # "all" /\ pc'[e] = "recordUp"
      BY <1>1, <2>1, <2>5, <3>1 DEF UpTransaction, TransactionSound, TypeOK
    <3>5. AppliedSound'
      BY <1>1, <1>2, <2>2, <3>1, <3>3, TouchedOutside DEF OnlyOf
    <3>6. LogSound(e)' /\ TransactionSound(e)'
      BY <1>1, <1>2, <1>3, <3>1, <3>4 DEF LogSound, TransactionSound, NoDown, OwnTransaction, OnlyOf
    <3>7. RecordsTellTheTruth' /\ RowsApart'
      <4>1. RecordsTellTheTruth'
        BY <1>2, <3>2, <3>3, <3>4 DEF TruthInv, RecordsTellTheTruth, OwnTransaction, OnlyOf
      <4> QED
        BY <3>1, <3>2, <4>1 DEF TruthInv, RowsApart
    <3> QED
      BY <1>2, <3>5, <3>6, <3>7, TruthOfOne
  <2> QED
    BY <2>4, <2>5
<1> QED
  BY <1>4, <1>5

LEMMA RecordUpKeepsTruth ==
  ASSUME TruthInv, TypeOK', NEW e \in Executors, RecordUp(e), options' = options
  PROVE  TruthInv'
<1> DEFINE c == Current(e)
<1>1. TypeOK /\ LogSound(e) /\ TransactionSound(e) /\ AppliedSound /\ pc[e] = "recordUp" /\ c \in Migrations
  BY CurrentIsSmallest DEF TruthInv, RecordUp, TypeOK
<1>2. PICK row \in Rows : /\ row.name = c /\ \A old \in Written : old.id < row.id
                          /\ Run(e, <<"insert", row>>, inTx[e])
  BY DEF RecordUp, NewRow
<1>3. /\ OnlyOf(e) /\ pending' = pending /\ Current(e)' = c /\ runners' = runners
      /\ pc' = [pc EXCEPT ![e] = "commit"] /\ pc'[e] = "commit" /\ inTx' = inTx
  BY <1>1, <1>2 DEF RecordUp, OnlyOf, Goto, TypeOK, Run, Current
<1>4. NoDown(log[e]) /\ (~inTx[e] => log[e] = {})
  BY <1>1 DEF LogSound
<1>5. {row} \cap Written = {} /\ {row} \in SUBSET Rows
  <2>1. row.id \in Int
    BY <1>2, MigrationAssumption DEF Rows
  <2> QED
    BY <1>2, <2>1
<1>6. CASE inTx[e]
  <2>1. log' = [log EXCEPT ![e] = log[e] \cup {<<"insert", row>>}] /\ UNCHANGED <<records, applied>>
    BY <1>2, <1>6 DEF Run
  <2>2. log'[e] = log[e] \cup {<<"insert", row>>} /\ Inserted(log'[e]) = Inserted(log[e]) \cup {row}
    BY <1>1, <1>2, <2>1 DEF TypeOK, Inserted
  <2>3. AppliedSound'
    BY <1>1, <1>3, <2>1, <2>2, SameApplied
  <2>4. <<"up", c>> \in log[e] /\ Balanced(log[e] \ {<<"up", c>>})
    BY <1>1, <1>6 DEF LogSound
  <2>5. Balanced(log'[e]) /\ NoDown(log'[e])
    <3>1. NoDown(log'[e])
      BY <1>4, <2>2 DEF NoDown
    <3>2. ASSUME NEW m \in Migrations
          PROVE  /\ <<"up", m>> \in log'[e] <=> \E r \in Rows : <<"insert", r>> \in log'[e] /\ r.name = m
                 /\ \A r, other \in Inserted(log'[e]) : r.name = m /\ other.name = m => r = other
      <4>1. Inserted(log[e]) = Inserted(log[e] \ {<<"up", c>>})
        BY DEF Inserted
      <4>2. CASE m = c
        <5>1. \A r \in Inserted(log[e]) : r.name # c
          BY <2>4, <4>1, <4>2 DEF Balanced, Inserted
        <5>2. <<"insert", row>> \in log'[e] /\ <<"up", m>> \in log'[e]
          BY <2>2, <2>4, <4>2
        <5>3. \A r, other \in Inserted(log'[e]) : r.name = m /\ other.name = m => r = other
          BY <2>2, <4>2, <5>1
        <5> QED
          BY <1>2, <4>2, <5>2, <5>3
      <4>3. CASE m # c
        <5>1. <<"up", m>> \in log'[e] <=> <<"up", m>> \in log[e] \ {<<"up", c>>}
          BY <2>2, <4>3
        <5>2. \A r \in Rows : r.name = m =>
                (<<"insert", r>> \in log'[e] <=> <<"insert", r>> \in log[e] \ {<<"up", c>>})
          BY <1>2, <2>2, <4>3
        <5>3. \A r, other \in Inserted(log'[e]) : r.name = m /\ other.name = m => r = other
          BY <1>2, <2>2, <2>4, <4>1, <4>3 DEF Balanced
        <5> QED
          BY <2>4, <5>1, <5>2, <5>3 DEF Balanced
      <4> QED
        BY <4>2, <4>3
    <3>3. \A m \in Migrations : <<"delete", m>> \in log'[e] => <<"down", m>> \in log'[e]
      BY <2>2, <2>4 DEF Balanced
    <3> QED
      BY <3>1, <3>2, <3>3 DEF Balanced, NoDown
  <2>6. \A m \in Migrations : <<"up", m>> \in log'[e] => m \notin pending'[e] \/ m = Current(e)'
    BY <1>1, <1>3, <2>2 DEF LogSound
  <2>7. LogSound(e)' /\ TransactionSound(e)'
    BY <1>1, <1>3, <1>6, <2>5, <2>6 DEF LogSound, TransactionSound, OnlyOf
  <2>8. RecordsTellTheTruth' /\ RowsApart'
    <3>1. RowsApart'
      BY <1>3, <1>5, <2>1, <2>2, RowsStayApart DEF TruthInv
    <3> QED
      BY <1>3, <2>1, <3>1 DEF TruthInv, RecordsTellTheTruth, OwnTransaction, OnlyOf
  <2> QED
    BY <1>3, <2>3, <2>7, <2>8, TruthOfOne
<1>7. CASE ~inTx[e]
  <2>1. log' = log /\ Perform({<<"insert", row>>}) /\ log'[e] = {}
    BY <1>2, <1>4, <1>7 DEF Run
  <2>2. records' = records \cup {row} /\ applied' = applied
    BY <1>1, <2>1 DEF Perform, Change, TypeOK
  <2>3. ~OwnTransaction(c) /\ options.transaction # "all"
    BY <1>1, <1>7 DEF TransactionSound
  <2>4. AppliedSound'
    BY <1>1, <1>3, <2>1, <2>2, SameApplied
  <2>5. LogSound(e)' /\ TransactionSound(e)'
    BY <1>1, <1>3, <1>7, <2>1, <2>3 DEF LogSound, TransactionSound, OnlyOf, Balanced, NoDown, Inserted
  <2>6. RecordsTellTheTruth'
    <3>1. \A m \in Migrations \ {c} : RowsOf(m)' = RowsOf(m)
      BY <1>2, <2>2 DEF RowsOf
    <3> QED
      BY <1>3, <2>2, <2>3, <3>1 DEF TruthInv, RecordsTellTheTruth, OwnTransaction, OnlyOf, RowsOf
  <2>7. RowsApart'
    <3>1. Inserted(log'[e]) = {} /\ records' \subseteq records \cup Inserted(log[e]) \cup {row}
      BY <2>1, <2>2 DEF Inserted
    <3> QED
      BY <1>3, <1>5, <3>1, RowsStayApart DEF TruthInv
  <2> QED
    BY <1>3, <2>4, <2>5, <2>6, <2>7, TruthOfOne
<1> QED
  BY <1>6, <1>7

LEMMA CommitKeepsTruth ==
  ASSUME UndoneOnce, TruthInv, TypeOK', NEW e \in Executors, Commit(e), options' = options
  PROVE  TruthInv'
<1>1. TypeOK /\ LogSound(e) /\ TransactionSound(e) /\ AppliedSound /\ pc[e] = "commit"
  BY DEF TruthInv, Commit
<1>2. pending[e] # {} /\ Current(e) \in pending[e]
  BY <1>1, CurrentIsSmallest DEF TypeOK
<1>3. /\ Balanced(log[e]) /\ (~inTx[e] => log[e] = {}) /\ (~IsLast(e) => NoDown(log[e]))
  BY <1>1 DEF LogSound
<1>4. /\ OnlyOf(e) /\ pending'[e] = pending[e] \ {Current(e)}
      /\ pc'[e] = IF IsLast(e) THEN "idle" ELSE "up"
  BY <1>1 DEF Commit, CommitTx, OnlyOf, Goto, TypeOK
<1>5. CASE Commits(e)
  <2>1. Perform(log[e]) /\ log' = [log EXCEPT ![e] = {}] /\ inTx' = [inTx EXCEPT ![e] = FALSE]
    BY <1>5 DEF Commit, CommitTx
  <2>2. log'[e] = {} /\ inTx'[e] = FALSE
    BY <1>1, <2>1 DEF TypeOK
  <2>3. AppliedSound'
    BY <1>1, <1>4, <2>1, <2>2, CommittedApplied
  <2>4. LogSound(e)' /\ TransactionSound(e)'
    BY <1>4, <1>5, <2>2 DEF LogSound, TransactionSound, Balanced, NoDown, OnlyOf, Commits, Inserted
  <2>5. RecordsTellTheTruth'
    <3> SUFFICES ASSUME NEW m \in Migrations, options.transaction = "all" \/ OwnTransaction(m)
                 PROVE  /\ applied'[m] = Cardinality(RowsOf(m)')
                        /\ m \in options.exclusive => applied'[m] \in {0, 1}
      BY <1>4 DEF RecordsTellTheTruth, OwnTransaction, OnlyOf, RowsOf
    <3>1. /\ applied[m] = Cardinality(RowsOf(m)) /\ applied[m] \in Int
          /\ applied'[m] = applied[m] + Change(m, log[e])
      BY <1>1, <2>1 DEF TruthInv, RecordsTellTheTruth, RowsOf, TypeOK, Perform
    <3>2. RowsOf(m)' = IF <<"delete", m>> \in log[e] THEN {row \in Inserted(log[e]) : row.name = m}
                                                      ELSE RowsOf(m) \cup {row \in Inserted(log[e]) : row.name = m}
      BY <2>1 DEF RowsOf, Perform, Inserted
    <3>3. m \in options.exclusive => applied'[m] \in {0, 1}
      BY <1>4, <2>3 DEF AppliedSound, OnlyOf
    <3>4. CASE <<"up", m>> \in log[e]
      <4>1. <<"down", m>> \notin log[e] /\ <<"delete", m>> \notin log[e]
        BY <1>3, <3>4 DEF Balanced
      <4>2. PICK row \in Inserted(log[e]) : row.name = m
        BY <1>3, <3>4 DEF Balanced, Inserted
      <4>3. RowsOf(m)' = RowsOf(m) \cup {row}
        BY <1>3, <3>2, <4>1, <4>2 DEF Balanced
      <4>4. row \notin RowsOf(m)
        BY <4>2 DEF TruthInv, RowsApart, RowsOf
      <4>5. IsFiniteSet(RowsOf(m))
        BY <1>1, RowsAreFinite DEF TypeOK, RowsOf
      <4>6. Cardinality(RowsOf(m)') = Cardinality(RowsOf(m)) + 1
        BY <4>3, <4>4, <4>5, FS_AddElement
      <4>7. Change(m, log[e]) = 1
        BY <3>4, <4>1 DEF Change
      <4> QED
        BY <3>1, <3>3, <4>6, <4>7
    <3>5. CASE <<"down", m>> \in log[e]
      <4>1. <<"up", m>> \notin log[e] /\ <<"delete", m>> \in log[e]
        BY <1>3, <3>5 DEF Balanced
      <4>2. \A row \in Inserted(log[e]) : row.name # m
        BY <1>3, <4>1 DEF Balanced, Inserted
      <4>3. RowsOf(m)' = {} /\ Cardinality(RowsOf(m)') = 0
        BY <3>2, <4>1, <4>2, FS_EmptySet
      <4>4. options.undoing
        BY <1>1, <3>5 DEF LogSound, NoDown
      <4>5. m \in options.exclusive
        BY <1>1, <4>4 DEF UndoneOnce, TypeOK
      <4>6. applied[m] = 1 /\ Change(m, log[e]) = 0 - 1
        BY <1>1, <3>5, <4>1, <4>5 DEF AppliedSound, Change
      <4> QED
        BY <3>1, <3>3, <4>3, <4>6
    <3>6. CASE <<"up", m>> \notin log[e] /\ <<"down", m>> \notin log[e]
      <4>1. <<"delete", m>> \notin log[e] /\ \A row \in Inserted(log[e]) : row.name # m
        BY <1>3, <3>6 DEF Balanced, Inserted
      <4>2. RowsOf(m)' = RowsOf(m)
        BY <3>2, <4>1
      <4>3. Change(m, log[e]) = 0 - 0
        BY <3>6 DEF Change
      <4> QED
        BY <3>1, <3>3, <4>2, <4>3
    <3> QED
      BY <3>4, <3>5, <3>6
  <2>6. RowsApart'
    <3>1. Inserted(log'[e]) = {} /\ records' \subseteq records \cup Inserted(log[e]) \cup {}
      BY <2>1, <2>2 DEF Inserted, Perform
    <3>2. {} \cap Written = {} /\ {} \in SUBSET Rows
      OBVIOUS
    <3> QED
      BY <1>4, <3>1, <3>2, RowsStayApart DEF TruthInv
  <2> QED
    BY <1>4, <2>3, <2>4, <2>5, <2>6, TruthOfOne
<1>6. CASE ~Commits(e)
  <2>1. UNCHANGED <<records, applied, inTx, log>>
    BY <1>6 DEF Commit
  <2>2. IsLast(e) => ~inTx[e]
    BY <1>6 DEF Commits
  <2>3. options.transaction # "all" => ~inTx[e]
    BY <1>6 DEF Commits
  <2>4. \A m \in Migrations : <<"up", m>> \in log'[e] => m \notin pending'[e]
    BY <1>1, <1>4, <2>1 DEF LogSound
  <2>5. LogSound(e)' /\ TransactionSound(e)'
    BY <1>1, <1>3, <1>4, <2>1, <2>2, <2>3, <2>4 DEF LogSound, TransactionSound, OnlyOf
  <2> QED
    BY <1>4, <2>1, <2>5, TruthOfSilent
<1> QED
  BY <1>5, <1>6

LEMMA DownKeepsTruth ==
  ASSUME UndoneOnce, UndoneAsDone, TruthInv, TypeOK', NEW e \in Executors, Down(e), options' = options
  PROVE  TruthInv'
<1> DEFINE c == Current(e)
<1>1. TypeOK /\ LogSound(e) /\ TransactionSound(e) /\ AppliedSound /\ pc[e] = "down" /\ c \in Migrations
  BY CurrentIsSmallest DEF TruthInv, Down, TypeOK
<1>2. OnlyOf(e) /\ pending' = pending /\ Current(e)' = c
  BY <1>1 DEF Down, OnlyOf, Goto, TypeOK, Run, Current
<1>3. log[e] = {} /\ options.undoing /\ pending[e] = {c} /\ (inTx[e] <=> options.transaction # "none")
  BY <1>1 DEF LogSound, TransactionSound
<1>4. CASE Refused(e, c, inTx[e], 1)
  <2>1. pc'[e] = "failed" /\ UNCHANGED <<log, inTx, records, applied>>
    BY <1>1, <1>4 DEF Down, Goto, TypeOK
  <2>2. LogSound(e)' /\ TransactionSound(e)'
    BY <1>1, <1>2, <1>3, <2>1 DEF LogSound, TransactionSound, OnlyOf
  <2> QED
    BY <1>2, <2>1, <2>2, TruthOfSilent
<1>5. CASE ~Refused(e, c, inTx[e], 1)
  <2>1. Run(e, <<"down", c>>, inTx[e]) /\ pc' = [pc EXCEPT ![e] = "recordDown"] /\ runners' = runners
    BY <1>5 DEF Down, Goto
  <2>2. c \in options.exclusive /\ applied[c] = 1 /\ \A d \in Executors : ~Touches(d, c)
    <3>1. c \in options.exclusive
      BY <1>1, <1>3 DEF UndoneOnce, TypeOK
    <3> QED
      BY <1>1, <1>3, <1>5, <3>1, Untouched DEF Down
  <2>3. inTx' = inTx /\ pc'[e] = "recordDown"
    BY <1>1, <2>1 DEF TypeOK, Run
  <2>4. CASE inTx[e]
    <3>1. log' = [log EXCEPT ![e] = log[e] \cup {<<"down", c>>}] /\ UNCHANGED <<records, applied>>
      BY <2>1, <2>4 DEF Run
    <3>2. log'[e] = {<<"down", c>>} /\ log'[e] = log[e] \cup {<<"down", c>>}
      BY <1>1, <1>3, <3>1 DEF TypeOK
    <3>3. AppliedSound'
      BY <1>1, <1>2, <2>2, <3>1, <3>2, TouchedInside
    <3>4. LogSound(e)' /\ TransactionSound(e)'
      BY <1>1, <1>2, <1>3, <2>3, <2>4, <3>2 DEF LogSound, TransactionSound, OnlyOf
    <3>5. RecordsTellTheTruth' /\ RowsApart'
      <4>1. Inserted(log'[e]) \subseteq Inserted(log[e]) \cup {}
        BY <3>2 DEF Inserted
      <4>2. {} \cap Written = {} /\ {} \in SUBSET Rows
        OBVIOUS
      <4>3. RowsApart'
        BY <1>2, <3>1, <4>1, <4>2, RowsStayApart DEF TruthInv
      <4> QED
        BY <1>2, <3>1, <4>3 DEF TruthInv, RecordsTellTheTruth, OwnTransaction, OnlyOf
    <3> QED
      BY <1>2, <3>3, <3>4, <3>5, TruthOfOne
  <2>5. CASE ~inTx[e]
    <3>1. log' = log /\ Perform({<<"down", c>>})
      BY <2>1, <2>5 DEF Run
    <3>2. /\ applied' = [m \in Migrations |-> applied[m] + Change(m, {<<"down", c>>})]
          /\ records' = records
      BY <3>1 DEF Perform
    <3>3. applied'[c] = 0 /\ \A m \in Migrations \ {c} : applied'[m] = applied[m]
      BY <1>1, <2>2, <3>2 DEF Change, TypeOK
    <3>4. ~OwnTransaction(c) /\ options.transaction # "all"
      BY <1>1, <1>3, <2>5 DEF UndoneAsDone, OwnTransaction, TypeOK
    <3>5. AppliedSound'
      BY <1>1, <1>2, <2>2, <3>1, <3>3, TouchedOutside DEF OnlyOf
    <3>6. LogSound(e)' /\ TransactionSound(e)'
      BY <1>1, <1>2, <1>3, <2>3, <2>5, <3>1 DEF LogSound, TransactionSound, OnlyOf
    <3>7. RecordsTellTheTruth' /\ RowsApart'
      <4>1. RecordsTellTheTruth'
        BY <1>2, <3>2, <3>3, <3>4 DEF TruthInv, RecordsTellTheTruth, OwnTransaction, OnlyOf
      <4> QED
        BY <3>1, <3>2, <4>1 DEF TruthInv, RowsApart
    <3> QED
      BY <1>2, <3>5, <3>6, <3>7, TruthOfOne
  <2> QED
    BY <2>4, <2>5
<1> QED
  BY <1>4, <1>5

LEMMA RecordDownKeepsTruth ==
  ASSUME UndoneAsDone, TruthInv, TypeOK', NEW e \in Executors, RecordDown(e), options' = options
  PROVE  TruthInv'
<1> DEFINE c == Current(e)
<1>1. TypeOK /\ LogSound(e) /\ TransactionSound(e) /\ AppliedSound /\ pc[e] = "recordDown" /\ c \in Migrations
  BY CurrentIsSmallest DEF TruthInv, RecordDown, TypeOK
<1>2. /\ OnlyOf(e) /\ pending' = pending /\ Current(e)' = c /\ runners' = runners
      /\ pc' = [pc EXCEPT ![e] = "commit"] /\ pc'[e] = "commit" /\ inTx' = inTx
  BY <1>1 DEF RecordDown, OnlyOf, Goto, TypeOK, Run, Current
<1>3. options.undoing /\ pending[e] = {c} /\ (inTx[e] <=> options.transaction # "none")
  BY <1>1 DEF TransactionSound
<1>4. CASE inTx[e]
  <2>1. log' = [log EXCEPT ![e] = log[e] \cup {<<"delete", c>>}] /\ UNCHANGED <<records, applied>>
    BY <1>4 DEF RecordDown, Run
  <2>2. log[e] = {<<"down", c>>} /\ log'[e] = {<<"down", c>>, <<"delete", c>>}
    BY <1>1, <1>4, <2>1 DEF TypeOK, LogSound
  <2>3. AppliedSound'
    BY <1>1, <1>2, <2>1, <2>2, SameApplied
  <2>4. Balanced(log'[e])
    BY <2>2 DEF Balanced, Inserted
  <2>5. IsLast(e)'
    BY <1>2, <1>3 DEF IsLast
  <2>6. LogSound(e)' /\ TransactionSound(e)'
    BY <1>1, <1>2, <1>3, <1>4, <2>2, <2>4, <2>5 DEF LogSound, TransactionSound, OnlyOf
  <2>7. RecordsTellTheTruth' /\ RowsApart'
    <3>1. Inserted(log'[e]) \subseteq Inserted(log[e]) \cup {}
      BY <2>2 DEF Inserted
    <3>2. {} \cap Written = {} /\ {} \in SUBSET Rows
      OBVIOUS
    <3>3. RowsApart'
      BY <1>2, <2>1, <3>1, <3>2, RowsStayApart DEF TruthInv
    <3> QED
      BY <1>2, <2>1, <3>3 DEF TruthInv, RecordsTellTheTruth, OwnTransaction, OnlyOf
  <2> QED
    BY <1>2, <2>3, <2>6, <2>7, TruthOfOne
<1>5. CASE ~inTx[e]
  <2>1. log' = log /\ Perform({<<"delete", c>>}) /\ log[e] = {}
    BY <1>1, <1>5 DEF RecordDown, Run, LogSound
  <2>2. records' = {row \in records : row.name # c} /\ applied' = applied
    BY <1>1, <2>1 DEF Perform, Change, TypeOK
  <2>3. ~OwnTransaction(c) /\ options.transaction # "all"
    BY <1>1, <1>3, <1>5 DEF UndoneAsDone, OwnTransaction, TypeOK
  <2>4. AppliedSound'
    BY <1>1, <1>2, <2>1, <2>2, SameApplied
  <2>5. LogSound(e)' /\ TransactionSound(e)'
    BY <1>1, <1>2, <1>3, <1>5, <2>1, <2>3 DEF LogSound, TransactionSound, OnlyOf, Balanced, NoDown, Inserted
  <2>6. RecordsTellTheTruth'
    <3>1. \A m \in Migrations \ {c} : RowsOf(m)' = RowsOf(m)
      BY <2>2 DEF RowsOf
    <3> QED
      BY <1>2, <2>2, <2>3, <3>1 DEF TruthInv, RecordsTellTheTruth, OwnTransaction, OnlyOf, RowsOf
  <2>7. RowsApart'
    BY <2>1, <2>2 DEF TruthInv, RowsApart
  <2> QED
    BY <1>2, <2>4, <2>5, <2>6, <2>7, TruthOfOne
<1> QED
  BY <1>4, <1>5

LEMMA TruthInit == Init => TruthInv
<1> SUFFICES ASSUME Init PROVE TruthInv
  OBVIOUS
<1>1. TypeOK
  BY DEF Init, TypeOK
<1>2. RecordsTellTheTruth
  <2>1. \A m \in Migrations : RowsOf(m) = {} /\ Cardinality(RowsOf(m)) = 0 /\ applied[m] = 0
    BY FS_EmptySet DEF Init, RowsOf
  <2> QED
    BY <2>1 DEF RecordsTellTheTruth, RowsOf
<1>3. AppliedSound /\ RowsApart
  <2>1. options.exclusive \subseteq Migrations
    BY <1>1, MigrationAssumption DEF TypeOK, OptionsType
  <2> QED
    BY <2>1 DEF Init, AppliedSound, Touches, RowsApart, Inserted
<1>4. ASSUME NEW e \in Executors PROVE LogSound(e) /\ TransactionSound(e)
  BY DEF Init, LogSound, TransactionSound, NoDown
<1> QED
  BY <1>1, <1>2, <1>3, <1>4 DEF TruthInv

LEMMA TruthNext ==
  ASSUME UndoneOnce, UndoneAsDone, TruthInv, [Next]_vars
  PROVE  TruthInv'
<1>0. TypeOK'
  BY TypeNext DEF TruthInv
<1>1. CASE UNCHANGED vars
  <2>1. UNCHANGED <<options, records, applied, pc, pending, inTx, log, runners>>
    BY <1>1 DEF vars
  <2>2. \A e \in Executors : LogSound(e)' /\ TransactionSound(e)'
    BY <2>1 DEF TruthInv, LogSound, TransactionSound, Current, IsLast, OwnTransaction
  <2>3. AppliedSound' /\ RowsApart' /\ RecordsTellTheTruth'
    BY <2>1 DEF TruthInv, AppliedSound, Touches, RowsApart, RecordsTellTheTruth, OwnTransaction
  <2> QED
    BY <1>0, <2>2, <2>3 DEF TruthInv
<1>2. ASSUME NEW e \in options.processes, Step(e), options' = options PROVE TruthInv'
  <2>1. e \in Executors
    BY MigrationAssumption DEF TruthInv, TypeOK, OptionsType
  <2> QED
    BY <1>0, <1>2, <2>1, ExecutePendingKeepsTruth, UpKeepsTruth, RecordUpKeepsTruth, CommitKeepsTruth,
       UndoLastKeepsTruth, DownKeepsTruth, RecordDownKeepsTruth, EndsKeepTruth DEF Step
<1> QED
  BY <1>1, <1>2 DEF Next

\* A transaction has applied what it has recorded, and adds new rows; where a
\* migration cannot be applied twice, nobody else is at it.
THEOREM TruthInvariance == ASSUME UndoneOnce, UndoneAsDone PROVE Spec => []TruthInv
<1>1. TruthInv /\ [Next]_vars => TruthInv'
  BY TruthNext
<1> QED
  BY TruthInit, <1>1, PTL DEF Spec

\* However many processes execute migrations at the same time, whatever these
\* do, and whichever of the processes crash: a migration that runs in a
\* transaction has exactly as many rows as there are times that it is applied;
\* the same with any that undo migrations, provided that these cannot be
\* applied twice (UndoneOnce) and do not ask for a transaction where the data
\* source undoes without one (UndoneAsDone).
THEOREM RecordsAlwaysTellTheTruth ==
  ASSUME UndoneOnce, UndoneAsDone PROVE Spec => []RecordsTellTheTruth
BY TruthInvariance, PTL DEF TruthInv

-----------------------------------------------------------------------------
(***************************************************************************)
(* Second inductive invariant: the order.  An executor that executes has   *)
(* recorded, durably or in its transaction, all migrations before the one  *)
(* at hand, and has still to do all from there on.  It claims a migration  *)
(* that it has applied and whose record is not durable.  Of the migrations *)
(* that are applied once, at most one executor claims any: it is because   *)
(* the first of them claims the oldest one that is not recorded that no    *)
(* other can get so far.                                                   *)
(***************************************************************************)
Executing(e) ==
  \/ pc[e] \in {"up", "recordUp"}
  \/ pc[e] = "commit" /\ (~IsLast(e) \/ Inserted(log[e]) # {})

Once(m) == options.undoing \/ m \in options.exclusive

Claims(e, m) ==
  Executing(e) /\ (m \in Names(log[e]) \/ (pc[e] = "recordUp" /\ m = Current(e)))

Done(e) == IF pc[e] = "commit" THEN 1..Current(e) ELSE 1..(Current(e) - 1)

ExecutesInOrder(e) ==
  /\ NoDown(log[e])
  /\ Done(e) \subseteq Recorded \cup Names(log[e])
  /\ Names(log[e]) \subseteq Done(e)
  /\ Current(e)..Latest \subseteq pending[e]
  /\ options.undoing => (pending[e] \ Done(e)) \cap Recorded = {}
  /\ Rising(Inserted(log[e]))
  /\ \A row \in Inserted(log[e]), old \in records : Once(row.name) /\ Once(old.name) => old.id < row.id

Undoes(e) == pc[e] \in {"down", "recordDown"} \/ (pc[e] = "commit" /\ ~NoDown(log[e]))

InOrder(e) ==
  /\ Executing(e) => ExecutesInOrder(e)
  /\ \A m \in Migrations : Once(m) /\ Claims(e, m) => m \notin Recorded
  /\ pc[e] = "recordUp" /\ ~inTx[e] /\ Current(e) \in options.exclusive => applied[Current(e)] = 1
  /\ Undoes(e) => \A m \in Recorded : m <= Current(e)
  /\ pc[e] = "commit" => \A m \in Migrations : <<"delete", m>> \in log[e] => m = Current(e)

RecordedIsApplied == ~options.undoing => \A m \in Recorded \cap options.exclusive : applied[m] = 1

OrderInv ==
  /\ RecordedInOrder /\ RecordedIsApplied
  /\ \A e \in Executors : InOrder(e)
  /\ \A e \in Executors \ options.processes : pc[e] = "idle"
  /\ \A d, e \in Executors, m \in Migrations : Once(m) /\ Claims(d, m) /\ Claims(e, m) => d = e

\* Who undoes is alone.
UndoneByOne == \A o \in Options : o.undoing => \A d, e \in o.processes : d = e

LEMMA ClaimsAreMigrations ==
  ASSUME TypeOK, NEW e \in Executors, NEW m, Claims(e, m)
  PROVE  m \in Migrations
<1>1. CASE m \in Names(log[e])
  BY <1>1 DEF Names, Inserted, Rows
<1>2. CASE pc[e] = "recordUp" /\ m = Current(e)
  BY <1>2, CurrentIsSmallest DEF TypeOK
<1> QED
  BY <1>1, <1>2 DEF Claims

\* Who has got to n has done m before it.
LEMMA DoneBefore ==
  ASSUME TypeOK, NEW e \in Executors, InOrder(e), NEW n \in Migrations, Claims(e, n),
         NEW m \in Migrations, m < n
  PROVE  m \in Recorded \/ Claims(e, m)
<1>1. Executing(e) /\ ExecutesInOrder(e)
  BY DEF Claims, InOrder
<1>2. Current(e) \in Migrations
  BY <1>1, CurrentIsSmallest DEF TypeOK, Executing
<1>3. m \in Nat /\ n \in Nat /\ Current(e) \in Nat /\ m >= 1
  BY <1>2, MigrationAssumption DEF Migrations
<1>4. m \in Done(e)
  <2>1. n \in Done(e) \/ (pc[e] = "recordUp" /\ n = Current(e))
    BY <1>1 DEF Claims, ExecutesInOrder
  <2> QED
    BY <1>3, <2>1 DEF Done
<1> QED
  BY <1>1, <1>4 DEF ExecutesInOrder, Claims

LEMMA OneClaims ==
  ASSUME TypeOK, OrderInv, NEW d \in Executors, NEW e \in Executors, NEW m, NEW n,
         Once(m), Once(n), Claims(d, m), Claims(e, n)
  PROVE  d = e
<1>1. m \in Migrations /\ n \in Migrations
  BY ClaimsAreMigrations
<1>2. m \in Int /\ n \in Int
  BY <1>1, MigrationAssumption DEF Migrations
<1>3. m \notin Recorded /\ n \notin Recorded /\ InOrder(d) /\ InOrder(e)
  BY <1>1 DEF OrderInv, InOrder
<1>4. CASE m = n
  BY <1>1, <1>4 DEF OrderInv
<1>5. CASE m < n
  <2>1. Claims(e, m)
    BY <1>1, <1>3, <1>5, DoneBefore
  <2> QED
    BY <1>1, <2>1 DEF OrderInv
<1>6. CASE n < m
  <2>1. Claims(d, n)
    BY <1>1, <1>3, <1>6, DoneBefore
  <2> QED
    BY <1>1, <2>1 DEF OrderInv
<1> QED
  BY <1>2, <1>4, <1>5, <1>6

\* The records do not shrink, and get only rows that e claims, or of migrations
\* that may be applied twice; and what is applied stays so, unless e undoes.
Grows(e) ==
  ~options.undoing =>
    /\ records \subseteq records'
    /\ \A row \in records' \ records : Once(row.name) => Claims(e, row.name)
    /\ \A m \in options.exclusive : applied[m] = 1 => applied'[m] = 1

LEMMA OthersStayInOrder ==
  ASSUME UndoneByOne, TruthInv, OrderInv, NEW e \in options.processes, e \in Executors, OnlyOf(e), Grows(e),
         NEW d \in Executors, d # e
  PROVE  InOrder(d)' /\ \A m : Claims(d, m)' <=> Claims(d, m)
<1>1. /\ pc'[d] = pc[d] /\ pending'[d] = pending[d] /\ inTx'[d] = inTx[d] /\ log'[d] = log[d]
      /\ options' = options /\ Current(d)' = Current(d) /\ Done(d)' = Done(d) /\ IsLast(d)' = IsLast(d)
  BY DEF OnlyOf, Current, Done, IsLast
<1>2. /\ Executing(d)' <=> Executing(d)
      /\ \A m : Claims(d, m)' <=> Claims(d, m)
      /\ \A m : Once(m)' <=> Once(m)
      /\ Undoes(d)' <=> Undoes(d)
  BY <1>1 DEF Executing, Claims, Undoes, Once, Names
<1>3. TypeOK /\ InOrder(d) /\ LogSound(d) /\ TransactionSound(d)
  BY DEF TruthInv, OrderInv
<1>4. CASE options.undoing
  <2>1. pc[d] = "idle"
    BY <1>3, <1>4 DEF OrderInv, UndoneByOne, TypeOK
  <2> QED
    BY <1>1, <1>2, <1>4, <2>1 DEF InOrder, Executing, Undoes, Claims
<1>5. CASE ~options.undoing
  <2>1. pc[d] \notin {"down", "recordDown"} /\ NoDown(log[d]) /\ ~Undoes(d)
    BY <1>3, <1>5 DEF TransactionSound, LogSound, Undoes
  <2>2. /\ Recorded \subseteq Recorded' /\ \A m \in options.exclusive : applied[m] = 1 => applied'[m] = 1
        /\ \A row \in records' \ records : Once(row.name) => Claims(e, row.name)
    BY <1>5 DEF Grows, Recorded
  <2>3. Executing(d) => ExecutesInOrder(d)'
    <3> SUFFICES ASSUME Executing(d) PROVE ExecutesInOrder(d)'
      OBVIOUS
    <3>1. ExecutesInOrder(d)
      BY <1>3 DEF InOrder
    <3>2. ASSUME NEW row \in Inserted(log[d]), NEW old \in records', Once(row.name), Once(old.name)
          PROVE  old.id < row.id
      <4>1. Claims(d, row.name)
        BY DEF Claims, Names
      <4>2. old \in records
        BY <1>3, <2>2, <3>2, <4>1, OneClaims
      <4> QED
        BY <3>1, <3>2, <4>2 DEF ExecutesInOrder
    <3>3. Rising(Inserted(log[d]))'
      BY <1>1, <3>1 DEF ExecutesInOrder, Rising, Inserted
    <3>4. Names(log'[d]) = Names(log[d]) /\ Inserted(log'[d]) = Inserted(log[d])
      BY <1>1
    <3> QED
      BY <1>1, <1>2, <1>5, <2>2, <3>1, <3>2, <3>3, <3>4 DEF ExecutesInOrder
  <2>4. ASSUME NEW m \in Migrations, Once(m), Claims(d, m)
        PROVE  m \notin Recorded'
    <3> SUFFICES ASSUME NEW row \in records', row.name = m PROVE FALSE
      BY DEF Recorded
    <3>1. row \notin records
      BY <1>3, <2>4 DEF InOrder, Recorded
    <3>2. Claims(e, m)
      BY <2>2, <2>4, <3>1
    <3> QED
      BY <2>4, <3>2 DEF OrderInv
  <2>5. pc[d] = "recordUp" /\ ~inTx[d] /\ Current(d) \in options.exclusive => applied'[Current(d)] = 1
    BY <1>3, <2>2 DEF InOrder
  <2> QED
    BY <1>1, <1>2, <1>3, <2>1, <2>3, <2>4, <2>5 DEF InOrder
<1> QED
  BY <1>2, <1>4, <1>5

LEMMA OrderOfOne ==
  ASSUME UndoneByOne, TruthInv, OrderInv, NEW e \in options.processes, e \in Executors, OnlyOf(e), Grows(e),
         InOrder(e)', RecordedInOrder', RecordedIsApplied',
         \A m \in Migrations : Once(m) /\ Claims(e, m)' => Claims(e, m) \/ \A d \in Executors \ {e} : ~Claims(d, m)
  PROVE  OrderInv'
<1>1. \A d \in Executors : InOrder(d)'
  BY OthersStayInOrder
<1>2. \A d \in Executors \ options'.processes : pc'[d] = "idle"
  BY DEF OrderInv, OnlyOf
<1>3. \A m : Once(m)' <=> Once(m)
  BY DEF Once, OnlyOf
<1>4. ASSUME NEW d1 \in Executors, NEW d2 \in Executors, NEW m \in Migrations,
             Once(m), Claims(d1, m)', Claims(d2, m)'
      PROVE  d1 = d2
  <2>1. \A d \in Executors \ {e} : Claims(d, m)' => Claims(d, m)
    BY OthersStayInOrder
  <2>2. CASE d1 # e /\ d2 # e
    BY <1>4, <2>1, <2>2 DEF OrderInv
  <2>3. CASE d1 = e /\ d2 # e
    BY <1>4, <2>1, <2>3 DEF OrderInv
  <2>4. CASE d1 # e /\ d2 = e
    BY <1>4, <2>1, <2>4 DEF OrderInv
  <2> QED
    BY <2>2, <2>3, <2>4
<1> QED
  BY <1>1, <1>2, <1>3, <1>4 DEF OrderInv

\* A step that changes nothing durable.
LEMMA OrderOfSilent ==
  ASSUME UndoneByOne, TruthInv, OrderInv, NEW e \in options.processes, e \in Executors, OnlyOf(e),
         UNCHANGED <<records, applied>>, InOrder(e)',
         \A m \in Migrations : Once(m) /\ Claims(e, m)' => Claims(e, m) \/ \A d \in Executors \ {e} : ~Claims(d, m)
  PROVE  OrderInv'
<1>1. Grows(e)
  BY DEF Grows
<1>2. RecordedInOrder' /\ RecordedIsApplied'
  BY DEF OrderInv, RecordedInOrder, RecordedIsApplied, Recorded, OnlyOf, Rising
<1> QED
  BY <1>1, <1>2, OrderOfOne

-----------------------------------------------------------------------------
(***************************************************************************)
(* The steps.                                                              *)
(***************************************************************************)
LEMMA ExecutePendingKeepsOrder ==
  ASSUME UndoneByOne, TruthInv, OrderInv, TypeOK', NEW e \in options.processes, e \in Executors,
         ExecutePending(e), options' = options
  PROVE  OrderInv'
<1>1. TypeOK /\ InOrder(e) /\ LogSound(e) /\ pc[e] = "idle" /\ log[e] = {}
  BY DEF TruthInv, ExecutePending, OrderInv, LogSound
<1>2. OnlyOf(e) /\ log' = log /\ UNCHANGED <<records, applied>>
  BY <1>1 DEF ExecutePending, OnlyOf, Goto, TypeOK
<1>3. Recorded' = Recorded
  BY <1>2 DEF Recorded
<1>4. CASE UNCHANGED <<pc, pending, inTx>>
  <2>1. InOrder(e)' /\ \A m : ~Claims(e, m)'
    BY <1>1, <1>2, <1>3, <1>4 DEF InOrder, Executing, Undoes, Claims
  <2> QED
    BY <1>2, <2>1, OrderOfSilent
<1>5. CASE pc' = [pc EXCEPT ![e] = "up"] /\ pending' = [pending EXCEPT ![e] = Migrations \ Recorded]
  <2> DEFINE c == Current(e)'
  <2>1. pc'[e] = "up" /\ pending'[e] = Migrations \ Recorded /\ log'[e] = {} /\ Migrations \ Recorded # {}
    BY <1>1, <1>2, <1>5 DEF TypeOK, ExecutePending
  <2>2. c \in Migrations /\ c \notin Recorded /\ \A m \in Migrations \ Recorded : c <= m
    BY <2>1, MinIsSmallest DEF Current
  <2>3. Done(e)' = 1..(c - 1)
    BY <2>1 DEF Done
  <2>4. 1..(c - 1) \subseteq Recorded
    BY <2>2, MigrationAssumption DEF Migrations
  <2>5. c..Latest \subseteq pending'[e]
    <3> SUFFICES ASSUME NEW m \in c..Latest, m \in Recorded PROVE FALSE
      BY <2>1, <2>2, MigrationAssumption DEF Migrations
    <3>1. 1..m \subseteq Recorded
      BY DEF OrderInv, RecordedInOrder
    <3>2. c \in 1..m
      BY <2>2, MigrationAssumption DEF Migrations
    <3> QED
      BY <2>2, <3>1, <3>2
  <2>6. Inserted(log'[e]) = {} /\ Names(log'[e]) = {} /\ NoDown(log'[e])
    BY <2>1 DEF Inserted, Names, NoDown
  <2>7. ExecutesInOrder(e)'
    BY <1>3, <2>1, <2>3, <2>4, <2>5, <2>6 DEF ExecutesInOrder, Rising
  <2>8. InOrder(e)' /\ \A m : ~Claims(e, m)'
    BY <2>1, <2>6, <2>7 DEF InOrder, Executing, Undoes, Claims
  <2> QED
    BY <1>2, <2>8, OrderOfSilent
<1> QED
  BY <1>4, <1>5 DEF ExecutePending, Goto

LEMMA UndoLastKeepsOrder ==
  ASSUME UndoneByOne, TruthInv, OrderInv, TypeOK', NEW e \in options.processes, e \in Executors,
         UndoLast(e), options' = options
  PROVE  OrderInv'
<1>1. TypeOK /\ LogSound(e) /\ pc[e] = "idle" /\ options.undoing /\ log[e] = {}
  BY DEF TruthInv, UndoLast, LogSound
<1>2. PICK row \in records : /\ \A other \in records : other.id <= row.id
                             /\ pending' = [pending EXCEPT ![e] = {row.name}]
  BY DEF UndoLast
<1>3. /\ OnlyOf(e) /\ log' = log /\ UNCHANGED <<records, applied>>
      /\ pc'[e] = "down" /\ pending'[e] = {row.name} /\ row \in Rows /\ row.name \in Migrations
  BY <1>1, <1>2 DEF UndoLast, OnlyOf, Goto, TypeOK, Rows
<1>4. Current(e)' = row.name
  BY <1>3, MinIsSmallest DEF Current
<1>5. \A m \in Recorded' : m <= Current(e)'
  <2> SUFFICES ASSUME NEW other \in records PROVE other.name <= row.name
    BY <1>3, <1>4 DEF Recorded
  <2>1. other.id <= row.id /\ other.id \in Int /\ row.id \in Int /\ other.name \in Int /\ row.name \in Int
    BY <1>1, <1>2, <1>3, MigrationAssumption DEF TypeOK, Rows, Migrations
  <2>2. row.id < other.id <=> row.name < other.name
    BY <1>1 DEF OrderInv, RecordedInOrder, Rising
  <2> QED
    BY <2>1, <2>2
<1>6. InOrder(e)' /\ \A m : ~Claims(e, m)'
  BY <1>1, <1>3, <1>5 DEF InOrder, Executing, Undoes, Claims
<1> QED
  BY <1>3, <1>6, OrderOfSilent

LEMMA EndsKeepOrder ==
  ASSUME UndoneByOne, TruthInv, OrderInv, NEW e \in options.processes, e \in Executors,
         FailsEarly(e) \/ Fails(e) \/ GiveUp(e) \/ Crash(e), options' = options
  PROVE  OrderInv'
<1>1. TypeOK /\ InOrder(e)
  BY DEF TruthInv, OrderInv
<1>2. OnlyOf(e) /\ UNCHANGED <<records, applied>> /\ pc'[e] \in {"failed", "idle"}
  BY <1>1 DEF FailsEarly, Fails, GiveUp, Crash, Rollback, OnlyOf, Goto, TypeOK
<1>3. InOrder(e)' /\ \A m : ~Claims(e, m)'
  BY <1>1, <1>2 DEF InOrder, Executing, Undoes, Claims
<1> QED
  BY <1>2, <1>3, OrderOfSilent

\* Where e applies c, nobody has claimed it, if it can be applied only once.
LEMMA FirstClaims ==
  ASSUME UndoneByOne, TruthInv, OrderInv, NEW e \in options.processes, e \in Executors, pc[e] # "idle",
         NEW c \in Migrations, Once(c),
         c \in options.exclusive => applied[c] = 0 /\ \A d \in Executors : ~Touches(d, c),
         NEW d \in Executors, d # e
  PROVE  ~Claims(d, c)
<1> SUFFICES ASSUME Claims(d, c) PROVE FALSE
  OBVIOUS
<1>1. TypeOK /\ InOrder(d) /\ LogSound(d) /\ Executing(d)
  BY DEF TruthInv, OrderInv, Claims
<1>2. ~options.undoing
  <2> SUFFICES ASSUME options.undoing PROVE FALSE
    OBVIOUS
  <2>1. d \notin options.processes
    BY <1>1 DEF UndoneByOne, TypeOK
  <2> QED
    BY <1>1, <2>1 DEF OrderInv, Executing
<1>3. c \in options.exclusive
  BY <1>2 DEF Once
<1>4. <<"up", c>> \notin log[d]
  BY <1>3 DEF Touches
<1>5. CASE c \in Names(log[d])
  <2>1. PICK row \in Rows : <<"insert", row>> \in log[d] /\ row.name = c
    BY <1>5 DEF Names, Inserted
  <2>2. CASE pc[d] \in {"up", "commit"}
    BY <1>1, <1>4, <2>1, <2>2 DEF LogSound, Balanced
  <2>3. CASE pc[d] = "recordUp"
    <3>1. inTx[d]
      BY <1>1, <2>1 DEF LogSound
    <3>2. Balanced(log[d] \ {<<"up", Current(d)>>})
      BY <1>1, <2>3, <3>1 DEF LogSound
    <3>3. <<"insert", row>> \in log[d] \ {<<"up", Current(d)>>}
      BY <2>1
    <3>4. <<"up", c>> \in log[d]
      BY <2>1, <3>2, <3>3 DEF Balanced
    <3> QED
      BY <1>4, <3>4
  <2> QED
    BY <1>1, <2>2, <2>3 DEF Executing
<1>6. CASE pc[d] = "recordUp" /\ c = Current(d)
  <2>1. inTx[d] => <<"up", c>> \in log[d]
    BY <1>1, <1>6 DEF LogSound
  <2>2. ~inTx[d] => applied[c] = 1
    BY <1>1, <1>3, <1>6 DEF InOrder
  <2> QED
    BY <1>3, <1>4, <2>1, <2>2
<1> QED
  BY <1>5, <1>6 DEF Claims

LEMMA UpKeepsOrder ==
  ASSUME UndoneByOne, TruthInv, OrderInv, NEW e \in options.processes, e \in Executors,
         Up(e), options' = options
  PROVE  OrderInv'
<1> DEFINE c == Current(e)
<1>1. TypeOK /\ LogSound(e) /\ TransactionSound(e) /\ AppliedSound /\ InOrder(e) /\ pc[e] = "up" /\ c \in Migrations
  BY CurrentIsSmallest DEF TruthInv, OrderInv, Up, TypeOK
<1>2. OnlyOf(e) /\ pending' = pending /\ Current(e)' = c /\ UpTransaction(e) \in BOOLEAN /\ records' = records
  BY <1>1 DEF Up, OnlyOf, Goto, TypeOK, Run, Current, UpTransaction, OwnTransaction, Perform
<1>3. Executing(e) /\ NoDown(log[e]) /\ ExecutesInOrder(e) /\ Done(e) = 1..(c - 1)
  BY <1>1 DEF LogSound, Executing, InOrder, Done
<1>4. CASE Refused(e, c, UpTransaction(e), 0)
  <2>1. pc'[e] = "failed" /\ log' = log /\ UNCHANGED <<records, applied>>
    BY <1>1, <1>4 DEF Up, Goto, TypeOK
  <2>2. InOrder(e)' /\ \A m : ~Claims(e, m)'
    BY <1>1, <1>2, <2>1 DEF InOrder, Executing, Undoes, Claims
  <2> QED
    BY <1>2, <2>1, <2>2, OrderOfSilent
<1>5. CASE ~Refused(e, c, UpTransaction(e), 0)
  <2>1. Run(e, <<"up", c>>, UpTransaction(e)) /\ pc'[e] = "recordUp"
    BY <1>1, <1>5 DEF Up, Goto, TypeOK
  <2>2. c \in options.exclusive => applied[c] = 0 /\ \A d \in Executors : ~Touches(d, c)
    BY <1>1, <1>3, <1>5, Untouched DEF Up
  <2>3. Once(c) => c \notin Recorded
    <3>1. CASE options.undoing
      <4>1. c \in pending[e] /\ c \notin Done(e)
        BY <1>1, <1>3, CurrentIsSmallest, MigrationAssumption DEF TypeOK, Migrations
      <4> QED
        BY <1>3, <3>1, <4>1 DEF ExecutesInOrder
    <3>2. CASE ~options.undoing
      BY <2>2, <3>2 DEF OrderInv, RecordedIsApplied, Once
    <3> QED
      BY <3>1, <3>2
  <2>4. Once(c) => \A d \in Executors \ {e} : ~Claims(d, c)
    BY <1>1, <2>2, FirstClaims
  <2>5. /\ log'[e] = log[e] \/ log'[e] = log[e] \cup {<<"up", c>>}
        /\ \A m \in options.exclusive : applied[m] = 1 => applied'[m] = 1
        /\ ~inTx'[e] /\ c \in options.exclusive => applied'[c] = 1
    <3>1. CASE UpTransaction(e)
      BY <1>1, <2>1, <3>1 DEF Run, TypeOK
    <3>2. CASE ~UpTransaction(e)
      <4>1. log' = log /\ applied' = [m \in Migrations |-> applied[m] + Change(m, {<<"up", c>>})]
        BY <2>1, <3>2 DEF Run, Perform
      <4>2. /\ c \in options.exclusive => applied'[c] = 1
            /\ \A m \in Migrations \ {c} : applied'[m] = applied[m]
        BY <1>1, <2>2, <4>1 DEF Change, TypeOK
      <4>3. options.exclusive \subseteq Migrations
        BY <1>1, MigrationAssumption DEF TypeOK, OptionsType
      <4> QED
        BY <2>2, <4>1, <4>2, <4>3
    <3> QED
      BY <3>1, <3>2
  <2>6. /\ Recorded' = Recorded /\ Done(e)' = Done(e) /\ NoDown(log'[e])
        /\ Inserted(log'[e]) = Inserted(log[e]) /\ Names(log'[e]) = Names(log[e])
    BY <1>2, <1>3, <2>1, <2>5 DEF Recorded, Done, NoDown, Inserted, Names
  <2>7. ExecutesInOrder(e)'
    BY <1>2, <1>3, <2>6 DEF ExecutesInOrder, OnlyOf, Rising, Once
  <2>8. \A m : Claims(e, m)' <=> Claims(e, m) \/ m = c
    BY <1>2, <1>3, <1>1, <2>1, <2>6 DEF Claims, Executing
  <2>9. InOrder(e)'
    <3>1. \A m \in Migrations : Once(m)' /\ Claims(e, m)' => m \notin Recorded'
      BY <1>1, <1>2, <2>3, <2>6, <2>8 DEF InOrder, Once, OnlyOf
    <3> QED
      BY <1>2, <2>1, <2>5, <2>6, <2>7, <3>1 DEF InOrder, Undoes, OnlyOf
  <2>10. RecordedInOrder' /\ RecordedIsApplied'
    BY <1>2, <2>5, <2>6 DEF OrderInv, RecordedInOrder, RecordedIsApplied, OnlyOf, Rising
  <2>11. Grows(e)
    BY <1>2, <2>5 DEF Grows
  <2> QED
    BY <1>2, <2>4, <2>8, <2>9, <2>10, <2>11, OrderOfOne
<1> QED
  BY <1>4, <1>5

\* One more row, of the migration that comes next.
LEMMA NextRow ==
  ASSUME NEW table \in SUBSET Rows, Rising(table), NEW row \in Rows,
         Once(row.name) => \A old \in table : Once(old.name) => old.id < row.id /\ old.name < row.name
  PROVE  Rising(table \cup {row})
<1>1. \A old \in table \cup {row} : old.id \in Int /\ old.name \in Int
  BY MigrationAssumption DEF Rows, Migrations
<1> SUFFICES ASSUME NEW one \in table \cup {row}, NEW other \in table \cup {row}, Once(one.name), Once(other.name)
             PROVE  one.id < other.id <=> one.name < other.name
  BY DEF Rising, Once
<1>2. CASE one \in table /\ other \in table
  BY <1>2 DEF Rising, Once
<1>3. CASE one = row /\ other = row
  BY <1>1, <1>3
<1>4. CASE one = row /\ other \in table
  <2>1. other.id < one.id /\ other.name < one.name
    BY <1>4
  <2> QED
    BY <1>1, <2>1
<1>5. CASE one \in table /\ other = row
  <2>1. one.id < other.id /\ one.name < other.name
    BY <1>5
  <2> QED
    BY <1>1, <2>1
<1> QED
  BY <1>2, <1>3, <1>4, <1>5

LEMMA RecordUpKeepsOrder ==
  ASSUME UndoneByOne, TruthInv, TruthInv', OrderInv, NEW e \in options.processes, e \in Executors,
         RecordUp(e), options' = options
  PROVE  OrderInv'
<1> DEFINE c == Current(e)
<1>1. TypeOK /\ LogSound(e) /\ TransactionSound(e) /\ InOrder(e) /\ pc[e] = "recordUp" /\ c \in Migrations /\ c \in Nat
  <2>1. TypeOK /\ LogSound(e) /\ TransactionSound(e) /\ InOrder(e) /\ pc[e] = "recordUp"
    BY DEF TruthInv, OrderInv, RecordUp
  <2>2. pending[e] \subseteq Migrations /\ pending[e] # {}
    BY <2>1 DEF TypeOK
  <2> QED
    BY <2>1, <2>2, CurrentIsSmallest, MigrationAssumption DEF Migrations
<1>2. PICK row \in Rows : /\ row.name = c /\ \A old \in Written : old.id < row.id
                          /\ Run(e, <<"insert", row>>, inTx[e])
  BY DEF RecordUp, NewRow
<1>3. /\ OnlyOf(e) /\ pending' = pending /\ Current(e)' = c /\ pc'[e] = "commit" /\ inTx' = inTx
  BY <1>1, <1>2 DEF RecordUp, OnlyOf, Goto, TypeOK, Run, Current
<1>4. /\ Executing(e) /\ Claims(e, c) /\ NoDown(log[e]) /\ ExecutesInOrder(e) /\ Done(e) = 1..(c - 1)
      /\ Done(e)' = 1..c /\ (Once(c) => c \notin Recorded)
  BY <1>1, <1>3 DEF LogSound, Executing, Claims, InOrder, Done
<1>5. Balanced(log'[e])
  BY <1>3 DEF TruthInv, LogSound
<1>6. 1..c = (1..(c - 1)) \cup {c}
  BY <1>1, MigrationAssumption DEF Migrations
<1>7. CASE inTx[e]
  <2>1. log'[e] = log[e] \cup {<<"insert", row>>} /\ UNCHANGED <<records, applied>>
    BY <1>1, <1>2, <1>7 DEF Run, TypeOK
  <2>2. Recorded' = Recorded /\ NoDown(log'[e]) /\ \A m \in Migrations : <<"delete", m>> \notin log'[e]
    BY <1>4, <1>5, <2>1 DEF Recorded, NoDown, Balanced
  <2>3. Inserted(log'[e]) = Inserted(log[e]) \cup {row} /\ Names(log'[e]) = Names(log[e]) \cup {c}
    BY <1>2, <2>1 DEF Inserted, Names
  <2>4. Done(e)' \subseteq Recorded' \cup Names(log'[e]) /\ Names(log'[e]) \subseteq Done(e)'
    BY <1>4, <1>6, <2>2, <2>3 DEF ExecutesInOrder
  <2>5. /\ Rising(Inserted(log'[e]))
        /\ \A r \in Inserted(log'[e]), old \in records : Once(r.name) /\ Once(old.name) => old.id < r.id
    <3>1. \A old \in Inserted(log[e]) : old.name \in 1..(c - 1) /\ old \in Rows
      BY <1>4 DEF ExecutesInOrder, Names, Inserted
    <3>2. \A old \in Inserted(log[e]) \cup records : old.id < row.id
      BY <1>2 DEF Written, Inserted
    <3>3. Rising(Inserted(log[e]) \cup {row})
      BY <1>1, <1>2, <1>4, <3>1, <3>2, NextRow DEF ExecutesInOrder
    <3> QED
      BY <1>4, <2>3, <3>2, <3>3 DEF ExecutesInOrder
  <2>6. options.undoing => (pending[e] \ Done(e)') \cap Recorded = {}
    BY <1>4, <1>6 DEF ExecutesInOrder
  <2>7. ExecutesInOrder(e)'
    BY <1>3, <1>4, <2>1, <2>2, <2>4, <2>5, <2>6 DEF ExecutesInOrder, OnlyOf, Once, Rising
  <2>8. \A m : Claims(e, m)' => Claims(e, m)
    BY <1>3, <1>4, <2>3 DEF Claims
  <2>9. InOrder(e)'
    <3>1. \A m \in Migrations : Once(m)' /\ Claims(e, m)' => m \notin Recorded'
      BY <1>1, <1>3, <2>2, <2>8 DEF InOrder, Once, OnlyOf
    <3> QED
      BY <1>3, <2>2, <2>7, <3>1 DEF InOrder, Undoes, OnlyOf
  <2> QED
    BY <1>3, <2>1, <2>8, <2>9, OrderOfSilent
<1>8. CASE ~inTx[e]
  <2>1. log' = log /\ Perform({<<"insert", row>>}) /\ log'[e] = {}
    BY <1>1, <1>2, <1>8 DEF Run, LogSound
  <2>2. records' = records \cup {row} /\ applied' = applied
    BY <1>1, <2>1 DEF Perform, Change, TypeOK
  <2>3. Recorded' = Recorded \cup {c}
    BY <1>2, <2>2 DEF Recorded
  <2>4. Inserted(log[e]) = {} /\ Names(log[e]) = {}
    BY <2>1 DEF Inserted, Names
  <2>5. 1..(c - 1) \subseteq Recorded
    BY <1>4, <2>4 DEF ExecutesInOrder
  <2>6. ExecutesInOrder(e)'
    <3>1. Done(e)' \subseteq Recorded'
      BY <1>4, <1>6, <2>3, <2>5
    <3>2. options.undoing => (pending[e] \ Done(e)') \cap Recorded' = {}
      BY <1>4, <1>6, <2>3 DEF ExecutesInOrder
    <3> QED
      BY <1>3, <1>4, <2>1, <2>4, <3>1, <3>2 DEF ExecutesInOrder, OnlyOf, NoDown, Rising
  <2>7. \A m : ~Claims(e, m)'
    BY <1>3, <2>1, <2>4 DEF Claims
  <2>8. InOrder(e)'
    BY <1>3, <2>1, <2>6, <2>7 DEF InOrder, Undoes, NoDown, OnlyOf
  <2>9. RecordedInOrder'
    <3>1. ASSUME NEW old \in records, Once(c)
          PROVE  old.name < c /\ old.id < row.id
      <4>1. old.name \in Nat
        BY <1>1, MigrationAssumption DEF TypeOK, Rows, Migrations
      <4>2. old.id < row.id
        BY <1>2 DEF Written
      <4>3. old.name \in Recorded
        BY DEF Recorded
      <4>4. 1..old.name \subseteq Recorded
        BY <4>3 DEF OrderInv, RecordedInOrder
      <4>5. c \notin 1..old.name
        BY <1>4, <3>1, <4>4
      <4>6. c >= 1
        BY <1>1 DEF Migrations
      <4> QED
        BY <1>1, <4>1, <4>2, <4>5, <4>6
    <3>2. Rising(records')
      <4>1. Rising(records) /\ records \in SUBSET Rows
        BY <1>1 DEF OrderInv, RecordedInOrder, TypeOK
      <4> QED
        BY <1>2, <2>2, <3>1, <4>1, NextRow
    <3>3. 1..c \subseteq Recorded'
      BY <1>6, <2>3, <2>5
    <3> QED
      BY <1>3, <2>3, <3>2, <3>3 DEF OrderInv, RecordedInOrder, Rising, OnlyOf
  <2>10. RecordedIsApplied'
    BY <1>1, <1>3, <1>8, <2>2, <2>3 DEF OrderInv, RecordedIsApplied, InOrder, OnlyOf
  <2>11. Grows(e)
    BY <1>2, <1>4, <2>2 DEF Grows
  <2> QED
    BY <1>3, <2>7, <2>8, <2>9, <2>10, <2>11, OrderOfOne
<1> QED
  BY <1>7, <1>8

LEMMA NoChange ==
  ASSUME NEW m, NEW S, <<"up", m>> \notin S, <<"down", m>> \notin S
  PROVE  Change(m, S) = 0
<1>1. Change(m, S) = 0 - 0
  BY DEF Change
<1> QED
  BY <1>1

\* Two tables, one after the other.
LEMMA OneAfterTheOther ==
  ASSUME NEW table \in SUBSET Rows, NEW others \in SUBSET Rows, Rising(table), Rising(others),
         \A old \in table, row \in others :
           Once(old.name) /\ Once(row.name) => old.id < row.id /\ old.name < row.name
  PROVE  Rising(table \cup others)
<1>1. \A row \in table \cup others : row.id \in Int /\ row.name \in Int
  BY MigrationAssumption DEF Rows, Migrations
<1> SUFFICES ASSUME NEW row \in table \cup others, NEW other \in table \cup others,
                    Once(row.name), Once(other.name)
             PROVE  row.id < other.id <=> row.name < other.name
  BY DEF Rising, Once
<1>2. CASE (row \in table /\ other \in table) \/ (row \in others /\ other \in others)
  BY <1>2 DEF Rising, Once
<1>3. CASE row \in table /\ other \in others
  BY <1>3
<1>4. CASE row \in others /\ other \in table
  BY <1>1, <1>4
<1> QED
  BY <1>2, <1>3, <1>4

\* The newest row is deleted.
LEMMA NewestForgotten ==
  ASSUME TypeOK, RecordedInOrder, options' = options, NEW c \in Migrations, \A m \in Recorded : m <= c,
         records' = {row \in records : row.name # c}
  PROVE  RecordedInOrder'
<1>1. Recorded' = Recorded \ {c}
  BY DEF Recorded
<1>2. Recorded \subseteq Migrations
  BY DEF TypeOK, Recorded, Rows
<1>3. ASSUME NEW m \in Recorded' PROVE 1..m \subseteq Recorded'
  <2>1. 1..m \subseteq Recorded /\ m <= c /\ m # c
    BY <1>1 DEF RecordedInOrder
  <2>2. c \notin 1..m
    BY <1>1, <1>2, <2>1, MigrationAssumption DEF Migrations
  <2> QED
    BY <1>1, <2>1, <2>2
<1> QED
  BY <1>3 DEF RecordedInOrder, Rising

\* e goes on with the migration after c, which it has done.
LEMMA NextInOrder ==
  ASSUME NEW e \in Executors, NEW c \in Nat, Latest \in Nat, c <= Latest, pc'[e] = "up", OnlyOf(e),
         pending'[e] = pending[e] \ {c}, pending'[e] \in SUBSET (1..Latest),
         \A m \in pending[e] : c <= m,
         Current(e)' \in pending'[e], \A m \in pending'[e] : Current(e)' <= m,
         (c + 1)..Latest \subseteq pending'[e], NoDown(log'[e]),
         1..c \subseteq Recorded' \cup Names(log'[e]),
         Names(log'[e]) \subseteq 1..c,
         \A m \in Names(log'[e]) : Once(m) => m \notin Recorded',
         options.undoing => (pending[e] \ (1..c)) \cap Recorded' = {},
         Rising(Inserted(log'[e])),
         \A row \in Inserted(log'[e]), old \in records' : Once(row.name) /\ Once(old.name) => old.id < row.id
  PROVE  InOrder(e)'
<1>1. Current(e)' = c + 1
  <2>1. Current(e)' \in 1..Latest /\ Current(e)' > c
    OBVIOUS
  <2>2. c + 1 \in pending'[e]
    BY <2>1
  <2> QED
    BY <2>1, <2>2
<1>2. Done(e)' = 1..c
  BY <1>1 DEF Done
<1>3. options.undoing => (pending'[e] \ Done(e)') \cap Recorded' = {}
  BY <1>2
<1>4. ExecutesInOrder(e)'
  BY <1>1, <1>2, <1>3 DEF ExecutesInOrder, OnlyOf, Once, Rising
<1>5. \A m \in Migrations : Once(m)' /\ Claims(e, m)' => m \notin Recorded'
  BY DEF Claims, Once, OnlyOf
<1> QED
  BY <1>4, <1>5 DEF InOrder, Executing, Undoes

LEMMA CommitKeepsOrder ==
  ASSUME UndoneByOne, TruthInv, TruthInv', OrderInv, NEW e \in options.processes, e \in Executors,
         Commit(e), options' = options
  PROVE  OrderInv'
<1> DEFINE c == Current(e)
<1>1. /\ TypeOK /\ LogSound(e) /\ InOrder(e) /\ pc[e] = "commit" /\ c \in Migrations /\ c \in pending[e]
      /\ \A m \in pending[e] : c <= m
  BY CurrentIsSmallest DEF TruthInv, OrderInv, Commit, TypeOK
<1>2. /\ OnlyOf(e) /\ pending'[e] = pending[e] \ {c} /\ pc'[e] = IF IsLast(e) THEN "idle" ELSE "up"
      /\ Balanced(log[e]) /\ pending'[e] \in SUBSET Migrations
  BY <1>1 DEF Commit, CommitTx, OnlyOf, Goto, TypeOK, LogSound
<1>3. c \in Nat /\ c >= 1 /\ c <= Latest /\ Latest \in Nat /\ Migrations = 1..Latest
  BY <1>1, MigrationAssumption DEF Migrations
<1>4. CASE Commits(e)
  <2>1. Perform(log[e]) /\ log'[e] = {} /\ inTx[e]
    BY <1>1, <1>4 DEF Commit, CommitTx, TypeOK, Commits
  <2>2. records' = {row \in records : <<"delete", row.name>> \notin log[e]} \cup Inserted(log[e])
    BY <2>1 DEF Perform, Inserted
  <2>3. Inserted(log'[e]) = {} /\ Names(log'[e]) = {} /\ NoDown(log'[e])
    BY <2>1 DEF Inserted, Names, NoDown
  <2>4. CASE Executing(e)
    <3>1. ExecutesInOrder(e) /\ Done(e) = 1..c /\ NoDown(log[e])
      BY <1>1, <2>4 DEF InOrder, Done, ExecutesInOrder
    <3>2. \A m \in Migrations : <<"delete", m>> \notin log[e]
      BY <1>2, <3>1 DEF Balanced, NoDown
    <3>3. records' = records \cup Inserted(log[e])
      <4>1. \A row \in records : row.name \in Migrations
        BY <1>1 DEF TypeOK, Rows
      <4> QED
        BY <2>2, <3>2, <4>1
    <3>4. Recorded' = Recorded \cup Names(log[e])
      BY <3>3 DEF Recorded, Names
    <3>5. 1..c \subseteq Recorded' /\ Names(log[e]) \subseteq 1..c
      BY <3>1, <3>4 DEF ExecutesInOrder
    <3>6. RecordedInOrder'
      <4>1. \A m \in Recorded' : 1..m \subseteq Recorded'
        <5> SUFFICES ASSUME NEW m \in Recorded' PROVE 1..m \subseteq Recorded'
          OBVIOUS
        <5>1. CASE m \in Recorded
          BY <3>4, <5>1 DEF OrderInv, RecordedInOrder
        <5>2. CASE m \in Names(log[e])
          BY <1>3, <3>5, <5>2
        <5> QED
          BY <3>4, <5>1, <5>2
      <4>2. ASSUME NEW old \in records, NEW row \in Inserted(log[e]), Once(old.name), Once(row.name)
            PROVE  old.id < row.id /\ old.name < row.name
        <5>1. old.id < row.id
          BY <3>1, <4>2 DEF ExecutesInOrder
        <5>2. row.name \in 1..c /\ row.name \notin Recorded
          <6>1. row.name \in Names(log[e]) /\ row.name \in Migrations
            BY DEF Names, Inserted, Rows
          <6> QED
            BY <1>1, <2>4, <3>5, <4>2, <6>1 DEF InOrder, Claims
        <5>3. old.name \in Recorded /\ 1..old.name \subseteq Recorded
          BY DEF OrderInv, RecordedInOrder, Recorded
        <5>4. old.name \in Nat
          BY <1>1, <1>3 DEF TypeOK, Rows
        <5> QED
          BY <1>3, <5>1, <5>2, <5>3, <5>4
      <4>3. Rising(records) /\ Rising(Inserted(log[e])) /\ records \subseteq Rows /\ Inserted(log[e]) \subseteq Rows
        BY <1>1, <3>1 DEF OrderInv, RecordedInOrder, ExecutesInOrder, Rising, TypeOK, Inserted
      <4>4. Rising(records \cup Inserted(log[e]))
        BY <4>2, <4>3, OneAfterTheOther
      <4> QED
        BY <1>2, <3>3, <4>1, <4>4 DEF RecordedInOrder, Rising, OnlyOf
    <3>7. \A m \in options.exclusive : /\ applied[m] = 1 => applied'[m] = 1
                                       /\ m \in Names(log[e]) => applied'[m] = 1
      <4> SUFFICES ASSUME NEW m \in options.exclusive
                   PROVE  (applied[m] = 1 => applied'[m] = 1) /\ (m \in Names(log[e]) => applied'[m] = 1)
        OBVIOUS
      <4>0. m \in Migrations
        BY <1>1, MigrationAssumption DEF TypeOK, OptionsType
      <4>1. applied'[m] = applied[m] + Change(m, log[e])
        BY <2>1, <4>0 DEF Perform
      <4>2. /\ <<"down", m>> \notin log[e]
            /\ <<"up", m>> \in log[e] => applied[m] = 0
            /\ applied[m] \in {0, 1}
        BY <3>1, <4>0 DEF NoDown, TruthInv, AppliedSound
      <4>3. m \in Names(log[e]) => <<"up", m>> \in log[e]
        BY <1>2, <4>0 DEF Balanced, Names, Inserted
      <4> QED
        BY <4>1, <4>2, <4>3 DEF Change
    <3>8. RecordedIsApplied'
      BY <1>2, <3>4, <3>7 DEF OrderInv, RecordedIsApplied, OnlyOf
    <3>9. Grows(e)
      <4>1. \A row \in records' \ records : Claims(e, row.name)
        BY <2>4, <3>3 DEF Claims, Names
      <4> QED
        BY <3>3, <3>7, <4>1 DEF Grows
    <3>10. InOrder(e)' /\ \A m : ~Claims(e, m)'
      <4>1. CASE IsLast(e)
        BY <1>2, <2>3, <4>1 DEF InOrder, Executing, Undoes, Claims
      <4>2. CASE ~IsLast(e)
        <5>1. pc'[e] = "up" /\ pending'[e] # {}
          BY <1>1, <1>2, <4>2 DEF IsLast
        <5>2. Current(e)' \in pending'[e] /\ Current(e)' \in Int /\ \A m \in pending'[e] : Current(e)' <= m
          BY <1>2, <1>3, <5>1, MinIsSmallest DEF Current
        <5>3. (c + 1)..Latest \subseteq pending'[e]
          BY <1>2, <1>3, <3>1 DEF ExecutesInOrder
        <5> QED
          <6>1. /\ options.undoing => (pending[e] \ (1..c)) \cap Recorded' = {}
                /\ 1..c \subseteq Recorded' \cup Names(log'[e])
            BY <3>1, <3>4, <3>5 DEF ExecutesInOrder
          <6>2. InOrder(e)'
            BY <1>1, <1>2, <1>3, <2>3, <5>1, <5>2, <5>3, <6>1, NextInOrder DEF Rising
          <6> QED
            BY <2>3, <5>1, <6>2 DEF Claims
      <4> QED
        BY <4>1, <4>2
    <3> QED
      BY <1>2, <3>6, <3>8, <3>9, <3>10, OrderOfOne
  <2>5. CASE ~Executing(e)
    <3>1. IsLast(e) /\ Inserted(log[e]) = {}
      BY <1>1, <2>5 DEF Executing
    <3>2. records' = {row \in records : <<"delete", row.name>> \notin log[e]}
      BY <2>2, <3>1
    <3>3. InOrder(e)' /\ \A m : ~Claims(e, m)'
      BY <1>2, <2>3, <3>1 DEF InOrder, Executing, Undoes, Claims
    <3>4. CASE NoDown(log[e])
      <4>1. \A m \in Migrations : /\ <<"delete", m>> \notin log[e]
                                  /\ <<"up", m>> \notin log[e]
                                  /\ <<"down", m>> \notin log[e]
        BY <1>2, <3>1, <3>4 DEF Balanced, NoDown, Inserted
      <4>2. \A row \in records : row.name \in Migrations
        BY <1>1 DEF TypeOK, Rows
      <4>3. records' = records
        BY <3>2, <4>1, <4>2
      <4>4. applied' = applied
        <5>1. \A m \in Migrations : Change(m, log[e]) = 0
          BY <4>1, NoChange
        <5>2. applied' = [m \in Migrations |-> applied[m] + Change(m, log[e])]
          BY <2>1 DEF Perform
        <5>3. applied \in [Migrations -> Int]
          BY <1>1 DEF TypeOK
        <5>4. \A m \in Migrations : applied[m] + Change(m, log[e]) = applied[m]
          <6> SUFFICES ASSUME NEW m \in Migrations PROVE applied[m] + Change(m, log[e]) = applied[m]
            OBVIOUS
          <6>1. applied[m] \in Int /\ Change(m, log[e]) = 0
            BY <5>1, <5>3
          <6> QED
            BY <6>1
        <5>5. applied' = [m \in Migrations |-> applied[m]]
          BY <5>2, <5>4, Zenon
        <5> QED
          BY <5>3, <5>5
      <4> QED
        BY <1>2, <3>3, <4>3, <4>4, OrderOfSilent
    <3>5. CASE ~NoDown(log[e])
      <4>1. options.undoing /\ \A m \in Recorded : m <= c
        BY <1>1, <3>5 DEF InOrder, Undoes, LogSound
      <4>2. <<"delete", c>> \in log[e] /\ \A m \in Migrations \ {c} : <<"delete", m>> \notin log[e]
        BY <1>1, <1>2, <3>5 DEF InOrder, NoDown, Balanced
      <4>3. records' = {row \in records : row.name # c}
        <5>1. \A row \in records : row.name \in Migrations
          BY <1>1 DEF TypeOK, Rows
        <5> QED
          BY <3>2, <4>2, <5>1
      <4>4. RecordedInOrder'
        BY <1>1, <1>2, <4>1, <4>3, NewestForgotten DEF OrderInv, OnlyOf
      <4>5. RecordedIsApplied' /\ Grows(e)
        BY <1>2, <4>1 DEF RecordedIsApplied, Grows, OnlyOf
      <4> QED
        BY <1>2, <3>3, <4>4, <4>5, OrderOfOne
    <3> QED
      BY <3>4, <3>5
  <2> QED
    BY <2>4, <2>5
<1>5. CASE ~Commits(e)
  <2>1. UNCHANGED <<records, applied, inTx, log>>
    BY <1>5 DEF Commit
  <2>2. Recorded' = Recorded
    BY <2>1 DEF Recorded
  <2>3. CASE IsLast(e)
    <3>1. ~inTx[e]
      BY <1>5, <2>3 DEF Commits
    <3>2. log'[e] = {}
      BY <1>1, <2>1, <3>1 DEF LogSound
    <3>3. InOrder(e)' /\ \A m : ~Claims(e, m)'
      BY <1>2, <2>3, <3>2 DEF InOrder, Executing, Undoes, Claims, NoDown
    <3> QED
      BY <1>2, <2>1, <3>3, OrderOfSilent
  <2>4. CASE ~IsLast(e)
    <3>1. pc'[e] = "up" /\ pending'[e] # {} /\ Executing(e)
      BY <1>1, <1>2, <2>4 DEF IsLast, Executing
    <3>2. ExecutesInOrder(e) /\ Done(e) = 1..c /\ NoDown(log[e])
      BY <1>1, <3>1 DEF InOrder, Done, ExecutesInOrder
    <3>3. Current(e)' \in pending'[e] /\ Current(e)' \in Int /\ \A m \in pending'[e] : Current(e)' <= m
      BY <1>2, <1>3, <3>1, MinIsSmallest DEF Current
    <3>4. (c + 1)..Latest \subseteq pending'[e]
      BY <1>2, <1>3, <3>2 DEF ExecutesInOrder
    <3>5. Inserted(log'[e]) = Inserted(log[e]) /\ Names(log'[e]) = Names(log[e]) /\ log'[e] = log[e]
      BY <2>1
    <3>6. InOrder(e)'
      <4>1. /\ NoDown(log'[e]) /\ Rising(Inserted(log'[e]))
            /\ 1..c \subseteq Recorded' \cup Names(log'[e])
            /\ Names(log'[e]) \subseteq 1..c
            /\ options.undoing => (pending[e] \ (1..c)) \cap Recorded' = {}
            /\ \A row \in Inserted(log'[e]), old \in records' : Once(row.name) /\ Once(old.name) => old.id < row.id
        BY <2>1, <2>2, <3>2, <3>5 DEF ExecutesInOrder
      <4>2. \A m \in Names(log'[e]) : Once(m) => m \notin Recorded'
        <5>1. \A m \in Names(log[e]) : m \in Migrations /\ Claims(e, m)
          BY <3>1 DEF Names, Inserted, Rows, Claims
        <5> QED
          BY <1>1, <2>2, <3>5, <5>1 DEF InOrder
      <4> QED
        BY <1>1, <1>2, <1>3, <3>1, <3>3, <3>4, <4>1, <4>2, NextInOrder
    <3>7. \A m : Claims(e, m)' => Claims(e, m)
      BY <3>1, <3>5 DEF Claims
    <3> QED
      BY <1>2, <2>1, <3>6, <3>7, OrderOfSilent
  <2> QED
    BY <2>3, <2>4
<1> QED
  BY <1>4, <1>5

LEMMA DownKeepsOrder ==
  ASSUME UndoneByOne, TruthInv, TruthInv', OrderInv, NEW e \in options.processes, e \in Executors,
         Down(e), options' = options
  PROVE  OrderInv'
<1> DEFINE c == Current(e)
<1>1. /\ TypeOK /\ LogSound(e) /\ TransactionSound(e) /\ InOrder(e) /\ AppliedSound
      /\ pc[e] = "down" /\ c \in Migrations
  BY CurrentIsSmallest DEF TruthInv, OrderInv, Down, TypeOK
<1>2. OnlyOf(e) /\ Current(e)' = c /\ records' = records
  BY <1>1 DEF Down, OnlyOf, Goto, TypeOK, Run, Current, Perform
<1>3. options.undoing /\ \A m \in Recorded : m <= c
  BY <1>1 DEF TransactionSound, InOrder, Undoes
<1>4. pc'[e] \in {"failed", "recordDown"}
  BY <1>1 DEF Down, Goto, TypeOK
<1>5. Recorded' = Recorded /\ options'.undoing
  BY <1>2, <1>3 DEF Recorded, OnlyOf
<1>6. InOrder(e)' /\ \A m : ~Claims(e, m)'
  BY <1>2, <1>3, <1>4, <1>5 DEF InOrder, Executing, Undoes, Claims
<1>7. RecordedInOrder' /\ RecordedIsApplied' /\ Grows(e)
  BY <1>2, <1>3, <1>5 DEF OrderInv, RecordedInOrder, RecordedIsApplied, Grows, Rising, OnlyOf
<1> QED
  BY <1>2, <1>6, <1>7, OrderOfOne

LEMMA RecordDownKeepsOrder ==
  ASSUME UndoneByOne, TruthInv, TruthInv', OrderInv, NEW e \in options.processes, e \in Executors,
         RecordDown(e), options' = options
  PROVE  OrderInv'
<1> DEFINE c == Current(e)
<1>1. /\ TypeOK /\ LogSound(e) /\ TransactionSound(e) /\ InOrder(e)
      /\ pc[e] = "recordDown" /\ c \in Migrations
  BY CurrentIsSmallest DEF TruthInv, OrderInv, RecordDown, TypeOK
<1>2. /\ OnlyOf(e) /\ Current(e)' = c /\ pc'[e] = "commit" /\ pending' = pending
      /\ Run(e, <<"delete", c>>, inTx[e])
  BY <1>1 DEF RecordDown, OnlyOf, Goto, TypeOK, Run, Current
<1>3. options.undoing /\ options'.undoing /\ pending[e] = {c} /\ \A m \in Recorded : m <= c
  BY <1>1 DEF TransactionSound, InOrder, Undoes
<1>4. IsLast(e)'
  BY <1>2, <1>3 DEF IsLast
<1>5. RecordedIsApplied' /\ Grows(e)
  BY <1>3 DEF RecordedIsApplied, Grows
<1>6. CASE inTx[e]
  <2>1. log'[e] = {<<"down", c>>, <<"delete", c>>} /\ records' = records
    BY <1>1, <1>2, <1>6 DEF Run, TypeOK, LogSound
  <2>2. Recorded' = Recorded /\ Inserted(log'[e]) = {}
    BY <2>1 DEF Recorded, Inserted
  <2>3. InOrder(e)' /\ \A m : ~Claims(e, m)'
    BY <1>2, <1>3, <1>4, <2>1, <2>2 DEF InOrder, Executing, Undoes, Claims
  <2>4. RecordedInOrder'
    BY <1>2, <2>1, <2>2 DEF OrderInv, RecordedInOrder, Rising, OnlyOf
  <2> QED
    BY <1>2, <1>5, <2>3, <2>4, OrderOfOne
<1>7. CASE ~inTx[e]
  <2>1. Perform({<<"delete", c>>}) /\ log'[e] = {}
    BY <1>1, <1>2, <1>7 DEF Run, LogSound
  <2>2. records' = {row \in records : row.name # c}
    BY <2>1 DEF Perform
  <2>3. InOrder(e)' /\ \A m : ~Claims(e, m)'
    BY <1>2, <1>4, <2>1 DEF InOrder, Executing, Undoes, Claims, NoDown, Inserted
  <2>4. RecordedInOrder'
    BY <1>1, <1>3, <2>2, NewestForgotten DEF OrderInv
  <2> QED
    BY <1>2, <1>5, <2>3, <2>4, OrderOfOne
<1> QED
  BY <1>6, <1>7

LEMMA OrderInit == Init => OrderInv
<1> SUFFICES ASSUME Init PROVE OrderInv
  OBVIOUS
<1>1. RecordedInOrder /\ RecordedIsApplied
  BY DEF Init, RecordedInOrder, RecordedIsApplied, Recorded, Rising
<1>2. ASSUME NEW e \in Executors PROVE InOrder(e) /\ pc[e] = "idle" /\ \A m : ~Claims(e, m)
  BY DEF Init, InOrder, Executing, Undoes, Claims, NoDown
<1> QED
  BY <1>1, <1>2 DEF OrderInv

LEMMA OrderNext ==
  ASSUME UndoneByOne, TruthInv, TruthInv', OrderInv, [Next]_vars
  PROVE  OrderInv'
<1>1. CASE UNCHANGED vars
  <2>1. /\ UNCHANGED <<options, records, applied, pc, pending, inTx, log, runners>>
        /\ Recorded' = Recorded
    BY <1>1 DEF vars, Recorded
  <2>2. ASSUME NEW e \in Executors PROVE InOrder(e)' /\ \A m : Claims(e, m)' <=> Claims(e, m)
    <3>1. Current(e)' = Current(e) /\ Done(e)' = Done(e) /\ IsLast(e)' = IsLast(e)
      BY <2>1 DEF Current, Done, IsLast
    <3>2. /\ (Executing(e)' <=> Executing(e)) /\ (Undoes(e)' <=> Undoes(e))
          /\ \A m : Claims(e, m)' <=> Claims(e, m)
          /\ \A m : Once(m)' <=> Once(m)
      BY <2>1, <3>1 DEF Executing, Undoes, Claims, Once, Names
    <3>3. InOrder(e)
      BY DEF OrderInv
    <3> QED
      BY <2>1, <3>1, <3>2, <3>3 DEF InOrder, ExecutesInOrder, Rising, Names, Inserted
  <2>3. RecordedInOrder' /\ RecordedIsApplied'
    BY <2>1 DEF OrderInv, RecordedInOrder, RecordedIsApplied, Rising
  <2>4. \A m : Once(m)' <=> Once(m)
    BY <2>1 DEF Once
  <2> QED
    BY <2>1, <2>2, <2>3, <2>4 DEF OrderInv
<1>2. ASSUME NEW e \in options.processes, Step(e), options' = options PROVE OrderInv'
  <2>1. e \in Executors /\ TypeOK'
    BY MigrationAssumption DEF TruthInv, TypeOK, OptionsType
  <2> QED
    BY <1>2, <2>1, ExecutePendingKeepsOrder, UpKeepsOrder, RecordUpKeepsOrder, CommitKeepsOrder,
       UndoLastKeepsOrder, DownKeepsOrder, RecordDownKeepsOrder, EndsKeepOrder DEF Step
<1> QED
  BY <1>1, <1>2 DEF Next

\* Executors that run at the same time do not overtake one another, if who
\* undoes is alone; what each has recorded or is about to is there in order.
THEOREM OrderInvariance ==
  ASSUME UndoneOnce, UndoneAsDone, UndoneByOne PROVE Spec => [](TruthInv /\ OrderInv)
<1>1. Init => TruthInv /\ OrderInv
  BY TruthInit, OrderInit
<1>2. TruthInv /\ OrderInv /\ [Next]_vars => (TruthInv /\ OrderInv)'
  BY TruthNext, OrderNext
<1> QED
  BY <1>1, <1>2, PTL DEF Spec

\* However many processes execute migrations at the same time, also such as can
\* be applied twice, and whichever crash: none is ever recorded before one with
\* an older timestamp, and rows of those that are applied once have ids in the
\* order of the timestamps.  A process that also undoes has to be the only one
\* (UndoneByOne): with a second one this is false, see RevertsTheLast.
THEOREM AlwaysRecordedInOrder ==
  ASSUME UndoneOnce, UndoneAsDone, UndoneByOne PROVE Spec => []RecordedInOrder
BY OrderInvariance, PTL DEF OrderInv

-----------------------------------------------------------------------------
(***************************************************************************)
(* Mode "all".                                                             *)
(***************************************************************************)

\* Only an executor's commit makes records durable, and it has done everything.
LEMMA AllAtOnce ==
  ASSUME TruthInv, OrderInv, [Next]_vars
  PROVE  [\A m \in Recorded' \ Recorded : options.transaction = "all" => Recorded' = Migrations]_vars
<1> SUFFICES ASSUME NEW m \in Recorded' \ Recorded, options.transaction = "all"
             PROVE  Recorded' = Migrations
  OBVIOUS
<1>1. records' # records
  BY DEF Recorded
<1>2. PICK e \in options.processes : Step(e) /\ options' = options
  BY <1>1 DEF Next, vars
<1>3. e \in Executors /\ TypeOK /\ TransactionSound(e) /\ InOrder(e) /\ LogSound(e)
  BY MigrationAssumption DEF TruthInv, OrderInv, TypeOK, OptionsType
<1>4. pc[e] # "idle" => inTx[e]
  BY <1>3 DEF TransactionSound
<1>5. Commit(e)
  BY <1>1, <1>2, <1>4 DEF Step, FailsEarly, ExecutePending, Up, UpTransaction, RecordUp, UndoLast, Down, RecordDown, Fails,
                          GiveUp, Crash, Rollback, Run
<1>6. Commits(e) /\ Perform(log[e]) /\ IsLast(e) /\ pc[e] = "commit"
  BY <1>1, <1>5 DEF Commit, CommitTx, Commits
<1>7. records' = {row \in records : <<"delete", row.name>> \notin log[e]} \cup Inserted(log[e])
  BY <1>6 DEF Perform, Inserted
<1>8. Inserted(log[e]) # {}
  BY <1>7 DEF Recorded
<1>9. ExecutesInOrder(e) /\ Done(e) = 1..Current(e)
  BY <1>3, <1>6, <1>8 DEF InOrder, Executing, Done
<1>10. Current(e) \in Migrations
  BY <1>3, <1>6, CurrentIsSmallest DEF TypeOK
<1>11. Current(e) = Latest /\ Migrations = 1..Latest
  <2>1. Latest \in Current(e)..Latest
    BY <1>10, MigrationAssumption DEF Migrations
  <2> QED
    BY <1>6, <1>9, <2>1 DEF ExecutesInOrder, IsLast, Migrations
<1>12. \A n \in Migrations : <<"delete", n>> \notin log[e]
  BY <1>3, <1>6, <1>9 DEF LogSound, ExecutesInOrder, Balanced, NoDown
<1>13. records' = records \cup Inserted(log[e])
  <2>1. \A row \in records : row.name \in Migrations
    BY <1>3 DEF TypeOK, Rows
  <2> QED
    BY <1>7, <1>12, <2>1
<1>14. Recorded' = Recorded \cup Names(log[e])
  BY <1>13 DEF Recorded, Names
<1>15. Recorded \subseteq Migrations /\ Names(log[e]) \subseteq Migrations
  BY <1>3 DEF TypeOK, Recorded, Names, Inserted, Rows
<1> QED
  BY <1>9, <1>11, <1>14, <1>15 DEF ExecutesInOrder

\* In mode "all" a commit that records anything records all there is, however
\* many processes execute migrations: no other session ever sees a run half
\* done.  Who undoes has to be alone, as above.
THEOREM RunsAreWhole ==
  ASSUME UndoneOnce, UndoneAsDone, UndoneByOne PROVE Spec => AllOrNothing
BY OrderInvariance, AllAtOnce, PTL DEF AllOrNothing, Spec

=============================================================================
