-------------------------- MODULE CockroachRetry_proof --------------------------
(***************************************************************************)
(* Proofs about CockroachRetry, for a transaction of any length and any    *)
(* number of retries, whose caller awaits one statement before the next.   *)
(* They hold while only the last statement of a replay conflicts; the run  *)
(* retry_in_replay shows what happens otherwise.                           *)
(***************************************************************************)
EXTENDS CockroachRetry, SequenceTheorems, TLAPS

\* What is recorded, and done, is always a beginning of the transaction.
Upto(n) == [i \in 1..n |-> i]

Answer == {"none", "pending", "resolved", "rejected"}

RetryTyped ==
  /\ calls \in [Threads -> Seq(Call)]
  /\ answer \in [Threads -> Answer]
  /\ storeQueries \in BOOLEAN

Request(t, q) == [thread |-> t, query |-> q]

\* Only the calls of thread t are under way.
Only(t) == \A u \in Threads \ {t} : calls[u] = <<>>
Idle == wire = <<>> /\ \A t \in Threads : calls[t] = <<>>

\* The k outer calls wait at the end of their replays of n statements.
AtEnds(stack, k, n) == \A i \in 1..k : stack[i].at = n + 1

(***************************************************************************)
(* A call of thread t with n statements in the record: its own query, the  *)
(* statement numbered t or RELEASE SAVEPOINT, is sent; ROLLBACK TO is      *)
(* sent; a replay is before statement j; it has sent statement j.          *)
(***************************************************************************)
Asked(t, n) ==
  /\ Len(calls[t]) = 1 /\ calls[t][1].at = 0
  /\ wire = <<Request(t, IF t = 0 THEN ReleaseRestart ELSE t)>>
  /\ server = "open" /\ tx = Upto(IF t = 0 THEN n ELSE n - 1)
  /\ t # 0 => storeQueries

Restarting(t, n) ==
  /\ Len(calls[t]) >= 1 /\ AtEnds(calls[t], Len(calls[t]) - 1, n) /\ Innermost(t).at = -1
  /\ wire = <<Request(t, RollbackToRestart)>>
  /\ server = "aborted" /\ ~storeQueries

Before(t, n, j) ==
  /\ Len(calls[t]) >= 1 /\ AtEnds(calls[t], Len(calls[t]) - 1, n) /\ Innermost(t).at = j
  /\ wire = <<>>
  /\ server = "open" /\ tx = Upto(j - 1)
  /\ j <= n => ~storeQueries

Replaying(t, n, j) ==
  /\ Len(calls[t]) >= 2 /\ AtEnds(calls[t], Len(calls[t]) - 2, n)
  /\ calls[t][Len(calls[t]) - 1].at = j + 1 /\ Innermost(t).at = 0
  /\ wire = <<Request(t, j)>>
  /\ server = "open" /\ tx = Upto(j - 1) /\ ~storeQueries

Attempt(t, n) ==
  /\ Only(t)
  /\ \/ Asked(t, n)
     \/ Restarting(t, n)
     \/ \E j \in 1..(n + 1) : Before(t, n, j)
     \/ \E j \in 1..n : Replaying(t, n, j)

\* All is in the transaction, or already durable since RELEASE SAVEPOINT.
Sealed ==
  \/ server = "open" /\ tx = Upto(Latest) /\ durable = <<>>
  \/ server = "released" /\ durable = Upto(Latest)

\* The caller's last request is sent.
Ending(at, q) == Only(0) /\ Len(calls[0]) = 1 /\ calls[0][1].at = at /\ wire = <<Request(0, q)>>

RunningInv(n) ==
  /\ queries = Upto(n) /\ durable = <<>>
  /\ answer[0] = "none"
  /\ \A s \in 1..Latest : (s < n => answer[s] = "resolved") /\ (s > n => answer[s] = "none")
  /\ \/ /\ Idle /\ (n > 0 => answer[n] = "resolved")
        /\ storeQueries /\ server = "open" /\ tx = Upto(n)
     \/ Idle /\ n > 0 /\ answer[n] = "rejected"
     \/ n > 0 /\ answer[n] = "pending" /\ Attempt(n, n)

ReleasingInv ==
  /\ queries = Upto(Latest)
  /\ \/ Idle /\ answer[0] = "resolved" /\ Sealed
     \/ Idle /\ answer[0] = "rejected" /\ durable = <<>>
     \/ answer[0] = "pending" /\ durable = <<>> /\ Attempt(0, Latest)

CommittingInv ==
  \/ Idle /\ answer[0] = "resolved" /\ durable = Upto(Latest)
  \/ Idle /\ answer[0] = "rejected" /\ durable = <<>>
  \/ answer[0] = "pending" /\ Ending(0, Commit) /\ Sealed
  \/ answer[0] = "pending" /\ Ending(-1, RollbackToRestart) /\ server = "over" /\ durable = <<>>

RollingBackInv ==
  /\ durable = <<>>
  /\ \/ Idle /\ answer[0] = "resolved"
     \/ answer[0] = "pending" /\ Ending(0, Rollback)

\* How far a transaction that awaits its statements has got.
AwaitedInv ==
  /\ RetryTyped
  /\ \E k \in Nat : tx = Upto(k)
  /\ \/ phase = "running" /\ \E n \in 0..Latest : RunningInv(n)
     \/ phase = "releasing" /\ ReleasingInv
     \/ phase = "committing" /\ CommittingInv
     \/ phase = "rollingBack" /\ RollingBackInv
     \/ phase = "resolved" /\ Idle /\ durable = Upto(Latest)
     \/ phase = "rejected" /\ Idle /\ durable = <<>>

RetryInv == queries \in Seq(Requests) /\ (~together => AwaitedInv)

-----------------------------------------------------------------------------
(***************************************************************************)
(* Sequences.                                                              *)
(***************************************************************************)
LEMMA UptoFacts ==
  ASSUME NEW n \in Nat
  PROVE  /\ Upto(n) \in Seq(Nat) /\ Len(Upto(n)) = n
         /\ \A i \in 1..n : Upto(n)[i] = i
         /\ Append(Upto(n), n + 1) = Upto(n + 1)
         /\ <<>> \o Upto(n) = Upto(n)
         /\ Upto(0) = <<>>
<1>1. Upto(n) \in Seq(Nat) /\ Len(Upto(n)) = n /\ \A i \in 1..n : Upto(n)[i] = i
  BY DEF Upto
<1>2. Append(Upto(n), n + 1) = Upto(n + 1)
  BY DEF Upto
<1>3. <<>> \o Upto(n) = Upto(n)
  BY <1>1, ConcatEmptySeq
<1>4. Upto(0) = <<>>
  BY DEF Upto
<1> QED
  BY <1>1, <1>2, <1>3, <1>4

LEMMA OneRequest ==
  ASSUME NEW r, NEW next
  PROVE  /\ <<r>> # <<>> /\ Head(<<r>>) = r /\ Tail(<<r>>) = <<>>
         /\ Append(<<>>, next) = <<next>> /\ Append(Tail(<<r>>), next) = <<next>>
OBVIOUS

\* What the model does with the stack of calls of a thread.
LEMMA CallPushed ==
  ASSUME NEW stack \in Seq(Call), NEW c \in Call
  PROVE  /\ Append(stack, c) \in Seq(Call) /\ Len(Append(stack, c)) = Len(stack) + 1
         /\ \A i \in 1..Len(stack) : Append(stack, c)[i] = stack[i]
         /\ Append(stack, c)[Len(stack) + 1] = c
BY AppendProperties

LEMMA CallReturned ==
  ASSUME NEW stack \in Seq(Call), Len(stack) >= 1
  PROVE  /\ Front(stack) \in Seq(Call) /\ Len(Front(stack)) = Len(stack) - 1
         /\ \A i \in 1..(Len(stack) - 1) : Front(stack)[i] = stack[i]
         /\ Len(stack) = 1 => Front(stack) = <<>>
<1>1. Len(stack) \in Nat
  BY LenProperties
<1>2. Front(stack) = SubSeq(stack, 1, Len(stack) - 1)
  BY DEF Front
<1>3. \A i \in 1..(Len(stack) - 1) : stack[i] \in Call
  BY <1>1, ElementOfSeq
<1>4. /\ Front(stack) \in Seq(Call) /\ Len(Front(stack)) = Len(stack) - 1
      /\ \A i \in 1..(Len(stack) - 1) : Front(stack)[i] = stack[i]
  <2> DEFINE m == Len(stack) - 1
  <2>1. m \in Nat
    BY <1>1
  <2>2. \A i \in 1..m : stack[i] \in Call
    BY <1>3
  <2> HIDE DEF m
  <2>3. /\ SubSeq(stack, 1, m) \in Seq(Call)
        /\ Len(SubSeq(stack, 1, m)) = IF 1 <= m THEN m - 1 + 1 ELSE 0
        /\ \A i \in 1..(m - 1 + 1) : SubSeq(stack, 1, m)[i] = stack[1 + i - 1]
    BY <2>1, <2>2, SubSeqProperties
  <2>4. \A i \in 1..m : i \in 1..(m - 1 + 1) /\ 1 + i - 1 = i
    BY <2>1
  <2>5. Len(SubSeq(stack, 1, m)) = m /\ \A i \in 1..m : SubSeq(stack, 1, m)[i] = stack[i]
    BY <2>1, <2>3, <2>4
  <2> QED
    BY <1>2, <2>3, <2>5 DEF m
<1>5. Len(stack) = 1 => Front(stack) = <<>>
  BY <1>4, EmptySeq
<1> QED
  BY <1>4, <1>5

Moved(stack, at) == [stack EXCEPT ![Len(stack)].at = at]

LEMMA CallMoved ==
  ASSUME NEW stack \in Seq(Call), Len(stack) >= 1, NEW at \in Int
  PROVE  /\ Moved(stack, at) \in Seq(Call) /\ Len(Moved(stack, at)) = Len(stack)
         /\ \A i \in 1..(Len(stack) - 1) : Moved(stack, at)[i] = stack[i]
         /\ Moved(stack, at)[Len(stack)].at = at
<1> DEFINE c == [stack[Len(stack)] EXCEPT !.at = at]
           moved == [stack EXCEPT ![Len(stack)] = c]
<1>1. Len(stack) \in Nat /\ stack[Len(stack)] \in Call
  BY LenProperties, ElementOfSeq
<1>2. c \in Call /\ c.at = at
  BY <1>1 DEF Call
<1>3. /\ moved \in Seq(Call) /\ Len(moved) = Len(stack)
      /\ \A i \in 1..(Len(stack) - 1) : moved[i] = stack[i]
      /\ moved[Len(stack)] = c
  <2> HIDE DEF c
  <2> QED
    BY <1>1, <1>2, ExceptSeq
<1> QED
  BY <1>2, <1>3 DEF Moved

-----------------------------------------------------------------------------
(***************************************************************************)
(* A step of the call of thread t: it goes on, returns with the record in  *)
(* the transaction, returns as RELEASE SAVEPOINT does, or throws.          *)
(***************************************************************************)
Answered(t, value) == answer' = [answer EXCEPT ![t] = value]

Outcome(t, n) ==
  /\ queries' = queries /\ phase' = phase
  /\ RetryTyped' /\ \E k \in Nat : tx' = Upto(k)
  /\ \/ Attempt(t, n)' /\ Answered(t, "pending") /\ durable' = durable
     \/ /\ Idle' /\ Answered(t, "resolved") /\ durable' = durable
        /\ server' = "open" /\ tx' = Upto(n) /\ storeQueries'
     \/ /\ t = 0 /\ Idle' /\ Answered(t, "resolved") /\ durable' = durable \o Upto(n)
        /\ server' = "released"
     \/ Idle' /\ Answered(t, "rejected") /\ durable' = durable

UnderWay(t, n) ==
  /\ RetryTyped /\ queries = Upto(n) /\ Active
  /\ answer[t] = "pending" /\ Only(t)
  /\ t = 0 \/ t = n

Answering(u, q) == Succeeds(u, q) \/ Conflict(u, q) \/ Fails(u, q)

\* Who is done leaves nobody under way.
LEMMA DoneIsIdle ==
  ASSUME NEW t \in Threads, RetryTyped, Only(t), wire' = <<>>, calls' = [calls EXCEPT ![t] = <<>>]
  PROVE  Idle'
BY DEF Idle, Only, RetryTyped

LEMMA OthersStayOut ==
  ASSUME NEW t \in Threads, NEW stack, RetryTyped, Only(t), calls' = [calls EXCEPT ![t] = stack]
  PROVE  Only(t)' /\ calls'[t] = stack
BY DEF Only, RetryTyped

LEMMA KeepsTypes ==
  ASSUME NEW t \in Threads, NEW stack \in Seq(Call), NEW value \in Answer, RetryTyped,
         calls' = [calls EXCEPT ![t] = stack], Answered(t, value), storeQueries' \in BOOLEAN
  PROVE  RetryTyped'
BY DEF RetryTyped, Answered

LEMMA ThrowOutcome ==
  ASSUME NEW t \in Threads, NEW n \in 0..Latest, UnderWay(t, n), Throw(t), wire' = <<>>,
         storeQueries' \in BOOLEAN, UNCHANGED <<queries, phase, durable>>,
         \E k \in Nat : tx' = Upto(k)
  PROVE  Outcome(t, n)
<1>1. calls' = [calls EXCEPT ![t] = <<>>] /\ Answered(t, "rejected")
  BY DEF Throw, Answered
<1>2. Idle'
  BY <1>1, DoneIsIdle DEF UnderWay
<1>3. RetryTyped'
  <2>1. <<>> \in Seq(Call) /\ "rejected" \in Answer
    BY EmptySeq DEF Answer
  <2> QED
    BY <1>1, <2>1, KeepsTypes DEF UnderWay
<1> QED
  BY <1>1, <1>2, <1>3 DEF Outcome

\* The call's own query is answered.
LEMMA AskedStep ==
  ASSUME NEW t \in Threads, NEW n \in 0..Latest, UnderWay(t, n), Asked(t, n),
         NEW u \in Threads, NEW q \in Requests, Answering(u, q)
  PROVE  Outcome(t, n)
<1> DEFINE own == IF t = 0 THEN ReleaseRestart ELSE t
<1>0. Latest \in Nat /\ n \in Nat /\ t \in Nat /\ t <= Latest
  BY RetryAssumption DEF Threads
<1>1. u = t /\ q = own /\ Tail(wire) = <<>>
      /\ Append(Tail(wire), Request(t, RollbackToRestart)) = <<Request(t, RollbackToRestart)>>
  <2>1. wire = <<Request(t, own)>>
    BY DEF Asked
  <2>2. Head(wire) = Request(u, q)
    BY DEF Answering, Succeeds, Conflict, Fails, Request
  <2>3. Request(u, q) = Request(t, own)
    BY <2>1, <2>2, OneRequest
  <2> QED
    BY <2>1, <2>3, OneRequest DEF Request
<1>2. /\ calls[t] \in Seq(Call) /\ Len(calls[t]) = 1
      /\ Front(calls[t]) = <<>> /\ <<>> \in Seq(Call)
  <2>1. calls[t] \in Seq(Call) /\ Len(calls[t]) = 1
    BY DEF UnderWay, Asked, RetryTyped
  <2>2. Len(calls[t]) >= 1
    BY <2>1
  <2> QED
    BY <2>1, <2>2, CallReturned, EmptySeq
<1>3. tx = Upto(IF t = 0 THEN n ELSE n - 1) /\ server = "open" /\ storeQueries \in BOOLEAN
  BY DEF Asked, UnderWay, RetryTyped
<1>4. \E k \in Nat : tx = Upto(k)
  <2>1. t # 0 => n - 1 \in Nat
    BY <1>0 DEF UnderWay
  <2> QED
    BY <1>0, <1>3, <2>1
<1>5. CASE Succeeds(t, q)
  <2>1. q # RollbackToRestart /\ q # Commit /\ q # Rollback
    BY <1>0, <1>1 DEF ReleaseRestart, RollbackToRestart, Commit, Rollback
  <2>2. /\ calls' = [calls EXCEPT ![t] = <<>>] /\ Answered(t, "resolved") /\ wire' = <<>>
        /\ queries' = queries /\ phase' = phase /\ storeQueries' = storeQueries
    BY <1>1, <1>2, <1>5, <2>1 DEF Succeeds, Return, Answered, runnerVars
  <2>3. Idle' /\ RetryTyped'
    <3>1. "resolved" \in Answer
      BY DEF Answer
    <3>2. Idle'
      BY <2>2, DoneIsIdle DEF UnderWay
    <3> QED
      BY <1>2, <1>3, <2>2, <3>1, <3>2, KeepsTypes DEF UnderWay
  <2>4. CASE t = 0
    <3>1. q \notin Statements /\ q = ReleaseRestart
      BY <1>0, <1>1, <2>4 DEF Statements, ReleaseRestart
    <3>2. server' = "released" /\ durable' = durable \o tx /\ tx' = <<>>
      BY <1>3, <1>5, <2>1, <3>1 DEF Succeeds, Accepts
    <3>3. tx' = Upto(0) /\ durable' = durable \o Upto(n)
      BY <1>3, <2>4, <3>2, UptoFacts
    <3> QED
      BY <2>2, <2>3, <2>4, <3>2, <3>3 DEF Outcome
  <2>5. CASE t # 0
    <3>1. q \in Statements /\ q \notin {ReleaseRestart, Commit, Rollback, RollbackToRestart} /\ q = n
      BY <1>0, <1>1, <2>5 DEF UnderWay, Statements, ReleaseRestart, RollbackToRestart, Commit, Rollback
    <3>2. server' = "open" /\ durable' = durable /\ tx' = Append(Upto(n - 1), n)
      BY <1>3, <1>5, <2>5, <3>1 DEF Succeeds, Accepts
    <3>3. tx' = Upto(n)
      <4>1. n - 1 \in Nat /\ n - 1 + 1 = n
        BY <1>0, <2>5 DEF UnderWay
      <4>2. Append(Upto(n - 1), n - 1 + 1) = Upto(n - 1 + 1)
        BY <4>1, UptoFacts
      <4> QED
        BY <3>2, <4>1, <4>2
    <3>4. storeQueries'
      BY <2>2, <2>5 DEF Asked
    <3> QED
      BY <1>0, <2>2, <2>3, <3>2, <3>3, <3>4 DEF Outcome
  <2> QED
    BY <2>4, <2>5
<1>6. CASE Conflict(t, q)
  <2>1. q # Commit
    BY <1>0, <1>1 DEF ReleaseRestart, Commit
  <2>2. queries' = queries /\ phase' = phase /\ durable' = durable /\ server' = "aborted" /\ tx' = tx
    BY <1>6, <2>1 DEF Conflict
  <2>3. CASE Throw(t) /\ wire' = Tail(wire) /\ storeQueries' = storeQueries
    BY <1>1, <1>3, <1>4, <2>2, <2>3, ThrowOutcome
  <2>4. CASE /\ storeQueries' = FALSE /\ calls' = [calls EXCEPT ![t][Len(calls[t])].at = -1]
             /\ wire' = Append(Tail(wire), Request(t, RollbackToRestart)) /\ answer' = answer
    <3> DEFINE stack == Moved(calls[t], -1)
    <3>1. stack \in Seq(Call) /\ Len(stack) = 1 /\ stack[1].at = -1
      <4>1. -1 \in Int /\ Len(calls[t]) >= 1
        BY <1>2
      <4>2. stack \in Seq(Call) /\ Len(stack) = Len(calls[t]) /\ stack[Len(calls[t])].at = -1
        <5> HIDE DEF stack
        <5> QED
          BY <1>2, <4>1, CallMoved DEF stack
      <4> QED
        BY <1>2, <4>2
    <3>2. calls' = [calls EXCEPT ![t] = stack] /\ Answered(t, "pending") /\ "pending" \in Answer
      BY <2>4 DEF UnderWay, RetryTyped, Answered, Answer, Moved
    <3> HIDE DEF stack
    <3>3. Only(t)' /\ calls'[t] = stack
      BY <3>2, OthersStayOut DEF UnderWay
    <3>4. RetryTyped'
      BY <2>4, <3>1, <3>2, KeepsTypes DEF UnderWay
    <3>5. Restarting(t, n)'
      BY <1>1, <2>2, <2>4, <3>1, <3>3 DEF Restarting, AtEnds, Innermost
    <3> QED
      BY <1>4, <2>2, <3>2, <3>3, <3>4, <3>5 DEF Outcome, Attempt
  <2> QED
    BY <1>6, <2>3, <2>4 DEF Conflict, Request
<1>7. CASE Fails(t, q)
  BY <1>1, <1>3, <1>4, <1>7, ThrowOutcome DEF Fails, runnerVars
<1> QED
  BY <1>1, <1>5, <1>6, <1>7 DEF Answering

\* The head of the wire is what is answered.
LEMMA HeadAnswered ==
  ASSUME NEW t \in Threads, NEW r \in Requests, NEW u \in Threads, NEW q \in Requests,
         wire = <<Request(t, r)>>, Answering(u, q)
  PROVE  /\ u = t /\ q = r /\ Tail(wire) = <<>>
         /\ Append(Tail(wire), Request(t, RollbackToRestart)) = <<Request(t, RollbackToRestart)>>
<1>1. Head(wire) = Request(u, q)
  BY DEF Answering, Succeeds, Conflict, Fails, Request
<1>2. Request(u, q) = Request(t, r)
  BY <1>1, OneRequest
<1> QED
  BY <1>2, OneRequest DEF Request

\* The innermost call waits for something else, or starts its replay.
LEMMA MovedOn ==
  ASSUME NEW t \in Threads, NEW n \in Nat, NEW at \in Int, RetryTyped, Only(t),
         Len(calls[t]) >= 1, AtEnds(calls[t], Len(calls[t]) - 1, n),
         calls' = [calls EXCEPT ![t][Len(calls[t])].at = at],
         answer[t] = "pending", answer' = answer, storeQueries' \in BOOLEAN
  PROVE  /\ RetryTyped' /\ Answered(t, "pending") /\ Only(t)'
         /\ Len(calls'[t]) >= 1 /\ AtEnds(calls'[t], Len(calls'[t]) - 1, n)
         /\ calls'[t][Len(calls'[t])].at = at
<1> DEFINE stack == Moved(calls[t], at)
<1>1. calls[t] \in Seq(Call) /\ Len(calls[t]) \in Nat
  BY LenProperties DEF RetryTyped
<1>2. /\ stack \in Seq(Call) /\ Len(stack) = Len(calls[t])
      /\ \A i \in 1..(Len(calls[t]) - 1) : stack[i] = calls[t][i]
      /\ stack[Len(calls[t])].at = at
  <2> HIDE DEF stack
  <2> QED
    BY <1>1, CallMoved DEF stack
<1>3. calls' = [calls EXCEPT ![t] = stack] /\ Answered(t, "pending") /\ "pending" \in Answer
  BY DEF RetryTyped, Answered, Answer, Moved
<1> HIDE DEF stack
<1>4. Only(t)' /\ calls'[t] = stack
  BY <1>3, OthersStayOut
<1>5. RetryTyped'
  BY <1>2, <1>3, KeepsTypes
<1> QED
  BY <1>1, <1>2, <1>3, <1>4, <1>5 DEF AtEnds

\* ROLLBACK TO is answered.
LEMMA RestartingStep ==
  ASSUME NEW t \in Threads, NEW n \in 0..Latest, UnderWay(t, n), Restarting(t, n),
         NEW u \in Threads, NEW q \in Requests, Answering(u, q)
  PROVE  Outcome(t, n)
<1>0. Latest \in Nat /\ n \in Nat
  BY RetryAssumption
<1>1. u = t /\ q = RollbackToRestart /\ Tail(wire) = <<>>
  <2>1. RollbackToRestart \in Requests
    BY <1>0 DEF Requests, RollbackToRestart
  <2> QED
    BY <2>1, HeadAnswered DEF Restarting
<1>2. q \notin Statements /\ q # ReleaseRestart /\ q # Commit /\ q # Rollback
  BY <1>0, <1>1 DEF Statements, ReleaseRestart, Commit, Rollback, RollbackToRestart
<1>3. server = "aborted"
  BY DEF Restarting
<1>4. Succeeds(t, q)
  BY <1>1, <1>2, <1>3 DEF Answering, Conflict, Fails
<1>5. /\ server' = "open" /\ tx' = <<>> /\ durable' = durable /\ wire' = <<>>
      /\ calls' = [calls EXCEPT ![t][Len(calls[t])].at = 1] /\ answer' = answer
      /\ queries' = queries /\ phase' = phase /\ storeQueries' = storeQueries
  BY <1>1, <1>2, <1>3, <1>4 DEF Succeeds, Accepts, runnerVars
<1>6. /\ RetryTyped' /\ Answered(t, "pending") /\ Only(t)'
      /\ Len(calls'[t]) >= 1 /\ AtEnds(calls'[t], Len(calls'[t]) - 1, n)
      /\ calls'[t][Len(calls'[t])].at = 1
  <2>1. storeQueries' \in BOOLEAN /\ 1 \in Int
    BY <1>5 DEF UnderWay, RetryTyped
  <2> QED
    BY <1>0, <1>5, <2>1, MovedOn DEF UnderWay, Restarting
<1>7. tx' = Upto(1 - 1) /\ tx' = Upto(0)
  BY <1>5, UptoFacts
<1>8. Before(t, n, 1)'
  BY <1>5, <1>6, <1>7 DEF Before, Innermost, Restarting
<1>9. 1 \in 1..(n + 1)
  BY <1>0
<1> QED
  BY <1>5, <1>6, <1>7, <1>8, <1>9 DEF Outcome, Attempt

LEMMA CallsCounted ==
  ASSUME NEW stack \in Seq(Call)
  PROVE  /\ Len(stack) \in Nat
         /\ Len(stack) >= 1 => Len(stack) = 1 \/ Len(stack) >= 2
         /\ Len(stack) >= 2 => Len(stack) >= 1 /\ Len(stack) # 1
<1>1. PICK m \in Nat : m = Len(stack)
  BY LenProperties
<1> QED
  BY <1>1

LEMMA OuterCalls ==
  ASSUME NEW stack, NEW longer, NEW n \in Nat, Len(longer) \in Nat, Len(longer) >= 2,
         Len(stack) = Len(longer) - 1, \A i \in 1..(Len(longer) - 1) : stack[i] = longer[i],
         AtEnds(longer, Len(longer) - 2, n)
  PROVE  /\ Len(stack) >= 1 /\ AtEnds(stack, Len(stack) - 1, n)
         /\ stack[Len(stack)] = longer[Len(longer) - 1]
<1>1. PICK m \in Nat : m = Len(longer)
  OBVIOUS
<1>2. m >= 2 /\ m - 1 >= 1 /\ Len(stack) = m - 1 /\ Len(stack) - 1 = m - 2 /\ m - 1 \in 1..(m - 1)
  BY <1>1
<1>3. \A i \in 1..(m - 2) : i \in 1..(m - 1)
  BY <1>1
<1> QED
  BY <1>1, <1>2, <1>3 DEF AtEnds

\* The innermost of several calls returns to the replay of the next.
LEMMA ReturnsToReplay ==
  ASSUME NEW t \in Threads, RetryTyped, Only(t), Len(calls[t]) >= 2, Return(t), storeQueries' \in BOOLEAN
  PROVE  /\ RetryTyped' /\ Answered(t, "pending") /\ Only(t)'
         /\ Len(calls'[t]) = Len(calls[t]) - 1
         /\ \A i \in 1..(Len(calls[t]) - 1) : calls'[t][i] = calls[t][i]
<1>1. /\ calls[t] \in Seq(Call) /\ Len(calls[t]) \in Nat
      /\ Len(calls[t]) >= 1 /\ Len(calls[t]) # 1
  BY CallsCounted DEF RetryTyped
<1>2. /\ Front(calls[t]) \in Seq(Call) /\ Len(Front(calls[t])) = Len(calls[t]) - 1
      /\ \A i \in 1..(Len(calls[t]) - 1) : Front(calls[t])[i] = calls[t][i]
  BY <1>1, CallReturned
<1>3. calls' = [calls EXCEPT ![t] = Front(calls[t])] /\ Answered(t, "pending") /\ "pending" \in Answer
  BY <1>1 DEF Return, Answered, Answer
<1>4. Only(t)' /\ calls'[t] = Front(calls[t])
  BY <1>3, OthersStayOut
<1>5. RetryTyped'
  BY <1>2, <1>3, KeepsTypes
<1> QED
  BY <1>2, <1>3, <1>4, <1>5

\* A replayed statement is answered.
LEMMA ReplayingStep ==
  ASSUME ReplayConflicts = "last",
         NEW t \in Threads, NEW n \in 0..Latest, UnderWay(t, n), NEW j \in 1..n, Replaying(t, n, j),
         NEW u \in Threads, NEW q \in Requests, Answering(u, q)
  PROVE  Outcome(t, n)
<1>0. Latest \in Nat /\ n \in Nat /\ j \in Nat /\ j - 1 \in Nat /\ j + 1 \in 1..(n + 1)
  BY RetryAssumption
<1>1. u = t /\ q = j /\ Tail(wire) = <<>>
      /\ Append(Tail(wire), Request(t, RollbackToRestart)) = <<Request(t, RollbackToRestart)>>
  <2>1. j \in Requests
    BY <1>0 DEF Requests, RollbackToRestart
  <2> QED
    BY <2>1, HeadAnswered DEF Replaying
<1>2. q \in Statements /\ q \notin {ReleaseRestart, Commit, Rollback, RollbackToRestart}
  BY <1>0, <1>1 DEF Statements, ReleaseRestart, Commit, Rollback, RollbackToRestart
<1>3. /\ server = "open" /\ tx = Upto(j - 1) /\ ~storeQueries /\ storeQueries = FALSE
      /\ calls[t] \in Seq(Call) /\ Len(calls[t]) \in Nat /\ Len(calls[t]) >= 2
      /\ RetryTyped /\ Only(t)
  BY LenProperties DEF Replaying, UnderWay, RetryTyped
<1>4. CASE Succeeds(t, q)
  <2>1. /\ server' = "open" /\ tx' = Append(Upto(j - 1), j) /\ durable' = durable /\ wire' = <<>>
        /\ Return(t)
        /\ queries' = queries /\ phase' = phase /\ storeQueries' = storeQueries
    BY <1>1, <1>2, <1>3, <1>4 DEF Succeeds, Accepts, runnerVars
  <2>2. tx' = Upto(j)
    <3>1. j - 1 + 1 = j
      BY <1>0
    <3>2. Append(Upto(j - 1), j - 1 + 1) = Upto(j - 1 + 1)
      BY <1>0, UptoFacts
    <3> QED
      BY <2>1, <3>1, <3>2
  <2>3. /\ RetryTyped' /\ Answered(t, "pending") /\ Only(t)'
        /\ Len(calls'[t]) = Len(calls[t]) - 1
        /\ \A i \in 1..(Len(calls[t]) - 1) : calls'[t][i] = calls[t][i]
    BY <1>3, <2>1, ReturnsToReplay
  <2>4. /\ Len(calls'[t]) >= 1 /\ AtEnds(calls'[t], Len(calls'[t]) - 1, n)
        /\ calls'[t][Len(calls'[t])].at = j + 1
    <3>1. AtEnds(calls[t], Len(calls[t]) - 2, n) /\ calls[t][Len(calls[t]) - 1].at = j + 1
      BY DEF Replaying
    <3> QED
      BY <1>0, <1>3, <2>3, <3>1, OuterCalls
  <2>5. Before(t, n, j + 1)'
    <3>1. j + 1 - 1 = j
      BY <1>0
    <3> QED
      BY <1>3, <2>1, <2>2, <2>4, <3>1 DEF Before, Innermost
  <2> QED
    BY <1>0, <2>1, <2>2, <2>3, <2>5 DEF Outcome, Attempt
<1>5. CASE Conflict(t, q)
  <2>1. /\ queries' = queries /\ phase' = phase /\ durable' = durable /\ server' = "aborted" /\ tx' = tx
        /\ calls[t][Len(calls[t]) - 1].at = Len(queries) + 1
    BY <1>2, <1>3, <1>5 DEF Conflict, MayConflict
  <2>2. calls[t][Len(calls[t]) - 1].at = n + 1
    BY <1>0, <2>1, UptoFacts DEF UnderWay
  <2>3. AtEnds(calls[t], Len(calls[t]) - 1, n)
    BY <1>3, <2>2 DEF Replaying, AtEnds
  <2>4. CASE Throw(t) /\ wire' = Tail(wire) /\ storeQueries' = storeQueries
    <3>1. storeQueries' \in BOOLEAN /\ \E k \in Nat : tx' = Upto(k)
      BY <1>0, <1>3, <2>1, <2>4
    <3> QED
      BY <1>1, <2>1, <2>4, <3>1, ThrowOutcome
  <2>5. CASE /\ storeQueries' = FALSE /\ calls' = [calls EXCEPT ![t][Len(calls[t])].at = -1]
             /\ wire' = Append(Tail(wire), Request(t, RollbackToRestart)) /\ answer' = answer
    <3>1. /\ RetryTyped' /\ Answered(t, "pending") /\ Only(t)'
          /\ Len(calls'[t]) >= 1 /\ AtEnds(calls'[t], Len(calls'[t]) - 1, n)
          /\ calls'[t][Len(calls'[t])].at = -1
      <4>1. Len(calls[t]) >= 1
        BY <1>3, CallsCounted
      <4>2. storeQueries' \in BOOLEAN
        BY <2>5
      <4>3. -1 \in Int
        OBVIOUS
      <4> QED
        BY <1>0, <1>3, <2>3, <2>5, <4>1, <4>2, <4>3, MovedOn DEF UnderWay
    <3>2. Restarting(t, n)'
      BY <1>1, <2>1, <2>5, <3>1 DEF Restarting, Innermost
    <3> QED
      BY <1>0, <1>3, <2>1, <3>1, <3>2 DEF Outcome, Attempt
  <2> QED
    BY <1>5, <2>4, <2>5 DEF Conflict, Request
<1>6. CASE Fails(t, q)
  <2>1. /\ Throw(t) /\ wire' = <<>> /\ UNCHANGED <<queries, phase, durable>>
        /\ storeQueries' \in BOOLEAN /\ \E k \in Nat : tx' = Upto(k)
    BY <1>0, <1>1, <1>3, <1>6 DEF Fails, runnerVars
  <2> QED
    BY <2>1, ThrowOutcome
<1> QED
  BY <1>1, <1>4, <1>5, <1>6 DEF Answering

\* A replay sends its next statement, or ends.
LEMMA ReplayStep ==
  ASSUME NEW t \in Threads, NEW n \in 0..Latest, UnderWay(t, n), NEW j \in 1..(n + 1), Before(t, n, j),
         Replay(t) \/ ReplayEnds(t) \/ ReplayRefused(t)
  PROVE  Outcome(t, n)
<1>0. Latest \in Nat /\ n \in Nat /\ j \in Nat /\ j - 1 \in Nat
  BY RetryAssumption
<1>1. /\ calls[t] \in Seq(Call) /\ Len(calls[t]) \in Nat /\ Len(calls[t]) >= 1
      /\ RetryTyped /\ Only(t) /\ wire = <<>> /\ server = "open" /\ tx = Upto(j - 1)
      /\ Innermost(t).at = j /\ AtEnds(calls[t], Len(calls[t]) - 1, n)
  BY LenProperties DEF Before, UnderWay, RetryTyped
<1>2. queries = Upto(n) /\ Len(queries) = n
  BY <1>0, UptoFacts DEF UnderWay
<1>3. CASE Replay(t)
  <2> DEFINE under == Moved(calls[t], j + 1)
             c == [query |-> j, at |-> 0]
             stack == Append(under, c)
  <2>1. j \in 1..n /\ queries[j] = j /\ j \in Requests
    <3>1. j \in 1..n
      BY <1>1, <1>2, <1>3 DEF Replay
    <3>2. queries[j] = j
      BY <1>0, <1>2, <3>1, UptoFacts
    <3>3. j \in Requests
      BY <1>0, <3>1 DEF Requests, RollbackToRestart
    <3> QED
      BY <3>1, <3>2, <3>3
  <2>2. ~storeQueries /\ storeQueries = FALSE
    BY <1>0, <1>1, <2>1 DEF Before, RetryTyped
  <2>3. /\ calls' = [calls EXCEPT ![t] = stack] /\ Answered(t, "pending") /\ "pending" \in Answer
        /\ wire' = Append(wire, Request(t, j)) /\ queries' = queries
        /\ storeQueries' = storeQueries /\ phase' = phase
        /\ server' = server /\ tx' = tx /\ durable' = durable
    BY <1>1, <1>3, <2>1, <2>2
    DEF Replay, Query, Record, Answered, Answer, Request, serverVars, Moved
  <2>4. wire' = <<Request(t, j)>>
    BY <1>1, <2>3, OneRequest
  <2>5. /\ under \in Seq(Call) /\ Len(under) = Len(calls[t])
        /\ \A i \in 1..(Len(calls[t]) - 1) : under[i] = calls[t][i]
        /\ under[Len(calls[t])].at = j + 1
    <3>1. j + 1 \in Int
      BY <1>0
    <3> HIDE DEF under
    <3> QED
      BY <1>1, <3>1, CallMoved DEF under
  <2>6. c \in Call /\ c.at = 0
    BY <2>1 DEF Call
  <2> HIDE DEF under, c
  <2>7. /\ stack \in Seq(Call) /\ Len(stack) = Len(under) + 1
        /\ \A i \in 1..Len(under) : stack[i] = under[i]
        /\ stack[Len(under) + 1] = c
    BY <2>5, <2>6, CallPushed
  <2> HIDE DEF stack
  <2>8. Only(t)' /\ calls'[t] = stack /\ RetryTyped'
    <3>1. storeQueries' \in BOOLEAN
      BY <2>2, <2>3
    <3> QED
      BY <1>1, <2>3, <2>7, <3>1, OthersStayOut, KeepsTypes
  <2>9. Replaying(t, n, j)'
    <3>0. PICK m \in Nat : m = Len(calls[t])
      BY <1>1
    <3>1. Len(stack) >= 2 /\ Len(stack) - 1 = Len(calls[t]) /\ Len(stack) - 2 = Len(calls[t]) - 1
      BY <1>1, <2>5, <2>7, <3>0
    <3>2. \A i \in 1..(Len(calls[t]) - 1) : stack[i] = calls[t][i]
      <4>1. \A i \in 1..(m - 1) : i \in 1..m
        BY <3>0
      <4> QED
        BY <2>5, <2>7, <3>0, <4>1
    <3>3. stack[Len(calls[t])].at = j + 1
      <4>1. m \in 1..m
        BY <1>1, <3>0
      <4> QED
        BY <2>5, <2>7, <3>0, <4>1
    <3>4. stack[Len(stack)].at = 0
      BY <2>6, <2>7
    <3> QED
      BY <1>1, <2>2, <2>3, <2>4, <2>8, <3>1, <3>2, <3>3, <3>4 DEF Replaying, Innermost, AtEnds
  <2> QED
    BY <1>0, <1>1, <2>1, <2>3, <2>8, <2>9 DEF Outcome, Attempt
<1>4. CASE ReplayEnds(t)
  <2>1. j = n + 1 /\ tx = Upto(n)
    <3>1. j > n
      BY <1>1, <1>2, <1>4 DEF ReplayEnds
    <3> QED
      BY <1>0, <1>1, <3>1
  <2>2. /\ Return(t) /\ storeQueries' /\ storeQueries' \in BOOLEAN /\ wire' = <<>> /\ server' = "open"
        /\ queries' = queries /\ phase' = phase /\ tx' = Upto(n) /\ durable' = durable
    BY <1>1, <1>4, <2>1 DEF ReplayEnds, serverVars
  <2>3. CASE Len(calls[t]) = 1
    <3>1. calls' = [calls EXCEPT ![t] = <<>>] /\ Answered(t, "resolved")
      BY <1>1, <2>2, <2>3, CallReturned DEF Return, Answered
    <3>2. Idle' /\ RetryTyped'
      <4>1. <<>> \in Seq(Call) /\ "resolved" \in Answer
        BY EmptySeq DEF Answer
      <4> QED
        BY <1>1, <2>2, <3>1, <4>1, DoneIsIdle, KeepsTypes
    <3> QED
      BY <1>0, <2>2, <3>1, <3>2 DEF Outcome
  <2>4. CASE Len(calls[t]) >= 2
    <3>1. /\ RetryTyped' /\ Answered(t, "pending") /\ Only(t)'
          /\ Len(calls'[t]) = Len(calls[t]) - 1
          /\ \A i \in 1..(Len(calls[t]) - 1) : calls'[t][i] = calls[t][i]
      BY <1>1, <2>2, <2>4, ReturnsToReplay
    <3>2. /\ Len(calls'[t]) >= 1 /\ AtEnds(calls'[t], Len(calls'[t]) - 1, n)
          /\ calls'[t][Len(calls'[t])].at = n + 1
      <4>1. PICK m \in Nat : m = Len(calls[t])
        BY <1>1
      <4>2. \A i \in 1..(m - 2) : i \in 1..(m - 1)
        BY <4>1
      <4>3. AtEnds(calls[t], Len(calls[t]) - 2, n)
        BY <1>1, <4>1, <4>2 DEF AtEnds
      <4>4. calls[t][Len(calls[t]) - 1].at = n + 1
        <5>1. m - 1 \in 1..(m - 1)
          BY <2>4, <4>1
        <5> QED
          BY <1>1, <4>1, <5>1 DEF AtEnds
      <4> QED
        BY <1>0, <1>1, <2>4, <3>1, <4>3, <4>4, OuterCalls
    <3>3. Before(t, n, n + 1)'
      <4>1. n + 1 - 1 = n /\ ~(n + 1 <= n)
        BY <1>0
      <4> QED
        BY <2>2, <3>2, <4>1 DEF Before, Innermost
    <3> QED
      BY <1>0, <2>2, <3>1, <3>3 DEF Outcome, Attempt
  <2> QED
    BY <1>1, <2>3, <2>4, CallsCounted
<1>5. CASE ReplayRefused(t)
  BY <1>5 DEF ReplayRefused, UnderWay
<1> QED
  BY <1>3, <1>4, <1>5

\* Only the thread that is under way takes steps.
LEMMA OnlyItSteps ==
  ASSUME NEW t \in Threads, Only(t), NEW u \in Threads, Replay(u) \/ ReplayEnds(u) \/ ReplayRefused(u)
  PROVE  u = t
BY DEF Only, Replay, ReplayEnds, ReplayRefused

LEMMA AttemptStep ==
  ASSUME ReplayConflicts = "last",
         NEW t \in Threads, NEW n \in 0..Latest, UnderWay(t, n), Attempt(t, n), Answers \/ Replays
  PROVE  Outcome(t, n)
<1>0. Latest \in Nat /\ n \in Nat /\ queries = Upto(n) /\ Len(queries) = n
  <2>1. Latest \in Nat /\ n \in Nat
    BY RetryAssumption
  <2> QED
    BY <2>1, UptoFacts DEF UnderWay
<1>1. CASE Answers
  <2>1. PICK u \in Threads, q \in Requests : Answering(u, q)
    BY <1>1 DEF Answers, Answering
  <2>2. wire # <<>>
    BY <2>1 DEF Answering, Succeeds, Conflict, Fails
  <2>3. \A j \in 1..(n + 1) : ~Before(t, n, j)
    BY <2>2 DEF Before
  <2> QED
    BY <2>1, <2>3, AskedStep, RestartingStep, ReplayingStep DEF Attempt
<1>2. CASE Replays
  <2>1. Replay(t) \/ ReplayEnds(t) \/ ReplayRefused(t)
    BY <1>2, OnlyItSteps DEF Replays, Attempt
  <2>2. Innermost(t).at # 0 /\ Innermost(t).at # -1
    BY <1>0, <2>1 DEF Replay, ReplayEnds, ReplayRefused
  <2>3. ~Asked(t, n) /\ ~Restarting(t, n) /\ \A j \in 1..n : ~Replaying(t, n, j)
    BY <2>2 DEF Asked, Restarting, Replaying, Innermost
  <2> QED
    BY <2>1, <2>3, ReplayStep DEF Attempt
<1> QED
  BY <1>1, <1>2

-----------------------------------------------------------------------------
(***************************************************************************)
(* The caller.                                                             *)
(***************************************************************************)
LEMMA IdleIsQuiet ==
  ASSUME Idle
  PROVE  ~Answers /\ ~Replays
<1>1. ~Answers
  BY DEF Idle, Answers, Succeeds, Conflict, Fails
<1>2. ~Replays
  BY DEF Idle, Replays, Replay, ReplayEnds, ReplayRefused
<1> QED
  BY <1>1, <1>2

\* What is asked of a runner that is idle.
LEMMA Asks ==
  ASSUME Idle, RetryTyped, NEW t \in Threads, NEW q \in Requests, Query(t, q, <<>>), storeQueries' \in BOOLEAN
  PROVE  /\ RetryTyped' /\ Answered(t, "pending") /\ Only(t)'
         /\ Len(calls'[t]) = 1 /\ calls'[t][1].at = 0 /\ wire' = <<Request(t, q)>>
<1> DEFINE c == [query |-> q, at |-> 0]
<1>1. c \in Call /\ c.at = 0 /\ <<>> \in Seq(Call)
  BY EmptySeq DEF Call
<1>2. Only(t) /\ wire = <<>>
  BY DEF Idle, Only
<1> HIDE DEF c
<1>3. Append(<<>>, c) = <<c>> /\ <<c>> \in Seq(Call) /\ Len(<<c>>) = 1 /\ <<c>>[1] = c
  BY <1>1
<1>4. /\ calls' = [calls EXCEPT ![t] = <<c>>] /\ Answered(t, "pending") /\ "pending" \in Answer
      /\ wire' = <<Request(t, q)>>
  BY <1>2, <1>3 DEF Query, Answered, Answer, Request, c
<1>5. Only(t)' /\ calls'[t] = <<c>>
  BY <1>2, <1>4, OthersStayOut
<1>6. RetryTyped'
  BY <1>3, <1>4, KeepsTypes
<1> QED
  BY <1>1, <1>3, <1>4, <1>5, <1>6

LEMMA AnsweredIs ==
  ASSUME RetryTyped, NEW t \in Threads, NEW value, Answered(t, value)
  PROVE  answer'[t] = value /\ \A u \in Threads \ {t} : answer'[u] = answer[u]
BY DEF RetryTyped, Answered

LEMMA ThreadsAre == Latest \in Nat /\ 0 \in Threads /\ \A s \in 1..Latest : s \in Threads /\ s # 0
BY RetryAssumption DEF Threads

LEMMA RequestsAre ==
  /\ ReleaseRestart \in Requests /\ Commit \in Requests /\ Rollback \in Requests
  /\ RollbackToRestart \in Requests /\ \A s \in 1..Latest : s \in Requests
  /\ \A s \in Statements : s \notin {ReleaseRestart, Commit, Rollback, RollbackToRestart}
  /\ ReleaseRestart \notin {Commit, Rollback, RollbackToRestart}
  /\ Commit \notin {Rollback, RollbackToRestart} /\ Rollback # RollbackToRestart
BY RetryAssumption DEF Requests, Statements, ReleaseRestart, Commit, Rollback, RollbackToRestart

Segment == \E k \in Nat : tx = Upto(k)

\* A statement is called.
LEMMA StatementCalled ==
  ASSUME RetryTyped, Segment, phase = "running", ~together, NEW n \in 0..Latest, RunningInv(n),
         NEW s \in Statements, CallStatement(s)
  PROVE  AwaitedInv'
<1>1. /\ Latest \in Nat /\ n \in Nat /\ s \in Nat /\ s >= 1 /\ s <= Latest
      /\ s \in Threads /\ s \in Requests /\ s # 0 /\ 0 \in Threads
  BY ThreadsAre, RequestsAre DEF Statements
<1>2. answer[s] = "none" /\ \A r \in 1..(s - 1) : answer[r] = "resolved"
  BY DEF CallStatement
<1>3. s = n + 1
  <2>1. CASE s < n
    BY <1>1, <1>2, <2>1 DEF RunningInv
  <2>2. CASE s = n
    BY <1>1, <1>2, <2>2 DEF RunningInv
  <2>3. CASE s > n + 1
    <3>1. n + 1 \in 1..(s - 1) /\ n + 1 \in 1..Latest /\ n + 1 > n
      BY <1>1, <2>3
    <3> QED
      BY <1>2, <3>1 DEF RunningInv
  <2> QED
    BY <1>1, <2>1, <2>2, <2>3
<1>4. Idle /\ storeQueries /\ server = "open" /\ tx = Upto(n) /\ (n > 0 => answer[n] = "resolved")
  <2>1. n > 0 => answer[n] = "resolved"
    BY <1>1, <1>2, <1>3
  <2> QED
    BY <2>1 DEF RunningInv
<1>5. /\ queries' = Append(queries, s) /\ storeQueries' = storeQueries /\ phase' = phase
      /\ server' = server /\ tx' = tx /\ durable' = durable /\ Query(s, s, <<>>)
  BY <1>4 DEF CallStatement, Record, Active, serverVars
<1>6. /\ RetryTyped' /\ Answered(s, "pending") /\ Only(s)'
      /\ Len(calls'[s]) = 1 /\ calls'[s][1].at = 0 /\ wire' = <<Request(s, s)>>
  <2>1. storeQueries' \in BOOLEAN
    BY <1>5 DEF RetryTyped
  <2> QED
    BY <1>1, <1>4, <1>5, <2>1, Asks
<1>7. queries' = Upto(n + 1)
  BY <1>1, <1>3, <1>5, UptoFacts DEF RunningInv
<1>8. answer'[s] = "pending" /\ \A u \in Threads \ {s} : answer'[u] = answer[u]
  BY <1>1, <1>6, AnsweredIs
<1>9. Attempt(s, n + 1)'
  <2>1. n + 1 - 1 = n
    BY <1>1
  <2>2. Asked(s, n + 1)'
    BY <1>1, <1>4, <1>5, <1>6, <2>1 DEF Asked
  <2> QED
    BY <1>6, <2>2 DEF Attempt
<1>10. RunningInv(n + 1)'
  <2>1. answer'[0] = "none"
    BY <1>1, <1>8 DEF RunningInv
  <2>2. ASSUME NEW r \in 1..Latest
        PROVE (r < n + 1 => answer'[r] = "resolved") /\ (r > n + 1 => answer'[r] = "none")
    <3>1. r \in Threads /\ r \in Nat
      BY ThreadsAre
    <3>2. ASSUME r < n + 1 PROVE answer'[r] = "resolved"
      <4>1. r # s /\ r \in 1..(s - 1)
        BY <1>1, <1>3, <3>1, <3>2
      <4> QED
        BY <1>2, <1>8, <3>1, <4>1
    <3>3. ASSUME r > n + 1 PROVE answer'[r] = "none"
      <4>1. r # s /\ r > n
        BY <1>1, <1>3, <3>1, <3>3
      <4> QED
        BY <1>8, <3>1, <4>1 DEF RunningInv
    <3> QED
      BY <3>2, <3>3
  <2>3. durable' = <<>>
    BY <1>5 DEF RunningInv
  <2>4. n + 1 > 0 /\ answer'[n + 1] = "pending" /\ Attempt(n + 1, n + 1)'
    BY <1>1, <1>3, <1>8, <1>9
  <2> QED
    BY <1>7, <2>1, <2>2, <2>3, <2>4 DEF RunningInv
<1>11. Segment' /\ n + 1 \in 0..Latest
  BY <1>1, <1>3, <1>5 DEF Segment
<1> QED
  BY <1>5, <1>6, <1>10, <1>11 DEF AwaitedInv, Segment

\* RELEASE SAVEPOINT is asked for.
LEMMA CommitBegins ==
  ASSUME RetryTyped, Segment, phase = "running", NEW n \in 0..Latest, RunningInv(n), CommitTransaction
  PROVE  AwaitedInv'
<1>1. Latest \in Nat /\ n \in Nat /\ 0 \in Threads
  BY ThreadsAre
<1>2. n = Latest
  <2>1. ASSUME n < Latest PROVE FALSE
    <3>1. n + 1 \in 1..Latest /\ n + 1 > n
      BY <1>1, <2>1
    <3> QED
      BY <3>1 DEF RunningInv, CommitTransaction, Statements
  <2> QED
    BY <1>1, <2>1
<1>3. n > 0 => answer[n] = "resolved"
  BY <1>1 DEF CommitTransaction, Statements
<1>4. Idle /\ server = "open" /\ tx = Upto(Latest) /\ queries = Upto(Latest) /\ durable = <<>>
  BY <1>2, <1>3 DEF RunningInv
<1>5. /\ phase' = "releasing" /\ storeQueries' = FALSE /\ queries' = queries
      /\ server' = server /\ tx' = tx /\ durable' = durable /\ Query(0, ReleaseRestart, <<>>)
  BY DEF CommitTransaction, serverVars
<1>6. /\ RetryTyped' /\ Answered(0, "pending") /\ Only(0)'
      /\ Len(calls'[0]) = 1 /\ calls'[0][1].at = 0 /\ wire' = <<Request(0, ReleaseRestart)>>
  <2>1. storeQueries' \in BOOLEAN
    BY <1>5
  <2> QED
    BY <1>1, <1>4, <1>5, <2>1, Asks, RequestsAre
<1>7. answer'[0] = "pending"
  BY <1>1, <1>6, AnsweredIs
<1>8. Attempt(0, Latest)'
  BY <1>4, <1>5, <1>6 DEF Attempt, Asked
<1> QED
  BY <1>1, <1>4, <1>5, <1>6, <1>7, <1>8 DEF AwaitedInv, ReleasingInv

\* ROLLBACK is asked for, whatever was rejected.
LEMMA RollbackBegins ==
  ASSUME RetryTyped, Segment, Idle, durable = <<>>, RollbackTransaction
  PROVE  AwaitedInv'
<1>1. 0 \in Threads
  BY ThreadsAre
<1>2. /\ phase' = "rollingBack" /\ storeQueries' = FALSE /\ tx' = tx /\ durable' = durable
      /\ Query(0, Rollback, <<>>)
  BY DEF RollbackTransaction, serverVars
<1>3. /\ RetryTyped' /\ Answered(0, "pending") /\ Only(0)'
      /\ Len(calls'[0]) = 1 /\ calls'[0][1].at = 0 /\ wire' = <<Request(0, Rollback)>>
  <2>1. storeQueries' \in BOOLEAN
    BY <1>2
  <2> QED
    BY <1>1, <1>2, <2>1, Asks, RequestsAre
<1>4. answer'[0] = "pending"
  BY <1>1, <1>3, AnsweredIs
<1> QED
  BY <1>2, <1>3, <1>4 DEF AwaitedInv, RollingBackInv, Ending, Segment

LEMMA RunningStep ==
  ASSUME ReplayConflicts = "last", RetryTyped, Segment, phase = "running", ~together,
         NEW n \in 0..Latest, RunningInv(n), Next
  PROVE  AwaitedInv'
<1>1. Latest \in Nat /\ n \in Nat /\ 0 \in Threads /\ (n > 0 => n \in Threads /\ n \in 1..Latest)
  BY ThreadsAre
<1>2. CASE \E s \in Statements : CallStatement(s)
  BY <1>2, StatementCalled
<1>3. CASE CommitTransaction
  BY <1>3, CommitBegins
<1>4. CASE RollbackTransaction
  <2>1. PICK s \in Statements : answer[s] = "rejected"
    BY <1>4 DEF RollbackTransaction
  <2>2. n > 0 /\ answer[n] = "rejected"
    <3>1. s \in 1..Latest /\ ~(s < n) /\ ~(s > n)
      BY <2>1 DEF RunningInv, Statements
    <3> QED
      BY <1>1, <2>1, <3>1
  <2>3. Idle /\ durable = <<>>
    BY <2>2 DEF RunningInv
  <2> QED
    BY <1>4, <2>3, RollbackBegins
<1>5. CASE SendCommit \/ TransactionEnds
  BY <1>5 DEF SendCommit, TransactionEnds
<1>6. CASE Answers \/ Replays
  <2>1. n > 0 /\ answer[n] = "pending" /\ Attempt(n, n)
    BY <1>6, IdleIsQuiet DEF RunningInv
  <2>2. UnderWay(n, n)
    BY <2>1 DEF UnderWay, RunningInv, Active, Attempt
  <2>3. Outcome(n, n)
    BY <1>1, <1>6, <2>1, <2>2, AttemptStep
  <2>4. /\ queries' = Upto(n) /\ phase' = "running" /\ RetryTyped' /\ Segment'
        /\ durable = <<>> /\ n # 0
    BY <1>1, <2>1, <2>3 DEF Outcome, RunningInv, Segment
  <2>5. ASSUME NEW value, Answered(n, value)
        PROVE /\ answer'[n] = value /\ answer'[0] = "none"
              /\ \A s \in 1..Latest : (s < n => answer'[s] = "resolved") /\ (s > n => answer'[s] = "none")
    <3>1. answer'[n] = value /\ \A u \in Threads \ {n} : answer'[u] = answer[u]
      BY <1>1, <2>1, <2>5, AnsweredIs
    <3>2. \A s \in 1..Latest : s \in Threads /\ (s < n => s # n) /\ (s > n => s # n)
      BY <1>1, ThreadsAre
    <3> QED
      BY <1>1, <2>4, <3>1, <3>2 DEF RunningInv
  <2>6. RunningInv(n)'
    <3>1. CASE Attempt(n, n)' /\ Answered(n, "pending") /\ durable' = durable
      BY <2>1, <2>4, <2>5, <3>1 DEF RunningInv
    <3>2. CASE /\ Idle' /\ Answered(n, "resolved") /\ durable' = durable
               /\ server' = "open" /\ tx' = Upto(n) /\ storeQueries'
      BY <2>1, <2>4, <2>5, <3>2 DEF RunningInv
    <3>3. CASE Idle' /\ Answered(n, "rejected") /\ durable' = durable
      BY <2>1, <2>4, <2>5, <3>3 DEF RunningInv
    <3> QED
      BY <2>3, <2>4, <3>1, <3>2, <3>3 DEF Outcome
  <2> QED
    BY <2>4, <2>6 DEF AwaitedInv, Segment
<1> QED
  BY <1>2, <1>3, <1>4, <1>5, <1>6 DEF Next, Caller

LEMMA ReleasingStep ==
  ASSUME ReplayConflicts = "last", RetryTyped, Segment, phase = "releasing", ~together, ReleasingInv, Next
  PROVE  AwaitedInv'
<1>1. Latest \in Nat /\ 0 \in Threads /\ Latest \in 0..Latest
  BY ThreadsAre
<1>2. CASE SendCommit
  <2>1. Idle /\ Sealed /\ answer[0] = "resolved"
    BY <1>2 DEF SendCommit, ReleasingInv
  <2>2. /\ phase' = "committing" /\ storeQueries' = storeQueries
        /\ server' = server /\ tx' = tx /\ durable' = durable /\ Query(0, Commit, <<>>)
    BY <1>2 DEF SendCommit, serverVars
  <2>3. /\ RetryTyped' /\ Answered(0, "pending") /\ Only(0)'
        /\ Len(calls'[0]) = 1 /\ calls'[0][1].at = 0 /\ wire' = <<Request(0, Commit)>>
    <3>1. storeQueries' \in BOOLEAN
      BY <2>2 DEF RetryTyped
    <3> QED
      BY <1>1, <2>1, <2>2, <3>1, Asks, RequestsAre
  <2>4. answer'[0] = "pending"
    BY <1>1, <2>3, AnsweredIs
  <2>5. Sealed'
    BY <2>1, <2>2 DEF Sealed
  <2> QED
    BY <2>2, <2>3, <2>4, <2>5 DEF AwaitedInv, CommittingInv, Ending, Segment
<1>3. CASE RollbackTransaction
  <2>1. Idle /\ durable = <<>>
    BY <1>3 DEF RollbackTransaction, ReleasingInv
  <2> QED
    BY <1>3, <2>1, RollbackBegins
<1>4. CASE Caller /\ ~SendCommit /\ ~RollbackTransaction
  BY <1>4 DEF Caller, CallStatement, CommitTransaction, TransactionEnds
<1>5. CASE Answers \/ Replays
  <2>1. answer[0] = "pending" /\ durable = <<>> /\ Attempt(0, Latest)
    BY <1>5, IdleIsQuiet DEF ReleasingInv
  <2>2. UnderWay(0, Latest)
    BY <2>1 DEF UnderWay, ReleasingInv, Active, Attempt
  <2>3. Outcome(0, Latest)
    BY <1>1, <1>5, <2>1, <2>2, AttemptStep
  <2>4. queries' = Upto(Latest) /\ phase' = "releasing" /\ RetryTyped' /\ Segment'
    BY <2>3 DEF Outcome, ReleasingInv, Segment
  <2>5. durable \o Upto(Latest) = Upto(Latest)
    BY <1>1, <2>1, UptoFacts
  <2>6. ReleasingInv'
    <3>1. CASE Attempt(0, Latest)' /\ Answered(0, "pending") /\ durable' = durable
      BY <1>1, <2>1, <2>4, <3>1, AnsweredIs DEF ReleasingInv
    <3>2. CASE /\ Idle' /\ Answered(0, "resolved") /\ durable' = durable
               /\ server' = "open" /\ tx' = Upto(Latest) /\ storeQueries'
      BY <1>1, <2>1, <2>4, <3>2, AnsweredIs DEF ReleasingInv, Sealed
    <3>3. CASE /\ Idle' /\ Answered(0, "resolved") /\ durable' = durable \o Upto(Latest)
               /\ server' = "released"
      BY <1>1, <2>4, <2>5, <3>3, AnsweredIs DEF ReleasingInv, Sealed
    <3>4. CASE Idle' /\ Answered(0, "rejected") /\ durable' = durable
      BY <1>1, <2>1, <2>4, <3>4, AnsweredIs DEF ReleasingInv
    <3> QED
      BY <2>3, <3>1, <3>2, <3>3, <3>4 DEF Outcome
  <2> QED
    BY <2>4, <2>6 DEF AwaitedInv, Segment
<1> QED
  BY <1>2, <1>3, <1>4, <1>5 DEF Next

\* The last request is answered or fails; nobody replays.
LEMMA EndingStep ==
  ASSUME NEW at \in {0, -1}, NEW r \in Requests, Ending(at, r), Len(queries) \in Nat, Answers \/ Replays
  PROVE  Answering(0, r) /\ Tail(wire) = <<>>
<1>1. 0 \in Threads
  BY ThreadsAre
<1>2. wire = <<Request(0, r)>> /\ Only(0) /\ Innermost(0).at = at
  BY DEF Ending, Innermost
<1>3. CASE Answers
  <2>1. PICK u \in Threads, q \in Requests : Answering(u, q)
    BY <1>3 DEF Answers, Answering
  <2>2. u = 0 /\ q = r /\ Tail(wire) = <<>>
    BY <1>1, <1>2, <2>1, HeadAnswered
  <2> QED
    BY <2>1, <2>2
<1>4. CASE Replays
  <2>1. Replay(0) \/ ReplayEnds(0) \/ ReplayRefused(0)
    BY <1>1, <1>2, <1>4, OnlyItSteps DEF Replays
  <2> QED
    BY <1>2, <2>1 DEF Replay, ReplayEnds, ReplayRefused
<1> QED
  BY <1>3, <1>4

LEMMA LastReturns ==
  ASSUME RetryTyped, Only(0), Len(calls[0]) = 1, Return(0), wire' = <<>>, storeQueries' \in BOOLEAN
  PROVE  RetryTyped' /\ Idle' /\ answer'[0] = "resolved"
<1>1. 0 \in Threads /\ calls[0] \in Seq(Call) /\ Len(calls[0]) >= 1 /\ <<>> \in Seq(Call) /\ "resolved" \in Answer
  BY ThreadsAre, EmptySeq DEF RetryTyped, Answer
<1>2. calls' = [calls EXCEPT ![0] = <<>>] /\ Answered(0, "resolved")
  BY <1>1, CallReturned DEF Return, Answered
<1> QED
  BY <1>1, <1>2, DoneIsIdle, KeepsTypes, AnsweredIs

LEMMA LastThrows ==
  ASSUME RetryTyped, Only(0), Throw(0), wire' = <<>>, storeQueries' \in BOOLEAN
  PROVE  RetryTyped' /\ Idle' /\ answer'[0] = "rejected"
<1>1. 0 \in Threads /\ <<>> \in Seq(Call) /\ "rejected" \in Answer
  BY ThreadsAre, EmptySeq DEF Answer
<1>2. calls' = [calls EXCEPT ![0] = <<>>] /\ Answered(0, "rejected")
  BY DEF Throw, Answered
<1> QED
  BY <1>1, <1>2, DoneIsIdle, KeepsTypes, AnsweredIs

\* COMMIT is answered.
LEMMA CommitAnswered ==
  ASSUME RetryTyped, Segment, phase = "committing", Ending(0, Commit), Sealed, answer[0] = "pending",
         Answering(0, Commit), Tail(wire) = <<>>
  PROVE  AwaitedInv'
<1>1. Latest \in Nat /\ 0 \in Threads /\ Only(0) /\ Len(calls[0]) = 1 /\ Tail(wire) = <<>>
      /\ storeQueries \in BOOLEAN
  BY ThreadsAre DEF Ending, RetryTyped
<1>2. Commit \notin Statements /\ Commit \notin {ReleaseRestart, Rollback, RollbackToRestart}
  BY RequestsAre
<1>3. CASE Succeeds(0, Commit)
  <2>1. Return(0) /\ wire' = <<>> /\ phase' = phase /\ storeQueries' = storeQueries /\ Accepts(Commit)
    BY <1>1, <1>2, <1>3 DEF Succeeds, runnerVars
  <2>2. durable' = Upto(Latest) /\ Segment'
    <3>1. CASE server = "open" /\ tx = Upto(Latest) /\ durable = <<>>
      <4>1. durable' = durable \o tx /\ tx' = <<>>
        BY <1>2, <2>1, <3>1 DEF Accepts
      <4>2. durable' = Upto(Latest) /\ tx' = Upto(0)
        BY <1>1, <3>1, <4>1, UptoFacts
      <4> QED
        BY <4>2 DEF Segment
    <3>2. CASE server = "released" /\ durable = Upto(Latest)
      BY <1>2, <2>1, <3>2 DEF Accepts, Segment
    <3> QED
      BY <3>1, <3>2 DEF Sealed
  <2>3. RetryTyped' /\ Idle' /\ answer'[0] = "resolved"
    BY <1>1, <2>1, LastReturns
  <2> QED
    BY <2>1, <2>2, <2>3 DEF AwaitedInv, CommittingInv, Segment
<1>4. CASE Conflict(0, Commit)
  <2>1. /\ server = "open" /\ server' = "over" /\ tx' = <<>> /\ phase' = phase /\ durable' = durable
        /\ Append(Tail(wire), Request(0, RollbackToRestart)) = <<Request(0, RollbackToRestart)>>
    BY <1>1, <1>4, OneRequest DEF Conflict
  <2>2. durable' = <<>> /\ Segment'
    <3>1. tx' = Upto(0)
      BY <2>1, UptoFacts
    <3> QED
      BY <2>1, <3>1 DEF Sealed, Segment
  <2>3. CASE Throw(0) /\ wire' = Tail(wire) /\ storeQueries' = storeQueries
    <3>1. RetryTyped' /\ Idle' /\ answer'[0] = "rejected"
      BY <1>1, <2>3, LastThrows
    <3> QED
      BY <2>1, <2>2, <3>1 DEF AwaitedInv, CommittingInv, Segment
  <2>4. CASE /\ storeQueries' = FALSE /\ calls' = [calls EXCEPT ![0][Len(calls[0])].at = -1]
             /\ wire' = Append(Tail(wire), Request(0, RollbackToRestart)) /\ answer' = answer
    <3> DEFINE stack == Moved(calls[0], -1)
    <3>1. calls[0] \in Seq(Call) /\ Len(calls[0]) >= 1 /\ -1 \in Int
      BY <1>1 DEF RetryTyped
    <3>2. stack \in Seq(Call) /\ Len(stack) = Len(calls[0]) /\ stack[Len(calls[0])].at = -1
      <4> HIDE DEF stack
      <4> QED
        BY <3>1, CallMoved DEF stack
    <3>3. calls' = [calls EXCEPT ![0] = stack] /\ Answered(0, "pending") /\ "pending" \in Answer
      BY <1>1, <2>4 DEF RetryTyped, Answered, Answer, Moved
    <3> HIDE DEF stack
    <3>4. Only(0)' /\ calls'[0] = stack
      BY <1>1, <3>3, OthersStayOut
    <3>5. RetryTyped'
      <4>1. storeQueries' \in BOOLEAN
        BY <2>4
      <4> QED
        BY <1>1, <3>2, <3>3, <4>1, KeepsTypes
    <3>6. Ending(-1, RollbackToRestart)'
      BY <1>1, <2>1, <2>4, <3>2, <3>4 DEF Ending
    <3>7. answer'[0] = "pending"
      BY <2>4
    <3> QED
      BY <2>1, <2>2, <3>5, <3>6, <3>7 DEF AwaitedInv, CommittingInv, Segment
  <2> QED
    BY <1>4, <2>3, <2>4 DEF Conflict, Request
<1>5. CASE Fails(0, Commit)
  BY <1>2, <1>5 DEF Fails, Sealed
<1> QED
  BY <1>3, <1>4, <1>5 DEF Answering

LEMMA CommittingStep ==
  ASSUME RetryTyped, Segment, phase = "committing", ~together, Len(queries) \in Nat, CommittingInv, Next
  PROVE  AwaitedInv'
<1>1. 0 \in Threads /\ Latest \in Nat
  BY ThreadsAre
<1>2. CASE TransactionEnds
  <2>1. Idle /\ durable = Upto(Latest)
    BY <1>2 DEF TransactionEnds, CommittingInv
  <2> QED
    BY <1>2, <2>1 DEF TransactionEnds, AwaitedInv, Segment, RetryTyped, Idle, serverVars
<1>3. CASE RollbackTransaction
  <2>1. Idle /\ durable = <<>>
    BY <1>3 DEF RollbackTransaction, CommittingInv
  <2> QED
    BY <1>3, <2>1, RollbackBegins
<1>4. CASE Caller /\ ~TransactionEnds /\ ~RollbackTransaction
  BY <1>4 DEF Caller, CallStatement, CommitTransaction, SendCommit
<1>5. CASE Answers \/ Replays
  <2>1. ~Idle
    BY <1>5, IdleIsQuiet
  <2>2. CASE answer[0] = "pending" /\ Ending(0, Commit) /\ Sealed
    <3>1. Answering(0, Commit) /\ Tail(wire) = <<>>
      BY <1>5, <2>2, EndingStep, RequestsAre
    <3> QED
      BY <2>2, <3>1, CommitAnswered
  <2>3. CASE /\ answer[0] = "pending" /\ Ending(-1, RollbackToRestart)
             /\ server = "over" /\ durable = <<>>
    <3>1. Answering(0, RollbackToRestart) /\ Tail(wire) = <<>>
      BY <1>5, <2>3, EndingStep, RequestsAre
    <3>2. Fails(0, RollbackToRestart)
      BY <2>3, <3>1, RequestsAre DEF Answering, Succeeds, Accepts, Conflict
    <3>3. /\ Throw(0) /\ wire' = <<>> /\ storeQueries' = storeQueries
          /\ phase' = phase /\ tx' = tx /\ durable' = <<>>
      BY <2>3, <3>1, <3>2 DEF Fails, runnerVars
    <3>4. RetryTyped' /\ Idle' /\ answer'[0] = "rejected"
      <4>1. Only(0) /\ storeQueries' \in BOOLEAN
        BY <2>3, <3>3 DEF Ending, RetryTyped
      <4> QED
        BY <3>3, <4>1, LastThrows
    <3> QED
      BY <3>3, <3>4 DEF AwaitedInv, CommittingInv, Segment
  <2> QED
    BY <2>1, <2>2, <2>3 DEF CommittingInv
<1> QED
  BY <1>2, <1>3, <1>4, <1>5 DEF Next

LEMMA RollingBackStep ==
  ASSUME RetryTyped, Segment, phase = "rollingBack", ~together, Len(queries) \in Nat, RollingBackInv, Next
  PROVE  AwaitedInv'
<1>1. 0 \in Threads
  BY ThreadsAre
<1>2. CASE TransactionEnds
  <2>1. Idle /\ durable = <<>>
    BY <1>2 DEF TransactionEnds, RollingBackInv
  <2> QED
    BY <1>2, <2>1 DEF TransactionEnds, AwaitedInv, Segment, RetryTyped, Idle, serverVars
<1>3. CASE Caller /\ ~TransactionEnds
  BY <1>3 DEF Caller, CallStatement, CommitTransaction, SendCommit, RollbackTransaction
<1>4. CASE Answers \/ Replays
  <2>1. Ending(0, Rollback)
    BY <1>4, IdleIsQuiet DEF RollingBackInv
  <2>2. Answering(0, Rollback) /\ Tail(wire) = <<>>
    BY <1>4, <2>1, EndingStep, RequestsAre
  <2>3. Succeeds(0, Rollback)
    BY <2>2, RequestsAre DEF Answering, Conflict, Fails
  <2>4. /\ Return(0) /\ wire' = <<>> /\ storeQueries' = storeQueries
        /\ phase' = phase /\ tx' = <<>> /\ durable' = <<>>
    BY <2>2, <2>3, RequestsAre DEF Succeeds, Accepts, runnerVars, RollingBackInv
  <2>5. RetryTyped' /\ Idle' /\ answer'[0] = "resolved"
    <3>1. Only(0) /\ Len(calls[0]) = 1 /\ storeQueries' \in BOOLEAN
      BY <2>1, <2>4 DEF Ending, RetryTyped
    <3> QED
      BY <2>4, <3>1, LastReturns
  <2>6. tx' = Upto(0)
    BY <2>4, UptoFacts
  <2> QED
    BY <2>4, <2>5, <2>6 DEF AwaitedInv, RollingBackInv
<1> QED
  BY <1>2, <1>3, <1>4 DEF Next

-----------------------------------------------------------------------------
(***************************************************************************)
(* The theorems.                                                           *)
(***************************************************************************)
LEMMA InitRetry == Init => RetryInv
<1> SUFFICES ASSUME Init PROVE RetryInv
  OBVIOUS
<1>1. Latest \in Nat /\ 0 \in Threads /\ 0 \in 0..Latest /\ 0 \in Nat
  BY ThreadsAre
<1>2. queries = Upto(0) /\ tx = Upto(0)
  BY UptoFacts DEF Init
<1>3. RetryTyped
  <2>1. <<>> \in Seq(Call) /\ "none" \in Answer
    BY EmptySeq DEF Answer
  <2> QED
    BY <2>1 DEF Init, RetryTyped
<1>4. Idle
  BY DEF Init, Idle
<1>5. RunningInv(0)
  <2>1. \A s \in 1..Latest : ~(s < 0) /\ s \in Threads
    BY ThreadsAre
  <2> QED
    BY <1>1, <1>2, <1>4, <2>1 DEF Init, RunningInv
<1>6. queries \in Seq(Requests)
  BY EmptySeq DEF Init
<1> QED
  BY <1>1, <1>2, <1>3, <1>5, <1>6 DEF Init, RetryInv, AwaitedInv

LEMMA RecordTyped ==
  ASSUME queries \in Seq(Requests), [Next]_vars
  PROVE  queries' \in Seq(Requests)
<1>1. ASSUME NEW q \in Requests, Record(q) PROVE queries' \in Seq(Requests)
  BY <1>1, AppendProperties DEF Record
<1>2. CASE Caller
  <2>1. \A s \in Statements : CallStatement(s) => queries' \in Seq(Requests)
    BY <1>1, RequestsAre DEF CallStatement, Statements
  <2>2. SendCommit => queries' \in Seq(Requests)
    BY <1>1, RequestsAre DEF SendCommit
  <2>3. TransactionEnds => queries' \in Seq(Requests)
    BY EmptySeq DEF TransactionEnds
  <2> QED
    BY <1>2, <2>1, <2>2, <2>3 DEF Caller, CommitTransaction, RollbackTransaction
<1>3. CASE Answers
  BY <1>3 DEF Answers, Succeeds, Conflict, Fails, runnerVars
<1>4. CASE Replays
  <2>1. ASSUME NEW t \in Threads, Replay(t) PROVE queries' \in Seq(Requests)
    <3>1. PICK at \in 1..Len(queries) : Record(queries[at])
      BY <2>1 DEF Replay
    <3>2. queries[at] \in Requests
      BY ElementOfSeq
    <3> QED
      BY <1>1, <3>1, <3>2
  <2> QED
    BY <1>4, <2>1 DEF Replays, ReplayEnds, ReplayRefused, runnerVars
<1>5. CASE UNCHANGED vars
  BY <1>5 DEF vars, runnerVars
<1> QED
  BY <1>2, <1>3, <1>4, <1>5 DEF Next

LEMMA NextRetry ==
  ASSUME ReplayConflicts = "last", RetryInv, [Next]_vars
  PROVE  RetryInv'
<1>1. queries' \in Seq(Requests)
  BY RecordTyped DEF RetryInv
<1>2. together' = together
  BY DEF Next, Caller, Answers, Replays, vars
<1>3. ASSUME ~together PROVE AwaitedInv'
  <2>1. AwaitedInv /\ RetryTyped /\ Segment /\ Len(queries) \in Nat
    BY <1>3, LenProperties DEF RetryInv, AwaitedInv, Segment
  <2>2. CASE Next
    <3>1. CASE phase = "running"
      BY <1>3, <2>1, <2>2, <3>1, RunningStep DEF AwaitedInv
    <3>2. CASE phase = "releasing"
      BY <1>3, <2>1, <2>2, <3>2, ReleasingStep DEF AwaitedInv
    <3>3. CASE phase = "committing"
      BY <1>3, <2>1, <2>2, <3>3, CommittingStep DEF AwaitedInv
    <3>4. CASE phase = "rollingBack"
      BY <1>3, <2>1, <2>2, <3>4, RollingBackStep DEF AwaitedInv
    <3>5. CASE phase \in {"resolved", "rejected"}
      <4>1. Idle
        BY <2>1, <3>5 DEF AwaitedInv
      <4>2. ~Caller
        BY <1>3, <3>5 DEF Caller, CallStatement, CommitTransaction, SendCommit, RollbackTransaction,
                          TransactionEnds
      <4> QED
        BY <2>2, <4>1, <4>2, IdleIsQuiet DEF Next
    <3> QED
      BY <2>1, <3>1, <3>2, <3>3, <3>4, <3>5 DEF AwaitedInv
  <2>3. CASE UNCHANGED vars
    <3>1. /\ RetryTyped' /\ Idle' = Idle /\ phase' = phase /\ tx' = tx /\ durable' = durable
          /\ answer' = answer /\ queries' = queries /\ Sealed' = Sealed
          /\ \A t, n : Attempt(t, n)' = Attempt(t, n)
          /\ \A at, q : Ending(at, q)' = Ending(at, q)
      BY <2>1, <2>3 DEF vars, runnerVars, serverVars, RetryTyped, Idle, Sealed, Attempt, Only, Asked, Restarting,
                        Before, Replaying, Innermost, Ending
    <3> QED
      BY <2>1, <2>3, <3>1
      DEF vars, runnerVars, serverVars, AwaitedInv, RunningInv, ReleasingInv, CommittingInv, RollingBackInv
  <2> QED
    BY <2>2, <2>3
<1> QED
  BY <1>1, <1>2, <1>3 DEF RetryInv

\* The inductive invariant of CockroachQueryRunner's record, replays and
\* transaction: with the statements awaited, the transaction holds as many of the
\* statements as have been done since it was begun or began again.
THEOREM RetryInvariance == ASSUME ReplayConflicts = "last" PROVE Spec => []RetryInv
<1>1. RetryInv /\ [Next]_vars => RetryInv'
  BY NextRetry
<1> QED
  BY <1>1, InitRetry, PTL DEF Spec

\* However often commit and statements conflict, a transaction of
\* CockroachQueryRunner that resolves has made each of its statements durable
\* once, and one that rejects none.
THEOREM AlwaysAtomic == ASSUME ReplayConflicts = "last" PROVE Spec => []Atomic
<1>1. RetryInv => Atomic
  <2>1. Latest \in Nat
    BY RetryAssumption
  <2>2. Len(Upto(Latest)) = Latest /\ ToSet(Upto(Latest)) = Statements
    <3>1. DOMAIN Upto(Latest) = 1..Latest /\ \A i \in 1..Latest : Upto(Latest)[i] = i
      BY DEF Upto
    <3>2. ToSet(Upto(Latest)) = {Upto(Latest)[i] : i \in 1..Latest}
      BY <3>1 DEF ToSet
    <3>3. ToSet(Upto(Latest)) = 1..Latest
      BY <3>1, <3>2
    <3> QED
      BY <2>1, <3>3, UptoFacts DEF Statements
  <2> QED
    BY <2>2 DEF RetryInv, AwaitedInv, Atomic
<1> QED
  BY <1>1, RetryInvariance, PTL

\* No attempt of CockroachQueryRunner runs a statement twice, however replays
\* of replays are nested, when callers await their statements.
THEOREM AlwaysOncePerAttempt ==
  ASSUME ReplayConflicts = "last", Togethers \subseteq {FALSE}
  PROVE  Spec => []OncePerAttempt
<1>1. Init => ~together
  BY DEF Init
<1>2. ~together /\ [Next]_vars => ~together'
  BY DEF Next, Caller, Answers, Replays, vars
<1>3. Spec => []~together
  BY <1>1, <1>2, PTL DEF Spec
<1>4. RetryInv /\ ~together => OncePerAttempt
  <2> SUFFICES ASSUME RetryInv, ~together PROVE OncePerAttempt
    OBVIOUS
  <2>1. PICK k \in Nat : tx = Upto(k)
    BY DEF RetryInv, AwaitedInv
  <2>2. DOMAIN tx = 1..k /\ \A i \in 1..k : tx[i] = i
    BY <2>1 DEF Upto
  <2> QED
    BY <2>2 DEF OncePerAttempt
<1> QED
  BY <1>3, <1>4, RetryInvariance, PTL
=================================================================================
