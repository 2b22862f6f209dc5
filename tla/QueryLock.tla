------------------------------- MODULE QueryLock -------------------------------
(***************************************************************************)
(* QueryLock, the lock with which the runners of SQL Server and SAP HANA   *)
(* keep the queries issued on one connection apart.                        *)
(*                                                                         *)
(* acquire() notes the promises of everyone already queued, queues a       *)
(* promise of its own and, when there is somebody to wait for, awaits them *)
(* all; the function it resolves to settles the caller's promise and takes *)
(* it out of the queue.  Noting and queueing happen in one go, without an  *)
(* await; that the noted promises are settled is seen in a later step.     *)
(*                                                                         *)
(* A client is one call that uses the lock, and stands for its promise.    *)
(* waits[c] are the noted promises that are not settled yet.               *)
(***************************************************************************)
EXTENDS Integers, Sequences

CONSTANT Clients

VARIABLES queue,  \* QueryLock.queue
          waits,  \* otherWaitingPromises of each acquire() under way
          lock    \* where each client is: "out", "waiting", "holding"

lockVars == <<queue, waits, lock>>

LockTypeOK ==
  /\ queue \in Seq(Clients)
  /\ waits \in [Clients -> SUBSET Clients]
  /\ lock \in [Clients -> {"out", "waiting", "holding"}]

LockInit ==
  /\ queue = <<>>
  /\ waits = [c \in Clients |-> {}]
  /\ lock = [c \in Clients |-> "out"]

Queued == {queue[i] : i \in 1..Len(queue)}

\* queue without the promise of c.
Without(c) ==
  LET at == CHOOSE i \in 1..Len(queue) : queue[i] = c
  IN SubSeq(queue, 1, at - 1) \o SubSeq(queue, at + 1, Len(queue))

\* Mutant: those already queued are not noted.
AcquireAlone(c) ==
  /\ lock[c] = "out"
  /\ queue' = Append(queue, c)
  /\ lock' = [lock EXCEPT ![c] = "waiting"]
  /\ UNCHANGED waits

\* Mutant: only the holder is noted.
AcquireBehindHolder(c) ==
  /\ lock[c] = "out"
  /\ waits' = [waits EXCEPT ![c] = {d \in Queued : lock[d] = "holding"}]
  /\ queue' = Append(queue, c)
  /\ lock' = [lock EXCEPT ![c] = "waiting"]

Acquire(c) ==
  /\ lock[c] = "out"
  /\ waits' = [waits EXCEPT ![c] = Queued]
  /\ queue' = Append(queue, c)
  /\ lock' = [lock EXCEPT ![c] = "waiting"]

Enter(c) ==
  /\ lock[c] = "waiting"
  /\ waits[c] = {}
  /\ lock' = [lock EXCEPT ![c] = "holding"]
  /\ UNCHANGED <<queue, waits>>

Release(c) ==
  /\ lock[c] = "holding"
  /\ waits' = [d \in Clients |-> waits[d] \ {c}]
  /\ queue' = Without(c)
  /\ lock' = [lock EXCEPT ![c] = "out"]

LockNext == \E c \in Clients : Acquire(c) \/ Enter(c) \/ Release(c)

LockSpec == LockInit /\ [][LockNext]_lockVars

----------------------------------------------------------------------------

\* Two queries are never on the connection together.
MutualExclusion ==
  \A c, d \in Clients : lock[c] = "holding" /\ lock[d] = "holding" => c = d

\* The lock is taken in the order in which acquire() was called: whoever
\* enters is the one that has been queued for longest.
FirstComeFirstServed ==
  [][ \A c \in Clients : lock[c] = "waiting" /\ lock'[c] = "holding" => c = queue[1] ]_lockVars

\* Why: a client waits for those queued before it and for nobody else, and
\* the queue holds everyone who is not out, once.
LockInv ==
  /\ LockTypeOK
  /\ \A i, j \in 1..Len(queue) : queue[i] = queue[j] => i = j
  /\ \A c \in Clients : lock[c] # "out" <=> c \in Queued
  /\ \A j \in 1..Len(queue) : waits[queue[j]] = {queue[i] : i \in 1..(j - 1)}
  /\ \A c \in Clients : lock[c] = "holding" => waits[c] = {}
===============================================================================
