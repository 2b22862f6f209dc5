-------------------------- MODULE NestedTransactions --------------------------
(***************************************************************************)
(* What EntityManager.transaction promises its caller, without the query   *)
(* runner, its flags, the savepoints or the statements that fail.          *)
(*                                                                         *)
(* levels[i] is the set of uncommitted writes that the transaction at      *)
(* nesting level i sees.  A nested transaction starts from what its parent *)
(* sees; when it commits the parent sees its writes, when it rolls back    *)
(* the parent goes on as if it had never run.  Only the commit of the      *)
(* outermost transaction makes anything durable, and it makes everything   *)
(* it sees durable.                                                        *)
(***************************************************************************)
EXTENDS Naturals, Sequences

CONSTANT Writes    \* the changes a caller may make, each of them at most once

VARIABLES durable, \* the writes that every other session sees
          levels   \* the open transactions, outermost first

vars == <<durable, levels>>

TypeOK ==
  /\ durable \in SUBSET Writes
  /\ levels \in Seq(SUBSET Writes)

Init ==
  /\ durable \in SUBSET Writes
  /\ levels = <<>>

Depth == Len(levels)

Begin ==
  /\ levels' = Append(levels, IF levels = <<>> THEN {} ELSE levels[Depth])
  /\ UNCHANGED durable

Write(w) ==
  /\ levels # <<>>
  /\ levels' = [levels EXCEPT ![Depth] = @ \cup {w}]
  /\ UNCHANGED durable

CommitNested ==
  /\ Depth > 1
  /\ levels' = [SubSeq(levels, 1, Depth - 1) EXCEPT ![Depth - 1] = levels[Depth]]
  /\ UNCHANGED durable

CommitOutermost ==
  /\ Depth = 1
  /\ levels' = <<>>
  /\ durable' = durable \cup levels[1]

Rollback ==
  /\ levels # <<>>
  /\ levels' = SubSeq(levels, 1, Depth - 1)
  /\ UNCHANGED durable

Next ==
  \/ Begin
  \/ \E w \in Writes : Write(w)
  \/ CommitNested
  \/ CommitOutermost
  \/ Rollback

Spec == Init /\ [][Next]_vars
===============================================================================
