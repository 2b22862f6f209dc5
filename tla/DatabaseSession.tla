---------------------------- MODULE DatabaseSession ----------------------------
(***************************************************************************)
(* EXTERNAL: one session of the database server, as far as the query       *)
(* runners of driver/ talk to it: the transaction control statements they  *)
(* send, what the session does with them, and which ones it refuses.       *)
(*                                                                         *)
(* The three dialects differ where the runners' code depends on it:        *)
(*   postgres  an error inside a transaction aborts it: until a rollback   *)
(*             every statement is refused, and COMMIT then succeeds but    *)
(*             rolls back.  COMMIT and ROLLBACK outside a transaction are  *)
(*             accepted with a warning, and a refused COMMIT (a deferred   *)
(*             constraint) has rolled back.                                *)
(*   mysql     an error undoes its own statement only; BEGIN in an open    *)
(*             transaction commits it.                                     *)
(*   sqlite    an error undoes its own statement only; BEGIN inside, and   *)
(*             COMMIT or ROLLBACK outside a transaction are refused.  (It  *)
(*             would open a transaction for a SAVEPOINT outside of one,    *)
(*             which no run sends to it; here it refuses.)                 *)
(*                                                                         *)
(* A savepoint name may be set again: the newest one is the one that       *)
(* RELEASE and ROLLBACK TO find.  (MySQL deletes the older one, which here *)
(* stays shadowed; the two differ only for a caller that releases a name   *)
(* more often than it sets it.)                                            *)
(***************************************************************************)
EXTENDS Integers, Sequences

CONSTANTS Writes,   \* the changes statements can make
          Dialects  \* the kinds of server the runs look at

VARIABLES dialect,  \* the kind of server this session belongs to
          durable,  \* writes that are committed
          open,     \* is a transaction open on the session?
          aborted,  \* postgres: "current transaction is aborted"
          work,     \* the writes of the open transaction
          saves     \* its savepoints, oldest first

session == <<durable, open, aborted, work, saves>>

KnownDialects == {"postgres", "mysql", "sqlite"}

ASSUME DialectsAssumption == Dialects \subseteq KnownDialects

SavedState == [name : Int, work : SUBSET Writes]

SessionTypeOK ==
  /\ dialect \in Dialects
  /\ durable \in SUBSET Writes
  /\ open \in BOOLEAN
  /\ aborted \in BOOLEAN
  /\ work \in SUBSET Writes
  /\ saves \in Seq(SavedState)

SessionInit ==
  /\ dialect \in Dialects
  /\ durable = {}
  /\ open = FALSE
  /\ aborted = FALSE
  /\ work = {}
  /\ saves = <<>>

Named(n) == {i \in DOMAIN saves : saves[i].name = n}

\* The newest savepoint of that name.
Newest(n) == CHOOSE i \in Named(n) : \A j \in Named(n) : j <= i

\* Which statements the session accepts.
AcceptsBegin == ~aborted /\ ~(open /\ dialect = "sqlite")
AcceptsSavepoint(n) == n > 0 /\ ~aborted /\ (open \/ dialect = "mysql")
AcceptsRelease(n) == Named(n) # {} /\ ~aborted
AcceptsRollbackTo(n) == Named(n) # {}
AcceptsEnd == open \/ dialect # "sqlite"
AcceptsWrite == ~aborted

\* What an accepted statement does.
End(committed) ==
  /\ durable' = durable \cup committed
  /\ open' = FALSE
  /\ aborted' = FALSE
  /\ work' = {}
  /\ saves' = <<>>

Begin ==
  IF open /\ dialect = "postgres"
  THEN UNCHANGED session
  ELSE /\ durable' = durable \cup work
       /\ open' = TRUE
       /\ work' = {}
       /\ saves' = <<>>
       /\ UNCHANGED aborted

Savepoint(n) ==
  /\ saves' = IF open THEN Append(saves, [name |-> n, work |-> work]) ELSE saves
  /\ UNCHANGED <<durable, open, aborted, work>>

Release(n) ==
  /\ saves' = SubSeq(saves, 1, Newest(n) - 1)
  /\ UNCHANGED <<durable, open, aborted, work>>

RollbackTo(n) ==
  /\ work' = saves[Newest(n)].work
  /\ saves' = SubSeq(saves, 1, Newest(n))
  /\ aborted' = FALSE
  /\ UNCHANGED <<durable, open>>

Commit == End(IF aborted THEN {} ELSE work)

Rollback == End({})

Write(w) ==
  /\ IF open
     THEN work' = work \cup {w} /\ UNCHANGED durable
     ELSE durable' = durable \cup {w} /\ UNCHANGED work
  /\ UNCHANGED <<open, aborted, saves>>

\* What a refused statement leaves behind.
Error ==
  /\ aborted' = (aborted \/ (open /\ dialect = "postgres"))
  /\ UNCHANGED <<durable, open, work, saves>>

CommitError ==
  IF dialect = "postgres" THEN End({}) ELSE UNCHANGED session
===============================================================================
