-------------------------- MODULE MCMigrationExecutor --------------------------
(* MigrationExecutor for TLC: the options of the runs. *)
EXTENDS MigrationExecutor

CONSTANTS e1, e2

Asks(transaction, on, off, detached, data, processes, undoing) ==
  [transaction |-> transaction, on |-> on, off |-> off, detached |-> detached,
   exclusive |-> Migrations \ data, processes |-> processes, undoing |-> undoing]

\* Two processes: each migration on its own, one of them opting out because it
\* must; all of them together, or none as one opts out; none in a transaction
\* but one that opts in; some that only change data.  One process that also
\* undoes, in the modes that have no overrides.
MCOptions ==
  {Asks("each", {}, {2}, {2}, {}, {e1, e2}, FALSE),
   Asks("each", {}, {}, {}, {1, 3}, {e1, e2}, FALSE),
   Asks("all", {}, {}, {}, {}, {e1, e2}, FALSE),
   Asks("all", {}, {}, {}, {1, 2, 3}, {e1, e2}, FALSE),
   Asks("all", {}, {2}, {}, {}, {e1, e2}, FALSE),
   Asks("none", {3}, {}, {}, {}, {e1, e2}, FALSE),
   Asks("each", {}, {}, {}, {}, {e1}, TRUE),
   Asks("none", {}, {}, {}, {}, {e1}, TRUE),
   Asks("all", {}, {}, {}, {2}, {e1}, TRUE)}

\* Two processes, migrations that only change data.
MCData == {Asks("each", {}, {}, {}, {1, 2}, {e1, e2}, FALSE)}

\* Two processes, of which both also undo.
MCUndoing == {Asks("each", {}, {}, {}, {}, {e1, e2}, TRUE)}

===============================================================================
