---------------------------- MODULE MCSqlServerSave ----------------------------
(* SqlServerSave for TLC: the workloads of the runs. *)
EXTENDS SqlServerSave

CONSTANTS c1, c2, c3

\* Some entities and some nodes of a nested set, or nodes only; what is not
\* answered fails only where the updates follow one another.
MCWorkloads ==
  {[oneByOne |-> Clients \ {c1, c2, c3}, faults |-> Answered],
   [oneByOne |-> Clients \ {c1, c2}, faults |-> Answered],
   [oneByOne |-> Clients, faults |-> Answered],
   [oneByOne |-> Clients, faults |-> Answered \cup Unanswered]}

\* Ordinary entities, one of whose updates may be refused.
MCTogether == {[oneByOne |-> {}, faults |-> {"statement"}]}

\* Ordinary entities, for which the pool may have no connection.
MCUnconnected == {[oneByOne |-> {}, faults |-> {"connect"}]}
===============================================================================
