----------------------------- MODULE ClosureTable -----------------------------
(***************************************************************************)
(* @Tree("closure-table"): ClosureSubjectExecutor, which keeps a second    *)
(* table with a row for every node and each of its ancestors, itself       *)
(* included.  Both columns are its primary key, and foreign keys that      *)
(* cascade (on SQL Server, remove() deletes instead).                      *)
(***************************************************************************)
EXTENDS TreeRows

VARIABLE closure   \* pairs <<ancestor, descendant>>

vars == <<tree, closure>>

TypeOK == TreeTypeOK /\ closure \subseteq rows \X rows

Init == TreeInit /\ closure = {}

AncestorIds(x) == {a \in rows : <<a, x>> \in closure}

DescendantIds(x) == {d \in rows : <<x, d>> \in closure}

----------------------------------------------------------------------------

insert(x, p) ==
  /\ Insertable(x, p)
  /\ InsertRow(x, p)
  /\ closure' = closure \cup {<<x, x>>}
                \cup (IF p = NoNode THEN {} ELSE AncestorIds(p) \X {x})

\* Mutant: the subtree's own descendants keep their old ancestors.
CutTopOnly(x) == {pair \in closure : pair[2] = x /\ pair[1] # x}

\* What update() deletes: the pairs that lead into the subtree from outside.
Cut(x) == {pair \in closure : pair[2] \in DescendantIds(x) /\ pair[1] \notin DescendantIds(x)}

\* And what it inserts: the new parent's ancestors above all of the subtree,
\* as the table is after the deletion.
Paste(x, p) == {a \in rows : <<a, p>> \in closure \ Cut(x)} \X DescendantIds(x)

\* Mutant: pairs that are there already are skipped.
updateIgnoringDuplicates(x, p) ==
  /\ Movable(x, p)
  /\ closure' = (closure \ Cut(x)) \cup (IF p = NoNode THEN {} ELSE Paste(x, p))
  /\ UpdateParent(x, p)

Replant(x, p) ==
  /\ p # NoNode => Paste(x, p) \cap closure \subseteq Cut(x)
  /\ closure' = (closure \ Cut(x)) \cup (IF p = NoNode THEN {} ELSE Paste(x, p))

update(x, p) ==
  /\ Movable(x, p)
  /\ Replant(x, p)
  /\ UpdateParent(x, p)

\* No old parent is known, so that the parent counts as a new one.
RenameThroughParent(x) == RenamedThroughParent(x) /\ Replant(x, parent[x])

Adopt(x, p) ==
  /\ Adoptable(x, p)
  /\ Replant(x, p)
  /\ UpdateParent(x, p)

\* The primary key refuses a pair that is there: the save is rolled back.
UpdateRefused(x, p) ==
  /\ Movable(x, p) /\ p # NoNode
  /\ ~(Paste(x, p) \cap closure \subseteq Cut(x))
  /\ UNCHANGED vars

remove(S) ==
  /\ Removable(S) /\ Deletable(S)
  /\ DeleteRows(S)
  /\ closure' = {pair \in closure : pair[1] \in rows' /\ pair[2] \in rows'}

Orphan(x) == OrphanRow(x) /\ UNCHANGED closure

Next ==
  \/ \E x \in Nodes, p \in Nodes \cup {NoNode} : insert(x, p)
  \/ \E x \in Nodes, p \in Nodes \cup {NoNode} : update(x, p)
  \/ \E x \in Nodes : RenameThroughParent(x)
  \/ \E x, p \in Nodes : Adopt(x, p)
  \/ \E x, p \in Nodes : UpdateRefused(x, p)
  \/ \E S \in SUBSET Nodes : remove(S)

Spec == Init /\ [][Next]_vars

----------------------------------------------------------------------------

\* No sequence of saves makes a node its own ancestor.
NoCycle == \A x \in rows : parent[x] # NoNode => parent[x] \notin Descendants(x)

\* Why: the closure table holds x and the pairs of x's parent, and x's alone.
Closed ==
  \A x \in rows : AncestorIds(x) = {x} \cup (IF parent[x] = NoNode THEN {}
                                              ELSE AncestorIds(parent[x]))
===============================================================================
