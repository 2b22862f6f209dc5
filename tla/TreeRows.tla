------------------------------- MODULE TreeRows -------------------------------
(***************************************************************************)
(* The rows of a table with a tree decorator, and their parent column: the *)
(* part that the three tree types share and that their own columns or      *)
(* closure table repeat in another form.                                   *)
(*                                                                         *)
(* A save or a removal is one step: it runs in one transaction, and the    *)
(* modules that extend this one look at callers that follow one another.   *)
(*                                                                         *)
(* Usage is what callers do beyond inserting nodes, moving them aside      *)
(* (under a node that is neither above nor below them) and removing nodes  *)
(* of which none is below another:                                         *)
(*   "toRoot"        saving a node with parent = null                      *)
(*   "toAncestor"    moving a node under one of its proper ancestors       *)
(*   "toDescendant"  moving a node under one of its descendants            *)
(*   "family"        removing a node together with descendants of it       *)
(* Three more things they do save a node whose own parent property is not  *)
(* loaded: changing other columns of it by a cascade from its parent, the  *)
(* same in one save with a node that is moved, and moving it by putting it *)
(* among the children of its new parent.  They differ in what              *)
(* SubjectDatabaseEntityLoader loads as the old parent: it loads a         *)
(* relation for all entities of a save when one of them has a value for    *)
(* it, and for none otherwise.                                             *)
(***************************************************************************)
EXTENDS Integers, FiniteSets, Sequences

CONSTANTS Nodes,   \* the ids that rows can have
          NoNode,  \* NULL
          Cascade, \* the parent's foreign key is declared ON DELETE CASCADE
          Usage

VARIABLES rows,    \* ids of the rows
          parent   \* their parent columns

tree == <<rows, parent>>

\* Assumed of the constants.
TreeAssumption ==
  /\ NoNode \notin Nodes
  /\ Cascade \in BOOLEAN
  /\ Usage \subseteq {"toRoot", "toAncestor", "toDescendant", "family", "ending"}

TreeTypeOK ==
  /\ rows \subseteq Nodes
  /\ parent \in [Nodes -> Nodes \cup {NoNode}]
  /\ \A x \in rows : parent[x] \in rows \cup {NoNode}

TreeInit ==
  /\ rows = {}
  /\ parent = [x \in Nodes |-> NoNode]

\* x and everything below it: what every set that holds x, and with a node its
\* children, has in common.
Descendants(x) ==
  {y \in rows : \A S \in SUBSET rows :
                  (x \in S /\ \A z \in rows : parent[z] \in S => z \in S) => y \in S}

Ancestors(x) == {y \in rows : x \in Descendants(y)}

Roots == {x \in rows : parent[x] = NoNode}

----------------------------------------------------------------------------

\* The statements on the table itself.
InsertRow(x, p) ==
  /\ rows' = rows \cup {x}
  /\ parent' = [parent EXCEPT ![x] = p]

UpdateParent(x, p) ==
  /\ parent' = [parent EXCEPT ![x] = p]
  /\ UNCHANGED rows

\* What DELETE takes along.
Doomed(S) == IF Cascade THEN UNION {Descendants(x) : x \in S} ELSE S

\* The foreign key lets the rows go.
Deletable(S) == \A x \in rows \ Doomed(S) : parent[x] \notin S

DeleteRows(S) ==
  /\ rows' = rows \ Doomed(S)
  /\ parent' = [x \in Nodes |-> IF x \in rows' THEN parent[x] ELSE NoNode]

----------------------------------------------------------------------------

\* What callers do.
Insertable(x, p) == x \in Nodes \ rows /\ p \in rows \cup {NoNode}

Movable(x, p) ==
  /\ x \in rows /\ p # parent[x]
  /\ \/ p = NoNode /\ "toRoot" \in Usage
     \/ p \in rows /\ p \notin Descendants(x) \cup Ancestors(x)
     \/ p \in Ancestors(x) \ {x} /\ "toAncestor" \in Usage
     \/ p \in Descendants(x) /\ "toDescendant" \in Usage

\* p a node that is neither above nor below x.
Adoptable(x, p) ==
  /\ x \in rows /\ p \in rows \ (Descendants(x) \cup Ancestors(x))

RenamedThroughParent(x) ==
  /\ x \in rows /\ parent[x] # NoNode
  /\ UNCHANGED tree

RenamedBesideMove(x) ==
  /\ x \in rows
  /\ UNCHANGED tree

Removable(S) ==
  /\ S \in SUBSET rows \ {{}}
  /\ "family" \in Usage \/ \A x, y \in S : y \in Descendants(x) => x = y

\* Saving a parent without one of its former children: OneToManySubjectBuilder
\* adds a subject that sets the child's parent to NULL and has neither entity
\* nor database entity: update() of two of the tree executors returns, and that
\* of the third looks for paths that begin with a dot, of which there are none.
OrphanRow(x) == x \in rows /\ parent[x] # NoNode /\ UpdateParent(x, NoNode)
===============================================================================
