----------------------------- MODULE TreeRepository -----------------------------
(***************************************************************************)
(* An entity with a @Tree decorator of one of the three types, the subject *)
(* executor that keeps the type's columns or closure table, and            *)
(* TreeRepository, which reads nothing else: the parent columns are the    *)
(* tree, and what the executors keep must say the same.                    *)
(*                                                                         *)
(* Nodes, Cascade and Usage of TreeRows are given for each type, because   *)
(* the types do not all withstand the same callers.  Digits is how         *)
(* a materialized path writes an id.                                       *)
(***************************************************************************)
EXTENDS Integers

CONSTANTS TreeTypes, Nodes, NoNode, Cascade, Usage, Digits

VARIABLES treeType,     \* of the entity's metadata
          rows, parent,
          left, right,  \* of a nested set
          closure,      \* of a closure table
          mpath         \* of a materialized path

NS == INSTANCE NestedSet WITH
  Nodes <- Nodes["nested-set"], Cascade <- Cascade["nested-set"], Usage <- Usage["nested-set"]

CT == INSTANCE ClosureTable WITH
  Nodes <- Nodes["closure-table"], Cascade <- Cascade["closure-table"],
  Usage <- Usage["closure-table"]

MP == INSTANCE MaterializedPath WITH
  Nodes <- Nodes["materialized-path"], Cascade <- Cascade["materialized-path"],
  Usage <- Usage["materialized-path"]

vars == <<treeType, rows, parent, left, right, closure, mpath>>

ASSUME TreeRepositoryAssumption ==
  /\ TreeTypes \subseteq {"nested-set", "closure-table", "materialized-path"}
  /\ "nested-set" \in TreeTypes => NS!TreeAssumption
  /\ "closure-table" \in TreeTypes => CT!TreeAssumption
  /\ "materialized-path" \in TreeTypes => MP!TreeAssumption /\ MP!DigitsAssumption

TypeOK ==
  \/ treeType = "nested-set" /\ NS!TypeOK
  \/ treeType = "closure-table" /\ CT!TypeOK
  \/ treeType = "materialized-path" /\ MP!TypeOK

\* What the type does not use stays empty.
Init ==
  /\ treeType \in TreeTypes
  /\ \/ treeType = "nested-set" /\ NS!Init /\ closure = {} /\ mpath = <<>>
     \/ treeType = "closure-table" /\ CT!Init /\ left = <<>> /\ right = <<>> /\ mpath = <<>>
     \/ treeType = "materialized-path" /\ MP!Init /\ left = <<>> /\ right = <<>> /\ closure = {}

NestedSetStep == treeType = "nested-set" /\ NS!Next /\ UNCHANGED <<treeType, closure, mpath>>

ClosureTableStep ==
  treeType = "closure-table" /\ CT!Next /\ UNCHANGED <<treeType, left, right, mpath>>

MaterializedPathStep ==
  treeType = "materialized-path" /\ MP!Next /\ UNCHANGED <<treeType, left, right, closure>>

Next == NestedSetStep \/ ClosureTableStep \/ MaterializedPathStep

Spec == Init /\ [][Next]_vars

\* Callers that also save nodes whose parent property they have not loaded, in a
\* way that the tree does not survive.

\* Other columns of a node are changed by a cascade from its parent, or beside a
\* move.
Renamed ==
  \/ /\ treeType = "nested-set" /\ UNCHANGED <<treeType, closure, mpath>>
     /\ \E x \in rows : NS!RenameThroughParent(x)
  \/ /\ treeType = "materialized-path" /\ UNCHANGED <<treeType, left, right, closure>>
     /\ \E x \in rows : MP!RenameBesideMove(x)

\* A node is put among the children of its new parent.
Adopted ==
  /\ treeType = "materialized-path" /\ UNCHANGED <<treeType, left, right, closure>>
  /\ \E x, p \in rows : MP!Adopt(x, p)

\* A node is left out of the children of its parent.
Orphaned ==
  \/ /\ treeType = "nested-set" /\ UNCHANGED <<treeType, closure, mpath>>
     /\ \E x \in rows : NS!Orphan(x)
  \/ /\ treeType = "closure-table" /\ UNCHANGED <<treeType, left, right, mpath>>
     /\ \E x \in rows : CT!Orphan(x)
  \/ /\ treeType = "materialized-path" /\ UNCHANGED <<treeType, left, right, closure>>
     /\ \E x \in rows : MP!Orphan(x)

SpecRenamed == Init /\ [][Next \/ Renamed]_vars

SpecAdopted == Init /\ [][Next \/ Adopted]_vars

SpecOrphaned == Init /\ [][Next \/ Orphaned]_vars

----------------------------------------------------------------------------

\* createDescendantsQueryBuilder; createAncestorsQueryBuilder asks for the
\* converse of the same relation.
FindDescendants(x) ==
  CASE treeType = "nested-set" -> NS!FindDescendants(x)
    [] treeType = "closure-table" -> CT!DescendantIds(x)
    [] treeType = "materialized-path" -> MP!FindDescendants(x)

Descendants(x) ==
  CASE treeType = "nested-set" -> NS!Descendants(x)
    [] treeType = "closure-table" -> CT!Descendants(x)
    [] treeType = "materialized-path" -> MP!Descendants(x)

\* findDescendants and findAncestors give what the parent columns say, after
\* any sequence of saves and removals.
FindsTheFamily == \A x \in rows : FindDescendants(x) = Descendants(x)

\* The intervals of a nested set are nested like its nodes.
Laminar == treeType = "nested-set" => NS!Laminar

\* A closure table holds a node's pairs exactly: itself and its parent's.
Closed == treeType = "closure-table" => CT!Closed

\* No sequence of saves makes a node of a closure table its own ancestor.
NoCycle == treeType = "closure-table" => CT!NoCycle

\* A materialized path is the parent's and the node's own id, so that the next
\* move of an ancestor finds it.
PathsSpellTheTree == treeType = "materialized-path" => MP!PathsSpellTheTree
===============================================================================
