------------------------------- MODULE NestedSet -------------------------------
(***************************************************************************)
(* @Tree("nested-set"): NestedSetSubjectExecutor, which keeps in every row *)
(* the two ends of an interval, and SubjectExecutor, which writes the row  *)
(* before, after or instead.  Below a node are the rows whose intervals    *)
(* lie in the node's.                                                      *)
(***************************************************************************)
EXTENDS TreeRows

VARIABLES left, right

vars == <<tree, left, right>>

Size(x) == right[x] - left[x] + 1

TypeOK ==
  /\ TreeTypeOK
  /\ left \in [Nodes -> Int]
  /\ right \in [Nodes -> Int]

Init ==
  /\ TreeInit
  /\ left = [x \in Nodes |-> 0]
  /\ right = [x \in Nodes |-> 0]

----------------------------------------------------------------------------

\* The executor's UPDATEs touch all rows and no others.
Renumber(newLeft(_), newRight(_)) ==
  /\ left' = [x \in Nodes |-> IF x \in rows' THEN newLeft(x) ELSE 0]
  /\ right' = [x \in Nodes |-> IF x \in rows' THEN newRight(x) ELSE 0]

InsertRoot(x) ==
  /\ Insertable(x, NoNode)
  /\ Roots = {}
  /\ InsertRow(x, NoNode)
  /\ Renumber(LAMBDA n : IF n = x THEN 1 ELSE left[n],
              LAMBDA n : IF n = x THEN 2 ELSE right[n])

InsertUnder(x, p) ==
  /\ Insertable(x, p) /\ p # NoNode
  /\ InsertRow(x, p)
  /\ LET at == right[p]
     IN Renumber(LAMBDA n : IF n = x THEN at
                            ELSE IF right[n] >= at /\ left[n] > at THEN left[n] + 2
                            ELSE left[n],
                 LAMBDA n : IF n = x THEN at + 1
                            ELSE IF right[n] >= at THEN right[n] + 2
                            ELSE right[n])

\* NestedSetMultipleRootError, for a new node without a parent and for one that
\* is saved with parent = null: the save is rolled back.
SecondRootRefused ==
  /\ Roots # {}
  /\ rows # Nodes \/ "toRoot" \in Usage
  /\ UNCHANGED vars

\* Mutant: the new parent itself does not give way.
MoveForwardShort(x, p) ==
  LET by == left[p] - right[x]
  IN /\ left[p] > left[x]
     /\ Renumber(LAMBDA n : IF left[n] > right[x] /\ left[n] < left[p] THEN left[n] - Size(x)
                            ELSE IF left[n] >= left[x] /\ left[n] < right[x] THEN left[n] + by
                            ELSE left[n],
                 LAMBDA n : IF right[n] > right[x] /\ right[n] < left[p] THEN right[n] - Size(x)
                            ELSE IF right[n] > left[x] /\ right[n] <= right[x] THEN right[n] + by
                            ELSE right[n])

\* isMovingUp: the new parent's interval begins after that of x.
MoveForward(x, p) ==
  LET by == left[p] - right[x]
  IN /\ left[p] > left[x]
     /\ Renumber(LAMBDA n : IF left[n] > right[x] /\ left[n] <= left[p] THEN left[n] - Size(x)
                            ELSE IF left[n] >= left[x] /\ left[n] < right[x] THEN left[n] + by
                            ELSE left[n],
                 LAMBDA n : IF right[n] > right[x] /\ right[n] < left[p] THEN right[n] - Size(x)
                            ELSE IF right[n] > left[x] /\ right[n] <= right[x] THEN right[n] + by
                            ELSE right[n])

MoveBackward(x, p) ==
  LET by == right[p] - left[x]
  IN /\ ~(left[p] > left[x])
     /\ Renumber(LAMBDA n : IF left[n] < left[x] /\ left[n] > right[p] THEN left[n] + Size(x)
                            ELSE IF left[n] >= left[x] /\ left[n] < right[x] THEN left[n] + by
                            ELSE left[n],
                 LAMBDA n : IF right[n] < left[x] /\ right[n] >= right[p] THEN right[n] + Size(x)
                            ELSE IF right[n] > left[x] /\ right[n] <= right[x] THEN right[n] + by
                            ELSE right[n])

Move(x, p) ==
  /\ Movable(x, p) /\ p # NoNode
  /\ UpdateParent(x, p)
  /\ MoveForward(x, p) \/ MoveBackward(x, p)

Adopt(x, p) ==
  /\ Adoptable(x, p)
  /\ UpdateParent(x, p)
  /\ MoveForward(x, p) \/ MoveBackward(x, p)

\* No old parent is known, so that the parent counts as a new one.
RenameThroughParent(x) ==
  /\ RenamedThroughParent(x)
  /\ MoveForward(x, parent[x]) \/ MoveBackward(x, parent[x])

\* What becomes of v while the gaps are closed one after the other, what is beyond
\* their edges giving way.
Closing(v, gaps, edge) ==
  LET closed[i \in 0..Len(gaps)] ==
        IF i = 0 THEN v
        ELSE IF closed[i - 1] > edge[gaps[i]] THEN closed[i - 1] - Size(gaps[i])
        ELSE closed[i - 1]
  IN closed

CloseGaps(gaps) ==
  Renumber(LAMBDA n : Closing(left[n], gaps, left)[Len(gaps)],
           LAMBDA n : Closing(right[n], gaps, right)[Len(gaps)])

\* Mutant: the gaps are closed by rising right ends.
removeRising(S) ==
  /\ Removable(S) /\ Deletable(S)
  /\ DeleteRows(S)
  /\ \E gaps \in [1..Cardinality(S) -> S] :
       /\ \A i, j \in DOMAIN gaps : i < j => right[gaps[i]] < right[gaps[j]]
       /\ CloseGaps(gaps)

\* The executor reads the intervals of S, then closes the gaps that they leave
\* one after the other, by falling right ends; SubjectExecutor then deletes S.
remove(S) ==
  /\ Removable(S) /\ Deletable(S)
  /\ DeleteRows(S)
  /\ \E gaps \in [1..Cardinality(S) -> S] :
       /\ \A i, j \in DOMAIN gaps : i < j => right[gaps[i]] > right[gaps[j]]
       /\ CloseGaps(gaps)

Orphan(x) == OrphanRow(x) /\ UNCHANGED <<left, right>>

Next ==
  \/ \E x \in Nodes : InsertRoot(x)
  \/ \E x, p \in Nodes : InsertUnder(x, p)
  \/ SecondRootRefused
  \/ \E x, p \in Nodes : Move(x, p)
  \/ \E x, p \in Nodes : Adopt(x, p)
  \/ \E S \in SUBSET Nodes : remove(S)

Spec == Init /\ [][Next]_vars

----------------------------------------------------------------------------

\* TreeRepository.findDescendants.
FindDescendants(x) == {y \in rows : left[x] <= left[y] /\ left[y] <= right[x]}

\* Why: a child's interval lies in its parent's, two intervals are nested or
\* apart, and one that lies in another lies in its parent's or belongs to its
\* child.
Inside(x, y) == left[x] < left[y] /\ right[y] < right[x]

Laminar ==
  /\ \A x \in rows : left[x] >= 1 /\ left[x] < right[x]
  /\ \A x \in rows : parent[x] # NoNode => Inside(parent[x], x)
  /\ \A x, y \in rows : \/ x = y
                        \/ Inside(x, y) \/ Inside(y, x)
                        \/ right[x] < left[y] \/ right[y] < left[x]
  /\ \A x, y \in rows : Inside(x, y) =>
        /\ parent[y] # NoNode
        /\ parent[y] = x \/ Inside(x, parent[y])
===============================================================================
