--------------------------- MODULE MaterializedPath ---------------------------
(***************************************************************************)
(* @Tree("materialized-path"): MaterializedPathSubjectExecutor, which      *)
(* keeps in every row the ids on the way down to it, each followed by a    *)
(* dot.  update() lets the database replace text in the paths, so they     *)
(* are modelled as what they are: the digits of the ids and dots.          *)
(*                                                                         *)
(* Usage of TreeRows has one more member here:                             *)
(*   "ending"        moving a root that has something below it whose id    *)
(*                   ends in the root's, as 21 does in 1                   *)
(***************************************************************************)
EXTENDS TreeRows, SequencesExt

CONSTANT Digits   \* how an id is written, by id

VARIABLE mpath

vars == <<tree, mpath>>

Dot == 10

\* Assumed of the constants: different ids are written differently.
DigitsAssumption ==
  /\ \A x \in Nodes : Digits[x] \in Seq(0..9) \ {<<>>}
  /\ \A x, y \in Nodes : Digits[x] = Digits[y] => x = y

\* An id and its dot as text.
Text(x) == Digits[x] \o <<Dot>>

\* REPLACE(s, old, new) of SQL: every occurrence, from the left.
Replace(s, old, new) ==
  LET found(i) == SubSeq(s, i, i + Len(old) - 1) = old
      from[i \in 1..(Len(s) + 1)] ==
        IF i > Len(s) THEN <<>>
        ELSE IF i + Len(old) - 1 <= Len(s) /\ found(i) THEN new \o from[i + Len(old)]
        ELSE <<s[i]>> \o from[i + 1]
  IN from[1]

PathOf(p) == IF p = NoNode THEN <<>> ELSE mpath[p]

TypeOK == TreeTypeOK /\ mpath \in [Nodes -> Seq(0..Dot)]

Init == TreeInit /\ mpath = [x \in Nodes |-> <<>>]

----------------------------------------------------------------------------

insert(x, p) ==
  /\ Insertable(x, p)
  /\ InsertRow(x, p)
  /\ mpath' = [mpath EXCEPT ![x] = PathOf(p) \o Text(x)]

\* SET mpath = REPLACE(mpath, old, new) WHERE mpath LIKE 'old%'
Repath(old, new) ==
  mpath' = [y \in Nodes |-> IF y \in rows /\ IsPrefix(old, mpath[y])
                            THEN Replace(mpath[y], old, new)
                            ELSE mpath[y]]

\* Mutant: the paths below are left alone.
updateOwnPath(x, p) ==
  /\ Movable(x, p)
  /\ mpath' = [mpath EXCEPT ![x] = PathOf(p) \o Text(x)]
  /\ UpdateParent(x, p)

\* Nothing below x ends in the id of x.
NoneEndsIn(x) == \A y \in Descendants(x) \ {x} : ~IsSuffix(Text(x), Text(y))

update(x, p) ==
  /\ Movable(x, p)
  /\ "ending" \in Usage \/ parent[x] # NoNode \/ NoneEndsIn(x)
  /\ Repath(PathOf(parent[x]) \o Text(x), PathOf(p) \o Text(x))
  /\ UpdateParent(x, p)

\* The old parent is not known and x taken for a root.
RenameThroughParent(x) ==
  /\ RenamedThroughParent(x)
  /\ Repath(Text(x), PathOf(parent[x]) \o Text(x))

Adopt(x, p) ==
  /\ Adoptable(x, p)
  /\ Repath(Text(x), PathOf(p) \o Text(x))
  /\ UpdateParent(x, p)

\* The old parent is known, and that there is no parent property taken for a
\* move to the root.
RenameBesideMove(x) ==
  /\ RenamedBesideMove(x)
  /\ Repath(PathOf(parent[x]) \o Text(x), Text(x))

remove(S) ==
  /\ Removable(S) /\ Deletable(S)
  /\ DeleteRows(S)
  /\ mpath' = [y \in Nodes |-> IF y \in rows' THEN mpath[y] ELSE <<>>]

Orphan(x) == OrphanRow(x) /\ UNCHANGED mpath

Next ==
  \/ \E x \in Nodes, p \in Nodes \cup {NoNode} : insert(x, p)
  \/ \E x \in Nodes, p \in Nodes \cup {NoNode} : update(x, p)
  \/ \E x \in Nodes : RenameThroughParent(x)
  \/ \E S \in SUBSET Nodes : remove(S)

Spec == Init /\ [][Next]_vars

----------------------------------------------------------------------------

\* TreeRepository.findDescendants: mpath LIKE the node's own followed by '%'.
FindDescendants(x) == {y \in rows : IsPrefix(mpath[x], mpath[y])}

\* A path is its parent's and the node's own id, so that the next move of an
\* ancestor finds it.
PathsSpellTheTree == \A x \in rows : mpath[x] = PathOf(parent[x]) \o Text(x)
===============================================================================
