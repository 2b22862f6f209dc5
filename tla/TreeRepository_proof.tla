------------------------ MODULE TreeRepository_proof ------------------------
(***************************************************************************)
(* Proofs about TreeRepository, for any nodes: of a closure table for any  *)
(* callers, of a nested set and of materialized paths for those that they  *)
(* withstand.                                                              *)
(***************************************************************************)
EXTENDS TreeRepository, SequenceTheorems, WellFoundedInduction, FiniteSetTheorems, TLAPS

-----------------------------------------------------------------------------
(***************************************************************************)
(* Trees, as rows R with a parent column P, whatever the executors keep    *)
(* beside it: Descendants of TreeRows, for this state and for the next.    *)
(***************************************************************************)
ClosedUnderChildren(R, P, S) == \A z \in R : P[z] \in S => z \in S

Below(R, P, x) ==
  {y \in R : \A S \in SUBSET R : x \in S /\ ClosedUnderChildren(R, P, S) => y \in S}

Acyclic(R, P) == \A x \in R : P[x] \notin Below(R, P, x)

LEMMA BelowItself == ASSUME NEW R, NEW P, NEW x \in R PROVE x \in Below(R, P, x)
BY DEF Below

LEMMA BelowIsClosed ==
  ASSUME NEW R, NEW P, NEW x, NEW z \in R, P[z] \in Below(R, P, x)
  PROVE  z \in Below(R, P, x)
BY DEF Below, ClosedUnderChildren

LEMMA BelowIsLeast ==
  ASSUME NEW R, NEW P, NEW S, NEW x \in R \cap S, ClosedUnderChildren(R, P, S)
  PROVE  Below(R, P, x) \subseteq S
<1> DEFINE T == R \cap S
<1>1. T \in SUBSET R /\ x \in T
  OBVIOUS
<1>2. ASSUME NEW z \in R, P[z] \in T PROVE z \in T
  BY <1>2 DEF ClosedUnderChildren
<1>3. \A y \in Below(R, P, x) : y \in T
  <2> HIDE DEF T
  <2> QED
    BY <1>1, <1>2 DEF Below, ClosedUnderChildren
<1> QED
  BY <1>3

LEMMA BelowByParent ==
  ASSUME NEW R, NEW P, NEW x \in R, NEW y \in Below(R, P, x), y # x
  PROVE  P[y] \in Below(R, P, x)
<1> DEFINE S == {x} \cup {z \in R : P[z] \in Below(R, P, x)}
<1>1. ASSUME NEW z \in R, P[z] \in S PROVE z \in S
  BY <1>1, BelowItself, BelowIsClosed
<1>2. Below(R, P, x) \subseteq S
  <2> HIDE DEF S
  <2> x \in R \cap S
    BY DEF S
  <2> QED
    BY <1>1, BelowIsLeast DEF ClosedUnderChildren
<1> QED
  BY <1>2

LEMMA BelowIsTransitive ==
  ASSUME NEW R, NEW P, NEW x \in R, NEW y \in Below(R, P, x)
  PROVE  Below(R, P, y) \subseteq Below(R, P, x)
<1>1. y \in R
  BY DEF Below
<1> QED
  BY <1>1, BelowIsClosed, BelowIsLeast DEF ClosedUnderChildren

\* In a tree only one of two nodes is below the other.
LEMMA BelowOneWay ==
  ASSUME NEW R, NEW P, Acyclic(R, P), NEW x \in R, NEW y \in Below(R, P, x), y # x
  PROVE  x \notin Below(R, P, y)
<1> SUFFICES ASSUME x \in Below(R, P, y) PROVE FALSE
  OBVIOUS
<1>1. y \in R
  BY DEF Below
<1>2. P[x] \in Below(R, P, y)
  BY <1>1, BelowByParent
<1> QED
  BY <1>2, BelowIsTransitive DEF Acyclic

-----------------------------------------------------------------------------
(***************************************************************************)
(* The pairs <<a, d>> with d below a, and what a move may do to them:      *)
(* whoever is above x, or beside it, keeps what is beside x; whoever is    *)
(* not above x keeps all.                                                  *)
(***************************************************************************)
Tree(R, P) == R \subseteq DOMAIN P /\ \A x \in R : P[x] \in R \cup {NoNode}

Pairs(R, P) == {pair \in R \X R : pair[2] \in Below(R, P, pair[1])}

LEMMA PairsAreBelow ==
  ASSUME NEW R, NEW P, NEW a, NEW d
  PROVE  <<a, d>> \in Pairs(R, P) <=> a \in R /\ d \in Below(R, P, a)
BY DEF Pairs, Below

Inherited(R, P, C) ==
  /\ \A a \in R : <<a, a>> \in C
  /\ \A a, z \in R : <<a, P[z]>> \in C => <<a, z>> \in C

\* What is reflexive and closed under children holds every pair.
LEMMA PairsAreLeast ==
  ASSUME NEW R, NEW P, NEW C, Inherited(R, P, C)
  PROVE  Pairs(R, P) \subseteq C
<1> SUFFICES ASSUME NEW a \in R, NEW d \in Below(R, P, a) PROVE <<a, d>> \in C
  BY DEF Pairs
<1> DEFINE S == {z \in R : <<a, z>> \in C}
<1>1. a \in R \cap S /\ ClosedUnderChildren(R, P, S)
  BY DEF ClosedUnderChildren, Inherited
<1> QED
  BY <1>1, BelowIsLeast

\* The ancestors of x are x and the ancestors of its parent.
LEMMA PairsOfParent ==
  ASSUME NEW R, NEW P, Tree(R, P), NoNode \notin R, NEW a \in R, NEW x \in R
  PROVE  <<a, x>> \in Pairs(R, P) <=> a = x \/ <<a, P[x]>> \in Pairs(R, P)
BY PairsAreBelow, BelowItself, BelowIsClosed, BelowByParent

Moved(R, P, Q, x, p) == R \subseteq DOMAIN Q /\ Q[x] = p /\ \A z \in R \ {x} : Q[z] = P[z]

LEMMA MoveKeepsBeside ==
  ASSUME NEW R, NEW P, NEW Q, NEW x \in R, NEW p, Moved(R, P, Q, x, p),
         NEW a \in R, NEW d \in Below(R, P, a), d \notin Below(R, P, x)
  PROVE  d \in Below(R, Q, a)
<1> DEFINE S == Below(R, Q, a) \cup Below(R, P, x)
<1>1. ASSUME NEW z \in R, P[z] \in S PROVE z \in S
  <2>1. CASE P[z] \in Below(R, P, x) \/ z = x
    BY <2>1, BelowIsClosed, BelowItself
  <2>2. CASE P[z] \in Below(R, Q, a) /\ z # x
    <3>1. Q[z] = P[z]
      BY <2>2 DEF Moved
    <3> QED
      BY <2>2, <3>1, BelowIsClosed
  <2> QED
    BY <1>1, <2>1, <2>2
<1>2. a \in R \cap S
  BY BelowItself
<1>3. Below(R, P, a) \subseteq S
  <2> HIDE DEF S
  <2> QED
    BY <1>1, <1>2, BelowIsLeast DEF ClosedUnderChildren
<1> QED
  BY <1>3

LEMMA MoveKeepsBelow ==
  ASSUME NEW R, NEW P, NEW Q, NEW x \in R, NEW p, Moved(R, P, Q, x, p),
         NEW a \in R, NEW d \in Below(R, P, a), a = x \/ x \notin Below(R, P, a)
  PROVE  d \in Below(R, Q, a)
<1> DEFINE S == Below(R, Q, a) \cup (R \ Below(R, P, a))
<1>1. ASSUME NEW z \in R, P[z] \in S PROVE z \in S
  <2>1. CASE z \notin Below(R, P, a) \/ z = x \/ z = a
    BY <2>1, BelowItself
  <2>2. CASE z \in Below(R, P, a) /\ z # x /\ z # a
    <3>1. Q[z] = P[z] /\ P[z] \in Below(R, P, a)
      BY <2>2, BelowByParent DEF Moved
    <3> QED
      BY <1>1, <3>1, BelowIsClosed
  <2> QED
    BY <2>1, <2>2
<1>2. a \in R \cap S
  BY BelowItself
<1>3. Below(R, P, a) \subseteq S
  <2> HIDE DEF S
  <2> QED
    BY <1>1, <1>2, BelowIsLeast DEF ClosedUnderChildren
<1> QED
  BY <1>3

-----------------------------------------------------------------------------
(***************************************************************************)
(* The statements of ClosureSubjectExecutor on the pairs C of a tree.      *)
(***************************************************************************)
Exact(R, P, C) == Tree(R, P) /\ NoNode \notin R /\ C = Pairs(R, P) /\ Acyclic(R, P)

Inserted(R, C, x, p) ==
  C \cup {<<x, x>>} \cup (IF p = NoNode THEN {} ELSE {a \in R : <<a, p>> \in C} \X {x})

\* A new row x under p, which is in the table or NULL.
LEMMA InsertIsExact ==
  ASSUME NEW R, NEW P, NEW C, Exact(R, P, C), NEW x, x \notin R, x # NoNode,
         NEW p \in R \cup {NoNode},
         NEW R2, R2 = R \cup {x},
         NEW P2, R2 \subseteq DOMAIN P2, P2[x] = p, \A z \in R : P2[z] = P[z],
         NEW C2, C2 = Inserted(R, C, x, p)
  PROVE  Exact(R2, P2, C2)
<1>1. /\ NoNode \notin R /\ C = Pairs(R, P) /\ C \subseteq R \X R /\ Acyclic(R, P)
      /\ \A z \in R : P2[z] = P[z] /\ P[z] \in R \cup {NoNode}
  BY DEF Exact, Tree, Pairs
<1>2. /\ C2 \subseteq R2 \X R2
      /\ \A a, d \in R2 : <<a, d>> \in C2 <=> \/ <<a, d>> \in C
                                              \/ d = x /\ (a = x \/ <<a, p>> \in C)
  BY <1>1 DEF Inserted
<1>3. Tree(R2, P2) /\ NoNode \notin R2
  BY <1>1 DEF Exact, Tree
<1>4. Pairs(R2, P2) \subseteq C2
  <2>1. \A a \in R2 : <<a, a>> \in C2
    BY <1>1, <1>2, BelowItself, PairsAreBelow
  <2>2. ASSUME NEW a \in R2, NEW z \in R2, <<a, P2[z]>> \in C2 PROVE <<a, z>> \in C2
    <3>1. CASE z = x
      BY <1>1, <1>2, <2>2, <3>1
    <3>2. CASE z # x
      <4>1. z \in R /\ P2[z] = P[z] /\ P[z] # x
        BY <1>1, <3>2
      <4>2. P[z] \in R2
        BY <1>2, <2>2, <4>1
      <4>3. <<a, P[z]>> \in C
        BY <1>2, <2>2, <4>1, <4>2
      <4>4. <<a, z>> \in C
        BY <1>1, <4>1, <4>3, PairsAreBelow, BelowIsClosed
      <4> QED
        BY <1>2, <4>1, <4>4
    <3> QED
      BY <3>1, <3>2
  <2>3. Inherited(R2, P2, C2)
    BY <2>1, <2>2 DEF Inherited
  <2> QED
    BY <2>3, PairsAreLeast
<1>5. C2 \subseteq Pairs(R2, P2)
  <2>1. ASSUME NEW a \in R, NEW d \in Below(R, P, a) PROVE d \in Below(R2, P2, a)
    <3>1. a \in R \cap Below(R2, P2, a)
      BY BelowItself
    <3>2. ClosedUnderChildren(R, P, Below(R2, P2, a))
      BY <1>1, BelowIsClosed DEF ClosedUnderChildren
    <3> QED
      BY <3>1, <3>2, BelowIsLeast
  <2>2. ASSUME NEW a \in R, p # NoNode, <<a, p>> \in C PROVE <<a, x>> \in Pairs(R2, P2)
    <3>1. p \in Below(R2, P2, a)
      BY <1>1, <2>1, <2>2, PairsAreBelow
    <3> QED
      BY <3>1, BelowIsClosed, PairsAreBelow
  <2>3. ASSUME NEW a \in R, NEW d \in R, <<a, d>> \in C PROVE <<a, d>> \in Pairs(R2, P2)
    BY <1>1, <2>1, <2>3, PairsAreBelow
  <2>4. <<x, x>> \in Pairs(R2, P2)
    BY BelowItself, PairsAreBelow
  <2>5. ASSUME NEW a \in R2, NEW d \in R2, <<a, d>> \in C2 PROVE <<a, d>> \in Pairs(R2, P2)
    <3>1. CASE <<a, d>> \in C
      BY <1>1, <2>3, <3>1
    <3>2. CASE d = x /\ a = x
      BY <2>4, <3>2
    <3>3. CASE d = x /\ <<a, p>> \in C
      BY <1>1, <2>2, <3>3
    <3> QED
      BY <1>2, <2>5, <3>1, <3>2, <3>3
  <2> QED
    BY <1>2, <2>5
<1>6. Acyclic(R2, P2)
  <2> SUFFICES ASSUME NEW z \in R2, <<z, P2[z]>> \in C2 PROVE FALSE
    BY <1>4, PairsAreBelow DEF Acyclic
  <2>1. /\ z = x => P2[z] = p /\ p # x
        /\ z \in R => P2[z] = P[z] /\ P[z] # x /\ z # x
    BY <1>1
  <2>2. z \in R /\ <<z, P[z]>> \in C
    BY <1>1, <1>2, <2>1
  <2>3. P[z] \in Below(R, P, z)
    BY <1>1, <2>2, PairsAreBelow
  <2> QED
    BY <1>1, <2>2, <2>3 DEF Acyclic
<1> QED
  BY <1>3, <1>4, <1>5, <1>6 DEF Exact

\* x moves under p, a node that is not below x, or to the root.  The pairs into
\* its subtree D from outside go, and p's ancestors come above all of it.
LEMMA MoveIsExact ==
  ASSUME NEW R, NEW P, NEW C, Exact(R, P, C), NEW x \in R,
         NEW p \in R \cup {NoNode}, p \notin Below(R, P, x),
         NEW P2, Moved(R, P, P2, x, p),
         NEW C2, C2 = {pair \in C : pair[2] \in Below(R, P, x) => pair[1] \in Below(R, P, x)}
                        \cup {a \in R : <<a, p>> \in C} \X Below(R, P, x)
  PROVE  Exact(R, P2, C2)
<1> DEFINE D == Below(R, P, x)
<1>1. /\ NoNode \notin R /\ C = Pairs(R, P) /\ C \subseteq R \X R /\ Acyclic(R, P)
      /\ \A z \in R : P[z] \in R \cup {NoNode}
      /\ P2[x] = p /\ \A z \in R \ {x} : P2[z] = P[z]
      /\ x \in D /\ D \subseteq R
  BY BelowItself DEF Exact, Tree, Pairs, Moved, Below
<1>2. Tree(R, P2) /\ NoNode \notin R
  BY <1>1 DEF Moved, Tree
<1>3. Pairs(R, P2) \subseteq C2
  <2>1. \A a \in R : <<a, a>> \in C2
    BY <1>1, BelowItself, PairsAreBelow
  <2>2. ASSUME NEW a \in R, NEW z \in R, <<a, P2[z]>> \in C2 PROVE <<a, z>> \in C2
    <3>1. CASE z = x
      BY <1>1, <2>2, <3>1
    <3>2. CASE z # x
      <4>1. P2[z] = P[z]
        BY <1>1, <3>2
      <4>2. CASE <<a, P[z]>> \in C /\ (P[z] \in D => a \in D)
        <5>1. <<a, z>> \in C
          BY <1>1, <4>2, PairsAreBelow, BelowIsClosed
        <5>2. z \in D => P[z] \in D
          BY <3>2, BelowByParent
        <5> QED
          BY <4>2, <5>1, <5>2
      <4>3. CASE <<a, p>> \in C /\ P[z] \in D
        <5>1. z \in D
          BY <4>3, BelowIsClosed
        <5> QED
          BY <4>3, <5>1
      <4> QED
        BY <2>2, <4>1, <4>2, <4>3
    <3> QED
      BY <3>1, <3>2
  <2>3. Inherited(R, P2, C2)
    BY <2>1, <2>2 DEF Inherited
  <2> QED
    BY <2>3, PairsAreLeast
<1>4. C2 \subseteq Pairs(R, P2)
  <2>1. ASSUME NEW a \in R, NEW d \in R, <<a, d>> \in C, d \in D => a \in D
        PROVE  <<a, d>> \in Pairs(R, P2)
    <3>1. d \in Below(R, P, a)
      BY <1>1, <2>1, PairsAreBelow
    <3>2. CASE d \notin D
      BY <3>1, <3>2, MoveKeepsBeside, PairsAreBelow
    <3>3. CASE a \in D
      <4>1. a = x \/ x \notin Below(R, P, a)
        BY <1>1, <3>3, BelowOneWay
      <4> QED
        BY <3>1, <4>1, MoveKeepsBelow, PairsAreBelow
    <3> QED
      BY <2>1, <3>2, <3>3
  <2>2. ASSUME NEW a \in R, <<a, p>> \in C, NEW d \in D PROVE <<a, d>> \in Pairs(R, P2)
    <3>1. p \in Below(R, P, a)
      BY <1>1, <2>2, PairsAreBelow
    <3>2. p \in Below(R, P2, a)
      BY <3>1, MoveKeepsBeside
    <3>3. x \in Below(R, P2, a)
      BY <1>1, <3>2, BelowIsClosed
    <3>4. d \in Below(R, P2, x)
      BY MoveKeepsBelow
    <3> QED
      BY <3>3, <3>4, BelowIsTransitive, PairsAreBelow
  <2> QED
    BY <1>1, <2>1, <2>2
<1>5. Acyclic(R, P2)
  <2> SUFFICES ASSUME NEW z \in R, <<z, P2[z]>> \in C2 PROVE FALSE
    BY <1>3, PairsAreBelow DEF Acyclic
  <2>1. CASE z = x
    <3>1. <<x, p>> \in C
      BY <1>1, <2>1
    <3> QED
      BY <1>1, <3>1, PairsAreBelow
  <2>2. CASE z # x
    <3>1. P2[z] = P[z]
      BY <1>1, <2>2
    <3>2. CASE <<z, P[z]>> \in C
      BY <1>1, <3>2, PairsAreBelow DEF Acyclic
    <3>3. CASE <<z, p>> \in C /\ P[z] \in D
      <4>1. z \in D
        BY <3>3, BelowIsClosed
      <4>2. p \in Below(R, P, z)
        BY <1>1, <3>3, PairsAreBelow
      <4> QED
        BY <4>1, <4>2, BelowIsTransitive
    <3> QED
      BY <3>1, <3>2, <3>3
  <2> QED
    BY <2>1, <2>2
<1> QED
  BY <1>2, <1>3, <1>4, <1>5 DEF Exact

\* Rows go, and with each row its children, or it has none.
LEMMA DeleteIsExact ==
  ASSUME NEW R, NEW P, NEW C, Exact(R, P, C), NEW R2 \in SUBSET R,
         \A z \in R2 : P[z] \in R2 \cup {NoNode},
         NEW P2, R2 \subseteq DOMAIN P2, \A z \in R2 : P2[z] = P[z],
         NEW C2, C2 = {pair \in C : pair[1] \in R2 /\ pair[2] \in R2}
  PROVE  Exact(R2, P2, C2)
<1>1. /\ NoNode \notin R /\ C = Pairs(R, P) /\ C \subseteq R \X R /\ Acyclic(R, P)
      /\ \A z \in R : P[z] \in R \cup {NoNode}
  BY DEF Exact, Tree, Pairs
<1>2. Tree(R2, P2) /\ NoNode \notin R2
  BY <1>1 DEF Tree
<1>3. Pairs(R2, P2) \subseteq C2
  <2>1. \A a \in R2 : <<a, a>> \in C2
    BY <1>1, BelowItself, PairsAreBelow
  <2>2. ASSUME NEW a \in R2, NEW z \in R2, <<a, P2[z]>> \in C2 PROVE <<a, z>> \in C2
    BY <1>1, <2>2, PairsAreBelow, BelowIsClosed
  <2>3. Inherited(R2, P2, C2)
    BY <2>1, <2>2 DEF Inherited
  <2> QED
    BY <2>3, PairsAreLeast
<1>4. C2 \subseteq Pairs(R2, P2)
  <2> SUFFICES ASSUME NEW a \in R2, NEW d \in R2, <<a, d>> \in C PROVE <<a, d>> \in Pairs(R2, P2)
    BY <1>1
  <2> DEFINE S == Below(R2, P2, a) \cup (R \ R2)
  <2>1. a \in R \cap S
    BY BelowItself
  <2>2. ASSUME NEW z \in R, P[z] \in S PROVE z \in S
    <3> SUFFICES ASSUME z \in R2 PROVE z \in Below(R2, P2, a)
      OBVIOUS
    <3>1. P2[z] \in Below(R2, P2, a)
      BY <1>1, <2>2
    <3> QED
      BY <3>1, BelowIsClosed
  <2>3. Below(R, P, a) \subseteq S
    <3> HIDE DEF S
    <3> QED
      BY <2>1, <2>2, BelowIsLeast DEF ClosedUnderChildren
  <2> QED
    BY <1>1, <2>3, PairsAreBelow
<1>5. Acyclic(R2, P2)
  <2> SUFFICES ASSUME NEW z \in R2, <<z, P2[z]>> \in C2 PROVE FALSE
    BY <1>3, PairsAreBelow DEF Acyclic
  <2>1. <<z, P[z]>> \in C
    OBVIOUS
  <2> QED
    BY <1>1, <2>1, PairsAreBelow DEF Acyclic
<1> QED
  BY <1>2, <1>3, <1>4, <1>5 DEF Exact

-----------------------------------------------------------------------------
(***************************************************************************)
(* The inductive invariant of a closure table: it is exactly what the      *)
(* parent columns say, and nobody is below itself.  Neither part does      *)
(* alone: it is because the pairs are exact that the primary key refuses   *)
(* to move a node below itself, and because there is no cycle that the     *)
(* pairs within a subtree survive its move.                                *)
(***************************************************************************)
ClosureTableInv ==
  treeType = "closure-table" => CT!TypeOK /\ Exact(rows, parent, closure)

TypesInv == treeType \in TreeTypes

LEMMA DescendantsOfClosureTable == \A x : CT!Descendants(x) = Below(rows, parent, x)
BY DEF CT!Descendants, Below, ClosedUnderChildren

\* What update() deletes and inserts, when the primary key does not refuse it.
LEMMA ReplantIsExact ==
  ASSUME CT!TypeOK, Exact(rows, parent, closure), NEW x \in rows, NEW p \in rows \cup {NoNode},
         CT!Replant(x, p), CT!UpdateParent(x, p)
  PROVE  Exact(rows', parent', closure')
<1> DEFINE D == Below(rows, parent, x)
<1>1. /\ rows \subseteq Nodes["closure-table"] /\ parent \in [Nodes["closure-table"] -> Nodes["closure-table"] \cup {NoNode}]
      /\ closure \subseteq rows \X rows /\ NoNode \notin rows
      /\ rows' = rows /\ parent' = [parent EXCEPT ![x] = p]
      /\ closure = Pairs(rows, parent)
      /\ D \subseteq rows /\ x \in D
  BY BelowItself DEF CT!TypeOK, CT!TreeTypeOK, CT!UpdateParent, Exact, Below
<1>2. CT!DescendantIds(x) = D
  BY <1>1, PairsAreBelow DEF CT!DescendantIds
<1>3. closure \ CT!Cut(x) = {pair \in closure : pair[2] \in D => pair[1] \in D}
  BY <1>1, <1>2 DEF CT!Cut
<1>4. p \notin D
  <2> SUFFICES ASSUME p \in D PROVE FALSE
    OBVIOUS
  <2>1. p \in rows /\ <<p, p>> \in closure
    BY <1>1, BelowItself, PairsAreBelow
  <2>2. <<p, p>> \notin CT!Cut(x)
    BY <1>2 DEF CT!Cut
  <2>3. <<p, p>> \in CT!Paste(x, p)
    BY <1>2, <2>1, <2>2 DEF CT!Paste
  <2> QED
    BY <1>1, <2>1, <2>2, <2>3 DEF CT!Replant
<1>5. (IF p = NoNode THEN {} ELSE CT!Paste(x, p)) = {a \in rows : <<a, p>> \in closure} \X D
  <2>1. CASE p = NoNode
    BY <1>1, <2>1
  <2>2. CASE p # NoNode
    <3>1. \A a \in rows : <<a, p>> \in closure \ CT!Cut(x) <=> <<a, p>> \in closure
      BY <1>2, <1>4 DEF CT!Cut
    <3> QED
      BY <1>2, <2>2, <3>1 DEF CT!Paste
  <2> QED
    BY <2>1, <2>2
<1>6. Moved(rows, parent, parent', x, p)
  BY <1>1 DEF Moved
<1>7. closure' = {pair \in closure : pair[2] \in D => pair[1] \in D}
                   \cup {a \in rows : <<a, p>> \in closure} \X D
  BY <1>3, <1>5 DEF CT!Replant
<1> QED
  BY <1>1, <1>4, <1>6, <1>7, MoveIsExact

LEMMA RemoveIsExact ==
  ASSUME CT!TypeOK, Exact(rows, parent, closure), NEW S, CT!remove(S)
  PROVE  CT!TypeOK' /\ Exact(rows', parent', closure')
<1>1. /\ rows \subseteq Nodes["closure-table"] /\ parent \in [Nodes["closure-table"] -> Nodes["closure-table"] \cup {NoNode}]
      /\ closure \subseteq rows \X rows
      /\ \A z \in rows : parent[z] \in rows \cup {NoNode}
      /\ S \subseteq rows
      /\ rows' = rows \ CT!Doomed(S)
      /\ parent' = [x \in Nodes["closure-table"] |-> IF x \in rows' THEN parent[x] ELSE NoNode]
      /\ closure' = {pair \in closure : pair[1] \in rows' /\ pair[2] \in rows'}
  BY DEF CT!TypeOK, CT!TreeTypeOK, CT!remove, CT!DeleteRows, CT!Removable
<1>2. ASSUME NEW z \in rows' PROVE parent[z] \in rows' \cup {NoNode}
  <2>1. CASE Cascade["closure-table"]
    <3>1. CT!Doomed(S) = UNION {Below(rows, parent, x) : x \in S}
      BY <2>1, DescendantsOfClosureTable DEF CT!Doomed
    <3>2. \A x \in S : z \notin Below(rows, parent, x)
      BY <1>1, <3>1
    <3>3. \A x \in S : parent[z] \notin Below(rows, parent, x)
      BY <1>1, <3>2, BelowIsClosed
    <3> QED
      BY <1>1, <3>1, <3>3
  <2>2. CASE ~Cascade["closure-table"]
    BY <1>1, <2>2 DEF CT!Doomed, CT!remove, CT!Deletable
  <2> QED
    BY <2>1, <2>2
<1>3. Exact(rows', parent', closure')
  <2>1. rows' \in SUBSET rows /\ rows' \subseteq DOMAIN parent' /\ \A z \in rows' : parent'[z] = parent[z]
    BY <1>1
  <2> QED
    BY <1>1, <1>2, <2>1, DeleteIsExact
<1>4. CT!TypeOK'
  BY <1>1, <1>2 DEF CT!TypeOK, CT!TreeTypeOK
<1> QED
  BY <1>3, <1>4

LEMMA ClosureTableInit == Init => TypesInv /\ ClosureTableInv
<1> SUFFICES ASSUME Init, treeType = "closure-table" PROVE CT!TypeOK /\ Exact(rows, parent, closure)
  BY DEF Init, TypesInv, ClosureTableInv
<1>1. rows = {} /\ parent = [x \in Nodes["closure-table"] |-> NoNode] /\ closure = {}
  BY DEF Init, CT!Init, CT!TreeInit
<1> QED
  BY <1>1 DEF CT!TypeOK, CT!TreeTypeOK, Exact, Tree, Pairs, Acyclic

LEMMA ClosureTableNext ==
  TypesInv /\ ClosureTableInv /\ [Next]_vars => TypesInv' /\ ClosureTableInv'
<1> SUFFICES ASSUME TypesInv, ClosureTableInv, [Next]_vars PROVE TypesInv' /\ ClosureTableInv'
  OBVIOUS
<1>1. treeType' = treeType
  BY DEF Next, NestedSetStep, ClosureTableStep, MaterializedPathStep, vars
<1> SUFFICES ASSUME treeType = "closure-table"
             PROVE  CT!TypeOK' /\ Exact(rows', parent', closure')
  BY <1>1 DEF TypesInv, ClosureTableInv
<1>2. CT!TypeOK /\ Exact(rows, parent, closure) /\ NoNode \notin Nodes["closure-table"]
  BY TreeRepositoryAssumption DEF TypesInv, ClosureTableInv, CT!TreeAssumption
<1>3. CASE UNCHANGED <<rows, parent, closure>>
  BY <1>2, <1>3 DEF CT!TypeOK, CT!TreeTypeOK
<1>4. ASSUME NEW x \in Nodes["closure-table"], NEW p \in Nodes["closure-table"] \cup {NoNode}, CT!insert(x, p)
      PROVE  CT!TypeOK' /\ Exact(rows', parent', closure')
  <2>1. /\ x \notin rows /\ x # NoNode /\ p \in rows \cup {NoNode}
        /\ rows' = rows \cup {x} /\ parent' = [parent EXCEPT ![x] = p]
        /\ closure' = Inserted(rows, closure, x, p)
    BY <1>2, <1>4 DEF Inserted, CT!insert, CT!Insertable, CT!InsertRow, CT!AncestorIds
  <2>2. rows' \subseteq DOMAIN parent' /\ parent'[x] = p /\ \A z \in rows : parent'[z] = parent[z]
    BY <1>2, <2>1 DEF CT!TypeOK, CT!TreeTypeOK
  <2>3. Exact(rows', parent', closure')
    BY <1>2, <2>1, <2>2, InsertIsExact
  <2> QED
    BY <1>2, <2>1, <2>3 DEF CT!TypeOK, CT!TreeTypeOK, Exact, Pairs
<1>5. ASSUME NEW x \in rows, NEW p \in rows \cup {NoNode}, CT!Replant(x, p), CT!UpdateParent(x, p)
      PROVE  CT!TypeOK' /\ Exact(rows', parent', closure')
  <2>1. Exact(rows', parent', closure')
    BY <1>2, <1>5, ReplantIsExact
  <2>2. closure' \subseteq rows' \X rows'
    BY <2>1 DEF Exact, Pairs
  <2> QED
    BY <1>2, <1>5, <2>1, <2>2 DEF CT!TypeOK, CT!TreeTypeOK, CT!UpdateParent
<1>6. ASSUME NEW x \in Nodes["closure-table"], CT!RenameThroughParent(x)
      PROVE  CT!TypeOK' /\ Exact(rows', parent', closure')
  <2>1. x \in rows /\ parent[x] \in rows /\ CT!Replant(x, parent[x]) /\ CT!UpdateParent(x, parent[x])
    BY <1>2, <1>6 DEF CT!RenameThroughParent, CT!RenamedThroughParent, CT!tree, CT!UpdateParent,
                      CT!TypeOK, CT!TreeTypeOK
  <2> QED
    BY <1>5, <2>1
<1>7. ASSUME NEW x, NEW p, CT!update(x, p)
      PROVE  CT!TypeOK' /\ Exact(rows', parent', closure')
  BY <1>5, <1>7 DEF CT!update, CT!Movable, CT!Ancestors, CT!Descendants
<1>8. ASSUME NEW x, NEW p, CT!Adopt(x, p)
      PROVE  CT!TypeOK' /\ Exact(rows', parent', closure')
  BY <1>5, <1>8 DEF CT!Adopt, CT!Adoptable
<1> QED
  BY <1>2, <1>3, <1>4, <1>6, <1>7, <1>8, RemoveIsExact
  DEF Next, NestedSetStep, ClosureTableStep, MaterializedPathStep, vars, CT!Next, CT!UpdateRefused, CT!vars, CT!tree

\* A closure table is at any time exactly what the parent columns say, and
\* these are a forest.
THEOREM ClosureTableIsExact == Spec => []ClosureTableInv
<1>1. TypesInv /\ ClosureTableInv /\ UNCHANGED vars => TypesInv' /\ ClosureTableInv'
  BY ClosureTableNext
<1> QED
  BY ClosureTableInit, ClosureTableNext, PTL DEF Spec

\* Whatever is saved and removed, a closure table holds for a node itself and
\* the ancestors of its parent, and no more.
THEOREM AlwaysClosed == Spec => []Closed
<1>1. ClosureTableInv => Closed
  <2> SUFFICES ASSUME ClosureTableInv, treeType = "closure-table" PROVE CT!Closed
    BY DEF Closed
  <2>1. Tree(rows, parent) /\ NoNode \notin rows /\ closure = Pairs(rows, parent)
    BY DEF ClosureTableInv, Exact
  <2> SUFFICES ASSUME NEW x \in rows
               PROVE  CT!AncestorIds(x) = {x} \cup (IF parent[x] = NoNode THEN {} ELSE CT!AncestorIds(parent[x]))
    BY DEF CT!Closed
  <2>2. \A a \in rows : <<a, x>> \in closure <=> a = x \/ <<a, parent[x]>> \in closure
    BY <2>1, PairsOfParent
  <2>3. parent[x] = NoNode => \A a \in rows : <<a, parent[x]>> \notin closure
    BY <2>1 DEF Pairs
  <2> QED
    BY <2>2, <2>3 DEF CT!AncestorIds
<1> QED
  BY <1>1, ClosureTableIsExact, PTL

\* ... no node of it becomes its own ancestor, though callers ask for that: the
\* primary key refuses the pairs.
THEOREM AlwaysAcyclic == Spec => []NoCycle
<1>1. ClosureTableInv => NoCycle
  BY DescendantsOfClosureTable DEF ClosureTableInv, NoCycle, CT!NoCycle, Exact, Acyclic
<1> QED
  BY <1>1, ClosureTableIsExact, PTL

\* ... and findDescendants and findAncestors give what the parent columns say.
THEOREM ClosureTableFindsTheFamily == Spec => [](treeType = "closure-table" => FindsTheFamily)
<1>1. ClosureTableInv => (treeType = "closure-table" => FindsTheFamily)
  <2> SUFFICES ASSUME ClosureTableInv, treeType = "closure-table", NEW x \in rows
               PROVE  CT!DescendantIds(x) = CT!Descendants(x)
    BY DEF FindsTheFamily, FindDescendants, Descendants
  <2>1. closure = Pairs(rows, parent) /\ Below(rows, parent, x) \subseteq rows
    BY DEF ClosureTableInv, Exact, Below
  <2> QED
    BY <2>1, DescendantsOfClosureTable, PairsAreBelow DEF CT!DescendantIds
<1> QED
  BY <1>1, ClosureTableIsExact, PTL

-----------------------------------------------------------------------------
(***************************************************************************)
(* Nested sets: rows R with parents P, and intervals from L to H.  The     *)
(* intervals are nested as the rows are, which is Laminar.                 *)
(***************************************************************************)
Within(L, H, x, y) == L[x] < L[y] /\ H[y] < H[x]

Ahead(L, H, x, y) == H[x] < L[y]

Intervals(R, L, H) == \A x \in R : L[x] \in Int /\ H[x] \in Int /\ L[x] >= 1 /\ L[x] < H[x]

Nested(R, P, L, H) ==
  /\ Intervals(R, L, H)
  /\ \A x \in R : P[x] # NoNode => Within(L, H, P[x], x)
  /\ \A x, y \in R : x = y \/ Within(L, H, x, y) \/ Within(L, H, y, x) \/ Ahead(L, H, x, y) \/ Ahead(L, H, y, x)
  /\ \A x, y \in R : Within(L, H, x, y) =>
        /\ P[y] # NoNode
        /\ P[y] = x \/ Within(L, H, x, P[y])

LEMMA SmallestExists ==
  ASSUME NEW T \in SUBSET Nat, T # {}
  PROVE  \E m \in T : \A n \in T : m <= n
<1>1. PICK m \in T : \A n \in T : ~(<<n, m>> \in OpToRel(<, Nat))
  BY WFMin, NatLessThanWellFounded, Zenon
<1>2. \A n \in T : <<n, m>> \in OpToRel(<, Nat) <=> n < m
  BY DEF OpToRel
<1>3. \A n \in T : ~(n < m)
  BY <1>1, <1>2
<1>4. T \subseteq Nat
  OBVIOUS
<1> QED
  BY <1>3, <1>4

\* Of some rows one begins first.
LEMMA FirstRowExists ==
  ASSUME NEW R, NEW L, NEW H, Intervals(R, L, H), NEW S \in SUBSET R, S # {}
  PROVE  \E x \in S : \A y \in S : L[x] <= L[y]
<1> DEFINE T == {L[x] : x \in S}
<1>1. T \in SUBSET Nat /\ T # {}
  BY DEF Intervals
<1>2. PICK m \in T : \A n \in T : m <= n
  <2> HIDE DEF T
  <2> QED
    BY <1>1, SmallestExists
<1> QED
  BY <1>2

\* What Laminar is for: below a node are the rows whose intervals lie in its own.
LEMMA WithinIsBelow ==
  ASSUME NEW R, NEW P, NEW L, NEW H, Tree(R, P), NoNode \notin R, Nested(R, P, L, H), NEW x \in R
  PROVE  Below(R, P, x) = {x} \cup {y \in R : Within(L, H, x, y)}
<1> DEFINE S == {x} \cup {y \in R : Within(L, H, x, y)}
<1>1. Below(R, P, x) \subseteq S
  <2>1. ASSUME NEW z \in R, P[z] \in S PROVE z \in S
    <3>1. P[z] \in R /\ Within(L, H, P[z], z)
      BY <2>1 DEF Nested
    <3>2. CASE P[z] = x
      BY <3>1, <3>2
    <3>3. CASE Within(L, H, x, P[z])
      BY <3>1, <3>3 DEF Within, Nested, Intervals
    <3> QED
      BY <2>1, <3>2, <3>3
  <2>2. ClosedUnderChildren(R, P, S) /\ x \in R \cap S
    BY <2>1 DEF ClosedUnderChildren
  <2> HIDE DEF S
  <2> QED
    BY <2>2, BelowIsLeast
<1>2. S \subseteq Below(R, P, x)
  <2> DEFINE B == {y \in R : Within(L, H, x, y) /\ y \notin Below(R, P, x)}
  <2>1. SUFFICES ASSUME B # {} PROVE FALSE
    BY BelowItself
  <2>2. PICK y \in B : \A z \in B : L[y] <= L[z]
    <3>1. B \in SUBSET R /\ Intervals(R, L, H)
      BY DEF Nested
    <3> HIDE DEF B
    <3> QED
      BY <2>1, <3>1, FirstRowExists
  <2>3. y \in R /\ P[y] \in R /\ Within(L, H, P[y], y) /\ (P[y] = x \/ Within(L, H, x, P[y]))
    BY <2>2 DEF Nested, Tree
  <2>4. P[y] \in Below(R, P, x)
    <3>1. CASE P[y] = x
      BY <3>1, BelowItself
    <3>2. CASE Within(L, H, x, P[y])
      <4>1. ~(L[y] <= L[P[y]])
        BY <2>3 DEF Within, Nested, Intervals
      <4> QED
        BY <2>2, <2>3, <3>2, <4>1
    <3> QED
      BY <2>3, <3>1, <3>2
  <2> QED
    BY <2>2, <2>3, <2>4, BelowIsClosed
<1> QED
  BY <1>1, <1>2

\* A table without a root is empty.
LEMMA SomeRowIsRoot ==
  ASSUME NEW R, NEW P, NEW L, NEW H, Tree(R, P), Nested(R, P, L, H), R # {}
  PROVE  \E x \in R : P[x] = NoNode
<1>1. PICK x \in R : \A y \in R : L[x] <= L[y]
  BY FirstRowExists DEF Nested
<1> SUFFICES ASSUME P[x] # NoNode PROVE FALSE
  BY <1>1
<1>2. P[x] \in R /\ L[P[x]] < L[x]
  BY DEF Tree, Nested, Within
<1> QED
  BY <1>1, <1>2 DEF Nested, Intervals

\* What keeps the order of all that begins and ends keeps the nesting.
LEMMA OrderKeepsNested ==
  ASSUME NEW R, NEW P, NEW L, NEW H, Tree(R, P), Nested(R, P, L, H), NEW S \in SUBSET R, NEW Q, NEW M, NEW K,
         \A x \in S : Q[x] = P[x], \A x \in S : P[x] \in S \cup {NoNode},
         Intervals(S, M, K),
         \A x, y \in S : Within(M, K, x, y) <=> Within(L, H, x, y),
         \A x, y \in S : Ahead(L, H, x, y) => Ahead(M, K, x, y)
  PROVE  Nested(S, Q, M, K)
BY DEF Nested

(***************************************************************************)
(* A move.  The subtree of x is shifted as one, and lands in p: whatever p *)
(* is, or what is around p, is around it, and all else is beside it.       *)
(***************************************************************************)
Transplanted(R, D, L, H, M, K, p) ==
  /\ Intervals(R, M, K)
  /\ \A m, n \in R :
       (m \in D <=> n \in D) => /\ Within(M, K, m, n) <=> Within(L, H, m, n)
                                /\ Ahead(L, H, m, n) => Ahead(M, K, m, n)
  /\ \A m \in R \ D, n \in D :
       IF m = p \/ Within(L, H, m, p) THEN Within(M, K, m, n)
                                      ELSE Ahead(M, K, m, n) \/ Ahead(M, K, n, m)

LEMMA OneOfThree ==
  ASSUME NEW R, NEW M, NEW K, Intervals(R, M, K), NEW m \in R, NEW n \in R
  PROVE  /\ ~(Within(M, K, m, n) /\ Within(M, K, n, m))
         /\ Ahead(M, K, m, n) => ~Within(M, K, m, n) /\ ~Within(M, K, n, m)
BY DEF Intervals, Within, Ahead

LEMMA TransplantNests ==
  ASSUME NEW R, NEW P, NEW L, NEW H, Tree(R, P), NoNode \notin R, Nested(R, P, L, H),
         NEW x \in R, NEW p \in R, p \notin Below(R, P, x),
         NEW Q, Moved(R, P, Q, x, p), NEW M, NEW K, Transplanted(R, Below(R, P, x), L, H, M, K, p)
  PROVE  Nested(R, Q, M, K)
<1> DEFINE D == Below(R, P, x)
<1>1. /\ x \in D /\ D \subseteq R /\ p \in R \ D /\ p # NoNode
      /\ Q[x] = p /\ \A z \in R \ {x} : Q[z] = P[z]
      /\ Intervals(R, M, K) /\ Intervals(R, L, H)
  BY BelowItself DEF Below, Moved, Transplanted, Nested
<1>2. \A z \in R \ {x} : P[z] \in R => (P[z] \in D <=> z \in D)
  BY BelowIsClosed, BelowByParent
<1>3. \A m, n \in R :
        (m \in D <=> n \in D) => /\ Within(M, K, m, n) <=> Within(L, H, m, n)
                                 /\ Ahead(L, H, m, n) => Ahead(M, K, m, n)
  BY DEF Transplanted
<1>4. \A m \in R \ D, n \in D :
        IF m = p \/ Within(L, H, m, p) THEN Within(M, K, m, n)
                                       ELSE Ahead(M, K, m, n) \/ Ahead(M, K, n, m)
  BY DEF Transplanted
<1> HIDE DEF D
<1>5. ASSUME NEW z \in R, Q[z] # NoNode PROVE Within(M, K, Q[z], z)
  <2>1. CASE z = x
    BY <1>1, <1>4, <2>1
  <2>2. CASE z # x
    <3>1. Q[z] = P[z] /\ P[z] \in R /\ Within(L, H, P[z], z)
      BY <1>1, <1>5, <2>2 DEF Nested, Tree
    <3> QED
      BY <1>2, <1>3, <2>2, <3>1
  <2> QED
    BY <2>1, <2>2
<1>6. ASSUME NEW m \in R, NEW n \in R
      PROVE  m = n \/ Within(M, K, m, n) \/ Within(M, K, n, m) \/ Ahead(M, K, m, n) \/ Ahead(M, K, n, m)
  <2>1. CASE m \in D <=> n \in D
    BY <1>3, <2>1 DEF Nested
  <2>2. CASE m \in D /\ n \notin D
    BY <1>4, <2>2
  <2>3. CASE m \notin D /\ n \in D
    BY <1>4, <2>3
  <2> QED
    BY <2>1, <2>2, <2>3
<1>7. ASSUME NEW m \in R, NEW n \in R, Within(M, K, m, n)
      PROVE  Q[n] # NoNode /\ (Q[n] = m \/ Within(M, K, m, Q[n]))
  <2>1. CASE (m \in D <=> n \in D) /\ n # x
    <3>1. Q[n] = P[n] /\ P[n] # NoNode /\ P[n] \in R /\ (P[n] = m \/ Within(L, H, m, P[n]))
      BY <1>1, <1>3, <1>7, <2>1 DEF Nested, Tree
    <3> QED
      BY <1>2, <1>3, <2>1, <3>1
  <2>2. CASE m \in D /\ n \notin D
    BY <1>1, <1>4, <1>7, <2>2, OneOfThree
  <2>3. CASE m \notin D /\ n \in D
    <3>1. m = p \/ Within(L, H, m, p)
      BY <1>1, <1>4, <1>7, <2>3, OneOfThree
    <3>2. CASE n = x
      BY <1>1, <1>3, <2>3, <3>1, <3>2
    <3>3. CASE n # x
      <4>1. Q[n] = P[n] /\ P[n] \in D
        <5>1. P[n] \in D
          BY <2>3, <3>3, BelowByParent DEF D
        <5> QED
          BY <1>1, <3>3, <5>1
      <4> QED
        BY <1>1, <1>4, <2>3, <3>1, <4>1
    <3> QED
      BY <3>2, <3>3
  <2>4. CASE m \in D /\ n = x
    <3>1. Within(L, H, m, x) /\ (m = x \/ Within(L, H, x, m))
      <4>1. Below(R, P, x) = {x} \cup {y \in R : Within(L, H, x, y)}
        BY WithinIsBelow
      <4> QED
        BY <1>1, <1>3, <1>7, <2>4, <4>1 DEF D
    <3> QED
      BY <1>1, <3>1, OneOfThree
  <2> QED
    BY <1>1, <2>1, <2>2, <2>3, <2>4
<1> QED
  BY <1>1, <1>5, <1>6, <1>7 DEF Nested

(***************************************************************************)
(* How a move makes way: outside of x's interval, from a to b, the ends    *)
(* keep their order; those of p, from c to d, come around the place, by    *)
(* further on, where x's interval goes, and no end stays within it.        *)
(***************************************************************************)
Beside(a, b) == {v \in Int : v < a \/ v > b}

MakesWay(w, a, b, c, d, by) ==
  /\ w \in [Int -> Int] /\ by \in Int /\ a + by >= 1
  /\ \A v \in Beside(a, b) : v >= 1 => w[v] >= 1
  /\ \A u, v \in Beside(a, b) : u < v => w[u] < w[v]
  /\ \A v \in Beside(a, b) : v <= c => w[v] < a + by
  /\ \A v \in Beside(a, b) : v >= d => w[v] > b + by
  /\ \/ \A v \in Beside(a, b) : v > c => w[v] > b + by
     \/ \A v \in Beside(a, b) : v < d => w[v] < a + by

LEMMA ForwardMakesWay ==
  ASSUME NEW a \in Int, NEW b \in Int, NEW c \in Int, NEW d \in Int, 1 <= a, a < b, b < c, c < d,
         NEW w, w = [v \in Int |-> IF v > b /\ v <= c THEN v - (b - a + 1) ELSE v]
  PROVE  MakesWay(w, a, b, c, d, c - b)
BY DEF MakesWay, Beside

LEMMA BackwardMakesWay ==
  ASSUME NEW a \in Int, NEW b \in Int, NEW c \in Int, NEW d \in Int, 1 <= c, c < d, d < a, a < b,
         NEW w, w = [v \in Int |-> IF v < a /\ v >= d THEN v + (b - a + 1) ELSE v]
  PROVE  MakesWay(w, a, b, c, d, d - a)
BY DEF MakesWay, Beside

\* Whose interval is apart from x's.
LEMMA EndsBeside ==
  ASSUME NEW R, NEW P, NEW L, NEW H, Tree(R, P), NoNode \notin R, Nested(R, P, L, H), NEW x \in R, NEW n \in R
  PROVE  /\ n \in Below(R, P, x) => L[x] <= L[n] /\ L[n] < H[n] /\ H[n] <= H[x]
         /\ n \notin Below(R, P, x) => L[n] \in Beside(L[x], H[x]) /\ H[n] \in Beside(L[x], H[x])
         /\ n \notin Below(R, P, x) => ~(L[x] <= L[n] /\ L[n] <= H[x])
<1>1. Below(R, P, x) = {x} \cup {y \in R : Within(L, H, x, y)}
  BY WithinIsBelow
<1>2. L[n] \in Int /\ H[n] \in Int /\ L[x] \in Int /\ H[x] \in Int /\ L[n] < H[n] /\ L[x] < H[x]
  BY DEF Nested, Intervals
<1>3. x = n \/ Within(L, H, x, n) \/ Within(L, H, n, x) \/ Ahead(L, H, x, n) \/ Ahead(L, H, n, x)
  BY DEF Nested
<1> QED
  BY <1>1, <1>2, <1>3 DEF Within, Ahead, Beside

LEMMA MoveTransplants ==
  ASSUME NEW R, NEW P, NEW L, NEW H, Tree(R, P), NoNode \notin R, Nested(R, P, L, H),
         NEW x \in R, NEW p \in R, p \notin Below(R, P, x), x \notin Below(R, P, p),
         NEW w, NEW by, MakesWay(w, L[x], H[x], L[p], H[p], by), NEW M, NEW K,
         \A n \in Below(R, P, x) : M[n] = L[n] + by /\ K[n] = H[n] + by,
         \A n \in R \ Below(R, P, x) : M[n] = w[L[n]] /\ K[n] = w[H[n]]
  PROVE  Transplanted(R, Below(R, P, x), L, H, M, K, p)
<1> DEFINE D == Below(R, P, x)
           O == Beside(L[x], H[x])
<1>1. \A n \in R : L[n] \in Int /\ H[n] \in Int /\ L[n] >= 1 /\ L[n] < H[n]
  BY DEF Nested, Intervals
<1>2. by \in Int /\ w \in [Int -> Int] /\ O \subseteq Int
  BY DEF MakesWay, Beside
<1>3. \A n \in D : n \in R /\ L[x] <= L[n] /\ H[n] <= H[x] /\ M[n] = L[n] + by /\ K[n] = H[n] + by
  BY EndsBeside DEF Below
<1>4. \A n \in R \ D : L[n] \in O /\ H[n] \in O /\ M[n] = w[L[n]] /\ K[n] = w[H[n]]
  BY EndsBeside
<1>5. \A u, v \in O : u < v <=> w[u] < w[v]
  <2> SUFFICES ASSUME NEW u \in O, NEW v \in O PROVE u < v <=> w[u] < w[v]
    OBVIOUS
  <2>1. u \in Int /\ v \in Int /\ w[u] \in Int /\ w[v] \in Int
    BY <1>2
  <2>2. /\ u < v => w[u] < w[v]
        /\ v < u => w[v] < w[u]
    BY DEF MakesWay
  <2> QED
    BY <2>1, <2>2
<1>6. L[x] + by >= 1 /\ \A v \in O : v >= 1 => w[v] >= 1
  BY DEF MakesWay
<1>7. /\ \A v \in O : v <= L[p] => w[v] < L[x] + by
      /\ \A v \in O : v >= H[p] => w[v] > H[x] + by
      /\ \/ \A v \in O : v > L[p] => w[v] > H[x] + by
         \/ \A v \in O : v < H[p] => w[v] < L[x] + by
  BY DEF MakesWay
<1> HIDE DEF D, O
<1>8. Intervals(R, M, K)
  <2> SUFFICES ASSUME NEW n \in R PROVE M[n] \in Int /\ K[n] \in Int /\ M[n] >= 1 /\ M[n] < K[n]
    BY DEF Intervals
  <2>1. CASE n \in D
    BY <1>1, <1>2, <1>3, <1>6, <2>1
  <2>2. CASE n \notin D
    BY <1>1, <1>2, <1>4, <1>5, <1>6, <2>2
  <2> QED
    BY <2>1, <2>2
<1>9. ASSUME NEW m \in R, NEW n \in R, m \in D <=> n \in D
      PROVE  /\ Within(M, K, m, n) <=> Within(L, H, m, n)
             /\ Ahead(L, H, m, n) => Ahead(M, K, m, n)
  <2>1. CASE m \in D /\ n \in D
    BY <1>1, <1>2, <1>3, <2>1 DEF Within, Ahead
  <2>2. CASE m \notin D /\ n \notin D
    BY <1>4, <1>5, <2>2 DEF Within, Ahead
  <2> QED
    BY <1>9, <2>1, <2>2
<1>10. ASSUME NEW m \in R \ D, NEW n \in D
       PROVE  IF m = p \/ Within(L, H, m, p) THEN Within(M, K, m, n)
                                             ELSE Ahead(M, K, m, n) \/ Ahead(M, K, n, m)
  <2>1. /\ M[m] = w[L[m]] /\ K[m] = w[H[m]] /\ L[m] \in O /\ H[m] \in O
        /\ L[m] \in Int /\ H[m] \in Int /\ w[L[m]] \in Int /\ w[H[m]] \in Int
        /\ L[p] \in Int /\ H[p] \in Int /\ L[p] < H[p] /\ L[m] < H[m]
    BY <1>1, <1>2, <1>4
  <2>2. /\ M[n] \in Int /\ K[n] \in Int /\ L[x] + by <= M[n] /\ K[n] <= H[x] + by
        /\ L[x] + by \in Int /\ H[x] + by \in Int /\ M[n] < K[n]
    BY <1>1, <1>2, <1>3
  <2>3. CASE m = p \/ Within(L, H, m, p)
    <3>1. L[m] <= L[p] /\ H[m] >= H[p]
      BY <2>1, <2>3 DEF Within
    <3>2. w[L[m]] < L[x] + by /\ w[H[m]] > H[x] + by
      BY <1>7, <2>1, <3>1
    <3>3. Within(M, K, m, n)
      BY <2>1, <2>2, <3>2 DEF Within
    <3> QED
      BY <2>3, <3>3
  <2>4. CASE ~(m = p \/ Within(L, H, m, p))
    <3>1. Within(L, H, p, m) \/ Ahead(L, H, m, p) \/ Ahead(L, H, p, m)
      BY <2>4 DEF Nested
    <3>2. \/ H[m] <= L[p] \/ L[m] >= H[p]
          \/ L[m] > L[p] /\ H[m] < H[p]
      BY <2>1, <3>1 DEF Within, Ahead
    <3>3. w[H[m]] < L[x] + by \/ w[L[m]] > H[x] + by
      BY <1>7, <2>1, <3>2
    <3>4. Ahead(M, K, m, n) \/ Ahead(M, K, n, m)
      BY <2>1, <2>2, <3>3 DEF Ahead
    <3> QED
      BY <2>4, <3>4
  <2> QED
    BY <2>3, <2>4
<1> QED
  BY <1>8, <1>9, <1>10 DEF Transplanted, D

(***************************************************************************)
(* An insertion: the new row comes last in its parent, and all that ends   *)
(* or begins behind it gives way.                                          *)
(***************************************************************************)
MadeRoom(R, L, H, x, p, M, K) ==
  /\ M[x] = H[p] /\ K[x] = H[p] + 1
  /\ \A n \in R : /\ M[n] = IF H[n] >= H[p] /\ L[n] > H[p] THEN L[n] + 2 ELSE L[n]
                  /\ K[n] = IF H[n] >= H[p] THEN H[n] + 2 ELSE H[n]

LEMMA InsertNests ==
  ASSUME NEW R, NEW P, NEW L, NEW H, Tree(R, P), NoNode \notin R, Nested(R, P, L, H),
         NEW x, x \notin R, NEW p \in R,
         NEW Q, Q[x] = p, \A z \in R : Q[z] = P[z],
         NEW M, NEW K, MadeRoom(R, L, H, x, p, M, K)
  PROVE  Nested(R \cup {x}, Q, M, K)
<1>0. /\ M[x] = H[p] /\ K[x] = H[p] + 1
      /\ \A n \in R : /\ M[n] = IF H[n] >= H[p] /\ L[n] > H[p] THEN L[n] + 2 ELSE L[n]
                      /\ K[n] = IF H[n] >= H[p] THEN H[n] + 2 ELSE H[n]
  BY DEF MadeRoom
<1>1. \A n \in R : L[n] \in Int /\ H[n] \in Int /\ L[n] >= 1 /\ L[n] < H[n]
  BY DEF Nested, Intervals
<1>2. \A n \in R : M[n] \in Int /\ K[n] \in Int /\ M[n] >= 1 /\ M[n] < K[n]
  BY <1>0, <1>1
<1>3. M[x] \in Int /\ K[x] \in Int /\ M[x] >= 1 /\ M[x] < K[x]
  BY <1>0, <1>1
<1>4. ASSUME NEW m \in R, NEW n \in R
      PROVE  /\ Within(M, K, m, n) <=> Within(L, H, m, n)
             /\ Ahead(L, H, m, n) => Ahead(M, K, m, n)
  <2>1. /\ L[m] \in Int /\ H[m] \in Int /\ L[m] < H[m]
        /\ L[n] \in Int /\ H[n] \in Int /\ L[n] < H[n] /\ H[p] \in Int
    BY <1>1
  <2>2. /\ M[m] = IF H[m] >= H[p] /\ L[m] > H[p] THEN L[m] + 2 ELSE L[m]
        /\ K[m] = IF H[m] >= H[p] THEN H[m] + 2 ELSE H[m]
        /\ M[n] = IF H[n] >= H[p] /\ L[n] > H[p] THEN L[n] + 2 ELSE L[n]
        /\ K[n] = IF H[n] >= H[p] THEN H[n] + 2 ELSE H[n]
    BY <1>0
  <2>3. m = n \/ Within(L, H, m, n) \/ Within(L, H, n, m) \/ Ahead(L, H, m, n) \/ Ahead(L, H, n, m)
    BY DEF Nested
  <2> QED
    BY <2>1, <2>2, <2>3 DEF Within, Ahead
<1>5. ASSUME NEW m \in R
      PROVE  /\ ~Within(M, K, x, m)
             /\ Within(M, K, m, x) <=> m = p \/ Within(L, H, m, p)
             /\ Within(M, K, m, x) \/ Ahead(M, K, m, x) \/ Ahead(M, K, x, m)
  <2>1. /\ L[m] \in Int /\ H[m] \in Int /\ L[m] < H[m]
        /\ L[p] \in Int /\ H[p] \in Int /\ L[p] < H[p]
    BY <1>1
  <2>2. /\ M[m] = IF H[m] >= H[p] /\ L[m] > H[p] THEN L[m] + 2 ELSE L[m]
        /\ K[m] = IF H[m] >= H[p] THEN H[m] + 2 ELSE H[m]
    BY <1>0
  <2>3. m = p \/ Within(L, H, m, p) \/ Within(L, H, p, m) \/ Ahead(L, H, m, p) \/ Ahead(L, H, p, m)
    BY DEF Nested
  <2> QED
    BY <1>0, <2>1, <2>2, <2>3 DEF Within, Ahead
<1>6. Intervals(R \cup {x}, M, K)
  BY <1>2, <1>3 DEF Intervals
<1>7. ASSUME NEW z \in R \cup {x}, Q[z] # NoNode PROVE Within(M, K, Q[z], z)
  BY <1>4, <1>5, <1>7 DEF Nested, Tree
<1>8. ASSUME NEW m \in R \cup {x}, NEW n \in R \cup {x}
      PROVE  m = n \/ Within(M, K, m, n) \/ Within(M, K, n, m) \/ Ahead(M, K, m, n) \/ Ahead(M, K, n, m)
  <2>1. CASE m \in R /\ n \in R
    BY <1>4, <2>1 DEF Nested
  <2>2. CASE m = x \/ n = x
    BY <1>5, <2>2
  <2> QED
    BY <2>1, <2>2
<1>9. ASSUME NEW m \in R \cup {x}, NEW n \in R \cup {x}, Within(M, K, m, n)
      PROVE  Q[n] # NoNode /\ (Q[n] = m \/ Within(M, K, m, Q[n]))
  <2>1. CASE n = x
    <3>1. m \in R
      BY <1>3, <1>9, <2>1 DEF Within
    <3> QED
      BY <1>4, <1>5, <1>9, <2>1, <3>1
  <2>2. CASE n \in R
    <3>1. m \in R
      BY <1>5, <1>9, <2>2
    <3>2. Within(L, H, m, n) /\ P[n] # NoNode /\ (P[n] = m \/ Within(L, H, m, P[n]))
      BY <1>4, <1>9, <2>2, <3>1 DEF Nested
    <3>3. Q[n] = P[n] /\ P[n] \in R
      BY <2>2, <3>2 DEF Tree
    <3> QED
      BY <1>4, <3>1, <3>2, <3>3
  <2> QED
    BY <2>1, <2>2
<1> QED
  BY <1>6, <1>7, <1>8, <1>9 DEF Nested

LEMMA FirstRowNests ==
  ASSUME NEW x, x # NoNode, NEW Q, Q[x] = NoNode, NEW M, M[x] = 1, NEW K, K[x] = 2
  PROVE  Nested({x}, Q, M, K)
BY DEF Nested, Intervals, Within

(***************************************************************************)
(* A removal.  From N gaps, each from lo[i] to hi[i] and the last of them  *)
(* first, an end v comes to c[1], c[2] and so on as they are closed.       *)
(* Ahead of a gap it stays, behind it it comes back as far as the gap is   *)
(* wide, and the gaps that come later are still where they were.           *)
(***************************************************************************)
Gaps(N, lo, hi) ==
  /\ N \in Nat
  /\ \A i \in 1..N : lo[i] \in Int /\ hi[i] \in Int /\ 1 <= lo[i] /\ lo[i] < hi[i]
  /\ \A i, j \in 1..N : i < j => hi[j] < lo[i]

Clear(N, lo, hi, v) == v \in Int /\ \A i \in 1..N : v \in Beside(lo[i], hi[i])

Closes(c, v, N, lo, hi, edge) ==
  /\ c[0] = v
  /\ \A i \in 1..N :
       /\ edge[i] \in Int /\ lo[i] <= edge[i] /\ edge[i] <= hi[i]
       /\ c[i] = IF c[i - 1] > edge[i] THEN c[i - 1] - (hi[i] - lo[i] + 1) ELSE c[i - 1]

\* No end passes a place that the gaps are behind.
SideKept(c, v, lo, i) ==
  /\ c[i] \in Int
  /\ \A t \in Int : (\A j \in 1..i : t <= lo[j]) =>
       /\ v < t => c[i] = v
       /\ v >= t => c[i] >= t

LEMMA ClosingStep ==
  ASSUME NEW N, NEW lo, NEW hi, Gaps(N, lo, hi), NEW v, Clear(N, lo, hi, v),
         NEW c, NEW edge, Closes(c, v, N, lo, hi, edge), NEW i \in 1..N, SideKept(c, v, lo, i - 1)
  PROVE  /\ v < lo[i] => c[i] = v /\ c[i - 1] = v
         /\ v > hi[i] => c[i] = c[i - 1] - (hi[i] - lo[i] + 1) /\ c[i - 1] > hi[i]
<1>1. lo[i] \in Int /\ hi[i] \in Int /\ lo[i] < hi[i] /\ v \in Int /\ N \in Nat /\ i - 1 \in Nat
  BY DEF Gaps, Clear
<1>2. \A j \in 1..(i - 1) : hi[i] + 1 <= lo[j] /\ lo[i] <= lo[j]
  <2> SUFFICES ASSUME NEW j \in 1..(i - 1) PROVE hi[i] + 1 <= lo[j] /\ lo[i] <= lo[j]
    OBVIOUS
  <2>1. j \in 1..N /\ j < i
    BY <1>1
  <2>2. hi[i] < lo[j] /\ lo[j] \in Int
    BY <2>1 DEF Gaps
  <2> QED
    BY <1>1, <2>2
<1>3. c[i - 1] \in Int
  BY DEF SideKept
<1>4. edge[i] \in Int /\ lo[i] <= edge[i] /\ edge[i] <= hi[i]
      /\ c[i] = IF c[i - 1] > edge[i] THEN c[i - 1] - (hi[i] - lo[i] + 1) ELSE c[i - 1]
  BY DEF Closes
<1>5. ASSUME v < lo[i] PROVE c[i] = v /\ c[i - 1] = v
  <2>1. c[i - 1] = v
    BY <1>1, <1>2, <1>5 DEF SideKept
  <2> QED
    BY <1>1, <1>4, <1>5, <2>1
<1>6. ASSUME v > hi[i] PROVE c[i] = c[i - 1] - (hi[i] - lo[i] + 1) /\ c[i - 1] > hi[i]
  <2>1. hi[i] + 1 \in Int /\ v >= hi[i] + 1
    BY <1>1, <1>6
  <2>2. c[i - 1] >= hi[i] + 1
    BY <1>2, <2>1 DEF SideKept
  <2> QED
    BY <1>1, <1>3, <1>4, <2>2
<1> QED
  BY <1>5, <1>6

LEMMA ClosingKeepsSide ==
  ASSUME NEW N, NEW lo, NEW hi, Gaps(N, lo, hi), NEW v, Clear(N, lo, hi, v),
         NEW c, NEW edge, Closes(c, v, N, lo, hi, edge), NEW n \in 0..N
  PROVE  SideKept(c, v, lo, n)
<1> DEFINE T == {i \in 0..N : ~SideKept(c, v, lo, i)}
<1>0. N \in Nat /\ v \in Int
  BY DEF Gaps, Clear
<1> SUFFICES ASSUME T # {} PROVE FALSE
  OBVIOUS
<1>1. PICK i \in T : \A j \in T : i <= j
  <2>1. T \in SUBSET Nat
    BY <1>0
  <2> HIDE DEF T
  <2> QED
    BY <2>1, SmallestExists
<1>2. i # 0
  <2>1. SideKept(c, v, lo, 0)
    BY <1>0 DEF SideKept, Closes
  <2> QED
    BY <2>1
<1>3. i \in 1..N /\ i - 1 \in 0..N /\ i \in Nat
  BY <1>0, <1>2
<1>4. SideKept(c, v, lo, i - 1)
  <2>1. ~(i <= i - 1)
    BY <1>3
  <2> QED
    BY <1>1, <1>3, <2>1
<1>5. /\ v < lo[i] => c[i] = v /\ c[i - 1] = v
      /\ v > hi[i] => c[i] = c[i - 1] - (hi[i] - lo[i] + 1) /\ c[i - 1] > hi[i]
  BY <1>3, <1>4, ClosingStep
<1>6. lo[i] \in Int /\ hi[i] \in Int /\ lo[i] < hi[i] /\ (v < lo[i] \/ v > hi[i]) /\ c[i - 1] \in Int
  BY <1>3, <1>4 DEF Gaps, Clear, Beside, SideKept
<1>7. c[i] \in Int
  BY <1>0, <1>5, <1>6
<1>8. ASSUME NEW t \in Int, \A j \in 1..i : t <= lo[j]
      PROVE  /\ v < t => c[i] = v
             /\ v >= t => c[i] >= t
  <2>1. t <= lo[i]
    BY <1>3, <1>8
  <2> QED
    BY <1>0, <1>5, <1>6, <2>1
<1>9. SideKept(c, v, lo, i)
  BY <1>7, <1>8 DEF SideKept
<1> QED
  BY <1>9

LEMMA ClosingKeepsOrder ==
  ASSUME NEW N, NEW lo, NEW hi, Gaps(N, lo, hi),
         NEW u, Clear(N, lo, hi, u), NEW v, Clear(N, lo, hi, v), u < v,
         NEW c, NEW e, Closes(c, u, N, lo, hi, e),
         NEW d, NEW f, Closes(d, v, N, lo, hi, f)
  PROVE  c[N] < d[N]
<1> DEFINE T == {i \in 0..N : ~(c[i] < d[i])}
<1>0. N \in Nat /\ N \in 0..N /\ u \in Int /\ v \in Int
  BY DEF Gaps, Clear
<1> SUFFICES ASSUME T # {} PROVE FALSE
  BY <1>0
<1>1. PICK i \in T : \A j \in T : i <= j
  <2>1. T \in SUBSET Nat
    BY <1>0
  <2> HIDE DEF T
  <2> QED
    BY <2>1, SmallestExists
<1>2. i # 0
  BY DEF Closes
<1>3. i \in 1..N /\ i - 1 \in 0..N /\ i \in Nat
  BY <1>0, <1>2
<1>4. c[i - 1] < d[i - 1]
  <2>1. ~(i <= i - 1)
    BY <1>3
  <2> QED
    BY <1>1, <1>3, <2>1
<1>5. SideKept(c, u, lo, i - 1) /\ SideKept(d, v, lo, i - 1)
  BY <1>3, ClosingKeepsSide
<1>6. c[i - 1] \in Int /\ d[i - 1] \in Int
  BY <1>5 DEF SideKept
<1>7. /\ u < lo[i] => c[i] = u /\ c[i - 1] = u
      /\ u > hi[i] => c[i] = c[i - 1] - (hi[i] - lo[i] + 1) /\ c[i - 1] > hi[i]
      /\ v < lo[i] => d[i] = v /\ d[i - 1] = v
      /\ v > hi[i] => d[i] = d[i - 1] - (hi[i] - lo[i] + 1) /\ d[i - 1] > hi[i]
  BY <1>3, <1>5, ClosingStep
<1>8. /\ lo[i] \in Int /\ hi[i] \in Int /\ lo[i] < hi[i]
      /\ (u < lo[i] \/ u > hi[i]) /\ (v < lo[i] \/ v > hi[i])
  BY <1>3 DEF Gaps, Clear, Beside
<1>9. c[i] < d[i]
  BY <1>0, <1>4, <1>6, <1>7, <1>8
<1> QED
  BY <1>9

\* Rows go, with what is below them, and leave gaps.
Stay(R, P, S, Q) ==
  S \subseteq R /\ \A z \in S : P[z] \in S \cup {NoNode} /\ Q[z] = P[z]

Leave(R, P, L, H, S, N, gaps) ==
  /\ N \in Nat /\ gaps \in [1..N -> R]
  /\ \A i, j \in 1..N : i < j => Ahead(L, H, gaps[j], gaps[i])
  /\ \A i \in 1..N : S \cap Below(R, P, gaps[i]) = {}

Ends(E, N, gaps) == [i \in 1..N |-> E[gaps[i]]]

ComeTo(S, E, M, N, lo, hi, edge) == \A n \in S : \E c : Closes(c, E[n], N, lo, hi, edge) /\ M[n] = c[N]

LEMMA RemoveNests ==
  ASSUME NEW R, NEW P, NEW L, NEW H, Tree(R, P), NoNode \notin R, Nested(R, P, L, H),
         NEW S, NEW Q, Stay(R, P, S, Q), NEW N, NEW gaps, Leave(R, P, L, H, S, N, gaps),
         NEW M, ComeTo(S, L, M, N, Ends(L, N, gaps), Ends(H, N, gaps), Ends(L, N, gaps)),
         NEW K, ComeTo(S, H, K, N, Ends(L, N, gaps), Ends(H, N, gaps), Ends(H, N, gaps))
  PROVE  Nested(S, Q, M, K)
<1> DEFINE lo == Ends(L, N, gaps)
           hi == Ends(H, N, gaps)
<1>0. /\ N \in Nat /\ gaps \in [1..N -> R] /\ S \subseteq R
      /\ \A n \in S : \E c : Closes(c, L[n], N, lo, hi, lo) /\ M[n] = c[N]
      /\ \A n \in S : \E c : Closes(c, H[n], N, lo, hi, hi) /\ K[n] = c[N]
  BY DEF Stay, Leave, ComeTo
<1>1. \A n \in R : L[n] \in Int /\ H[n] \in Int /\ L[n] >= 1 /\ L[n] < H[n]
  BY DEF Nested, Intervals
<1>2. \A i \in 1..N : gaps[i] \in R /\ lo[i] = L[gaps[i]] /\ hi[i] = H[gaps[i]]
  BY <1>0 DEF Ends
<1> HIDE DEF lo, hi
<1>3. Gaps(N, lo, hi)
  BY <1>0, <1>1, <1>2 DEF Gaps, Leave, Ahead
<1>4. ASSUME NEW n \in S PROVE Clear(N, lo, hi, L[n]) /\ Clear(N, lo, hi, H[n])
  <2>1. \A i \in 1..N : L[n] \in Beside(L[gaps[i]], H[gaps[i]]) /\ H[n] \in Beside(L[gaps[i]], H[gaps[i]])
    BY <1>0, <1>2, EndsBeside DEF Leave
  <2> QED
    BY <1>0, <1>1, <1>2, <2>1 DEF Clear
<1>5. ASSUME NEW n \in S PROVE M[n] \in Int /\ K[n] \in Int /\ M[n] >= 1
  <2>1. PICK c : Closes(c, L[n], N, lo, hi, lo) /\ M[n] = c[N]
    BY <1>0
  <2>2. PICK d : Closes(d, H[n], N, lo, hi, hi) /\ K[n] = d[N]
    BY <1>0
  <2>3. N \in 0..N
    BY <1>0
  <2>4. SideKept(c, L[n], lo, N)
    BY <1>3, <1>4, <2>1, <2>3, ClosingKeepsSide
  <2>5. SideKept(d, H[n], lo, N)
    BY <1>3, <1>4, <2>2, <2>3, ClosingKeepsSide
  <2>6. \A j \in 1..N : 1 <= lo[j]
    BY <1>3 DEF Gaps
  <2>7. L[n] >= 1
    BY <1>0, <1>1
  <2>8. M[n] >= 1
    BY <2>1, <2>4, <2>6, <2>7 DEF SideKept
  <2> QED
    BY <2>1, <2>2, <2>4, <2>5, <2>8 DEF SideKept
<1>6. ASSUME NEW m \in S, NEW n \in S
      PROVE  /\ L[m] < L[n] => M[m] < M[n]
             /\ L[m] < H[n] => M[m] < K[n]
             /\ H[m] < L[n] => K[m] < M[n]
             /\ H[m] < H[n] => K[m] < K[n]
  <2>1. /\ Clear(N, lo, hi, L[m]) /\ Clear(N, lo, hi, H[m])
        /\ Clear(N, lo, hi, L[n]) /\ Clear(N, lo, hi, H[n])
    BY <1>4
  <2>2. PICK a : Closes(a, L[m], N, lo, hi, lo) /\ M[m] = a[N]
    BY <1>0
  <2>3. PICK b : Closes(b, H[m], N, lo, hi, hi) /\ K[m] = b[N]
    BY <1>0
  <2>4. PICK c : Closes(c, L[n], N, lo, hi, lo) /\ M[n] = c[N]
    BY <1>0
  <2>5. PICK d : Closes(d, H[n], N, lo, hi, hi) /\ K[n] = d[N]
    BY <1>0
  <2>6. L[m] < L[n] => M[m] < M[n]
    BY <1>3, <2>1, <2>2, <2>4, ClosingKeepsOrder
  <2>7. L[m] < H[n] => M[m] < K[n]
    BY <1>3, <2>1, <2>2, <2>5, ClosingKeepsOrder
  <2>8. H[m] < L[n] => K[m] < M[n]
    BY <1>3, <2>1, <2>3, <2>4, ClosingKeepsOrder
  <2>9. H[m] < H[n] => K[m] < K[n]
    BY <1>3, <2>1, <2>3, <2>5, ClosingKeepsOrder
  <2> QED
    BY <2>6, <2>7, <2>8, <2>9
<1>7. Intervals(S, M, K)
  BY <1>0, <1>1, <1>5, <1>6 DEF Intervals
<1>8. ASSUME NEW m \in S, NEW n \in S
      PROVE  /\ Within(M, K, m, n) <=> Within(L, H, m, n)
             /\ Ahead(L, H, m, n) => Ahead(M, K, m, n)
  <2>1. Within(L, H, m, n) => Within(M, K, m, n)
    BY <1>6 DEF Within
  <2>2. Within(L, H, n, m) => Within(M, K, n, m)
    BY <1>6 DEF Within
  <2>3. /\ Ahead(L, H, m, n) => Ahead(M, K, m, n)
        /\ Ahead(L, H, n, m) => Ahead(M, K, n, m)
    BY <1>6 DEF Ahead
  <2>4. m = n \/ Within(L, H, m, n) \/ Within(L, H, n, m) \/ Ahead(L, H, m, n) \/ Ahead(L, H, n, m)
    BY <1>0 DEF Nested
  <2>5. ~Within(M, K, m, m)
    BY <1>5 DEF Within
  <2>6. ~(Within(M, K, m, n) /\ Within(M, K, n, m))
    BY <1>7, OneOfThree
  <2>7. /\ Ahead(M, K, m, n) => ~Within(M, K, m, n)
        /\ Ahead(M, K, n, m) => ~Within(M, K, m, n)
    BY <1>7, OneOfThree
  <2> QED
    BY <2>1, <2>2, <2>3, <2>4, <2>5, <2>6, <2>7
<1> QED
  BY <1>0, <1>7, <1>8, OrderKeepsNested DEF Stay

-----------------------------------------------------------------------------
(***************************************************************************)
(* The inductive invariant of a nested set: the intervals are nested as    *)
(* the rows are.  The bounds and the parents alone would not do: it is     *)
(* because nothing but x and what is below x lies within x's interval that *)
(* the UPDATE of a move shifts the right rows.  It holds for the callers   *)
(* that the executor withstands.                                           *)
(***************************************************************************)
UsageWithstood == Usage["nested-set"] \subseteq {"toRoot"}

NestedSetInv ==
  treeType = "nested-set" =>
    NS!TypeOK /\ IsFiniteSet(rows) /\ Nested(rows, parent, left, right)

LEMMA DescendantsOfNestedSet == \A x : NS!Descendants(x) = Below(rows, parent, x)
BY DEF NS!Descendants, Below, ClosedUnderChildren

LEMMA NestedSetTypes ==
  ASSUME NS!TypeOK, NoNode \notin Nodes["nested-set"]
  PROVE  /\ rows \subseteq Nodes["nested-set"] /\ NoNode \notin rows
         /\ parent \in [Nodes["nested-set"] -> Nodes["nested-set"] \cup {NoNode}]
         /\ left \in [Nodes["nested-set"] -> Int] /\ right \in [Nodes["nested-set"] -> Int]
         /\ Tree(rows, parent)
BY DEF NS!TypeOK, NS!TreeTypeOK, Tree

LEMMA MoveForwardNests ==
  ASSUME NS!TypeOK, NoNode \notin Nodes["nested-set"], Nested(rows, parent, left, right),
         NEW x \in rows, NEW p \in rows, p \notin Below(rows, parent, x), x \notin Below(rows, parent, p),
         NS!UpdateParent(x, p), NS!MoveForward(x, p)
  PROVE  Nested(rows', parent', left', right')
<1> DEFINE a == left[x]
           b == right[x]
           c == left[p]
           d == right[p]
           w == [v \in Int |-> IF v > b /\ v <= c THEN v - (b - a + 1) ELSE v]
<1>1. /\ rows \subseteq Nodes["nested-set"] /\ NoNode \notin rows /\ Tree(rows, parent)
      /\ parent \in [Nodes["nested-set"] -> Nodes["nested-set"] \cup {NoNode}]
  BY NestedSetTypes
<1>2. \A n \in rows : left[n] \in Int /\ right[n] \in Int /\ left[n] >= 1 /\ left[n] < right[n]
  BY DEF Nested, Intervals
<1>3. rows' = rows /\ parent' = [parent EXCEPT ![x] = p] /\ c > a
      /\ Moved(rows, parent, parent', x, p)
  BY <1>1 DEF NS!UpdateParent, NS!MoveForward, Moved
<1>4. \A n \in rows :
        /\ left'[n] = IF left[n] > b /\ left[n] <= c THEN left[n] - (b - a + 1)
                      ELSE IF left[n] >= a /\ left[n] < b THEN left[n] + (c - b)
                      ELSE left[n]
        /\ right'[n] = IF right[n] > b /\ right[n] < c THEN right[n] - (b - a + 1)
                       ELSE IF right[n] > a /\ right[n] <= b THEN right[n] + (c - b)
                       ELSE right[n]
  BY <1>1, <1>3 DEF NS!MoveForward, NS!Renumber, NS!Size
<1>5. a \in Int /\ b \in Int /\ c \in Int /\ d \in Int /\ 1 <= a /\ a < b /\ b < c /\ c < d
  <2>1. c \in Beside(a, b)
    BY <1>1, EndsBeside
  <2> QED
    BY <1>2, <1>3, <2>1 DEF Beside
<1>6. MakesWay(w, a, b, c, d, c - b)
  <2> HIDE DEF a, b, c, d
  <2> QED
    BY <1>5, ForwardMakesWay
<1>7. \A n \in Below(rows, parent, x) : left'[n] = left[n] + (c - b) /\ right'[n] = right[n] + (c - b)
  <2> SUFFICES ASSUME NEW n \in Below(rows, parent, x)
               PROVE  left'[n] = left[n] + (c - b) /\ right'[n] = right[n] + (c - b)
    OBVIOUS
  <2>1. n \in rows
    BY DEF Below
  <2>2. a <= left[n] /\ left[n] < right[n] /\ right[n] <= b
    BY <1>1, <2>1, EndsBeside
  <2> HIDE DEF a, b, c, d
  <2> QED
    BY <1>2, <1>4, <1>5, <2>1, <2>2
<1>8. \A n \in rows \ Below(rows, parent, x) : left'[n] = w[left[n]] /\ right'[n] = w[right[n]]
  <2> SUFFICES ASSUME NEW n \in rows, n \notin Below(rows, parent, x)
               PROVE  left'[n] = w[left[n]] /\ right'[n] = w[right[n]]
    OBVIOUS
  <2>1. left[n] \in Beside(a, b) /\ right[n] \in Beside(a, b)
    BY <1>1, EndsBeside
  <2>2. right[n] # c
    BY <1>2 DEF Nested, Within, Ahead
  <2>3. left[n] \in Int /\ right[n] \in Int
    BY <1>2
  <2> HIDE DEF a, b, c, d
  <2> QED
    BY <1>4, <1>5, <2>1, <2>2, <2>3 DEF Beside
<1>9. Transplanted(rows, Below(rows, parent, x), left, right, left', right', p)
  <2> HIDE DEF w
  <2> QED
    BY <1>1, <1>6, <1>7, <1>8, MoveTransplants
<1> QED
  BY <1>1, <1>3, <1>9, TransplantNests

LEMMA MoveBackwardNests ==
  ASSUME NS!TypeOK, NoNode \notin Nodes["nested-set"], Nested(rows, parent, left, right),
         NEW x \in rows, NEW p \in rows, p \notin Below(rows, parent, x), x \notin Below(rows, parent, p),
         NS!UpdateParent(x, p), NS!MoveBackward(x, p)
  PROVE  Nested(rows', parent', left', right')
<1> DEFINE a == left[x]
           b == right[x]
           c == left[p]
           d == right[p]
           w == [v \in Int |-> IF v < a /\ v >= d THEN v + (b - a + 1) ELSE v]
<1>1. /\ rows \subseteq Nodes["nested-set"] /\ NoNode \notin rows /\ Tree(rows, parent)
      /\ parent \in [Nodes["nested-set"] -> Nodes["nested-set"] \cup {NoNode}]
  BY NestedSetTypes
<1>2. \A n \in rows : left[n] \in Int /\ right[n] \in Int /\ left[n] >= 1 /\ left[n] < right[n]
  BY DEF Nested, Intervals
<1>3. rows' = rows /\ parent' = [parent EXCEPT ![x] = p] /\ ~(c > a)
      /\ Moved(rows, parent, parent', x, p)
  BY <1>1 DEF NS!UpdateParent, NS!MoveBackward, Moved
<1>4. \A n \in rows :
        /\ left'[n] = IF left[n] < a /\ left[n] > d THEN left[n] + (b - a + 1)
                      ELSE IF left[n] >= a /\ left[n] < b THEN left[n] + (d - a)
                      ELSE left[n]
        /\ right'[n] = IF right[n] < a /\ right[n] >= d THEN right[n] + (b - a + 1)
                       ELSE IF right[n] > a /\ right[n] <= b THEN right[n] + (d - a)
                       ELSE right[n]
  BY <1>1, <1>3 DEF NS!MoveBackward, NS!Renumber, NS!Size
<1>5. a \in Int /\ b \in Int /\ c \in Int /\ d \in Int /\ 1 <= c /\ c < d /\ d < a /\ a < b
  <2>1. a \in Beside(c, d)
    BY <1>1, EndsBeside
  <2>2. c \in Beside(a, b)
    BY <1>1, EndsBeside
  <2> QED
    BY <1>2, <1>3, <2>1, <2>2 DEF Beside
<1>6. MakesWay(w, a, b, c, d, d - a)
  <2> HIDE DEF a, b, c, d
  <2> QED
    BY <1>5, BackwardMakesWay
<1>7. \A n \in Below(rows, parent, x) : left'[n] = left[n] + (d - a) /\ right'[n] = right[n] + (d - a)
  <2> SUFFICES ASSUME NEW n \in Below(rows, parent, x)
               PROVE  left'[n] = left[n] + (d - a) /\ right'[n] = right[n] + (d - a)
    OBVIOUS
  <2>1. n \in rows
    BY DEF Below
  <2>2. a <= left[n] /\ left[n] < right[n] /\ right[n] <= b
    BY <1>1, <2>1, EndsBeside
  <2> HIDE DEF a, b, c, d
  <2> QED
    BY <1>2, <1>4, <1>5, <2>1, <2>2
<1>8. \A n \in rows \ Below(rows, parent, x) : left'[n] = w[left[n]] /\ right'[n] = w[right[n]]
  <2> SUFFICES ASSUME NEW n \in rows, n \notin Below(rows, parent, x)
               PROVE  left'[n] = w[left[n]] /\ right'[n] = w[right[n]]
    OBVIOUS
  <2>1. left[n] \in Beside(a, b) /\ right[n] \in Beside(a, b)
    BY <1>1, EndsBeside
  <2>2. left[n] # d
    BY <1>2 DEF Nested, Within, Ahead
  <2>3. left[n] \in Int /\ right[n] \in Int
    BY <1>2
  <2> HIDE DEF a, b, c, d
  <2> QED
    BY <1>4, <1>5, <2>1, <2>2, <2>3 DEF Beside
<1>9. Transplanted(rows, Below(rows, parent, x), left, right, left', right', p)
  <2> HIDE DEF w
  <2> QED
    BY <1>1, <1>6, <1>7, <1>8, MoveTransplants
<1> QED
  BY <1>1, <1>3, <1>9, TransplantNests

\* What Closing gives: the function that it describes exists.
LEMMA ClosingCloses ==
  ASSUME NEW N \in Nat, NEW gaps \in [1..N -> rows], NEW v, NEW edge
  PROVE  /\ Len(gaps) = N
         /\ NS!Closing(v, gaps, edge)[0] = v
         /\ \A i \in 1..N :
              NS!Closing(v, gaps, edge)[i] =
                IF NS!Closing(v, gaps, edge)[i - 1] > edge[gaps[i]]
                THEN NS!Closing(v, gaps, edge)[i - 1] - NS!Size(gaps[i])
                ELSE NS!Closing(v, gaps, edge)[i - 1]
<1> DEFINE Step(c, i) == IF i = 0 THEN v
                         ELSE IF c[i - 1] > edge[gaps[i]] THEN c[i - 1] - NS!Size(gaps[i])
                         ELSE c[i - 1]
           Filled(k, c) == c = [i \in 0..k |-> Step(c, i)]
           T == {k \in 0..N : ~\E c : Filled(k, c)}
<1>1. Len(gaps) = N
  OBVIOUS
<1>2. T = {}
  <2> SUFFICES ASSUME T # {} PROVE FALSE
    OBVIOUS
  <2>1. PICK k \in T : \A j \in T : k <= j
    <3>1. T \in SUBSET Nat
      OBVIOUS
    <3> HIDE DEF T
    <3> QED
      BY <3>1, SmallestExists
  <2>2. k # 0
    <3>1. Filled(0, [i \in 0..0 |-> v])
      OBVIOUS
    <3>2. \E c : Filled(0, c)
      BY <3>1
    <3> HIDE DEF Filled
    <3> QED
      BY <3>2
  <2>3. k \in 1..N /\ k - 1 \in 0..N /\ k \in Nat
    BY <2>2
  <2>4. \E c : Filled(k - 1, c)
    <3>1. ~(k <= k - 1)
      BY <2>3
    <3> HIDE DEF Filled
    <3> QED
      BY <2>1, <2>3, <3>1
  <2>5. PICK c : Filled(k - 1, c)
    BY <2>4
  <2>6. \A i \in 0..(k - 1) : c[i] = Step(c, i)
    BY <2>5
  <2> DEFINE d == [i \in 0..k |-> IF i = k THEN Step(c, k) ELSE c[i]]
  <2>7. \A i \in 0..k : d[i] = Step(d, i)
    <3> SUFFICES ASSUME NEW i \in 0..k PROVE d[i] = Step(d, i)
      OBVIOUS
    <3>1. CASE i = 0
      BY <2>3, <2>6, <3>1
    <3>2. CASE i # 0
      <4>1. i \in 1..k /\ i - 1 \in 0..k /\ i - 1 # k
        BY <2>3, <3>2
      <4>2. d[i - 1] = c[i - 1]
        BY <4>1
      <4>3. Step(d, i) = Step(c, i)
        BY <3>2, <4>2
      <4>4. i # k => c[i] = Step(c, i)
        BY <2>3, <2>6, <4>1
      <4>5. d[i] = IF i = k THEN Step(c, k) ELSE c[i]
        OBVIOUS
      <4> HIDE DEF d, Step
      <4> QED
        BY <4>3, <4>4, <4>5
    <3> QED
      BY <3>1, <3>2
  <2>8. d = [i \in 0..k |-> Step(d, i)]
    <3>1. d = [i \in 0..k |-> d[i]]
      OBVIOUS
    <3> HIDE DEF d, Step
    <3> QED
      BY <2>7, <3>1
  <2>9. \E e : Filled(k, e)
    <3> HIDE DEF d, Step
    <3> QED
      BY <2>8 DEF Filled
  <2> HIDE DEF Filled
  <2> QED
    BY <2>1, <2>9
<1>3. N \in 0..N
  OBVIOUS
<1>4. PICK c : Filled(N, c)
  <2> HIDE DEF Filled
  <2> QED
    BY <1>2, <1>3
<1>5. NS!Closing(v, gaps, edge) = CHOOSE e : e = [i \in 0..Len(gaps) |-> Step(e, i)]
  BY DEF NS!Closing
<1>6. NS!Closing(v, gaps, edge) = CHOOSE e : Filled(N, e)
  BY <1>1, <1>5
<1>7. Filled(N, NS!Closing(v, gaps, edge))
  <2> HIDE DEF Filled
  <2> QED
    BY <1>4, <1>6
<1>8. NS!Closing(v, gaps, edge) = [i \in 0..N |-> Step(NS!Closing(v, gaps, edge), i)]
  BY <1>7
<1> DEFINE e == NS!Closing(v, gaps, edge)
<1>9. \A i \in 0..N : e[i] = Step(e, i)
  <2> HIDE DEF e, Step
  <2>1. e = [i \in 0..N |-> Step(e, i)]
    BY <1>8 DEF e
  <2> QED
    BY <2>1
<1> HIDE DEF e
<1>10. e[0] = v
  BY <1>9
<1>11. ASSUME NEW i \in 1..N
       PROVE  e[i] = IF e[i - 1] > edge[gaps[i]] THEN e[i - 1] - NS!Size(gaps[i]) ELSE e[i - 1]
  <2>1. i \in 0..N /\ i # 0
    OBVIOUS
  <2> QED
    BY <1>9, <2>1
<1> QED
  BY <1>1, <1>10, <1>11 DEF e

\* What goes, goes with all that is below it.
LEMMA DoomedAreBelow ==
  ASSUME NS!TypeOK, NEW S \in SUBSET rows, NS!Deletable(S),
         \A x, y \in S : y \in NS!Descendants(x) => x = y
  PROVE  /\ \A x \in S : Below(rows, parent, x) \subseteq NS!Doomed(S)
         /\ \A z \in rows \ NS!Doomed(S) : parent[z] \in (rows \ NS!Doomed(S)) \cup {NoNode}
<1>1. \A z \in rows : parent[z] \in rows \cup {NoNode}
  BY DEF NS!TypeOK, NS!TreeTypeOK
<1>2. CASE Cascade["nested-set"]
  <2>1. NS!Doomed(S) = UNION {Below(rows, parent, x) : x \in S}
    BY <1>2, DescendantsOfNestedSet DEF NS!Doomed
  <2>2. ASSUME NEW z \in rows \ NS!Doomed(S) PROVE parent[z] \in (rows \ NS!Doomed(S)) \cup {NoNode}
    <3>1. \A x \in S : z \notin Below(rows, parent, x)
      BY <2>1
    <3>2. \A x \in S : parent[z] \notin Below(rows, parent, x)
      BY <3>1, BelowIsClosed
    <3> QED
      BY <1>1, <2>1, <3>2
  <2> QED
    BY <2>1, <2>2
<1>3. CASE ~Cascade["nested-set"]
  <2>1. NS!Doomed(S) = S /\ \A z \in rows \ S : parent[z] \notin S
    BY <1>3 DEF NS!Doomed, NS!Deletable
  <2>2. ASSUME NEW x \in S PROVE Below(rows, parent, x) \subseteq S
    <3>1. ClosedUnderChildren(rows, parent, S) /\ x \in rows \cap S
      BY <2>1 DEF ClosedUnderChildren
    <3> QED
      BY <3>1, BelowIsLeast
  <2> QED
    BY <1>1, <2>1, <2>2
<1> QED
  BY <1>2, <1>3

LEMMA GapsAreClosed ==
  ASSUME NS!TypeOK, NoNode \notin Nodes["nested-set"], IsFiniteSet(rows), Nested(rows, parent, left, right),
         UsageWithstood, NEW S, NS!remove(S)
  PROVE  NS!TypeOK' /\ IsFiniteSet(rows') /\ Nested(rows', parent', left', right')
<1>1. /\ rows \subseteq Nodes["nested-set"] /\ NoNode \notin rows /\ Tree(rows, parent)
      /\ parent \in [Nodes["nested-set"] -> Nodes["nested-set"] \cup {NoNode}]
  BY NestedSetTypes
<1>2. /\ S \in SUBSET rows /\ NS!Deletable(S)
      /\ \A x, y \in S : y \in NS!Descendants(x) => x = y
      /\ rows' = rows \ NS!Doomed(S)
      /\ parent' = [x \in Nodes["nested-set"] |-> IF x \in rows' THEN parent[x] ELSE NoNode]
  BY DEF NS!remove, NS!Removable, NS!DeleteRows, UsageWithstood
<1>3. /\ rows' \in SUBSET rows /\ IsFiniteSet(rows') /\ IsFiniteSet(S)
      /\ \A z \in rows' : parent'[z] = parent[z] /\ parent[z] \in rows' \cup {NoNode}
      /\ \A x \in S : rows' \cap Below(rows, parent, x) = {}
  <2>1. rows' \in SUBSET rows
    BY <1>2
  <2>2. IsFiniteSet(rows') /\ IsFiniteSet(S)
    BY <1>2, <2>1, FS_Subset
  <2>3. \A z \in rows' : parent[z] \in rows' \cup {NoNode}
    BY <1>2, DoomedAreBelow
  <2>4. \A x \in S : rows' \cap Below(rows, parent, x) = {}
    BY <1>2, DoomedAreBelow
  <2> QED
    BY <1>1, <1>2, <2>1, <2>2, <2>3, <2>4
<1> DEFINE N == Cardinality(S)
<1>4. N \in Nat
  BY <1>3, FS_CardinalityType
<1>5. PICK gaps \in [1..N -> S] :
        /\ \A i, j \in DOMAIN gaps : i < j => right[gaps[i]] > right[gaps[j]]
        /\ NS!CloseGaps(gaps)
  <2>1. Cardinality(S) = NS!Cardinality(S)
    BY DEF Cardinality, NS!Cardinality
  <2> QED
    BY <2>1 DEF NS!remove
<1> DEFINE lo == Ends(left, N, gaps)
           hi == Ends(right, N, gaps)
<1>6. gaps \in [1..N -> rows] /\ \A i \in 1..N : gaps[i] \in S
  BY <1>2
<1>7. ASSUME NEW i \in 1..N, NEW j \in 1..N, i < j
      PROVE  Ahead(left, right, gaps[j], gaps[i])
  <2>1. gaps[i] \in S /\ gaps[j] \in S /\ right[gaps[i]] > right[gaps[j]]
    BY <1>5, <1>7
  <2>2. right[gaps[i]] \in Int /\ right[gaps[j]] \in Int /\ left[gaps[i]] \in Int
        /\ left[gaps[i]] < right[gaps[i]]
    BY <1>2, <2>1 DEF Nested, Intervals
  <2>3. gaps[i] # gaps[j]
    BY <2>1, <2>2
  <2>4. gaps[j] \notin Below(rows, parent, gaps[i])
    BY <1>2, <2>1, <2>3, DescendantsOfNestedSet
  <2>5. left[gaps[j]] \in Beside(left[gaps[i]], right[gaps[i]]) /\ right[gaps[j]] \in Beside(left[gaps[i]], right[gaps[i]])
    BY <1>1, <1>2, <2>1, <2>4, EndsBeside
  <2> QED
    BY <2>1, <2>2, <2>5 DEF Ahead, Beside
<1>8. \A n \in rows' : /\ left'[n] = NS!Closing(left[n], gaps, left)[N]
                       /\ right'[n] = NS!Closing(right[n], gaps, right)[N]
  <2>1. Len(gaps) = N
    BY <1>4, <1>6, ClosingCloses
  <2> QED
    BY <1>1, <1>2, <1>5, <2>1 DEF NS!CloseGaps, NS!Renumber
<1>9. \A i \in 1..N : left[gaps[i]] \in Int /\ right[gaps[i]] \in Int /\ left[gaps[i]] < right[gaps[i]]
  BY <1>6 DEF Nested, Intervals
<1>10. ASSUME NEW n
       PROVE  /\ Closes(NS!Closing(left[n], gaps, left), left[n], N, lo, hi, lo)
              /\ Closes(NS!Closing(right[n], gaps, right), right[n], N, lo, hi, hi)
  <2>1. \A i \in 1..N : lo[i] = left[gaps[i]] /\ hi[i] = right[gaps[i]]
    BY DEF Ends
  <2> DEFINE c == NS!Closing(left[n], gaps, left)
             d == NS!Closing(right[n], gaps, right)
  <2>2. /\ c[0] = left[n]
        /\ \A i \in 1..N : c[i] = IF c[i - 1] > left[gaps[i]] THEN c[i - 1] - NS!Size(gaps[i]) ELSE c[i - 1]
    BY <1>4, <1>6, ClosingCloses
  <2>3. /\ d[0] = right[n]
        /\ \A i \in 1..N : d[i] = IF d[i - 1] > right[gaps[i]] THEN d[i - 1] - NS!Size(gaps[i]) ELSE d[i - 1]
    BY <1>4, <1>6, ClosingCloses
  <2>4. \A i \in 1..N : NS!Size(gaps[i]) = hi[i] - lo[i] + 1
    BY <2>1 DEF NS!Size
  <2> HIDE DEF c, d, lo, hi, N
  <2>5. Closes(c, left[n], N, lo, hi, lo)
    BY <1>9, <2>1, <2>2, <2>4 DEF Closes
  <2>6. Closes(d, right[n], N, lo, hi, hi)
    BY <1>9, <2>1, <2>3, <2>4 DEF Closes
  <2> QED
    BY <2>5, <2>6 DEF c, d
<1>11. /\ ComeTo(rows', left, left', N, lo, hi, lo)
       /\ ComeTo(rows', right, right', N, lo, hi, hi)
  <2> HIDE DEF N, lo, hi
  <2> QED
    BY <1>8, <1>10 DEF ComeTo
<1>12. Nested(rows', parent', left', right')
  <2>1. Leave(rows, parent, left, right, rows', N, gaps)
    <3>1. \A i \in 1..N : rows' \cap Below(rows, parent, gaps[i]) = {}
      BY <1>3, <1>6
    <3> HIDE DEF N
    <3> QED
      BY <1>4, <1>6, <1>7, <3>1 DEF Leave
  <2>2. Stay(rows, parent, rows', parent')
    BY <1>3 DEF Stay
  <2>3. /\ ComeTo(rows', left, left', N, Ends(left, N, gaps), Ends(right, N, gaps), Ends(left, N, gaps))
        /\ ComeTo(rows', right, right', N, Ends(left, N, gaps), Ends(right, N, gaps), Ends(right, N, gaps))
    BY <1>11
  <2> HIDE DEF N
  <2> QED
    BY <1>1, <2>1, <2>2, <2>3, RemoveNests
<1>13. NS!TypeOK'
  <2>1. left' \in [Nodes["nested-set"] -> Int] /\ right' \in [Nodes["nested-set"] -> Int]
    <3>1. \A n \in rows' : left'[n] \in Int /\ right'[n] \in Int
      BY <1>12 DEF Nested, Intervals
    <3>2. /\ left' = [n \in Nodes["nested-set"] |-> IF n \in rows' THEN left'[n] ELSE 0]
          /\ right' = [n \in Nodes["nested-set"] |-> IF n \in rows' THEN right'[n] ELSE 0]
      BY <1>5 DEF NS!CloseGaps, NS!Renumber
    <3> QED
      BY <3>1, <3>2
  <2> QED
    BY <1>1, <1>2, <1>3, <2>1 DEF NS!TypeOK, NS!TreeTypeOK
<1> QED
  BY <1>3, <1>12, <1>13

LEMMA InsertUnderNests ==
  ASSUME NS!TypeOK, NoNode \notin Nodes["nested-set"], IsFiniteSet(rows), Nested(rows, parent, left, right),
         NEW x \in Nodes["nested-set"], NEW p, NS!InsertUnder(x, p)
  PROVE  NS!TypeOK' /\ IsFiniteSet(rows') /\ Nested(rows', parent', left', right')
<1>1. /\ rows \subseteq Nodes["nested-set"] /\ NoNode \notin rows /\ Tree(rows, parent)
      /\ parent \in [Nodes["nested-set"] -> Nodes["nested-set"] \cup {NoNode}]
      /\ left \in [Nodes["nested-set"] -> Int] /\ right \in [Nodes["nested-set"] -> Int]
  BY NestedSetTypes
<1>2. /\ x \notin rows /\ p \in rows
      /\ rows' = rows \cup {x} /\ parent' = [parent EXCEPT ![x] = p]
  BY DEF NS!InsertUnder, NS!Insertable, NS!InsertRow
<1>3. /\ left' = [n \in Nodes["nested-set"] |->
                    IF n \in rows' THEN IF n = x THEN right[p]
                                        ELSE IF right[n] >= right[p] /\ left[n] > right[p] THEN left[n] + 2
                                        ELSE left[n]
                    ELSE 0]
      /\ right' = [n \in Nodes["nested-set"] |->
                    IF n \in rows' THEN IF n = x THEN right[p] + 1
                                        ELSE IF right[n] >= right[p] THEN right[n] + 2
                                        ELSE right[n]
                    ELSE 0]
  BY DEF NS!InsertUnder, NS!Renumber
<1>4. /\ parent'[x] = p /\ \A z \in rows : parent'[z] = parent[z]
      /\ MadeRoom(rows, left, right, x, p, left', right')
  BY <1>1, <1>2, <1>3 DEF MadeRoom
<1>5. Nested(rows \cup {x}, parent', left', right')
  BY <1>1, <1>2, <1>4, InsertNests
<1>6. left' \in [Nodes["nested-set"] -> Int] /\ right' \in [Nodes["nested-set"] -> Int]
  BY <1>1, <1>2, <1>3
<1>7. IsFiniteSet(rows')
  BY <1>2, FS_AddElement
<1>8. NS!TreeTypeOK'
  BY <1>1, <1>2, <1>4 DEF NS!TreeTypeOK, Tree
<1> QED
  BY <1>2, <1>5, <1>6, <1>7, <1>8 DEF NS!TypeOK

LEMMA InsertRootNests ==
  ASSUME NS!TypeOK, NoNode \notin Nodes["nested-set"], Nested(rows, parent, left, right),
         NEW x \in Nodes["nested-set"], NS!InsertRoot(x)
  PROVE  NS!TypeOK' /\ IsFiniteSet(rows') /\ Nested(rows', parent', left', right')
<1>1. /\ rows \subseteq Nodes["nested-set"] /\ NoNode \notin rows /\ Tree(rows, parent)
      /\ parent \in [Nodes["nested-set"] -> Nodes["nested-set"] \cup {NoNode}]
  BY NestedSetTypes
<1>2. rows = {}
  <2>1. \A z \in rows : parent[z] # NoNode
    BY DEF NS!InsertRoot, NS!Roots
  <2> QED
    BY <1>1, <2>1, SomeRowIsRoot
<1>3. rows' = {x} /\ parent' = [parent EXCEPT ![x] = NoNode]
  BY <1>2 DEF NS!InsertRoot, NS!InsertRow
<1>4. /\ left' = [n \in Nodes["nested-set"] |-> IF n = x THEN 1 ELSE 0]
      /\ right' = [n \in Nodes["nested-set"] |-> IF n = x THEN 2 ELSE 0]
  BY <1>3 DEF NS!InsertRoot, NS!Renumber
<1>5. parent'[x] = NoNode /\ left'[x] = 1 /\ right'[x] = 2 /\ x # NoNode
  BY <1>1, <1>3, <1>4
<1>6. Nested(rows', parent', left', right')
  BY <1>3, <1>5, FirstRowNests
<1>7. IsFiniteSet(rows')
  BY <1>3, FS_Singleton
<1>8. NS!TypeOK'
  BY <1>1, <1>3, <1>4, <1>5 DEF NS!TypeOK, NS!TreeTypeOK
<1> QED
  BY <1>6, <1>7, <1>8

\* Both a save that moves x and one that puts it among p's children.
LEMMA ReplantNests ==
  ASSUME NS!TypeOK, NoNode \notin Nodes["nested-set"], IsFiniteSet(rows), Nested(rows, parent, left, right),
         NEW x \in rows, NEW p \in rows, p \notin NS!Descendants(x) \cup NS!Ancestors(x),
         NS!UpdateParent(x, p), NS!MoveForward(x, p) \/ NS!MoveBackward(x, p)
  PROVE  NS!TypeOK' /\ IsFiniteSet(rows') /\ Nested(rows', parent', left', right')
<1>1. /\ rows \subseteq Nodes["nested-set"] /\ NoNode \notin rows /\ Tree(rows, parent)
      /\ parent \in [Nodes["nested-set"] -> Nodes["nested-set"] \cup {NoNode}]
  BY NestedSetTypes
<1>2. p \notin Below(rows, parent, x) /\ x \notin Below(rows, parent, p)
  BY DescendantsOfNestedSet DEF NS!Ancestors
<1>3. Nested(rows', parent', left', right')
  BY <1>2, MoveForwardNests, MoveBackwardNests
<1>4. rows' = rows /\ parent' = [parent EXCEPT ![x] = p]
  BY DEF NS!UpdateParent
<1>5. left' \in [Nodes["nested-set"] -> Int] /\ right' \in [Nodes["nested-set"] -> Int]
  <2>1. \A n \in rows' : left'[n] \in Int /\ right'[n] \in Int
    BY <1>3 DEF Nested, Intervals
  <2>2. /\ left' = [n \in Nodes["nested-set"] |-> IF n \in rows' THEN left'[n] ELSE 0]
        /\ right' = [n \in Nodes["nested-set"] |-> IF n \in rows' THEN right'[n] ELSE 0]
    BY DEF NS!MoveForward, NS!MoveBackward, NS!Renumber
  <2> QED
    BY <2>1, <2>2
<1>6. NS!TypeOK'
  BY <1>1, <1>4, <1>5 DEF NS!TypeOK, NS!TreeTypeOK, Tree
<1> QED
  BY <1>3, <1>4, <1>6

LEMMA NestedSetInit == Init => TypesInv /\ NestedSetInv
<1> SUFFICES ASSUME Init, treeType = "nested-set"
             PROVE  NS!TypeOK /\ IsFiniteSet(rows) /\ Nested(rows, parent, left, right)
  BY DEF Init, TypesInv, NestedSetInv
<1>1. /\ rows = {} /\ parent = [x \in Nodes["nested-set"] |-> NoNode]
      /\ left = [x \in Nodes["nested-set"] |-> 0] /\ right = [x \in Nodes["nested-set"] |-> 0]
  BY DEF Init, NS!Init, NS!TreeInit
<1> QED
  BY <1>1, FS_EmptySet DEF NS!TypeOK, NS!TreeTypeOK, Nested, Intervals

LEMMA NestedSetNext ==
  ASSUME UsageWithstood
  PROVE  TypesInv /\ NestedSetInv /\ [Next]_vars => TypesInv' /\ NestedSetInv'
<1> SUFFICES ASSUME TypesInv, NestedSetInv, [Next]_vars PROVE TypesInv' /\ NestedSetInv'
  OBVIOUS
<1>1. treeType' = treeType
  BY DEF Next, NestedSetStep, ClosureTableStep, MaterializedPathStep, vars
<1> SUFFICES ASSUME treeType = "nested-set"
             PROVE  NS!TypeOK' /\ IsFiniteSet(rows') /\ Nested(rows', parent', left', right')
  BY <1>1 DEF TypesInv, NestedSetInv
<1>2. /\ NS!TypeOK /\ IsFiniteSet(rows) /\ Nested(rows, parent, left, right)
      /\ NoNode \notin Nodes["nested-set"]
  BY TreeRepositoryAssumption DEF TypesInv, NestedSetInv, NS!TreeAssumption
<1>3. CASE UNCHANGED <<rows, parent, left, right>>
  BY <1>2, <1>3 DEF NS!TypeOK, NS!TreeTypeOK
<1>4. ASSUME NEW x \in Nodes["nested-set"], NS!InsertRoot(x)
      PROVE  NS!TypeOK' /\ IsFiniteSet(rows') /\ Nested(rows', parent', left', right')
  BY <1>2, <1>4, InsertRootNests
<1>5. ASSUME NEW x \in Nodes["nested-set"], NEW p, NS!InsertUnder(x, p)
      PROVE  NS!TypeOK' /\ IsFiniteSet(rows') /\ Nested(rows', parent', left', right')
  BY <1>2, <1>5, InsertUnderNests
<1>6. ASSUME NEW x, NEW p, NS!Move(x, p)
      PROVE  NS!TypeOK' /\ IsFiniteSet(rows') /\ Nested(rows', parent', left', right')
  <2>1. /\ x \in rows /\ p \in rows /\ p \notin NS!Descendants(x) \cup NS!Ancestors(x)
        /\ NS!UpdateParent(x, p) /\ (NS!MoveForward(x, p) \/ NS!MoveBackward(x, p))
    BY <1>6 DEF NS!Move, NS!Movable, UsageWithstood
  <2> QED
    BY <1>2, <2>1, ReplantNests
<1>7. ASSUME NEW x, NEW p, NS!Adopt(x, p)
      PROVE  NS!TypeOK' /\ IsFiniteSet(rows') /\ Nested(rows', parent', left', right')
  <2>1. /\ x \in rows /\ p \in rows /\ p \notin NS!Descendants(x) \cup NS!Ancestors(x)
        /\ NS!UpdateParent(x, p) /\ (NS!MoveForward(x, p) \/ NS!MoveBackward(x, p))
    BY <1>7 DEF NS!Adopt, NS!Adoptable
  <2> QED
    BY <1>2, <2>1, ReplantNests
<1>8. ASSUME NEW S, NS!remove(S)
      PROVE  NS!TypeOK' /\ IsFiniteSet(rows') /\ Nested(rows', parent', left', right')
  BY <1>2, <1>8, GapsAreClosed
<1> QED
  BY <1>3, <1>4, <1>5, <1>6, <1>7, <1>8
  DEF Next, NestedSetStep, ClosureTableStep, MaterializedPathStep, vars, NS!Next, NS!SecondRootRefused, NS!vars, NS!tree

\* The intervals of a nested set stay nested as its nodes are, whatever callers
\* insert, move aside, put among other children and remove.
THEOREM NestedSetIsNested ==
  ASSUME UsageWithstood
  PROVE  Spec => []NestedSetInv
<1>1. TypesInv /\ NestedSetInv /\ UNCHANGED vars => TypesInv' /\ NestedSetInv'
  BY NestedSetNext
<1> QED
  BY NestedSetInit, NestedSetNext, PTL DEF Spec

\* The bounds, the parents and the ancestors between are what Laminar says.
THEOREM AlwaysLaminar ==
  ASSUME UsageWithstood
  PROVE  Spec => []Laminar
<1>1. NestedSetInv => Laminar
  BY DEF NestedSetInv, Laminar, NS!Laminar, NS!Inside, Nested, Intervals, Within, Ahead
<1> QED
  BY <1>1, NestedSetIsNested, PTL

\* findDescendants and findAncestors of a nested set give what the parent columns
\* say.
THEOREM NestedSetFindsTheFamily ==
  ASSUME UsageWithstood
  PROVE  Spec => [](treeType = "nested-set" => FindsTheFamily)
<1>1. NestedSetInv /\ TypesInv => (treeType = "nested-set" => FindsTheFamily)
  <2> SUFFICES ASSUME NestedSetInv, TypesInv, treeType = "nested-set", NEW x \in rows
               PROVE  NS!FindDescendants(x) = NS!Descendants(x)
    BY DEF FindsTheFamily, FindDescendants, Descendants
  <2>1. /\ Tree(rows, parent) /\ NoNode \notin rows /\ Nested(rows, parent, left, right)
    BY TreeRepositoryAssumption, NestedSetTypes DEF NestedSetInv, TypesInv, NS!TreeAssumption
  <2>2. Below(rows, parent, x) = {x} \cup {y \in rows : Within(left, right, x, y)}
    BY <2>1, WithinIsBelow
  <2>3. ASSUME NEW y \in rows
        PROVE  left[x] <= left[y] /\ left[y] <= right[x] <=> y \in Below(rows, parent, x)
    <3>1. /\ y \in Below(rows, parent, x) => left[x] <= left[y] /\ left[y] < right[y] /\ right[y] <= right[x]
          /\ y \notin Below(rows, parent, x) => ~(left[x] <= left[y] /\ left[y] <= right[x])
      BY <2>1, EndsBeside
    <3>2. left[y] \in Int /\ right[y] \in Int /\ right[x] \in Int
      BY <2>1 DEF Nested, Intervals
    <3> QED
      BY <3>1, <3>2
  <2> QED
    BY <2>3, DescendantsOfNestedSet DEF NS!FindDescendants, Below
<1>2. Spec => []TypesInv
  <2>1. Init => TypesInv
    BY NestedSetInit
  <2>2. TypesInv /\ [Next]_vars => TypesInv'
    BY DEF TypesInv, Next, NestedSetStep, ClosureTableStep, MaterializedPathStep, vars
  <2> QED
    BY <2>1, <2>2, PTL DEF Spec
<1> QED
  BY <1>1, <1>2, NestedSetIsNested, PTL

-----------------------------------------------------------------------------
(***************************************************************************)
(* Materialized paths: the text of ids, digits each followed by a dot.     *)
(***************************************************************************)
Letters == 0..10

\* The letters of t are found in s behind the k-th.
FoundAt(s, t, k) == k + Len(t) <= Len(s) /\ \A j \in 1..Len(t) : s[k + j] = t[j]

IsText(t) ==
  /\ t \in Seq(Letters) /\ Len(t) \in Nat /\ Len(t) >= 2
  /\ t[Len(t)] = 10
  /\ \A j \in 1..(Len(t) - 1) : t[j] # 10

LEMMA TextIsText ==
  ASSUME MP!DigitsAssumption, NEW x \in Nodes["materialized-path"]
  PROVE  IsText(MP!Text(x))
<1> DEFINE d == Digits[x]
           t == d \o <<10>>
<1>1. d \in Seq(0..9) /\ d # <<>> /\ MP!Text(x) = t
  BY DEF MP!DigitsAssumption, MP!Text, MP!Dot
<1> HIDE DEF d
<1>2. Len(d) \in Nat /\ \A i \in 1..Len(d) : d[i] \in 0..9
  BY <1>1, LenProperties, ElementOfSeq
<1>3. Len(d) # 0
  BY <1>1, EmptySeq
<1>4. d \in Seq(Letters) /\ <<10>> \in Seq(Letters) /\ Len(<<10>>) = 1 /\ <<10>>[1] = 10
  <2>2. d \in Seq(Letters)
    BY <1>1, SeqMonotonic DEF Letters
  <2> QED
    BY <2>2 DEF Letters
<1>5. /\ t \in Seq(Letters) /\ Len(t) = Len(d) + 1
      /\ \A i \in 1..(Len(d) + 1) : t[i] = IF i <= Len(d) THEN d[i] ELSE <<10>>[i - Len(d)]
  BY <1>4, ConcatProperties
<1>6. t[Len(t)] = 10
  BY <1>2, <1>4, <1>5
<1>7. \A j \in 1..(Len(t) - 1) : t[j] # 10
  BY <1>2, <1>5
<1> HIDE DEF t
<1> QED
  BY <1>1, <1>2, <1>3, <1>5, <1>6, <1>7 DEF IsText

LEMMA SameText ==
  ASSUME MP!DigitsAssumption,
         NEW x \in Nodes["materialized-path"], NEW z \in Nodes["materialized-path"],
         Len(MP!Text(x)) = Len(MP!Text(z)), FoundAt(MP!Text(z), MP!Text(x), 0)
  PROVE  x = z
<1> DEFINE s == MP!Text(x)
           t == MP!Text(z)
<1>1. s \in Seq(Letters) /\ t \in Seq(Letters)
  BY TextIsText DEF IsText
<1>2. s = t
  <2>1. Len(s) = Len(t) /\ \A j \in 1..Len(s) : t[0 + j] = s[j]
    BY DEF FoundAt
  <2> HIDE DEF s, t
  <2>2. \A j \in 1..Len(s) : s[j] = t[j]
    BY <1>1, <2>1
  <2> QED
    BY <1>1, <2>1, <2>2, SeqEqual
<1> DEFINE c == Digits[x]
           d == Digits[z]
<1>3. c \in Seq(0..9) /\ d \in Seq(0..9) /\ c \o <<10>> = d \o <<10>>
  BY <1>2 DEF MP!DigitsAssumption, MP!Text, MP!Dot
<1>4. c = d
  <2> DEFINE I == Int
             e == <<10>>
  <2> HIDE DEF c, d
  <2>1. c \in Seq(I) /\ d \in Seq(I)
    BY <1>3
  <2>2. e \in Seq(I) /\ c \o e = d \o e
    BY <1>3
  <2> HIDE DEF I, e
  <2> QED
    BY <2>1, <2>2, ConcatSimplifications
<1> QED
  BY <1>4 DEF MP!DigitsAssumption

\* The text of z ends in that of x.
EndsIn(z, x) ==
  /\ Len(MP!Text(x)) <= Len(MP!Text(z))
  /\ FoundAt(MP!Text(z), MP!Text(x), Len(MP!Text(z)) - Len(MP!Text(x)))

(***************************************************************************)
(* Spells: r is a sequence of texts of ids in D, seen from its dots: each  *)
(* is the end of such a text, which begins behind another or with r.       *)
(***************************************************************************)
EndsText(r, k, z) ==
  /\ Len(MP!Text(z)) <= k
  /\ \A j \in 1..Len(MP!Text(z)) : r[k - Len(MP!Text(z)) + j] = MP!Text(z)[j]
  /\ k > Len(MP!Text(z)) => r[k - Len(MP!Text(z))] = 10

Spells(r, D) ==
  /\ r \in Seq(Letters)
  /\ Len(r) > 0 => r[Len(r)] = 10
  /\ \A k \in 1..Len(r) : r[k] = 10 => \E z \in D : EndsText(r, k, z)

LEMMA SpellsNothing == ASSUME NEW D PROVE Spells(<<>>, D)
BY DEF Spells

LEMMA SpellsOneMore ==
  ASSUME NEW r, NEW D, Spells(r, D), NEW z \in D, MP!DigitsAssumption,
         D \subseteq Nodes["materialized-path"]
  PROVE  Spells(r \o MP!Text(z), D)
<1> DEFINE t == MP!Text(z)
           s == r \o t
<1>1. IsText(t)
  BY TextIsText
<1>2. r \in Seq(Letters) /\ t \in Seq(Letters)
  BY <1>1 DEF Spells, IsText
<1> HIDE DEF t
<1>3. /\ s \in Seq(Letters) /\ Len(s) = Len(r) + Len(t) /\ Len(r) \in Nat /\ Len(t) \in Nat
      /\ \A i \in 1..Len(r) + Len(t) : s[i] = IF i <= Len(r) THEN r[i] ELSE t[i - Len(r)]
  BY <1>2, ConcatProperties, LenProperties
<1>4. Len(t) >= 2 /\ t[Len(t)] = 10 /\ \A j \in 1..(Len(t) - 1) : t[j] # 10
  BY <1>1 DEF IsText
<1> HIDE DEF s
<1>11. \A i \in 1..Len(r) : s[i] = r[i]
  BY <1>3
<1>5. Len(s) > 0 /\ s[Len(s)] = 10
  BY <1>3, <1>4
<1>6. ASSUME NEW k \in 1..Len(s), s[k] = 10 PROVE \E y \in D : EndsText(s, k, y)
  <2>1. CASE k <= Len(r)
    <3>1. k \in 1..Len(r) /\ r[k] = 10
      BY <1>3, <1>6, <2>1
    <3>2. PICK y \in D : EndsText(r, k, y)
      BY <3>1 DEF Spells
    <3> DEFINE u == MP!Text(y)
    <3>3. Len(u) \in Nat /\ Len(u) >= 2
      BY TextIsText DEF IsText
    <3>4. /\ Len(u) <= k
          /\ \A j \in 1..Len(u) : r[k - Len(u) + j] = u[j]
          /\ k > Len(u) => r[k - Len(u)] = 10
      BY <3>2 DEF EndsText
    <3> HIDE DEF u
    <3>5. \A j \in 1..Len(u) : s[k - Len(u) + j] = u[j]
      <4> SUFFICES ASSUME NEW j \in 1..Len(u) PROVE s[k - Len(u) + j] = u[j]
        OBVIOUS
      <4>1. k - Len(u) + j \in 1..Len(r)
        BY <1>3, <3>1, <3>3, <3>4
      <4> QED
        BY <1>11, <3>4, <4>1
    <3>6. k > Len(u) => s[k - Len(u)] = 10
      <4> SUFFICES ASSUME k > Len(u) PROVE s[k - Len(u)] = 10
        OBVIOUS
      <4>1. k - Len(u) \in 1..Len(r)
        BY <1>3, <3>1, <3>3
      <4> QED
        BY <1>11, <3>4, <4>1
    <3>7. EndsText(s, k, y)
      BY <3>4, <3>5, <3>6 DEF EndsText, u
    <3> QED
      BY <3>7
  <2>2. CASE k > Len(r)
    <3>1. k = Len(s)
      <4>1. k - Len(r) \in 1..Len(t) /\ s[k] = t[k - Len(r)]
        BY <1>3, <2>2
      <4>2. t[k - Len(r)] = 10
        BY <1>6, <4>1
      <4>3. ~(k - Len(r) \in 1..(Len(t) - 1))
        BY <1>4, <4>2
      <4> QED
        BY <1>3, <1>4, <4>1, <4>3
    <3>2. Len(t) <= k /\ k - Len(t) = Len(r)
      BY <1>3, <3>1
    <3>3. ASSUME NEW j \in 1..Len(t) PROVE s[k - Len(t) + j] = t[j]
      <4>1. Len(r) + j \in 1..Len(r) + Len(t) /\ ~(Len(r) + j <= Len(r)) /\ Len(r) + j - Len(r) = j
        BY <1>3
      <4>2. s[Len(r) + j] = t[j]
        BY <1>3, <4>1
      <4> QED
        BY <3>2, <4>2
    <3>4. k > Len(t) => s[k - Len(t)] = 10
      <4> SUFFICES ASSUME k > Len(t) PROVE s[k - Len(t)] = 10
        OBVIOUS
      <4>1. Len(r) > 0 /\ r[Len(r)] = 10
        BY <1>3, <3>2 DEF Spells
      <4> QED
        BY <1>3, <3>2, <4>1
    <3>5. EndsText(s, k, z)
      BY <3>2, <3>3, <3>4 DEF EndsText, t
    <3> QED
      BY <3>5
  <2> QED
    BY <1>3, <2>1, <2>2
<1>7. Spells(s, D)
  BY <1>3, <1>5, <1>6 DEF Spells
<1> QED
  BY <1>7 DEF s, t

\* The text of an id that is not among them is nowhere in it behind a dot, and
\* nowhere at all if none of them ends in it.
LEMMA SpelledByItsOwn ==
  ASSUME MP!DigitsAssumption, NEW D, D \subseteq Nodes["materialized-path"], NEW r, Spells(r, D),
         NEW x \in Nodes["materialized-path"], x \notin D, NEW k \in Nat,
         \/ \A z \in D : ~EndsIn(z, x)
         \/ k \in 1..Len(r) /\ r[k] = 10
  PROVE  ~FoundAt(r, MP!Text(x), k)
<1> SUFFICES ASSUME FoundAt(r, MP!Text(x), k) PROVE FALSE
  OBVIOUS
<1> DEFINE t == MP!Text(x)
<1>1. IsText(t)
  BY TextIsText
<1>2. Len(t) \in Nat /\ Len(t) >= 2 /\ t[Len(t)] = 10 /\ \A j \in 1..(Len(t) - 1) : t[j] # 10
  BY <1>1 DEF IsText
<1>3. k + Len(t) <= Len(r) /\ \A j \in 1..Len(t) : r[k + j] = t[j]
  BY DEF FoundAt
<1>4. Len(r) \in Nat
  BY LenProperties DEF Spells
<1> HIDE DEF t
<1>5. k + Len(t) \in 1..Len(r) /\ r[k + Len(t)] = 10
  BY <1>2, <1>3, <1>4
<1>6. PICK z \in D : EndsText(r, k + Len(t), z)
  BY <1>5 DEF Spells
<1> DEFINE u == MP!Text(z)
<1>7. Len(u) \in Nat /\ Len(u) >= 2 /\ u[Len(u)] = 10 /\ \A j \in 1..(Len(u) - 1) : u[j] # 10
  BY TextIsText DEF IsText
<1>8. /\ Len(u) <= k + Len(t)
      /\ \A j \in 1..Len(u) : r[k + Len(t) - Len(u) + j] = u[j]
      /\ k + Len(t) > Len(u) => r[k + Len(t) - Len(u)] = 10
  BY <1>6 DEF EndsText
<1> HIDE DEF u
<1>9. CASE Len(t) <= Len(u)
  <2>1. ASSUME NEW j \in 1..Len(t) PROVE u[Len(u) - Len(t) + j] = t[j]
    <3>1. Len(u) - Len(t) + j \in 1..Len(u)
      BY <1>2, <1>7, <1>9
    <3>2. r[k + Len(t) - Len(u) + (Len(u) - Len(t) + j)] = u[Len(u) - Len(t) + j]
      BY <1>8, <3>1
    <3>3. k + Len(t) - Len(u) + (Len(u) - Len(t) + j) = k + j
      BY <1>2, <1>7
    <3> QED
      BY <1>3, <3>2, <3>3
  <2>2. FoundAt(u, t, Len(u) - Len(t))
    BY <1>2, <1>7, <2>1 DEF FoundAt
  <2>3. CASE \A y \in D : ~EndsIn(y, x)
    BY <1>9, <2>2, <2>3 DEF EndsIn, t, u
  <2>4. CASE k \in 1..Len(r) /\ r[k] = 10
    <3>1. Len(u) = Len(t)
      <4> SUFFICES ASSUME Len(u) # Len(t) PROVE FALSE
        OBVIOUS
      <4>1. Len(u) - Len(t) \in 1..(Len(u) - 1) /\ Len(u) - Len(t) \in 1..Len(u)
        BY <1>2, <1>7, <1>9
      <4>2. r[k + Len(t) - Len(u) + (Len(u) - Len(t))] = u[Len(u) - Len(t)]
        BY <1>8, <4>1
      <4>3. k + Len(t) - Len(u) + (Len(u) - Len(t)) = k
        BY <1>2, <1>7
      <4> QED
        BY <1>7, <2>4, <4>1, <4>2, <4>3
    <3>2. FoundAt(u, t, 0)
      <4>1. Len(u) - Len(t) = 0
        BY <1>2, <1>7, <3>1
      <4> QED
        BY <2>2, <4>1
    <3>3. x = z
      BY <3>1, <3>2, SameText DEF t, u
    <3> QED
      BY <3>3
  <2> QED
    BY <2>3, <2>4
<1>10. CASE Len(t) > Len(u)
  <2>1. Len(t) - Len(u) \in 1..(Len(t) - 1)
    BY <1>2, <1>7, <1>10
  <2>2. k + Len(t) > Len(u) /\ k + Len(t) - Len(u) = k + (Len(t) - Len(u))
    BY <1>2, <1>7, <1>10
  <2>3. r[k + (Len(t) - Len(u))] = 10
    BY <1>8, <2>2
  <2>4. Len(t) - Len(u) \in 1..Len(t)
    BY <1>2, <1>7, <1>10
  <2>5. r[k + (Len(t) - Len(u))] = t[Len(t) - Len(u)]
    BY <1>3, <2>4
  <2> QED
    BY <1>2, <2>1, <2>3, <2>5
<1> QED
  BY <1>2, <1>7, <1>9, <1>10

LEMMA PrefixIsFound ==
  ASSUME NEW s \in Seq(Letters), NEW t \in Seq(Letters)
  PROVE  MP!IsPrefix(s, t) <=> FoundAt(t, s, 0)
<1>1. /\ Len(s) \in Nat /\ Len(t) \in Nat
      /\ \A i \in 1..Len(s) : s[i] \in Letters
      /\ \A i \in 1..Len(t) : t[i] \in Letters
  BY LenProperties, ElementOfSeq
<1>2. MP!IsPrefix(s, t) <=> Len(s) <= Len(t) /\ SubSeq(s, 1, Len(s)) = SubSeq(t, 1, Len(s))
  BY DEF MP!IsPrefix
<1>3. CASE Len(s) <= Len(t)
  <2>1. \A i \in 1..Len(s) : t[i] \in Letters
    BY <1>1, <1>3
  <2>2. /\ SubSeq(s, 1, Len(s)) \in Seq(Letters) /\ Len(SubSeq(s, 1, Len(s))) = Len(s)
        /\ \A i \in 1..Len(s) : SubSeq(s, 1, Len(s))[i] = s[i]
    BY <1>1, SubSeqProperties
  <2>3. /\ SubSeq(t, 1, Len(s)) \in Seq(Letters) /\ Len(SubSeq(t, 1, Len(s))) = Len(s)
        /\ \A i \in 1..Len(s) : SubSeq(t, 1, Len(s))[i] = t[i]
    BY <1>1, <2>1, SubSeqProperties
  <2>4. SubSeq(s, 1, Len(s)) = SubSeq(t, 1, Len(s)) <=> \A i \in 1..Len(s) : t[i] = s[i]
    BY <2>2, <2>3, SeqEqual
  <2> QED
    BY <1>1, <1>2, <1>3, <2>4 DEF FoundAt
<1>4. CASE ~(Len(s) <= Len(t))
  BY <1>1, <1>2, <1>4 DEF FoundAt
<1> QED
  BY <1>3, <1>4

LEMMA SuffixIsFound ==
  ASSUME NEW s \in Seq(Letters), NEW t \in Seq(Letters), Len(s) <= Len(t),
         FoundAt(t, s, Len(t) - Len(s))
  PROVE  MP!IsSuffix(s, t)
<1> DEFINE a == [i \in 1..Len(s) |-> s[(Len(s) - i) + 1]]
           b == [i \in 1..Len(t) |-> t[(Len(t) - i) + 1]]
<1>1. /\ Len(s) \in Nat /\ Len(t) \in Nat
      /\ \A i \in 1..Len(s) : s[i] \in Letters
      /\ \A i \in 1..Len(t) : t[i] \in Letters
  BY LenProperties, ElementOfSeq
<1>2. a \in Seq(Letters) /\ b \in Seq(Letters) /\ Len(a) = Len(s) /\ Len(b) = Len(t)
  <2>1. \A i \in 1..Len(s) : (Len(s) - i) + 1 \in 1..Len(s)
    BY <1>1
  <2>2. \A i \in 1..Len(t) : (Len(t) - i) + 1 \in 1..Len(t)
    BY <1>1
  <2>3. a \in [1..Len(s) -> Letters] /\ b \in [1..Len(t) -> Letters]
    <3> HIDE DEF Letters
    <3> QED
      BY <1>1, <2>1, <2>2
  <2>4. a \in Seq(Letters)
    <3> HIDE DEF Letters
    <3> QED
      BY <1>1, <2>1
  <2>5. b \in Seq(Letters)
    <3> HIDE DEF Letters
    <3> QED
      BY <1>1, <2>2
  <2> HIDE DEF a, b, Letters
  <2> QED
    BY <1>1, <2>3, <2>4, <2>5, LenProperties
<1>3. ASSUME NEW j \in 1..Len(s) PROVE b[j] = a[j]
  <2>1. j \in 1..Len(t) /\ (Len(s) - j) + 1 \in 1..Len(s)
    BY <1>1
  <2>2. t[(Len(t) - Len(s)) + ((Len(s) - j) + 1)] = s[(Len(s) - j) + 1]
    BY <2>1 DEF FoundAt
  <2>3. (Len(t) - Len(s)) + ((Len(s) - j) + 1) = (Len(t) - j) + 1
    BY <1>1
  <2> QED
    BY <2>1, <2>2, <2>3
<1>4. MP!Reverse(s) = a /\ MP!Reverse(t) = b
  BY DEF MP!Reverse
<1> HIDE DEF a, b
<1>5. FoundAt(b, a, 0)
  BY <1>1, <1>2, <1>3 DEF FoundAt
<1>6. MP!IsPrefix(a, b)
  BY <1>2, <1>5, PrefixIsFound
<1> QED
  BY <1>4, <1>6 DEF MP!IsSuffix

\* One step of Replace, and the function that it describes.
Replacing(s, old, new, c, i) ==
  IF i > Len(s) THEN <<>>
  ELSE IF i + Len(old) - 1 <= Len(s) /\ SubSeq(s, i, i + Len(old) - 1) = old
       THEN new \o c[i + Len(old)]
  ELSE <<s[i]>> \o c[i + 1]

Replaces(s, old, new, c) == c = [i \in 1..(Len(s) + 1) |-> Replacing(s, old, new, c, i)]

LEMMA ReplaceExists ==
  ASSUME NEW s, Len(s) \in Nat, NEW old, Len(old) \in Nat, Len(old) >= 1, NEW new
  PROVE  \E c : Replaces(s, old, new, c)
<1> DEFINE N == Len(s) + 1
           Last(j, c) == c = [i \in (N - j)..N |-> Replacing(s, old, new, c, i)]
           T == {j \in 0..Len(s) : ~\E c : Last(j, c)}
<1> SUFFICES ASSUME T # {} PROVE FALSE
  <2>1. Len(s) \in 0..Len(s) /\ N - Len(s) = 1
    OBVIOUS
  <2>2. \A c : Last(Len(s), c) => Replaces(s, old, new, c)
    BY <2>1 DEF Replaces
  <2> HIDE DEF Last
  <2> QED
    BY <2>1, <2>2
<1>1. PICK j \in T : \A k \in T : j <= k
  <2>1. T \in SUBSET Nat
    OBVIOUS
  <2> HIDE DEF T
  <2> QED
    BY <2>1, SmallestExists
<1>2. j # 0
  <2>1. Last(0, [i \in N..N |-> <<>>])
    <3>1. \A i \in (N - 0)..N : i > Len(s)
      OBVIOUS
    <3> QED
      BY <3>1 DEF Replacing
  <2>2. \E c : Last(0, c)
    BY <2>1
  <2> HIDE DEF Last
  <2> QED
    BY <2>2
<1>3. j \in 1..Len(s) /\ j - 1 \in 0..Len(s) /\ j \in Nat
  BY <1>2
<1>4. \E c : Last(j - 1, c)
  <2>1. ~(j <= j - 1)
    BY <1>3
  <2> HIDE DEF Last
  <2> QED
    BY <1>1, <1>3, <2>1
<1>5. PICK c : Last(j - 1, c)
  BY <1>4
<1> DEFINE d == [i \in (N - j)..N |-> IF i = N - j THEN Replacing(s, old, new, c, i) ELSE c[i]]
<1>6. \A i \in (N - (j - 1))..N : c[i] = Replacing(s, old, new, c, i)
  <2>1. c = [i \in (N - (j - 1))..N |-> Replacing(s, old, new, c, i)]
    BY <1>5
  <2> QED
    BY <2>1
<1>7. \A i \in (N - j)..N : d[i] = Replacing(s, old, new, d, i)
  <2> SUFFICES ASSUME NEW i \in (N - j)..N PROVE d[i] = Replacing(s, old, new, d, i)
    OBVIOUS
  <2>1. d[i] = Replacing(s, old, new, c, i)
    <3>1. CASE i = N - j
      BY <3>1
    <3>2. CASE i # N - j
      <4>1. i \in (N - (j - 1))..N
        BY <1>3, <3>2
      <4> QED
        BY <1>6, <3>2, <4>1
    <3> QED
      BY <3>1, <3>2
  <2>2. CASE i > Len(s)
    BY <2>1, <2>2 DEF Replacing
  <2>3. CASE i <= Len(s)
    <3>1. i + 1 \in (N - j)..N /\ i + 1 # N - j
      BY <1>3, <2>3
    <3>2. i + Len(old) - 1 <= Len(s) => i + Len(old) \in (N - j)..N /\ i + Len(old) # N - j
      BY <1>3
    <3>3. d[i + 1] = c[i + 1] /\ (i + Len(old) - 1 <= Len(s) => d[i + Len(old)] = c[i + Len(old)])
      BY <3>1, <3>2
    <3> HIDE DEF d
    <3> QED
      BY <2>1, <3>3 DEF Replacing
  <2> QED
    BY <1>3, <2>2, <2>3
<1>8. Last(j, d)
  <2>1. d = [i \in (N - j)..N |-> d[i]]
    OBVIOUS
  <2> HIDE DEF d
  <2> QED
    BY <1>7, <2>1
<1>9. \E e : Last(j, e)
  <2> HIDE DEF d
  <2> QED
    BY <1>8
<1> HIDE DEF Last
<1> QED
  BY <1>1, <1>9

\* Of what begins with old and does not hold it again, REPLACE changes the
\* beginning.
LEMMA ReplaceOnce ==
  ASSUME NEW old \in Seq(Letters), Len(old) >= 1, NEW r \in Seq(Letters), NEW new \in Seq(Letters),
         \A k \in Nat : ~FoundAt(r, old, k)
  PROVE  MP!Replace(old \o r, old, new) = new \o r
<1> DEFINE s == old \o r
           N == Len(s) + 1
           c == MP!Replace(s, old, new)
<1>1. /\ Len(old) \in Nat /\ Len(r) \in Nat /\ Len(s) \in Nat
      /\ s \in Seq(Letters) /\ Len(s) = Len(old) + Len(r)
      /\ \A i \in 1..Len(s) : s[i] = IF i <= Len(old) THEN old[i] ELSE r[i - Len(old)]
  BY ConcatProperties, LenProperties
<1> HIDE DEF s
<1>2. PICK from : /\ from = [i \in 1..N |-> Replacing(s, old, new, from, i)]
                  /\ MP!Replace(s, old, new) = from[1]
  <2> DEFINE f0 == CHOOSE f : Replaces(s, old, new, f)
  <2>1. \E f : Replaces(s, old, new, f)
    BY <1>1, ReplaceExists
  <2>2. Replaces(s, old, new, f0)
    BY <2>1
  <2>3. MP!Replace(s, old, new) = f0[1]
    BY DEF MP!Replace, Replaces, Replacing
  <2> HIDE DEF f0
  <2> QED
    BY <2>2, <2>3 DEF Replaces
<1>3. \A i \in 1..N : from[i] = Replacing(s, old, new, from, i)
  BY <1>2
<1> DEFINE T == {j \in 0..Len(r) : from[N - j] # SubSeq(s, N - j, Len(s))}
<1>4. ASSUME NEW i \in 1..Len(s), i > Len(old), i + Len(old) - 1 <= Len(s)
      PROVE  SubSeq(s, i, i + Len(old) - 1) # old
  <2> SUFFICES ASSUME SubSeq(s, i, i + Len(old) - 1) = old PROVE FALSE
    OBVIOUS
  <2> DEFINE k == i - 1 - Len(old)
  <2>1. k \in Nat /\ k + Len(old) <= Len(r)
    BY <1>1, <1>4
  <2>2. \A j \in 1..Len(old) : SubSeq(s, i, i + Len(old) - 1)[j] = s[i + j - 1]
    <3>1. \A j \in i..(i + Len(old) - 1) : s[j] \in Letters
      BY <1>1, <1>4, ElementOfSeq
    <3>2. i \in Int /\ i + Len(old) - 1 \in Int /\ (i + Len(old) - 1) - i + 1 = Len(old)
      BY <1>1
    <3> QED
      BY <3>1, <3>2, SubSeqProperties
  <2>3. ASSUME NEW j \in 1..Len(old) PROVE r[k + j] = old[j]
    <3>1. i + j - 1 \in 1..Len(s) /\ ~(i + j - 1 <= Len(old)) /\ i + j - 1 - Len(old) = k + j
      BY <1>1, <1>4
    <3>2. s[i + j - 1] = r[k + j]
      BY <1>1, <3>1
    <3> QED
      BY <2>2, <3>2
  <2>4. FoundAt(r, old, k)
    BY <2>1, <2>3 DEF FoundAt
  <2> QED
    BY <2>1, <2>4
<1>5. T = {}
  <2> SUFFICES ASSUME T # {} PROVE FALSE
    OBVIOUS
  <2>1. PICK j \in T : \A k \in T : j <= k
    <3>1. T \in SUBSET Nat
      BY <1>1
    <3> HIDE DEF T
    <3> QED
      BY <3>1, SmallestExists
  <2> DEFINE i == N - j
  <2>2. j \in 0..Len(r) /\ i \in 1..N /\ i > Len(old) /\ i \in Nat
    <3>1. j \in 0..Len(r)
      OBVIOUS
    <3> HIDE DEF T
    <3> QED
      BY <1>1, <3>1
  <2>3. CASE j = 0
    <3>1. i > Len(s) /\ SubSeq(s, i, Len(s)) = <<>>
      BY <1>1, <2>3, SubSeqEmpty
    <3>2. from[i] = <<>>
      BY <1>3, <2>2, <3>1 DEF Replacing
    <3> QED
      BY <2>1, <3>1, <3>2
  <2>4. CASE j # 0
    <3>1. i \in 1..Len(s) /\ j - 1 \in 0..Len(r) /\ ~(j <= j - 1) /\ N - (j - 1) = i + 1
      BY <1>1, <2>2, <2>4
    <3>2. from[i + 1] = SubSeq(s, i + 1, Len(s))
      BY <2>1, <3>1
    <3>3. from[i] = <<s[i]>> \o from[i + 1]
      <4>1. from[i] = Replacing(s, old, new, from, i)
        BY <1>3, <2>2
      <4>3. ~(i > Len(s))
        <5> HIDE DEF i
        <5> QED
          BY <1>1, <3>1
      <4>2. i + Len(old) - 1 <= Len(s) => SubSeq(s, i, i + Len(old) - 1) # old
        BY <1>4, <2>2, <3>1
      <4> HIDE DEF i
      <4> QED
        BY <4>1, <4>2, <4>3 DEF Replacing
    <3>4. <<s[i]>> \o SubSeq(s, i + 1, Len(s)) = SubSeq(s, i, Len(s))
      <4> HIDE DEF i
      <4>1. SubSeq(s, i, i) = <<s[i]>>
        <5>1. \A m \in i..i : s[m] \in Letters
          BY <1>1, <3>1, ElementOfSeq
        <5>2. /\ SubSeq(s, i, i) \in Seq(Letters) /\ Len(SubSeq(s, i, i)) = 1
              /\ SubSeq(s, i, i)[1] = s[i]
          BY <3>1, <5>1, SubSeqProperties
        <5>3. <<s[i]>> \in Seq(Letters) /\ Len(<<s[i]>>) = 1 /\ <<s[i]>>[1] = s[i]
          BY <5>1, <3>1
        <5> DEFINE a == SubSeq(s, i, i)
                   b == <<s[i]>>
        <5> HIDE DEF a, b
        <5>4. Len(a) = Len(b) /\ \A m \in 1..Len(a) : a[m] = b[m]
          BY <5>2, <5>3 DEF a, b
        <5>5. a \in Seq(Letters) /\ b \in Seq(Letters)
          BY <5>2, <5>3 DEF a, b
        <5>6. a = b
          BY <5>4, <5>5, SeqEqual
        <5> QED
          BY <5>6 DEF a, b
      <4>2. i \in 1..(Len(s) + 1) /\ i \in (i - 1)..Len(s) /\ Len(s) \in i..Len(s)
        BY <1>1, <3>1
      <4> QED
        BY <1>1, <4>1, <4>2, ConcatAdjacentSubSeq
    <3> QED
      BY <2>1, <3>2, <3>3, <3>4
  <2> QED
    BY <2>3, <2>4
<1>6. from[Len(old) + 1] = SubSeq(s, Len(old) + 1, Len(s))
  <2>1. Len(r) \in 0..Len(r) /\ N - Len(r) = Len(old) + 1
    BY <1>1
  <2> QED
    BY <1>5, <2>1
<1>7. SubSeq(s, Len(old) + 1, Len(s)) = r /\ SubSeq(s, 1, Len(old)) = old
  BY <1>1 DEF s
<1>8. from[1] = new \o from[1 + Len(old)]
  <2>1. 1 \in 1..N /\ ~(1 > Len(s)) /\ 1 + Len(old) - 1 = Len(old) /\ Len(old) <= Len(s)
    BY <1>1
  <2> QED
    BY <1>3, <1>7, <2>1 DEF Replacing
<1>9. 1 + Len(old) = Len(old) + 1
  BY <1>1
<1> QED
  BY <1>2, <1>6, <1>7, <1>8, <1>9 DEF s

(***************************************************************************)
(* Rows R with parents P and paths Q.                                      *)
(***************************************************************************)
Above(Q, p) == IF p = NoNode THEN <<>> ELSE Q[p]

Spelled(R, P, Q) ==
  /\ R \subseteq Nodes["materialized-path"] /\ Tree(R, P) /\ NoNode \notin R
  /\ \A x \in R : Q[x] \in Seq(Letters) /\ Q[x] = Above(Q, P[x]) \o MP!Text(x)

\* A path is its parent's and a text.
PathSplits(q, u, t) ==
  /\ IsText(t) /\ u \in Seq(Letters) /\ q \in Seq(Letters)
  /\ Len(u) \in Nat /\ Len(t) \in Nat /\ Len(t) >= 2 /\ Len(q) = Len(u) + Len(t)
  /\ \A i \in 1..Len(u) : q[i] = u[i]
  /\ \A i \in 1..Len(t) : q[Len(u) + i] = t[i]
  /\ q[Len(q)] = 10
  /\ Len(u) > 0 => u[Len(u)] = 10

LEMMA PathEndsInDot ==
  ASSUME MP!DigitsAssumption, NEW R, NEW P, NEW Q, Spelled(R, P, Q), NEW x \in R
  PROVE  Len(Q[x]) > 0 /\ Q[x][Len(Q[x])] = 10
<1> DEFINE u == Above(Q, P[x])
           t == MP!Text(x)
<1>1. t \in Seq(Letters) /\ Len(t) \in Nat /\ Len(t) >= 2 /\ t[Len(t)] = 10
  BY TextIsText DEF IsText, Spelled
<1>2. u \in Seq(Letters) /\ Q[x] = u \o t
  BY DEF Above, Spelled, Tree
<1> HIDE DEF u, t
<1>3. /\ Len(u) \in Nat /\ Len(u \o t) = Len(u) + Len(t)
      /\ \A i \in 1..Len(u) + Len(t) : (u \o t)[i] = IF i <= Len(u) THEN u[i] ELSE t[i - Len(u)]
  BY <1>1, <1>2, ConcatProperties, LenProperties
<1>4. Len(u) + Len(t) \in 1..Len(u) + Len(t) /\ ~(Len(u) + Len(t) <= Len(u))
  BY <1>1, <1>3
<1>5. (u \o t)[Len(u) + Len(t)] = t[Len(t)]
  BY <1>1, <1>3, <1>4
<1> QED
  BY <1>1, <1>2, <1>3, <1>4, <1>5

LEMMA PathEnds ==
  ASSUME MP!DigitsAssumption, NEW R, NEW P, NEW Q, Spelled(R, P, Q), NEW x \in R
  PROVE  PathSplits(Q[x], Above(Q, P[x]), MP!Text(x))
<1> DEFINE u == Above(Q, P[x])
           t == MP!Text(x)
<1>1. IsText(t)
  BY TextIsText DEF Spelled
<1>2. u \in Seq(Letters)
  BY DEF Above, Spelled, Tree
<1>9. Len(u) > 0 => u[Len(u)] = 10
  <2>1. CASE P[x] = NoNode
    BY <2>1 DEF Above
  <2>2. CASE P[x] # NoNode
    <3>1. P[x] \in R /\ u = Q[P[x]]
      BY <2>2 DEF Above, Spelled, Tree
    <3> HIDE DEF u
    <3> QED
      BY <3>1, PathEndsInDot
  <2> QED
    BY <2>1, <2>2
<1>3. Q[x] = u \o t /\ Q[x] \in Seq(Letters)
  BY DEF Spelled
<1> HIDE DEF u, t
<1>4. t \in Seq(Letters) /\ Len(t) \in Nat /\ Len(t) >= 2 /\ t[Len(t)] = 10
  BY <1>1 DEF IsText
<1>5. /\ Len(u) \in Nat /\ Len(u \o t) = Len(u) + Len(t)
      /\ \A i \in 1..Len(u) + Len(t) : (u \o t)[i] = IF i <= Len(u) THEN u[i] ELSE t[i - Len(u)]
  BY <1>2, <1>4, ConcatProperties, LenProperties
<1>6. \A i \in 1..Len(u) : Q[x][i] = u[i]
  BY <1>3, <1>4, <1>5
<1>7. ASSUME NEW i \in 1..Len(t) PROVE Q[x][Len(u) + i] = t[i]
  <2>1. Len(u) + i \in 1..Len(u) + Len(t) /\ ~(Len(u) + i <= Len(u)) /\ Len(u) + i - Len(u) = i
    BY <1>4, <1>5
  <2> QED
    BY <1>3, <1>5, <2>1
<1>8. Q[x][Len(Q[x])] = 10
  <2>1. Len(t) \in 1..Len(t)
    BY <1>4
  <2> QED
    BY <1>3, <1>4, <1>5, <1>7, <2>1
<1> QED
  BY <1>1, <1>2, <1>3, <1>4, <1>5, <1>6, <1>7, <1>8, <1>9 DEF u, t, PathSplits

\* Texts that are joined.
LEMMA JoinRegroups ==
  ASSUME NEW q \in Seq(Letters), NEW a \in Seq(Letters), NEW b \in Seq(Letters)
  PROVE  (q \o a) \o b = q \o (a \o b)
<1> DEFINE L == Letters
<1>1. q \in Seq(L) /\ a \in Seq(L) /\ b \in Seq(L)
  OBVIOUS
<1> HIDE DEF L
<1> QED
  BY <1>1, ConcatAssociative

LEMMA JoinedAlike ==
  ASSUME NEW q \in Seq(Letters), NEW a \in Seq(Letters), NEW b \in Seq(Letters), q \o a = q \o b
  PROVE  a = b
<1> DEFINE L == Letters
<1>1. q \in Seq(L) /\ a \in Seq(L) /\ b \in Seq(L)
  OBVIOUS
<1> HIDE DEF L
<1> QED
  BY <1>1, ConcatSimplifications

GoesOn(R, P, Q, x, y) == \E r : Spells(r, Below(R, P, x) \ {x}) /\ Q[y] = Q[x] \o r

\* The path of what is below x goes on from x's, with what is below x alone.
LEMMA BelowIsSpelled ==
  ASSUME MP!DigitsAssumption, NEW R, NEW P, NEW Q, Spelled(R, P, Q), NEW x \in R, NEW y \in Below(R, P, x)
  PROVE  GoesOn(R, P, Q, x, y)
<1> DEFINE D == Below(R, P, x) \ {x}
           S == {z \in Below(R, P, x) : \E r : Spells(r, D) /\ Q[z] = Q[x] \o r}
<1>1. \A z \in R : Q[z] \in Seq(Letters)
  BY DEF Spelled
<1>2. x \in S
  <2>1. Q[x] = Q[x] \o <<>>
    BY <1>1, ConcatEmptySeq
  <2> QED
    BY <2>1, SpellsNothing, BelowItself
<1>3. ASSUME NEW z \in R, P[z] \in S PROVE z \in S
  <2>1. PICK r : Spells(r, D) /\ Q[P[z]] = Q[x] \o r
    BY <1>3
  <2> DEFINE t == MP!Text(z)
  <2>2. IsText(t) /\ t \in Seq(Letters) /\ Len(t) \in Nat /\ Len(t) >= 2
    BY TextIsText DEF Spelled, IsText
  <2>3. Q[z] = Q[P[z]] \o t /\ P[z] \in R
    BY <1>3 DEF Spelled, Above, Below
  <2>8. z \in Below(R, P, x)
    BY <1>3, BelowIsClosed
  <2>4. r \in Seq(Letters)
    BY <2>1 DEF Spells
  <2> HIDE DEF t
  <2>5. Q[z] = Q[x] \o (r \o t)
    <3>1. Q[x] \in Seq(Letters) /\ Q[z] = (Q[x] \o r) \o t
      BY <1>1, <2>1, <2>3
    <3>2. (Q[x] \o r) \o t = Q[x] \o (r \o t)
      BY <2>2, <2>4, <3>1, JoinRegroups
    <3> QED
      BY <3>1, <3>2
  <2>6. z # x
    <3> SUFFICES ASSUME z = x PROVE FALSE
      OBVIOUS
    <3>1. r \o t \in Seq(Letters) /\ Len(r \o t) = Len(r) + Len(t) /\ Len(r) \in Nat
      BY <2>2, <2>4, ConcatProperties, LenProperties
    <3>2. Len(Q[x] \o (r \o t)) = Len(Q[x]) + Len(r \o t) /\ Len(Q[x]) \in Nat
      BY <1>1, <3>1, ConcatProperties, LenProperties
    <3>3. Len(Q[x]) = Len(Q[x]) + Len(r \o t)
      BY <2>5, <3>2
    <3> DEFINE n == Len(Q[x])
               k == Len(r \o t)
    <3>4. n \in Nat /\ n = n + k
      BY <3>2, <3>3
    <3>5. k \in Nat /\ k >= 2
      BY <2>2, <3>1
    <3> HIDE DEF n, k
    <3> QED
      BY <3>4, <3>5
  <2>7. Spells(r \o t, D)
    <3>1. z \in D /\ D \subseteq Nodes["materialized-path"]
      BY <2>6, <2>8 DEF Spelled, Below
    <3> HIDE DEF D
    <3> QED
      BY <2>1, <3>1, SpellsOneMore DEF t
  <2> QED
    BY <2>5, <2>7, <2>8
<1>4. Below(R, P, x) \subseteq S
  <2>1. x \in R \cap S
    BY <1>2
  <2>2. ClosedUnderChildren(R, P, S)
    <3> HIDE DEF S
    <3> QED
      BY <1>3 DEF ClosedUnderChildren
  <2> HIDE DEF S
  <2> QED
    BY <2>1, <2>2, BelowIsLeast
<1> QED
  BY <1>4 DEF GoesOn

\* Of some rows one has a shortest path.
LEMMA ShortestExists ==
  ASSUME NEW R, NEW Q, \A z \in R : Len(Q[z]) \in Nat, NEW S \in SUBSET R, S # {}
  PROVE  \E x \in S : \A y \in S : Len(Q[x]) <= Len(Q[y])
<1> DEFINE T == {Len(Q[x]) : x \in S}
<1>1. T \in SUBSET Nat /\ T # {}
  OBVIOUS
<1>2. PICK m \in T : \A n \in T : m <= n
  <2> HIDE DEF T
  <2> QED
    BY <1>1, SmallestExists
<1> QED
  BY <1>2

\* A row whose path goes on from x's is below x.
LEMMA PrefixIsBelow ==
  ASSUME MP!DigitsAssumption, NEW R, NEW P, NEW Q, Spelled(R, P, Q), NEW x \in R, NEW y \in R, FoundAt(Q[y], Q[x], 0)
  PROVE  y \in Below(R, P, x)
<1> DEFINE B == {z \in R : FoundAt(Q[z], Q[x], 0) /\ z \notin Below(R, P, x)}
<1> SUFFICES ASSUME B # {} PROVE FALSE
  OBVIOUS
<1>1. PICK z \in B : \A w \in B : Len(Q[z]) <= Len(Q[w])
  <2>1. \A w \in R : Len(Q[w]) \in Nat
    BY LenProperties DEF Spelled
  <2>2. B \in SUBSET R
    OBVIOUS
  <2> HIDE DEF B
  <2> QED
    BY <2>1, <2>2, ShortestExists
<1>2. z \in R /\ FoundAt(Q[z], Q[x], 0) /\ z \notin Below(R, P, x)
  BY <1>1
<1> DEFINE u == Above(Q, P[z])
           t == MP!Text(z)
           v == Above(Q, P[x])
           s == MP!Text(x)
<1>10. PathSplits(Q[z], u, t)
  BY <1>2, PathEnds
<1>3. /\ IsText(t) /\ u \in Seq(Letters) /\ Q[z] \in Seq(Letters)
      /\ \A i \in 1..Len(u) : Q[z][i] = u[i]
      /\ \A i \in 1..Len(t) : Q[z][Len(u) + i] = t[i]
  <2> HIDE DEF u, t
  <2> QED
    BY <1>10 DEF PathSplits
<1>8. Len(u) \in Nat /\ Len(t) \in Nat /\ Len(t) >= 2 /\ Len(Q[z]) = Len(u) + Len(t)
  BY <1>10 DEF PathSplits
<1>11. PathSplits(Q[x], v, s)
  BY PathEnds
<1>4. /\ IsText(s) /\ v \in Seq(Letters) /\ Q[x] \in Seq(Letters)
      /\ \A i \in 1..Len(v) : Q[x][i] = v[i]
      /\ \A i \in 1..Len(s) : Q[x][Len(v) + i] = s[i]
      /\ Q[x][Len(Q[x])] = 10
  <2> HIDE DEF v, s
  <2> QED
    BY <1>11 DEF PathSplits
<1>9. Len(v) \in Nat /\ Len(s) \in Nat /\ Len(s) >= 2 /\ Len(Q[x]) = Len(v) + Len(s)
  BY <1>11 DEF PathSplits
<1>12. Len(u) > 0 => u[Len(u)] = 10
  BY <1>10 DEF PathSplits
<1>13. Len(v) > 0 => v[Len(v)] = 10
  BY <1>11 DEF PathSplits
<1>5. Len(Q[x]) <= Len(Q[z]) /\ \A i \in 1..Len(Q[x]) : Q[z][i] = Q[x][i]
  BY <1>2, <1>9 DEF FoundAt
<1>6. CASE Len(Q[x]) <= Len(u)
  <2>1. P[z] # NoNode /\ P[z] \in R /\ u = Q[P[z]]
    <3>1. Len(u) > 0
      BY <1>6, <1>8, <1>9
    <3>2. P[z] # NoNode
      BY <3>1 DEF Above
    <3> QED
      BY <1>2, <3>2 DEF Spelled, Tree, Above
  <2> HIDE DEF u, t, v, s
  <2>2. \A i \in 1..Len(Q[x]) : u[i] = Q[x][i]
    BY <1>3, <1>5, <1>6, <1>8, <1>9
  <2>3. FoundAt(Q[P[z]], Q[x], 0)
    BY <1>6, <1>9, <2>1, <2>2 DEF FoundAt
  <2>4. ~(Len(Q[z]) <= Len(Q[P[z]]))
    BY <1>8, <2>1
  <2>5. P[z] \in Below(R, P, x)
    BY <1>1, <2>1, <2>3, <2>4
  <2> QED
    BY <1>2, <2>5, BelowIsClosed
<1>7. CASE Len(Q[x]) > Len(u)
  <2> HIDE DEF u, v, s, t
  <2>1. Len(Q[x]) = Len(Q[z])
    <3> DEFINE k == Len(Q[x]) - Len(u)
    <3>1. k \in 1..Len(t) /\ Len(u) + k = Len(Q[x]) /\ Len(Q[x]) \in 1..Len(Q[x])
      BY <1>5, <1>7, <1>8, <1>9
    <3>2. t[k] = 10
      <4>1. Q[z][Len(u) + k] = t[k] /\ Q[z][Len(Q[x])] = Q[x][Len(Q[x])]
        BY <1>3, <1>5, <3>1
      <4> QED
        BY <1>4, <3>1, <4>1
    <3>3. ~(k \in 1..(Len(t) - 1))
      BY <1>3, <3>2 DEF IsText
    <3> QED
      BY <1>8, <1>9, <3>1, <3>3
  <2>2. Len(s) = Len(t)
    <3>1. CASE Len(s) < Len(t)
      <4>1. /\ Len(v) > 0 /\ Len(v) \in 1..Len(v) /\ Len(v) \in 1..Len(Q[x])
            /\ Len(t) - Len(s) \in 1..Len(t) /\ Len(t) - Len(s) \in 1..(Len(t) - 1)
            /\ Len(u) + (Len(t) - Len(s)) = Len(v)
        BY <1>8, <1>9, <2>1, <3>1
      <4>2. Q[x][Len(v)] = 10
        BY <1>4, <1>13, <4>1
      <4>3. Q[z][Len(v)] = t[Len(t) - Len(s)]
        BY <1>3, <4>1
      <4> QED
        BY <1>3, <1>5, <4>1, <4>2, <4>3 DEF IsText
    <3>2. CASE Len(t) < Len(s)
      <4>1. /\ Len(u) > 0 /\ Len(u) \in 1..Len(u) /\ Len(u) \in 1..Len(Q[x])
            /\ Len(s) - Len(t) \in 1..Len(s) /\ Len(s) - Len(t) \in 1..(Len(s) - 1)
            /\ Len(v) + (Len(s) - Len(t)) = Len(u)
        BY <1>8, <1>9, <2>1, <3>2
      <4>2. Q[z][Len(u)] = 10
        BY <1>3, <1>12, <4>1
      <4>3. Q[x][Len(u)] = s[Len(s) - Len(t)]
        BY <1>4, <4>1
      <4> QED
        BY <1>4, <1>5, <4>1, <4>2, <4>3 DEF IsText
    <3> QED
      BY <1>8, <1>9, <3>1, <3>2
  <2>3. ASSUME NEW j \in 1..Len(s) PROVE t[j] = s[j]
    <3>1. Len(u) = Len(v) /\ j \in 1..Len(t) /\ Len(v) + j \in 1..Len(Q[x])
      BY <1>8, <1>9, <2>1, <2>2
    <3>2. Q[z][Len(u) + j] = t[j] /\ Q[x][Len(v) + j] = s[j]
      BY <1>3, <1>4, <3>1
    <3> QED
      BY <1>5, <3>1, <3>2
  <2>4. FoundAt(t, s, 0)
    BY <1>8, <1>9, <2>2, <2>3 DEF FoundAt
  <2>5. x = z
    BY <1>2, <2>2, <2>4, SameText DEF s, t, Spelled
  <2> QED
    BY <1>2, <2>5, BelowItself
<1> QED
  BY <1>6, <1>7, <1>8, <1>9

\* Only paths below a root begin with its text.
LEMMA TextOfRootLeads ==
  ASSUME MP!DigitsAssumption, NEW R, NEW P, NEW Q, Spelled(R, P, Q), NEW x \in R, P[x] # NoNode, NEW y \in R
  PROVE  ~FoundAt(Q[y], MP!Text(x), 0)
<1> DEFINE B == {z \in R : FoundAt(Q[z], MP!Text(x), 0)}
<1> SUFFICES ASSUME B # {} PROVE FALSE
  OBVIOUS
<1>1. PICK z \in B : \A w \in B : Len(Q[z]) <= Len(Q[w])
  <2>1. \A w \in R : Len(Q[w]) \in Nat
    BY LenProperties DEF Spelled
  <2>2. B \in SUBSET R
    OBVIOUS
  <2> HIDE DEF B
  <2> QED
    BY <2>1, <2>2, ShortestExists
<1>2. z \in R /\ FoundAt(Q[z], MP!Text(x), 0)
  BY <1>1
<1> DEFINE u == Above(Q, P[z])
           t == MP!Text(z)
           s == MP!Text(x)
<1>10. PathSplits(Q[z], u, t)
  BY <1>2, PathEnds
<1>3. /\ IsText(t) /\ u \in Seq(Letters) /\ Q[z] \in Seq(Letters)
      /\ \A i \in 1..Len(u) : Q[z][i] = u[i]
      /\ \A i \in 1..Len(t) : Q[z][Len(u) + i] = t[i]
  <2> HIDE DEF u, t
  <2> QED
    BY <1>10 DEF PathSplits
<1>8. Len(u) \in Nat /\ Len(t) \in Nat /\ Len(t) >= 2 /\ Len(Q[z]) = Len(u) + Len(t)
  BY <1>10 DEF PathSplits
<1>4. IsText(s) /\ Len(s) \in Nat /\ Len(s) >= 2
  BY TextIsText DEF Spelled, IsText
<1>5. Len(s) <= Len(Q[z]) /\ \A i \in 1..Len(s) : Q[z][i] = s[i]
  BY <1>2, <1>4 DEF FoundAt
<1>6. CASE P[z] = NoNode
  <2>1. Len(u) = 0
    BY <1>6 DEF Above
  <2> HIDE DEF u, s, t
  <2>2. \A i \in 1..Len(s) : t[i] = s[i]
    BY <1>3, <1>4, <1>5, <1>8, <2>1
  <2>3. Len(s) = Len(t)
    <3>1. Len(s) \in 1..Len(t) /\ t[Len(s)] = 10
      BY <1>4, <1>5, <1>8, <2>1, <2>2 DEF IsText
    <3>2. ~(Len(s) \in 1..(Len(t) - 1))
      BY <1>3, <3>1 DEF IsText
    <3> QED
      BY <1>4, <1>8, <3>1, <3>2
  <2>4. FoundAt(t, s, 0)
    BY <1>4, <1>8, <2>2, <2>3 DEF FoundAt
  <2>5. x = z
    BY <1>2, <2>3, <2>4, SameText DEF s, t, Spelled
  <2> QED
    BY <1>6, <2>5
<1>7. CASE P[z] # NoNode
  <2>1. P[z] \in R /\ u = Q[P[z]]
    BY <1>2, <1>7 DEF Spelled, Tree, Above
  <2>2. Len(u) \in Nat /\ Len(u) >= 2 /\ u[Len(u)] = 10
    <3>1. PathSplits(Q[P[z]], Above(Q, P[P[z]]), MP!Text(P[z]))
      BY <2>1, PathEnds
    <3> QED
      BY <2>1, <3>1 DEF PathSplits
  <2> HIDE DEF u, s, t
  <2>3. CASE Len(s) <= Len(u)
    <3>1. \A i \in 1..Len(s) : u[i] = s[i]
      BY <1>3, <1>4, <1>5, <1>8, <2>3
    <3>2. FoundAt(Q[P[z]], MP!Text(x), 0)
      BY <1>4, <2>1, <2>3, <3>1 DEF FoundAt, s
    <3>3. ~(Len(Q[z]) <= Len(Q[P[z]]))
      BY <1>8, <2>1
    <3> QED
      BY <1>1, <2>1, <3>2, <3>3
  <2>4. CASE ~(Len(s) <= Len(u))
    <3>1. Len(u) \in 1..(Len(s) - 1) /\ Len(u) \in 1..Len(s) /\ Len(u) \in 1..Len(u)
      BY <1>4, <2>2, <2>4
    <3>2. s[Len(u)] = 10
      BY <1>3, <1>5, <2>2, <3>1
    <3> QED
      BY <1>4, <3>1, <3>2 DEF IsText
  <2> QED
    BY <2>3, <2>4
<1> QED
  BY <1>6, <1>7

\* The path of what is below x begins with x's.
LEMMA BelowIsPrefixed ==
  ASSUME MP!DigitsAssumption, NEW R, NEW P, NEW Q, Spelled(R, P, Q), NEW x \in R, NEW y \in Below(R, P, x)
  PROVE  FoundAt(Q[y], Q[x], 0)
<1>1. GoesOn(R, P, Q, x, y)
  BY BelowIsSpelled
<1>2. PICK r : Spells(r, Below(R, P, x) \ {x}) /\ Q[y] = Q[x] \o r
  BY <1>1 DEF GoesOn
<1>3. Q[x] \in Seq(Letters) /\ r \in Seq(Letters)
  BY <1>2 DEF Spelled, Spells
<1>4. /\ Len(Q[x]) \in Nat /\ Len(r) \in Nat /\ Len(Q[x] \o r) = Len(Q[x]) + Len(r)
      /\ \A i \in 1..Len(Q[x]) + Len(r) :
           (Q[x] \o r)[i] = IF i <= Len(Q[x]) THEN Q[x][i] ELSE r[i - Len(Q[x])]
  BY <1>3, ConcatProperties, LenProperties
<1>5. \A i \in 1..Len(Q[x]) : (Q[x] \o r)[i] = Q[x][i]
  BY <1>4
<1> QED
  BY <1>2, <1>4, <1>5 DEF FoundAt

\* What is above x and is not x is not below it: paths grow on the way down.
LEMMA PathGrows ==
  ASSUME MP!DigitsAssumption, NEW R, NEW P, NEW Q, Spelled(R, P, Q), NEW x \in R, NEW y \in Below(R, P, x), y # x
  PROVE  Len(Q[x]) \in Nat /\ Len(Q[y]) \in Nat /\ Len(Q[x]) < Len(Q[y])
<1>1. P[y] \in Below(R, P, x) /\ y \in R /\ P[y] \in R /\ P[y] # NoNode
  BY BelowByParent DEF Below, Spelled
<1>2. Len(Q[x]) <= Len(Q[P[y]])
  BY <1>1, BelowIsPrefixed DEF FoundAt
<1>3. Above(Q, P[y]) = Q[P[y]]
  BY <1>1 DEF Above
<1>4. PathSplits(Q[y], Q[P[y]], MP!Text(y))
  BY <1>1, <1>3, PathEnds
<1>5. \A z \in R : Len(Q[z]) \in Nat
  BY LenProperties DEF Spelled
<1> DEFINE t == MP!Text(y)
<1> HIDE DEF t
<1>6. Len(t) \in Nat /\ Len(t) >= 2 /\ Len(Q[y]) = Len(Q[P[y]]) + Len(t)
  BY <1>4 DEF PathSplits, t
<1> QED
  BY <1>1, <1>2, <1>5, <1>6

LEMMA AboveIsNotBelow ==
  ASSUME MP!DigitsAssumption, NEW R, NEW P, NEW Q, Spelled(R, P, Q), NEW x \in R, NEW p \in R, p # x,
         x \in Below(R, P, p)
  PROVE  p \notin Below(R, P, x)
<1> SUFFICES ASSUME p \in Below(R, P, x) PROVE FALSE
  OBVIOUS
<1>1. Len(Q[p]) \in Nat /\ Len(Q[x]) \in Nat /\ Len(Q[p]) < Len(Q[x])
  BY PathGrows
<1>2. Len(Q[x]) < Len(Q[p])
  BY PathGrows
<1> QED
  BY <1>1, <1>2

\* A move: the rows whose paths begin with x's are those below x, and each path
\* is changed at its beginning.
Repathed(R, Q, old, new, W) ==
  \A y \in R : W[y] = IF MP!IsPrefix(old, Q[y]) THEN MP!Replace(Q[y], old, new) ELSE Q[y]

GoesOnAfter(Q, W, x, new, y) == \E r \in Seq(Letters) : Q[y] = Q[x] \o r /\ W[y] = new \o r

\* x is not a root, or nothing below it ends in its id.
Withstands(R, P, x) == P[x] = NoNode => \A z \in Below(R, P, x) \ {x} : ~EndsIn(z, x)

LEMMA RepathBelow ==
  ASSUME MP!DigitsAssumption, NEW R, NEW P, NEW Q, Spelled(R, P, Q), NEW x \in R, NEW new \in Seq(Letters),
         NEW W, Repathed(R, Q, Q[x], new, W), NEW y \in Below(R, P, x),
         Withstands(R, P, x)
  PROVE  GoesOnAfter(Q, W, x, new, y)
<1>1. y \in R
  BY DEF Below
<1>2. PICK r : Spells(r, Below(R, P, x) \ {x}) /\ Q[y] = Q[x] \o r
  <2>1. GoesOn(R, P, Q, x, y)
    BY BelowIsSpelled
  <2> QED
    BY <2>1 DEF GoesOn
<1>3. Q[x] \in Seq(Letters) /\ Q[y] \in Seq(Letters) /\ r \in Seq(Letters)
  BY <1>1, <1>2 DEF Spelled, Spells
<1>4. Len(Q[x]) \in Nat /\ Len(r) \in Nat
  BY <1>3, LenProperties
<1>5. MP!IsPrefix(Q[x], Q[y])
  BY <1>1, <1>3, BelowIsPrefixed, PrefixIsFound
<1>6. W[y] = MP!Replace(Q[x] \o r, Q[x], new)
  BY <1>1, <1>2, <1>5 DEF Repathed
<1> DEFINE u == Above(Q, P[x])
           t == MP!Text(x)
<1>7. PathSplits(Q[x], u, t)
  BY PathEnds
<1> HIDE DEF u
<1>8. ASSUME NEW k \in Nat PROVE ~FoundAt(r, Q[x], k)
  <2> SUFFICES ASSUME FoundAt(r, Q[x], k) PROVE FALSE
    OBVIOUS
  <2>1. k + Len(Q[x]) <= Len(r) /\ \A j \in 1..Len(Q[x]) : r[k + j] = Q[x][j]
    BY DEF FoundAt
  <2>6. Len(u) \in Nat /\ Len(Q[x]) \in Nat /\ Len(u) <= Len(Q[x])
    <3> HIDE DEF t
    <3> QED
      BY <1>7 DEF PathSplits
  <2>7. \/ \A z \in Below(R, P, x) \ {x} : ~EndsIn(z, x)
        \/ k + Len(u) \in 1..Len(r) /\ r[k + Len(u)] = 10
    <3>1. CASE P[x] = NoNode
      BY <3>1 DEF Withstands
    <3>2. CASE P[x] # NoNode
      <4>1. Len(u) > 0 /\ u = Q[P[x]]
        <5>1. P[x] \in R /\ u = Q[P[x]]
          BY <3>2 DEF Above, Spelled, Tree, u
        <5> QED
          BY <5>1, PathEndsInDot
      <4>2. u[Len(u)] = 10 /\ Q[x][Len(u)] = u[Len(u)]
        <5>1. Len(u) \in 1..Len(u)
          BY <2>6, <4>1
        <5> HIDE DEF t
        <5> QED
          BY <1>7, <4>1, <5>1 DEF PathSplits
      <4>3. Len(u) \in 1..Len(Q[x]) /\ k + Len(u) \in 1..Len(r)
        BY <1>4, <2>1, <2>6, <4>1
      <4> QED
        BY <2>1, <4>2, <4>3
    <3> QED
      BY <3>1, <3>2
  <2>2. ~FoundAt(r, t, k + Len(u))
    <3>1. /\ Below(R, P, x) \ {x} \subseteq Nodes["materialized-path"]
          /\ x \in Nodes["materialized-path"] /\ x \notin Below(R, P, x) \ {x}
      BY DEF Spelled, Below
    <3>2. k + Len(u) \in Nat
      BY <2>6
    <3> QED
      BY <1>2, <2>7, <3>1, <3>2, SpelledByItsOwn
  <2> HIDE DEF t
  <2>3. /\ Len(u) \in Nat /\ Len(t) \in Nat /\ Len(Q[x]) = Len(u) + Len(t)
        /\ \A i \in 1..Len(t) : Q[x][Len(u) + i] = t[i]
    BY <1>7 DEF PathSplits
  <2>4. ASSUME NEW j \in 1..Len(t) PROVE r[k + Len(u) + j] = t[j]
    <3>1. Len(u) + j \in 1..Len(Q[x]) /\ k + (Len(u) + j) = k + Len(u) + j
      BY <2>3
    <3>2. r[k + (Len(u) + j)] = Q[x][Len(u) + j]
      BY <2>1, <3>1
    <3> QED
      BY <2>3, <3>1, <3>2
  <2>5. k + Len(u) + Len(t) <= Len(r)
    BY <1>4, <2>1, <2>3
  <2> QED
    BY <2>2, <2>4, <2>5 DEF FoundAt
<1>9. Len(Q[x]) >= 1
  <2> HIDE DEF t
  <2> QED
    BY <1>7 DEF PathSplits
<1>10. MP!Replace(Q[x] \o r, Q[x], new) = new \o r
  BY <1>3, <1>8, <1>9, ReplaceOnce
<1> QED
  BY <1>2, <1>3, <1>6, <1>10 DEF GoesOnAfter

LEMMA MoveIsSpelled ==
  ASSUME MP!DigitsAssumption, NEW R, NEW P, NEW Q, Spelled(R, P, Q), NEW x \in R,
         NEW p \in R \cup {NoNode}, p \notin Below(R, P, x), NEW P2, Moved(R, P, P2, x, p),
         NEW W, Repathed(R, Q, Q[x], Above(Q, p) \o MP!Text(x), W),
         Withstands(R, P, x)
  PROVE  Spelled(R, P2, W)
<1> DEFINE new == Above(Q, p) \o MP!Text(x)
           D == Below(R, P, x)
<1>1. /\ R \subseteq Nodes["materialized-path"] /\ NoNode \notin R
      /\ \A z \in R : /\ P[z] \in R \cup {NoNode}
                      /\ Q[z] \in Seq(Letters) /\ Q[z] = Above(Q, P[z]) \o MP!Text(z)
      /\ x \in D /\ D \subseteq R /\ P2[x] = p /\ \A z \in R \ {x} : P2[z] = P[z]
  BY BelowItself DEF Spelled, Tree, Moved, Below
<1>2. \A z \in R : MP!Text(z) \in Seq(Letters)
  BY <1>1, TextIsText DEF IsText
<1>3. new \in Seq(Letters)
  <2>1. Above(Q, p) \in Seq(Letters)
    BY <1>1 DEF Above
  <2> QED
    BY <1>2, <2>1, ConcatProperties
<1>4. ASSUME NEW y \in R, y \notin D PROVE W[y] = Q[y]
  <2>1. ~MP!IsPrefix(Q[x], Q[y])
    BY <1>1, <1>4, PrefixIsFound, PrefixIsBelow
  <2> QED
    BY <2>1 DEF Repathed
<1>11. Repathed(R, Q, Q[x], new, W)
  OBVIOUS
<1> HIDE DEF new
<1>5. ASSUME NEW y \in D PROVE GoesOnAfter(Q, W, x, new, y)
  BY <1>3, <1>11, RepathBelow
<1>6. ASSUME NEW r \in Seq(Letters), NEW s \in Seq(Letters), Q[x] \o r = Q[x] \o s PROVE r = s
  <2>1. Q[x] \in Seq(Letters)
    BY <1>1
  <2> QED
    BY <1>6, <2>1, JoinedAlike
<1>7. W[x] = Above(W, P2[x]) \o MP!Text(x) /\ W[x] \in Seq(Letters)
  <2>1. PICK r \in Seq(Letters) : Q[x] = Q[x] \o r /\ W[x] = new \o r
    BY <1>1, <1>5 DEF GoesOnAfter
  <2>2. Q[x] = Q[x] \o <<>> /\ new \o <<>> = new
    BY <1>1, <1>3, ConcatEmptySeq
  <2>3. <<>> \in Seq(Letters)
    OBVIOUS
  <2>4. r = <<>>
    BY <1>6, <2>1, <2>2, <2>3
  <2>5. W[x] = new
    BY <2>1, <2>2, <2>4
  <2>6. Above(W, P2[x]) = Above(Q, p)
    BY <1>1, <1>4 DEF Above
  <2> QED
    BY <1>3, <2>5, <2>6 DEF new
<1>8. ASSUME NEW y \in D, y # x PROVE W[y] = Above(W, P2[y]) \o MP!Text(y) /\ W[y] \in Seq(Letters)
  <2>1. P[y] \in D /\ y \in R /\ P[y] \in R
    BY <1>1, <1>8, BelowByParent
  <2>2. P2[y] = P[y] /\ Above(W, P2[y]) = W[P[y]] /\ Above(Q, P[y]) = Q[P[y]]
    BY <1>1, <1>8, <2>1 DEF Above
  <2>3. PICK r \in Seq(Letters) : Q[y] = Q[x] \o r /\ W[y] = new \o r
    BY <1>5 DEF GoesOnAfter
  <2>4. PICK s \in Seq(Letters) : Q[P[y]] = Q[x] \o s /\ W[P[y]] = new \o s
    BY <1>5, <2>1 DEF GoesOnAfter
  <2> DEFINE t == MP!Text(y)
  <2>5. t \in Seq(Letters) /\ Q[y] = Q[P[y]] \o t
    BY <1>1, <1>2, <2>1, <2>2
  <2> HIDE DEF t
  <2>6. \A q, a \in Seq(Letters) : q \o a \in Seq(Letters)
    BY ConcatProperties
  <2>7. Q[x] \in Seq(Letters) /\ s \o t \in Seq(Letters)
    BY <1>1, <2>5, <2>6
  <2>8. Q[y] = Q[x] \o (s \o t)
    <3>1. Q[y] = (Q[x] \o s) \o t
      BY <2>4, <2>5
    <3>2. Q[x] \in Seq(Letters) /\ s \in Seq(Letters) /\ t \in Seq(Letters)
      BY <2>5, <2>7
    <3>3. (Q[x] \o s) \o t = Q[x] \o (s \o t)
      BY <3>2, JoinRegroups
    <3> QED
      BY <3>1, <3>3
  <2>9. r = s \o t
    BY <1>6, <2>3, <2>7, <2>8
  <2>10. new \o (s \o t) = (new \o s) \o t
    BY <1>3, <2>5, JoinRegroups
  <2>11. W[y] = W[P[y]] \o t
    BY <2>3, <2>4, <2>9, <2>10
  <2>12. W[y] \in Seq(Letters)
    BY <1>3, <2>3, <2>6
  <2> QED
    BY <2>2, <2>11, <2>12 DEF t
<1>9. ASSUME NEW y \in R, y \notin D PROVE W[y] = Above(W, P2[y]) \o MP!Text(y) /\ W[y] \in Seq(Letters)
  <2>1. P[y] \notin D
    BY <1>9, BelowIsClosed
  <2>2. P2[y] = P[y] /\ Above(W, P[y]) = Above(Q, P[y])
    BY <1>1, <1>4, <1>9, <2>1 DEF Above
  <2>3. W[y] = Q[y]
    BY <1>4, <1>9
  <2> QED
    BY <1>1, <2>2, <2>3
<1>10. Tree(R, P2)
  BY <1>1 DEF Moved, Tree
<1> QED
  BY <1>1, <1>7, <1>8, <1>9, <1>10 DEF Spelled

-----------------------------------------------------------------------------
(***************************************************************************)
(* The inductive invariant of a materialized path is that the paths spell  *)
(* the tree: it says where the ids are in a path, so that REPLACE finds    *)
(* x's path in the rows below x and in no other, and there once: behind    *)
(* a dot x's id is in it once, and the path of a root is found once if     *)
(* nothing below it ends in its id.                                        *)
(***************************************************************************)
PathsWithstood == {"toDescendant", "ending"} \cap Usage["materialized-path"] = {}

MaterializedPathInv ==
  treeType = "materialized-path" => MP!TypeOK /\ Spelled(rows, parent, mpath)

LEMMA DescendantsOfMaterializedPath == \A x : MP!Descendants(x) = Below(rows, parent, x)
BY DEF MP!Descendants, Below, ClosedUnderChildren

LEMMA MaterializedPathTypes ==
  ASSUME MP!TypeOK, NoNode \notin Nodes["materialized-path"]
  PROVE  /\ rows \subseteq Nodes["materialized-path"] /\ NoNode \notin rows /\ Tree(rows, parent)
         /\ parent \in [Nodes["materialized-path"] -> Nodes["materialized-path"] \cup {NoNode}]
         /\ mpath \in [Nodes["materialized-path"] -> Seq(Letters)]
BY DEF MP!TypeOK, MP!TreeTypeOK, MP!Dot, Letters, Tree

\* REPLACE gives text again; nobody's path is something else.
LEMMA SpelledTypes ==
  ASSUME MP!TypeOK, NoNode \notin Nodes["materialized-path"], MP!TreeTypeOK',
         Spelled(rows', parent', mpath'),
         DOMAIN mpath' = Nodes["materialized-path"], mpath' = [y \in Nodes["materialized-path"] |-> mpath'[y]],
         \A y \in Nodes["materialized-path"] \ rows' : mpath'[y] \in Seq(Letters)
  PROVE  MP!TypeOK'
<1>1. \A y \in Nodes["materialized-path"] : mpath'[y] \in Seq(Letters)
  BY DEF Spelled
<1>2. mpath' \in [Nodes["materialized-path"] -> Seq(Letters)]
  BY <1>1
<1> QED
  BY <1>2 DEF MP!TypeOK, MP!Dot, Letters

LEMMA PathInserted ==
  ASSUME MP!DigitsAssumption, MP!TypeOK, NoNode \notin Nodes["materialized-path"], Spelled(rows, parent, mpath),
         NEW x \in Nodes["materialized-path"], NEW p, MP!insert(x, p)
  PROVE  MP!TypeOK' /\ Spelled(rows', parent', mpath')
<1>1. /\ rows \subseteq Nodes["materialized-path"] /\ NoNode \notin rows /\ Tree(rows, parent)
      /\ parent \in [Nodes["materialized-path"] -> Nodes["materialized-path"] \cup {NoNode}]
      /\ mpath \in [Nodes["materialized-path"] -> Seq(Letters)]
  BY MaterializedPathTypes
<1>2. /\ x \notin rows /\ p \in rows \cup {NoNode} /\ x # p
      /\ rows' = rows \cup {x} /\ parent' = [parent EXCEPT ![x] = p]
      /\ mpath' = [mpath EXCEPT ![x] = Above(mpath, p) \o MP!Text(x)]
  BY DEF MP!insert, MP!Insertable, MP!InsertRow, MP!PathOf, Above
<1>3. Above(mpath, p) \o MP!Text(x) \in Seq(Letters)
  <2>1. MP!Text(x) \in Seq(Letters)
    BY TextIsText DEF IsText
  <2>2. CASE p = NoNode
    <3>1. Above(mpath, p) = <<>> /\ <<>> \in Seq(Letters)
      BY <2>2 DEF Above
    <3> QED
      BY <2>1, <3>1, ConcatProperties
  <2>3. CASE p # NoNode
    <3>1. Above(mpath, p) = mpath[p] /\ mpath[p] \in Seq(Letters)
      BY <1>1, <1>2, <2>3 DEF Above
    <3> QED
      BY <2>1, <3>1, ConcatProperties
  <2> QED
    BY <2>2, <2>3
<1>4. mpath' \in [Nodes["materialized-path"] -> Seq(Letters)]
  BY <1>1, <1>2, <1>3
<1>5. ASSUME NEW z \in rows' PROVE mpath'[z] = Above(mpath', parent'[z]) \o MP!Text(z)
  <2>1. CASE z = x
    <3>1. Above(mpath', p) = Above(mpath, p)
      BY <1>1, <1>2 DEF Above
    <3> QED
      BY <1>1, <1>2, <2>1, <3>1
  <2>2. CASE z # x
    <3>1. z \in rows /\ parent'[z] = parent[z] /\ mpath'[z] = mpath[z] /\ parent[z] \in rows \cup {NoNode}
      BY <1>1, <1>2, <2>2 DEF Tree
    <3>2. Above(mpath', parent[z]) = Above(mpath, parent[z])
      BY <1>1, <1>2, <3>1 DEF Above
    <3> QED
      BY <3>1, <3>2 DEF Spelled
  <2> QED
    BY <2>1, <2>2
<1>6. MP!TreeTypeOK' /\ Tree(rows', parent')
  BY <1>1, <1>2 DEF MP!TreeTypeOK, Tree
<1>7. Spelled(rows', parent', mpath')
  BY <1>1, <1>2, <1>4, <1>5, <1>6 DEF Spelled
<1> QED
  BY <1>4, <1>6, <1>7 DEF MP!TypeOK, MP!Dot, Letters

LEMMA PathMoved ==
  ASSUME MP!DigitsAssumption, MP!TypeOK, NoNode \notin Nodes["materialized-path"], Spelled(rows, parent, mpath),
         NEW x \in rows, NEW p \in rows \cup {NoNode}, p \notin MP!Descendants(x), MP!UpdateParent(x, p),
         MP!Repath(MP!PathOf(parent[x]) \o MP!Text(x), MP!PathOf(p) \o MP!Text(x)),
         Withstands(rows, parent, x)
  PROVE  MP!TypeOK' /\ Spelled(rows', parent', mpath')
<1>1. /\ rows \subseteq Nodes["materialized-path"] /\ NoNode \notin rows /\ Tree(rows, parent)
      /\ parent \in [Nodes["materialized-path"] -> Nodes["materialized-path"] \cup {NoNode}]
      /\ mpath \in [Nodes["materialized-path"] -> Seq(Letters)]
  BY MaterializedPathTypes
<1>2. rows' = rows /\ parent' = [parent EXCEPT ![x] = p] /\ Moved(rows, parent, parent', x, p)
  BY <1>1 DEF MP!UpdateParent, Moved
<1> DEFINE new == Above(mpath, p) \o MP!Text(x)
<1>3. MP!PathOf(parent[x]) \o MP!Text(x) = mpath[x] /\ MP!PathOf(p) \o MP!Text(x) = new
  BY DEF MP!PathOf, Above, Spelled
<1>4. mpath' = [y \in Nodes["materialized-path"] |->
                  IF y \in rows /\ MP!IsPrefix(mpath[x], mpath[y])
                  THEN MP!Replace(mpath[y], mpath[x], new) ELSE mpath[y]]
  BY <1>3 DEF MP!Repath
<1>5. Repathed(rows, mpath, mpath[x], new, mpath')
  <2> HIDE DEF new
  <2> QED
    BY <1>1, <1>4 DEF Repathed
<1>6. Spelled(rows', parent', mpath')
  BY <1>2, <1>5, DescendantsOfMaterializedPath, MoveIsSpelled
<1>7. MP!TreeTypeOK'
  BY <1>1, <1>2 DEF MP!TreeTypeOK, Tree
<1>8. \A y \in Nodes["materialized-path"] \ rows' : mpath'[y] \in Seq(Letters)
  <2> HIDE DEF new
  <2> QED
    BY <1>1, <1>2, <1>4
<1>9. DOMAIN mpath' = Nodes["materialized-path"] /\ mpath' = [y \in Nodes["materialized-path"] |-> mpath'[y]]
  <2> HIDE DEF new
  <2> QED
    BY <1>4
<1> QED
  BY <1>6, <1>7, <1>8, <1>9, SpelledTypes

\* The executor looks for paths that begin with the text of x; x is no root.
LEMMA PathRenamed ==
  ASSUME MP!DigitsAssumption, MP!TypeOK, NoNode \notin Nodes["materialized-path"], Spelled(rows, parent, mpath),
         NEW x \in Nodes["materialized-path"], MP!RenameThroughParent(x)
  PROVE  UNCHANGED <<rows, parent, mpath>>
<1>1. x \in rows /\ parent[x] # NoNode /\ rows' = rows /\ parent' = parent
  BY DEF MP!RenameThroughParent, MP!RenamedThroughParent, MP!tree
<1>2. ASSUME NEW y \in rows PROVE ~MP!IsPrefix(MP!Text(x), mpath[y])
  <2>1. mpath[y] \in Seq(Letters) /\ MP!Text(x) \in Seq(Letters)
    BY TextIsText DEF Spelled, IsText
  <2>2. ~FoundAt(mpath[y], MP!Text(x), 0)
    BY <1>1, TextOfRootLeads
  <2> QED
    BY <2>1, <2>2, PrefixIsFound
<1>3. mpath' = [y \in Nodes["materialized-path"] |-> mpath[y]]
  BY <1>2 DEF MP!RenameThroughParent, MP!Repath
<1> QED
  BY <1>1, <1>3 DEF MP!TypeOK

LEMMA PathRemoved ==
  ASSUME MP!TypeOK, NoNode \notin Nodes["materialized-path"], Spelled(rows, parent, mpath),
         NEW S, MP!remove(S)
  PROVE  MP!TypeOK' /\ Spelled(rows', parent', mpath')
<1>1. /\ rows \subseteq Nodes["materialized-path"] /\ NoNode \notin rows /\ Tree(rows, parent)
      /\ parent \in [Nodes["materialized-path"] -> Nodes["materialized-path"] \cup {NoNode}]
      /\ mpath \in [Nodes["materialized-path"] -> Seq(Letters)]
  BY MaterializedPathTypes
<1>2. /\ S \subseteq rows /\ MP!Deletable(S) /\ rows' = rows \ MP!Doomed(S)
      /\ parent' = [x \in Nodes["materialized-path"] |-> IF x \in rows' THEN parent[x] ELSE NoNode]
      /\ mpath' = [y \in Nodes["materialized-path"] |-> IF y \in rows' THEN mpath[y] ELSE <<>>]
  BY DEF MP!remove, MP!DeleteRows, MP!Removable
<1>3. ASSUME NEW z \in rows' PROVE parent[z] \in rows' \cup {NoNode}
  <2>1. CASE Cascade["materialized-path"]
    <3>1. MP!Doomed(S) = UNION {Below(rows, parent, x) : x \in S}
      BY <2>1, DescendantsOfMaterializedPath DEF MP!Doomed
    <3>2. \A x \in S : parent[z] \notin Below(rows, parent, x)
      BY <1>2, <3>1, BelowIsClosed
    <3> QED
      BY <1>1, <1>2, <3>1, <3>2 DEF Tree
  <2>2. CASE ~Cascade["materialized-path"]
    BY <1>1, <1>2, <2>2 DEF MP!Doomed, MP!Deletable, Tree
  <2> QED
    BY <2>1, <2>2
<1>4. mpath' \in [Nodes["materialized-path"] -> Seq(Letters)]
  <2>1. <<>> \in Seq(Letters)
    OBVIOUS
  <2> QED
    BY <1>1, <1>2, <2>1
<1>5. ASSUME NEW z \in rows' PROVE mpath'[z] = Above(mpath', parent'[z]) \o MP!Text(z)
  <2>1. z \in rows /\ parent'[z] = parent[z] /\ mpath'[z] = mpath[z]
    BY <1>1, <1>2
  <2>2. Above(mpath', parent[z]) = Above(mpath, parent[z])
    BY <1>1, <1>2, <1>3 DEF Above
  <2> QED
    BY <2>1, <2>2 DEF Spelled
<1>6. MP!TreeTypeOK' /\ Tree(rows', parent')
  BY <1>1, <1>2, <1>3 DEF MP!TreeTypeOK, Tree
<1> QED
  BY <1>1, <1>2, <1>4, <1>5, <1>6 DEF Spelled, MP!TypeOK, MP!Dot, Letters

LEMMA MaterializedPathInit == Init => TypesInv /\ MaterializedPathInv
<1> SUFFICES ASSUME Init PROVE TypesInv /\ MaterializedPathInv
  OBVIOUS
<1>1. TypesInv
  BY DEF Init, TypesInv
<1>2. ASSUME treeType = "materialized-path" PROVE MP!TypeOK /\ Spelled(rows, parent, mpath)
  <2>1. /\ rows = {} /\ parent = [x \in Nodes["materialized-path"] |-> NoNode]
        /\ mpath = [x \in Nodes["materialized-path"] |-> <<>>]
    BY <1>2 DEF Init, MP!Init, MP!TreeInit
  <2>2. <<>> \in Seq(Letters)
    OBVIOUS
  <2>3. mpath \in [Nodes["materialized-path"] -> Seq(Letters)]
    BY <2>1, <2>2
  <2> QED
    BY <2>1, <2>3 DEF MP!TypeOK, MP!TreeTypeOK, MP!Dot, Letters, Spelled, Tree
<1> QED
  BY <1>1, <1>2 DEF MaterializedPathInv

LEMMA MaterializedPathNext ==
  ASSUME PathsWithstood, TypesInv, MaterializedPathInv, [Next]_vars
  PROVE  TypesInv' /\ MaterializedPathInv'
<1>1. TypesInv'
  BY DEF TypesInv, Next, NestedSetStep, ClosureTableStep, MaterializedPathStep, vars
<1> SUFFICES ASSUME treeType = "materialized-path"
             PROVE  treeType' = "materialized-path" => MP!TypeOK' /\ Spelled(rows', parent', mpath')
  BY <1>1 DEF MaterializedPathInv, Next, NestedSetStep, ClosureTableStep, MaterializedPathStep, vars
<1>2. /\ MP!TypeOK /\ Spelled(rows, parent, mpath) /\ NoNode \notin Nodes["materialized-path"]
      /\ MP!DigitsAssumption
      /\ "toDescendant" \notin Usage["materialized-path"] /\ "ending" \notin Usage["materialized-path"]
  BY TreeRepositoryAssumption DEF MaterializedPathInv, PathsWithstood, TypesInv, MP!TreeAssumption
<1>3. CASE UNCHANGED vars
  BY <1>2, <1>3 DEF vars, MP!TypeOK, MP!TreeTypeOK
<1>4. ASSUME NEW x \in Nodes["materialized-path"], NEW p \in Nodes["materialized-path"] \cup {NoNode},
             MP!insert(x, p)
      PROVE  MP!TypeOK' /\ Spelled(rows', parent', mpath')
  BY <1>2, <1>4, PathInserted
<1>5. ASSUME NEW x \in Nodes["materialized-path"], NEW p \in Nodes["materialized-path"] \cup {NoNode},
             MP!update(x, p)
      PROVE  MP!TypeOK' /\ Spelled(rows', parent', mpath')
  <2>1. /\ MP!Movable(x, p) /\ MP!UpdateParent(x, p)
        /\ MP!Repath(MP!PathOf(parent[x]) \o MP!Text(x), MP!PathOf(p) \o MP!Text(x))
        /\ parent[x] # NoNode \/ MP!NoneEndsIn(x)
    BY <1>2, <1>5 DEF MP!update
  <2>2. /\ x \in rows
        /\ \/ p = NoNode
           \/ p \in rows /\ p \notin MP!Descendants(x)
           \/ p \in MP!Ancestors(x) \ {x}
    BY <1>2, <2>1 DEF MP!Movable
  <2>3. p \in rows \cup {NoNode}
    BY <2>2 DEF MP!Ancestors
  <2>4. p \notin MP!Descendants(x)
    <3>1. CASE p = NoNode
      BY <1>2, <3>1, MaterializedPathTypes DEF MP!Descendants
    <3>2. CASE p \in MP!Ancestors(x) \ {x}
      <4>1. p \in rows /\ p # x /\ x \in Below(rows, parent, p)
        BY <3>2, DescendantsOfMaterializedPath DEF MP!Ancestors
      <4> QED
        BY <1>2, <2>2, <4>1, AboveIsNotBelow, DescendantsOfMaterializedPath
    <3> QED
      BY <2>2, <3>1, <3>2
  <2>5. Withstands(rows, parent, x)
    <3> SUFFICES ASSUME parent[x] = NoNode, NEW z \in Below(rows, parent, x) \ {x}, EndsIn(z, x)
                 PROVE  FALSE
      BY DEF Withstands
    <3>1. ~MP!IsSuffix(MP!Text(x), MP!Text(z))
      BY <2>1, DescendantsOfMaterializedPath DEF MP!NoneEndsIn
    <3>2. z \in Nodes["materialized-path"] /\ x \in Nodes["materialized-path"]
      BY <1>2 DEF Below, Spelled
    <3>3. MP!Text(x) \in Seq(Letters) /\ MP!Text(z) \in Seq(Letters)
      BY <1>2, <3>2, TextIsText DEF IsText
    <3> QED
      BY <3>1, <3>3, SuffixIsFound DEF EndsIn
  <2> QED
    BY <1>2, <2>1, <2>2, <2>3, <2>4, <2>5, PathMoved
<1>6. ASSUME NEW x \in Nodes["materialized-path"], MP!RenameThroughParent(x)
      PROVE  MP!TypeOK' /\ Spelled(rows', parent', mpath')
  BY <1>2, <1>6, PathRenamed DEF MP!TypeOK, MP!TreeTypeOK
<1>7. ASSUME NEW S, MP!remove(S)
      PROVE  MP!TypeOK' /\ Spelled(rows', parent', mpath')
  BY <1>2, <1>7, PathRemoved
<1> QED
  BY <1>3, <1>4, <1>5, <1>6, <1>7
  DEF Next, NestedSetStep, ClosureTableStep, MaterializedPathStep, vars, MP!Next

\* A materialized path holds the ids on the way down, and nobody is below itself,
\* whatever callers insert, move and remove but moves below the node itself and
\* moves of a root above an id that ends in its own.
THEOREM MaterializedPathIsSpelled ==
  ASSUME PathsWithstood
  PROVE  Spec => []MaterializedPathInv
<1>1. TypesInv /\ MaterializedPathInv /\ UNCHANGED vars => TypesInv' /\ MaterializedPathInv'
  BY MaterializedPathNext
<1> QED
  BY MaterializedPathInit, MaterializedPathNext, PTL DEF Spec

\* A path is always the parent's and the node's own id, so that the next move of
\* an ancestor finds it.
THEOREM PathsAlwaysSpellTheTree ==
  ASSUME PathsWithstood
  PROVE  Spec => []PathsSpellTheTree
<1>1. MaterializedPathInv => PathsSpellTheTree
  BY DEF MaterializedPathInv, PathsSpellTheTree, MP!PathsSpellTheTree, MP!PathOf, Spelled, Above
<1> QED
  BY <1>1, MaterializedPathIsSpelled, PTL

LEMMA PathsFindTheFamily ==
  ASSUME TypesInv, MaterializedPathInv, treeType = "materialized-path", NEW x \in rows
  PROVE  FindDescendants(x) = Descendants(x)
<1>1. MP!DigitsAssumption /\ Spelled(rows, parent, mpath)
  BY TreeRepositoryAssumption DEF MaterializedPathInv, TypesInv
<1>2. ASSUME NEW y \in rows PROVE MP!IsPrefix(mpath[x], mpath[y]) <=> y \in Below(rows, parent, x)
  <2>1. mpath[x] \in Seq(Letters) /\ mpath[y] \in Seq(Letters)
    BY <1>1 DEF Spelled
  <2>2. MP!IsPrefix(mpath[x], mpath[y]) <=> FoundAt(mpath[y], mpath[x], 0)
    BY <2>1, PrefixIsFound
  <2>3. ASSUME FoundAt(mpath[y], mpath[x], 0) PROVE y \in Below(rows, parent, x)
    BY <1>1, <2>3, PrefixIsBelow
  <2>4. ASSUME y \in Below(rows, parent, x) PROVE FoundAt(mpath[y], mpath[x], 0)
    BY <1>1, <2>4, BelowIsPrefixed
  <2> QED
    BY <2>2, <2>3, <2>4
<1> QED
  BY <1>2, DescendantsOfMaterializedPath DEF FindDescendants, Descendants, MP!FindDescendants, Below

\* findDescendants and findAncestors give what the parent columns say, whatever
\* the tree's type.
THEOREM AlwaysFindsTheFamily ==
  ASSUME UsageWithstood, PathsWithstood
  PROVE  Spec => []FindsTheFamily
<1>1. TypesInv /\ MaterializedPathInv => (treeType = "materialized-path" => FindsTheFamily)
  BY PathsFindTheFamily DEF FindsTheFamily
<1>2. TypesInv => treeType \in {"nested-set", "closure-table", "materialized-path"}
  BY TreeRepositoryAssumption DEF TypesInv
<1>3. Spec => []TypesInv
  <2>1. Init => TypesInv
    BY NestedSetInit
  <2>2. TypesInv /\ [Next]_vars => TypesInv'
    BY DEF TypesInv, Next, NestedSetStep, ClosureTableStep, MaterializedPathStep, vars
  <2> QED
    BY <2>1, <2>2, PTL DEF Spec
<1>4. Spec => [](treeType = "nested-set" => FindsTheFamily)
  BY NestedSetFindsTheFamily
<1>5. Spec => [](treeType = "closure-table" => FindsTheFamily)
  BY ClosureTableFindsTheFamily
<1>6. Spec => []MaterializedPathInv
  BY MaterializedPathIsSpelled
<1>7. /\ treeType \in {"nested-set", "closure-table", "materialized-path"}
      /\ (treeType = "nested-set" => FindsTheFamily)
      /\ (treeType = "closure-table" => FindsTheFamily)
      /\ (treeType = "materialized-path" => FindsTheFamily)
      => FindsTheFamily
  OBVIOUS
<1> QED
  BY <1>1, <1>2, <1>3, <1>4, <1>5, <1>6, <1>7, PTL
===============================================================================
