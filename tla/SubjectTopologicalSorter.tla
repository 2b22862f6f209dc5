----------------------- MODULE SubjectTopologicalSorter -----------------------
(***************************************************************************)
(* SubjectTopologicalSorter: the order of insertions and removals, worked  *)
(* out from the relations between the kinds of entity, not from those      *)
(* between the entities.  An edge leads from the kind with the join column *)
(* to the kind it refers to.                                               *)
(***************************************************************************)
EXTENDS Naturals, Sequences, SequencesExt, FiniteSets, Lists

UniqueNodes(edges) == Distinct(FlattenSeq(edges))

\* Depth first, the last edge first; a node comes before all it leads to.  The
\* recursion of the code is a stack here, of nodes to enter and nodes to be done with.
Enter(node) == [node |-> node, done |-> FALSE]
Visit(work, step) ==
  LET top == Head(work.stack)
      rest == [work EXCEPT !.stack = Tail(@)]
      outgoing == Reverse(Picked(work.edges, {i \in DOMAIN work.edges : work.edges[i][1] = top.node}))
  IN IF work.stack = <<>> THEN work
     ELSE IF Contains(work.sorted, top.node) THEN rest
     ELSE IF top.done THEN [rest EXCEPT !.sorted = <<top.node>> \o @]
     ELSE [rest EXCEPT !.stack = [i \in DOMAIN outgoing |-> Enter(outgoing[i][2])]
                                 \o <<[top EXCEPT !.done = TRUE]>> \o @]

\* A node is entered from the list or by an edge, and done with once.
Toposort(edges) ==
  LET nodes == Reverse(UniqueNodes(edges))
      begin == [edges |-> edges, sorted |-> <<>>, stack |-> [i \in DOMAIN nodes |-> Enter(nodes[i])]]
  IN FoldLeft(Visit, begin, nodes \o nodes \o edges).sorted

\* "Cyclic dependency": some nodes all lead to one another.
Cyclic(edges) ==
  \E nodes \in SUBSET {edges[i][1] : i \in DOMAIN edges} :
    /\ nodes # {}
    /\ \A n \in nodes : \E i \in DOMAIN edges : edges[i][1] = n /\ edges[i][2] \in nodes

Owning(r) == r.type \in {"manyToOne", "oneToOne"}
KindsOf(subjects) == {subjects[i].kind : i \in DOMAIN subjects}
Edges(relations, Depends(_)) ==
  LET depending == Picked(relations, {i \in DOMAIN relations : Depends(relations[i])})
  IN [i \in DOMAIN depending |-> <<depending[i].kind, depending[i].to>>]

NonNullableDependencies(relations, kinds) ==
  Edges(relations, LAMBDA r : Owning(r) /\ r.kind \in kinds /\ ~r.nullable)
Dependencies(relations, kinds) ==
  Edges(relations, LAMBDA r : Owning(r) /\ r.kind \in kinds /\ r.to # r.kind)

Unsortable(relations, subjects) ==
  \/ Cyclic(NonNullableDependencies(relations, KindsOf(subjects)))
  \/ Cyclic(Dependencies(relations, KindsOf(subjects)))

\* The subjects of the kinds in their order, and then the rest.
ByKind(subjects, order) ==
  LET kinds == Distinct(order)
      of(kind) == Picked(subjects, {i \in DOMAIN subjects : subjects[i].kind = kind})
  IN FlattenSeq([k \in DOMAIN kinds |-> of(kinds[k])])
     \o Picked(subjects, {i \in DOMAIN subjects : ~Contains(kinds, subjects[i].kind)})

\* Mutant: what an entity refers to is inserted after it.
SortUnreversed(relations, subjects, direction) ==
  ByKind(subjects, Toposort(NonNullableDependencies(relations, KindsOf(subjects)))
                   \o Toposort(Dependencies(relations, KindsOf(subjects))))

\* Subjects of just an identifier go first when removing; then come those of the
\* kinds with relations that must not be null, those of the others, and the rest.
Sort(relations, subjects, direction) ==
  LET kinds == KindsOf(subjects)
      first == {i \in DOMAIN subjects : /\ direction = "delete"
                                        /\ subjects[i].object = "" /\ subjects[i].before = <<>>}
      turn(order) == IF direction = "insert" THEN Reverse(order) ELSE order
  IN Picked(subjects, first)
     \o ByKind(Picked(subjects, DOMAIN subjects \ first),
               turn(Toposort(NonNullableDependencies(relations, kinds)))
               \o turn(Toposort(Dependencies(relations, kinds))))
===============================================================================
