-------------------------- MODULE PersistenceSubjects --------------------------
(***************************************************************************)
(* How a save, remove, softRemove or recover is worked out before its      *)
(* transaction: the subjects (CascadesSubjectBuilder), the rows they have  *)
(* (SubjectDatabaseEntityLoader), the changes their relations ask for      *)
(* (OneToMany-, OneToOneInverseSide- and ManyToManySubjectBuilder), and    *)
(* what else differs (SubjectChangedColumnsComputer).                      *)
(*                                                                         *)
(*   m      the metadata: m.relations, in their order, and m.kindOf        *)
(*   graph  the objects: [id, value, rel], rel giving per relation whether *)
(*          the property is defined and the objects in it, none for null   *)
(*   db     [rows, links]: the rows of the entities, refs being their join *)
(*          columns, and those of the junction tables                      *)
(* Identifiers are numbers, and 0 is undefined; "" is no object.           *)
(***************************************************************************)
EXTENDS Naturals, Sequences, SequencesExt, FiniteSets, FiniteSetsExt, Lists

Relation(m, name) == m.relations[CHOOSE i \in DOMAIN m.relations : m.relations[i].name = name]
Relations(m, kind, types) == {r \in ToSet(m.relations) : r.kind = kind /\ r.type \in types}
RelationsOf(m, kind, types) ==
  Picked(m.relations, {i \in DOMAIN m.relations : m.relations[i] \in Relations(m, kind, types)})
OwningTypes == {"manyToOne", "oneToOne"}
ManyToManyTypes == {"manyToMany", "manyToManyInverse"}
AllTypes == OwningTypes \union ManyToManyTypes \union {"oneToMany", "oneToOneInverse"}

Row(db, kind, id) == CHOOSE row \in db.rows : row.kind = kind /\ row.id = id
Stored(db, kind, id) == \E row \in db.rows : row.kind = kind /\ row.id = id

(***************************************************************************)
(* A subject: an object with what it may do, or only an identifier.        *)
(***************************************************************************)
Subject(kind, object, ids) ==
  [kind |-> kind, object |-> object, ids |-> ids, before |-> <<>>, loaded |-> FALSE,
   canBeInserted |-> FALSE, canBeUpdated |-> FALSE, mustBeRemoved |-> FALSE,
   canBeSoftRemoved |-> FALSE, canBeRecovered |-> FALSE, changes |-> <<>>, inserted |-> FALSE]
IdsOf(graph, o) == IF graph[o].id = 0 THEN <<>> ELSE <<graph[o].id>>

Found(s) == s.before # <<>>
MustBeInserted(s) == s.canBeInserted /\ ~Found(s)
Known(s) == s.ids # <<>> /\ (s.loaded => Found(s))
MustBeUpdated(s) == s.canBeUpdated /\ Known(s) /\ s.changes # <<>>
MustBeSoftRemoved(s) == s.canBeSoftRemoved /\ Known(s)
MustBeRecovered(s) == s.canBeRecovered /\ Known(s)

\* A change of a column or a relation to a value, an object, what a subject stands
\* for (by its place), or null.
Change(on, value, object, subject) ==
  [on |-> on, value |-> value, object |-> object, subject |-> subject]
ToNull(on) == Change(on, "", "", 0)
ToSubject(on, i) == Change(on, "", "", i)
Push(list, i, change) == [list EXCEPT ![i].changes = Append(@, change)]

SubjectsOf(list, o) == {i \in DOMAIN list : list[i].object = o}
IdOf(graph, list, o) ==
  IF SubjectsOf(list, o) = {} THEN graph[o].id
  ELSE LET ids == list[Min(SubjectsOf(list, o))].ids IN IF ids = <<>> THEN 0 ELSE ids[1]

(***************************************************************************)
(* CascadesSubjectBuilder                                                  *)
(***************************************************************************)
Cascades(r, mode) ==
  IF mode = "save" THEN r.cascade \intersect {"insert", "update"} # {} ELSE mode \in r.cascade

\* Mutant: a soft removal does not cascade.
AllowSaves(s, r, mode) ==
  [s EXCEPT !.canBeInserted = @ \/ (mode = "save" /\ "insert" \in r.cascade),
            !.canBeUpdated = @ \/ (mode = "save" /\ "update" \in r.cascade),
            !.mustBeRemoved = @ \/ (mode = "remove" /\ "remove" \in r.cascade /\ s.ids # <<>>)]

Allow(s, r, mode) ==
  [s EXCEPT !.canBeInserted = @ \/ (mode = "save" /\ "insert" \in r.cascade),
            !.canBeUpdated = @ \/ (mode = "save" /\ "update" \in r.cascade),
            !.mustBeRemoved = @ \/ (mode = "remove" /\ "remove" \in r.cascade /\ s.ids # <<>>),
            !.canBeSoftRemoved = @ \/ (mode = "soft-remove" /\ mode \in r.cascade),
            !.canBeRecovered = @ \/ (mode = "recover" /\ mode \in r.cascade)]

RelationValues(m, graph, o) ==
  LET own == RelationsOf(m, m.kindOf[o], AllTypes)
  IN FlattenSeq([i \in DOMAIN own |->
       LET of == graph[o].rel[own[i].name].of
       IN [j \in DOMAIN of |-> [relation |-> own[i], object |-> of[j]]]])

AlreadyThere(m, graph, list, o) ==
  {i \in DOMAIN list : \/ list[i].object = o
                       \/ /\ list[i].kind = m.kindOf[o]
                          /\ graph[o].id # 0 /\ list[i].ids = <<graph[o].id>>}

\* The recursion of the code is a stack here, of the values yet to be looked at.
Cascade(work, step) ==
  LET v == Head(work.values)
      rest == [work EXCEPT !.values = Tail(@)]
      there == AlreadyThere(work.m, work.graph, work.list, v.object)
      new == Subject(work.m.kindOf[v.object], v.object, IdsOf(work.graph, v.object))
  IN IF work.values = <<>> THEN work
     ELSE IF ~Cascades(v.relation, work.mode) THEN rest
     ELSE IF there # {} THEN [rest EXCEPT !.list[Min(there)] = Allow(@, v.relation, work.mode)]
     ELSE [rest EXCEPT !.list = Append(@, Allow(new, v.relation, work.mode)),
                       !.values = RelationValues(work.m, work.graph, v.object) \o @]

RootSubject(m, graph, mode, o) ==
  [Subject(m.kindOf[o], o, IdsOf(graph, o)) EXCEPT
     !.canBeInserted = mode = "save", !.canBeUpdated = mode = "save",
     !.mustBeRemoved = mode = "remove", !.canBeSoftRemoved = mode = "soft-remove",
     !.canBeRecovered = mode = "recover"]

\* The values of a root are looked at once, and those of an object that is added.
BuildCascades(m, graph, mode, roots) ==
  LET values(objects) == FlattenSeq([i \in DOMAIN objects |-> RelationValues(m, graph, objects[i])])
      begin == [m |-> m, graph |-> graph, mode |-> mode, values |-> values(roots),
                list |-> Each(roots, LAMBDA o : RootSubject(m, graph, mode, o))]
  IN FoldLeft(Cascade, begin, values(roots \o SetToSeq(DOMAIN graph))).list

(***************************************************************************)
(* SubjectDatabaseEntityLoader: the rows, soft-deleted or not, with the    *)
(* identifiers in those relations that some subject of the kind defines,   *)
(* or that have a junction table.                                          *)
(***************************************************************************)
RelatedIds(m, db, r, id) ==
  CASE r.type \in OwningTypes -> {Row(db, r.kind, id).refs[r.name]} \ {0}
    [] r.type \in {"oneToMany", "oneToOneInverse"} ->
         {row.id : row \in {x \in db.rows : x.kind = r.to /\ ~x.deleted /\ x.refs[r.inverse] = id}}
    [] r.type = "manyToMany" -> {l.inverse : l \in {x \in db.links : x.table = r.table /\ x.owner = id}}
    [] r.type = "manyToManyInverse" ->
         {l.owner : l \in {x \in db.links : x.table = r.table /\ x.inverse = id}}

Load(m, graph, db, mode, list) ==
  LET wanted(kind) ==
        {r \in Relations(m, kind, AllTypes) :
           IF mode = "remove" THEN r.type \in ManyToManyTypes
           ELSE \E i \in DOMAIN list : list[i].kind = kind /\ graph[list[i].object].rel[r.name].set}
      entity(s) ==
        LET row == Row(db, s.kind, s.ids[1])
        IN [value |-> row.value,
            related |-> [n \in {r.name : r \in wanted(s.kind)} |->
                           RelatedIds(m, db, Relation(m, n), row.id)]]
      load(s) ==
        IF s.ids = <<>> THEN s
        ELSE [s EXCEPT !.loaded = TRUE,
                       !.before = IF Stored(db, s.kind, s.ids[1]) THEN <<entity(s)>> ELSE <<>>]
  IN Each(list, load)

Before(s, r) ==
  IF Found(s) /\ r.name \in DOMAIN s.before[1].related THEN s.before[1].related[r.name] ELSE {}

\* What a builder goes through: the subjects there are when it begins, by their places,
\* with those of their relations that are defined.
Visited(m, graph, list, types) ==
  LET defined(i, r) == list[i].object # "" /\ graph[list[i].object].rel[r.name].set
      of(i) == RelationsOf(m, list[i].kind, types)
      visits(i, relations) == [j \in DOMAIN relations |-> [m |-> m, graph |-> graph, i |-> i, r |-> relations[j]]]
  IN FlattenSeq([i \in DOMAIN list |-> visits(i, Picked(of(i), {j \in DOMAIN of(i) : defined(i, of(i)[j])}))])

(***************************************************************************)
(* OneToManySubjectBuilder                                                 *)
(***************************************************************************)
\* Mutant: what is no longer among the related is removed, whatever the options say.
OrphanRemoved(r, id) == [Subject(r.kind, "", <<id>>) EXCEPT !.mustBeRemoved = TRUE]

\* r is the many-to-one side, whose options decide.
Orphan(r, id) ==
  LET s == Subject(r.kind, "", <<id>>)
  IN CASE r.orphan = "nullify" /\ r.nullable ->
            [s EXCEPT !.canBeUpdated = TRUE, !.changes = <<ToNull(r.name)>>]
       [] r.orphan = "delete" \/ (r.orphan = "nullify" /\ ~r.nullable) ->
            [s EXCEPT !.mustBeRemoved = TRUE]
       [] r.orphan = "soft-delete" -> [s EXCEPT !.canBeSoftRemoved = TRUE]

\* Tells a related object that it belongs to subject i; a subject is made for it if
\* there is none.
Bind(graph, list, i, r, o) ==
  LET id == IdOf(graph, list, o)
      there == SubjectsOf(list, o)
      new == [Subject(r.to, "", <<id>>) EXCEPT !.canBeUpdated = TRUE]
  IN IF there # {} THEN Push(list, Min(there), ToSubject(r.inverse, i))
     ELSE IF id = 0 THEN list
     ELSE Append(list, [new EXCEPT !.changes = <<ToSubject(r.inverse, i)>>])

\* v: a visit, with what the relation has in the database, and an object it has now.
BindUnstored(list, v) ==
  IF IdOf(v.graph, list, v.object) \in v.stored THEN list ELSE Bind(v.graph, list, v.i, v.r, v.object)

VisitOneToMany(list, v) ==
  LET of == v.graph[list[v.i].object].rel[v.r.name].of
      stored == Before(list[v.i], v.r)
      bound == FoldLeft(BindUnstored, list,
                 [j \in DOMAIN of |-> [graph |-> v.graph, i |-> v.i, r |-> v.r, stored |-> stored, object |-> of[j]]])
      orphans == stored \ {IdOf(v.graph, bound, of[j]) : j \in DOMAIN of}
      manyToOne == Relation(v.m, v.r.inverse)
  IN IF manyToOne.orphan = "disable" THEN bound
     ELSE bound \o SetToSeq({Orphan(manyToOne, id) : id \in orphans})

BuildOneToMany(m, graph, list) ==
  FoldLeft(VisitOneToMany, list, Visited(m, graph, list, {"oneToMany"}))

(***************************************************************************)
(* OneToOneInverseSideSubjectBuilder                                       *)
(***************************************************************************)
Unbound(r, id) ==
  [Subject(r.to, "", <<id>>) EXCEPT !.canBeUpdated = TRUE, !.changes = <<ToNull(r.inverse)>>]

\* A related object without an identifier is told twice.
VisitOneToOneInverse(list, v) ==
  LET of == v.graph[list[v.i].object].rel[v.r.name].of
      stored == Before(list[v.i], v.r)
      id == IdOf(v.graph, list, of[1])
      once == IF id = 0 THEN Bind(v.graph, list, v.i, v.r, of[1]) ELSE list
  IN IF of = <<>> THEN list \o SetToSeq({Unbound(v.r, gone) : gone \in stored})
     ELSE IF id \in stored THEN list
     ELSE Bind(v.graph, once, v.i, v.r, of[1])

BuildOneToOneInverse(m, graph, list) ==
  FoldLeft(VisitOneToOneInverse, list, Visited(m, graph, list, {"oneToOneInverse"}))

(***************************************************************************)
(* ManyToManySubjectBuilder                                                *)
(***************************************************************************)
\* A row of the junction table, in both of its columns.
Junction(r, ids) == Subject(r.table, "", ids)
Pair(r, this, other) == IF r.type = "manyToMany" THEN <<this, other>> ELSE <<other, this>>
Unlinked(r, id, other) == [Junction(r, Pair(r, id, other)) EXCEPT !.mustBeRemoved = TRUE]

Linked(list, i, r, o) ==
  LET related(on) == IF SubjectsOf(list, o) = {} THEN Change(on, "", o, 0)
                     ELSE ToSubject(on, Min(SubjectsOf(list, o)))
      owning == r.type = "manyToMany"
  IN [Junction(r, <<>>) EXCEPT !.canBeInserted = TRUE,
        !.changes = <<IF owning THEN ToSubject("owner", i) ELSE related("owner"),
                      IF owning THEN related("inverse") ELSE ToSubject("inverse", i)>>]

JunctionsOf(graph, list, i, r) ==
  LET of == graph[list[i].object].rel[r.name].of
      stored == Before(list[i], r)
      id(o) == IdOf(graph, list, o)
      new == Picked(of, {j \in DOMAIN of : id(of[j]) \notin stored /\ (id(of[j]) # 0 \/ SubjectsOf(list, of[j]) # {})})
      gone == stored \ {id(of[j]) : j \in DOMAIN of}
  IN [j \in DOMAIN new |-> Linked(list, i, r, new[j])]
     \o SetToSeq({Unlinked(r, graph[list[i].object].id, g) : g \in gone})

BuildManyToMany(m, graph, list) ==
  LET visits == Visited(m, graph, list, ManyToManyTypes)
  IN list \o FlattenSeq([k \in DOMAIN visits |-> JunctionsOf(graph, list, visits[k].i, visits[k].r)])

\* buildForAllRemoval
UnlinkAll(m, list) ==
  LET unlinked(s, r) == SetToSeq({Unlinked(r, s.ids[1], id) : id \in Before(s, r)})
      of(s) == IF s.mustBeRemoved /\ Found(s) THEN RelationsOf(m, s.kind, ManyToManyTypes) ELSE <<>>
  IN list \o FlattenSeq([i \in DOMAIN list |->
               FlattenSeq([j \in DOMAIN of(list[i]) |-> unlinked(list[i], of(list[i])[j])])])

(***************************************************************************)
(* SubjectChangedColumnsComputer                                           *)
(***************************************************************************)
\* Mutant: a column is not compared with what the row has.
DiffAllColumns(graph, s) ==
  LET object == graph[s.object]
      rest == Picked(s.changes, {j \in DOMAIN s.changes : s.changes[j].on \notin {"id", "value"}})
      id == IF object.id = 0 \/ Found(s) THEN <<>> ELSE <<Change("id", "", s.object, 0)>>
  IN [s EXCEPT !.changes = rest \o id \o <<Change("value", object.value, "", 0)>>]

\* Of the columns only those that the object defines; against no row all are new.
DiffColumns(graph, s) ==
  LET object == graph[s.object]
      rest == Picked(s.changes, {j \in DOMAIN s.changes : s.changes[j].on \notin {"id", "value"}})
      id == IF object.id = 0 \/ Found(s) THEN <<>> ELSE <<Change("id", "", s.object, 0)>>
      value == IF object.value = "" \/ (Found(s) /\ s.before[1].value = object.value) THEN <<>>
               ELSE <<Change("value", object.value, "", 0)>>
  IN [s EXCEPT !.changes = rest \o id \o value]

\* Identifiers compare equal only when there are two.
Differs(graph, s, r) ==
  LET of == graph[s.object].rel[r.name].of
  IN /\ graph[s.object].rel[r.name].set
     /\ Found(s) => of = <<>> \/ graph[of[1]].id \notin Before(s, r)

DiffRelation(graph, list, s, r) ==
  LET of == graph[s.object].rel[r.name].of
      inserts == {j \in SubjectsOf(list, of[1]) : MustBeInserted(list[j])}
  IN IF of = <<>> THEN ToNull(r.name)
     ELSE IF inserts # {} THEN ToSubject(r.name, Min(inserts))
     ELSE Change(r.name, "", of[1], 0)

\* A relation that differs takes the place of the change there is of it, if any.
DiffRelations(m, graph, list, s) ==
  LET there(r) == {j \in DOMAIN s.changes : s.changes[j].on = r.name}
      order == RelationsOf(m, s.kind, OwningTypes)
      differing == {i \in DOMAIN order : Differs(graph, s, order[i])}
      replaced(j) == {i \in differing : there(order[i]) # {} /\ j = Min(there(order[i]))}
      diff(i) == DiffRelation(graph, list, s, order[i])
      new == Picked([i \in DOMAIN order |-> i], {i \in differing : there(order[i]) = {}})
  IN [s EXCEPT !.changes = [j \in DOMAIN @ |-> IF replaced(j) = {} THEN @[j] ELSE diff(Min(replaced(j)))]
                           \o [n \in DOMAIN new |-> diff(new[n])]]

ComputeChanges(m, graph, list) ==
  Each(list, LAMBDA s : IF s.object = "" THEN s ELSE DiffRelations(m, graph, list, DiffColumns(graph, s)))

\* The subjects of an executor.
BuildExecutor(m, graph, db, mode, roots) ==
  LET loaded == Load(m, graph, db, mode, BuildCascades(m, graph, mode, roots))
      related == IF mode = "remove" THEN UnlinkAll(m, loaded)
                 ELSE BuildManyToMany(m, graph,
                        BuildOneToOneInverse(m, graph, BuildOneToMany(m, graph, loaded)))
  IN ComputeChanges(m, graph, related)

Executable(s) == MustBeInserted(s) \/ MustBeUpdated(s) \/ s.mustBeRemoved
                 \/ MustBeSoftRemoved(s) \/ MustBeRecovered(s)
===============================================================================
