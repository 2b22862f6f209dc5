---------------------------- MODULE SubjectExecutor ----------------------------
(***************************************************************************)
(* EntityPersistExecutor and SubjectExecutor: a save or remove of some     *)
(* objects, in chunks, each of whose executors is built before the         *)
(* transaction begins; then every executor sends its insertions, updates,  *)
(* removals, soft removals and recoveries.                                 *)
(* The database (external) refuses a statement that leaves a foreign key   *)
(* without its row, a required join column null, two rows with one         *)
(* identifier or two rows one-to-one with the same; the links of a junction*)
(* table go with either of their rows.                                     *)
(***************************************************************************)
EXTENDS SubjectTopologicalSorter, PersistenceSubjects

CONSTANTS Values,       \* what a listener may set a column to
          MaxCalls      \* bound: calls of save and the like

VARIABLES m, graph, db,
          saved,        \* the rows that a rollback returns to
          mode, roots, chunk,
          executors,    \* the subjects of each chunk ...
          at, phase,    \* ... which of them it is the turn of, and with what
          todo,         \* groups of subjects that a statement has yet to be sent for
          status, calls,
          sent,         \* statements of the current call that did more than set a relation to null
          start         \* the objects and rows that the current call began with

vars == <<m, graph, db, saved, mode, roots, chunk, executors, at, phase, todo, status, calls,
          sent, start>>

ASSUME SubjectAssumption == MaxCalls \in Nat \ {0}

LastId == Max({0} \union {row.id : row \in saved.rows} \union {row.id : row \in db.rows}
              \union {graph[o].id : o \in DOMAIN graph})

Chunks(list, size) ==
  IF size = 0 THEN <<list>>
  ELSE [i \in 1..((Len(list) + size - 1) \div size) |->
          SubSeq(list, (i - 1) * size + 1, Min({i * size, Len(list)}))]

(***************************************************************************)
(* createValueSetAndPopChangeMap                                           *)
(***************************************************************************)
\* A subject that was inserted stands for its inserted values, else for its object.
TargetId(list, c) ==
  IF c.subject = 0 THEN (IF c.object = "" THEN 0 ELSE graph[c.object].id)
  ELSE IF list[c.subject].inserted THEN list[c.subject].ids[1]
  ELSE graph[list[c.subject].object].id

IsRelation(c) == c.on \notin {"id", "value", "owner", "inverse"}
\* A related object without an identifier yet has to be set later.
Deferred(list, c) == IsRelation(c) /\ (c.subject # 0 \/ c.object # "") /\ TargetId(list, c) = 0

ValueSet(list, s) ==
  LET now == {j \in DOMAIN s.changes : ~Deferred(list, s.changes[j])}
      last(on) == s.changes[Max({j \in now : s.changes[j].on = on})]
  IN [on \in {s.changes[j].on : j \in now} |->
        IF on = "value" THEN last(on).value ELSE TargetId(list, last(on))]

\* Mutant: what could not be set yet is forgotten.
PopAll(list, s) == [s EXCEPT !.changes = <<>>]

Pop(list, s) ==
  LET later == Picked(s.changes, {j \in DOMAIN s.changes : Deferred(list, s.changes[j])})
  IN [s EXCEPT !.changes = later, !.canBeUpdated = @ \/ later # <<>>]

(***************************************************************************)
(* The database.                                                           *)
(***************************************************************************)
OwningRelations(kind) == Relations(m, kind, OwningTypes)
Valid(d) ==
  /\ \A x, y \in d.rows : x.kind = y.kind /\ x.id = y.id => x = y
  /\ \A row \in d.rows : \A r \in OwningRelations(row.kind) :
       LET ref == row.refs[r.name]
       IN /\ IF ref = 0 THEN r.nullable ELSE Stored(d, r.to, ref)
          /\ r.type = "oneToOne" /\ ref # 0 =>
               \A other \in d.rows : other.kind = row.kind /\ other # row => other.refs[r.name] # ref

Linkable(d, l) ==
  LET r == CHOOSE x \in ToSet(m.relations) : x.type = "manyToMany" /\ x.table = l.table
  IN Stored(d, r.kind, l.owner) /\ Stored(d, r.to, l.inverse)

NewRow(kind, id, set) ==
  [kind |-> kind, id |-> id, deleted |-> FALSE,
   value |-> IF "value" \in DOMAIN set THEN set["value"] ELSE "",
   refs |-> [n \in {r.name : r \in OwningRelations(kind)} |->
               IF n \in DOMAIN set THEN set[n] ELSE 0]]

Updated(row, set) ==
  [row EXCEPT !.value = IF "value" \in DOMAIN set THEN set["value"] ELSE @,
              !.refs = [n \in DOMAIN @ |-> IF n \in DOMAIN set THEN set[n] ELSE @[n]]]

WithoutRows(d, kind, ids) ==
  LET gone == {row \in d.rows : row.kind = kind /\ row.id \in ids}
      holds(l) == \E r \in ToSet(m.relations) :
                    /\ r.type = "manyToMany" /\ r.table = l.table
                    /\ \/ r.kind = kind /\ l.owner \in ids
                       \/ r.to = kind /\ l.inverse \in ids
  IN [rows |-> d.rows \ gone, links |-> {l \in d.links : ~holds(l)}]

(***************************************************************************)
(* Building.                                                               *)
(***************************************************************************)
\* Before a call, of any objects and rows of any metadata.
Idle ==
  /\ saved = db /\ start = [graph |-> graph, db |-> db]
  /\ executors = <<>> /\ at = 1 /\ phase = "" /\ todo = <<>>
  /\ status = "idle" /\ calls = 0 /\ sent = 0

\* The metadata: a relation with the join column in the other table has it there.
Tables == {r.table : r \in {x \in ToSet(m.relations) : x.type \in ManyToManyTypes}}
SchemaIsTyped ==
  /\ m.relations \in Seq(ToSet(m.relations))
  /\ \A q, r \in ToSet(m.relations) : q.name = r.name => q = r
  /\ \A r \in ToSet(m.relations) :
       /\ r.type \in AllTypes /\ r.orphan \in {"nullify", "delete", "soft-delete", "disable"}
       /\ r.name \notin {"id", "value", "owner", "inverse"}
       /\ r.type \in {"oneToMany", "oneToOneInverse"} =>
            \E q \in Relations(m, r.to, OwningTypes) : q.name = r.inverse

ObjectsAreTyped ==
  /\ IsFiniteSet(DOMAIN graph) /\ "" \notin DOMAIN graph
  /\ \A o \in DOMAIN graph :
       /\ m.kindOf[o] \notin Tables
       /\ graph[o] = [id |-> graph[o].id, value |-> graph[o].value, rel |-> graph[o].rel]
       /\ graph[o].id \in Nat
       /\ \A r \in Relations(m, m.kindOf[o], AllTypes) :
            graph[o].rel[r.name].of \in Seq({p \in DOMAIN graph : m.kindOf[p] = r.to})

RowsAreTyped(d) ==
  /\ d = [rows |-> d.rows, links |-> d.links] /\ IsFiniteSet(d.rows) /\ IsFiniteSet(d.links)
  /\ \A x, y \in d.rows : x.kind = y.kind /\ x.id = y.id => x = y
  /\ \A row \in d.rows :
       /\ row = [kind |-> row.kind, id |-> row.id, deleted |-> row.deleted, value |-> row.value, refs |-> row.refs]
       /\ row.kind \notin Tables /\ row.id \in Nat \ {0}
       /\ DOMAIN row.refs = {r.name : r \in OwningRelations(row.kind)}

Consistent ==
  /\ SchemaIsTyped /\ ObjectsAreTyped /\ RowsAreTyped(db) /\ Valid(db)
  /\ mode \in {"save", "remove", "soft-remove", "recover"}
  /\ roots \in Seq(DOMAIN graph) /\ chunk \in Nat

Init == Consistent /\ Idle

\* The call; a save may be called again with the same once it is over.
Call ==
  /\ \/ status = "idle"
     \/ status = "resolved" /\ mode = "save" /\ calls < MaxCalls
  /\ \E built \in {Each(Chunks(roots, chunk), LAMBDA part : BuildExecutor(m, graph, db, mode, part))} :
       LET busy == {p \in DOMAIN built : \E i \in DOMAIN built[p] : Executable(built[p][i])}
       IN /\ executors' = Picked(built, busy)
          /\ status' = IF busy = {} THEN "resolved" ELSE "running"
  /\ calls' = calls + 1 /\ sent' = 0 /\ saved' = db /\ start' = [graph |-> graph, db |-> db]
  /\ at' = 1 /\ phase' = "before" /\ todo' = <<>>
  /\ UNCHANGED <<m, graph, db, mode, roots, chunk>>

Running(p) == status = "running" /\ phase = p
Subjects == executors[at]
With(list) == [executors EXCEPT ![at] = list]
Places(Test(_)) == Picked([i \in DOMAIN Subjects |-> i], {i \in DOMAIN Subjects : Test(Subjects[i])})

Reject ==
  /\ status' = "rejected" /\ db' = saved /\ todo' = <<>>
  /\ UNCHANGED <<m, graph, saved, mode, roots, chunk, executors, at, phase, calls, sent, start>>

\* The events before; a listener may set a column of an object, and then all that
\* differs is worked out again.
BeforeEvents ==
  /\ Running("before")
  /\ \/ UNCHANGED <<graph, executors>>
     \/ \E i \in DOMAIN Subjects, v \in Values :
          /\ Subjects[i].object # ""
          /\ MustBeInserted(Subjects[i]) \/ MustBeUpdated(Subjects[i])
          /\ graph' = [graph EXCEPT ![Subjects[i].object].value = v]
          /\ executors' = With(ComputeChanges(m, graph', Subjects))
  /\ phase' = "insert"
  /\ UNCHANGED <<m, db, saved, mode, roots, chunk, at, todo, status, calls, sent, start>>

\* Subjects of a kind go together, in the order of their kinds' first ones.
GroupBulkSubjects(places) ==
  LET kind(j) == Subjects[places[j]].kind
      kinds == Distinct([j \in DOMAIN places |-> kind(j)])
  IN [k \in DOMAIN kinds |-> Picked(places, {j \in DOMAIN places : kind(j) = kinds[k]})]

\* Those with nothing to insert but defaults are inserted each by itself.
Bulks(group) ==
  LET singles == {j \in DOMAIN group : Subjects[group[j]].changes = <<>>}
      single == Picked(group, singles)
  IN (IF singles = DOMAIN group THEN <<>> ELSE <<Picked(group, DOMAIN group \ singles)>>)
     \o [j \in DOMAIN single |-> <<single[j]>>]

Sorted(places, direction) ==
  LET list == [j \in DOMAIN places |-> Subjects[places[j]]]
      numbered == [j \in DOMAIN list |-> [kind |-> list[j].kind, object |-> list[j].object,
                                          before |-> list[j].before, place |-> places[j]]]
      sorted == Sort(m.relations, numbered, direction)
  IN [j \in DOMAIN sorted |-> sorted[j].place]

Unsorted(places) == Unsortable(m.relations, [j \in DOMAIN places |-> Subjects[places[j]]])

Plan(p, next, groups) ==
  /\ Running(p)
  /\ todo' = groups /\ phase' = next
  /\ UNCHANGED <<m, graph, db, saved, mode, roots, chunk, executors, at, status, calls, sent, start>>

PlanInserts ==
  LET places == Places(MustBeInserted)
      groups == GroupBulkSubjects(Sorted(places, "insert"))
  IN IF Running("insert") /\ Unsorted(places) THEN Reject
     ELSE Plan("insert", "inserting", FlattenSeq([g \in DOMAIN groups |-> Bulks(groups[g])]))

Ones(places) == [j \in DOMAIN places |-> <<places[j]>>]
PlanUpdates == todo = <<>> /\ Plan("inserting", "updating", Ones(Places(MustBeUpdated)))

PlanRemoves ==
  LET places == Places(LAMBDA s : s.mustBeRemoved)
  IN /\ todo = <<>>
     /\ IF Running("updating") /\ (Unsorted(places) \/ \E j \in DOMAIN places : Subjects[places[j]].ids = <<>>)
        THEN Reject
        ELSE Plan("updating", "removing", GroupBulkSubjects(Sorted(places, "delete")))

PlanSoftRemoves == todo = <<>> /\ Plan("removing", "soft-removing", Ones(Places(MustBeSoftRemoved)))
PlanRecovers == todo = <<>> /\ Plan("soft-removing", "recovering", Ones(Places(MustBeRecovered)))

(***************************************************************************)
(* The statements.                                                         *)
(***************************************************************************)
Sent(d, list, counted) ==
  /\ db' = d /\ executors' = With(list) /\ todo' = Tail(todo)
  /\ sent' = sent + (IF counted THEN 1 ELSE 0)
  /\ UNCHANGED <<m, graph, saved, mode, roots, chunk, at, phase, status, calls, start>>

Insert ==
  /\ Running("inserting") /\ todo # <<>>
  /\ LET group == Head(todo)
         set(i) == ValueSet(Subjects, Subjects[i])
         kind == Subjects[group[1]].kind
         junction == Subjects[group[1]].object = ""
         place(i) == CHOOSE j \in DOMAIN group : group[j] = i
         idOf(i) == IF "id" \in DOMAIN set(i) THEN set(i)["id"] ELSE LastId + place(i)
         link(i) == [table |-> kind, owner |-> set(i)["owner"], inverse |-> set(i)["inverse"]]
         new == {NewRow(kind, idOf(i), set(i)) : i \in ToSet(group)}
         links == {link(i) : i \in ToSet(group)}
         after == IF junction THEN [db EXCEPT !.links = @ \union links]
                  ELSE [db EXCEPT !.rows = @ \union new]
         list == [i \in DOMAIN Subjects |->
                    IF i \notin ToSet(group) THEN Subjects[i]
                    ELSE [Pop(Subjects, Subjects[i]) EXCEPT
                            !.inserted = TRUE,
                            !.ids = IF junction THEN <<link(i).owner, link(i).inverse>> ELSE <<idOf(i)>>]]
         accepted == IF junction
                     THEN /\ \A l \in links : Linkable(db, l)
                          /\ Cardinality(after.links) = Cardinality(db.links) + Len(group)
                     ELSE /\ Cardinality(after.rows) = Cardinality(db.rows) + Len(group)
                          /\ Valid(after)
     IN IF accepted THEN Sent(after, list, TRUE) ELSE Reject

\* A statement that would set nothing is not sent: the call fails.
Update ==
  /\ Running("updating") /\ todo # <<>>
  /\ LET i == Head(todo)[1]
         s == Subjects[i]
         set == ValueSet(Subjects, s)
         is(row) == row.kind = s.kind /\ row.id = s.ids[1]
         after == [db EXCEPT !.rows = {IF is(row) THEN Updated(row, set) ELSE row : row \in @}]
     IN IF DOMAIN set # {} /\ Valid(after)
        THEN Sent(after, [Subjects EXCEPT ![i] = Pop(Subjects, s)], \E on \in DOMAIN set : on = "value" \/ set[on] # 0)
        ELSE Reject

RemoveRows ==
  /\ Running("removing") /\ todo # <<>>
  /\ LET group == Head(todo)
         kind == Subjects[group[1]].kind
         ids == {Subjects[i].ids : i \in ToSet(group)}
         after == IF \E r \in ToSet(m.relations) : r.type = "manyToMany" /\ r.table = kind
                  THEN [db EXCEPT !.links = {l \in @ : l.table # kind \/ <<l.owner, l.inverse>> \notin ids}]
                  ELSE WithoutRows(db, kind, {id[1] : id \in ids})
     IN IF Valid(after) THEN Sent(after, Subjects, TRUE) ELSE Reject

Mark(p, deleted) ==
  /\ Running(p) /\ todo # <<>>
  /\ LET s == Subjects[Head(todo)[1]]
         is(row) == row.kind = s.kind /\ row.id = s.ids[1]
     IN Sent([db EXCEPT !.rows = {IF is(row) THEN [row EXCEPT !.deleted = deleted] ELSE row : row \in @}],
             Subjects, TRUE)

SoftRemove == Mark("soft-removing", TRUE)
Recover == Mark("recovering", FALSE)

\* updateSpecialColumnsInPersistedEntities; then the next executor, or COMMIT.
Finish ==
  /\ Running("recovering") /\ todo = <<>>
  /\ LET of(o) == {i \in SubjectsOf(Subjects, o) : Subjects[i].inserted \/ Subjects[i].mustBeRemoved}
         id(o) == IF of(o) = {} THEN graph[o].id
                  ELSE LET s == Subjects[Min(of(o))] IN IF s.mustBeRemoved THEN 0 ELSE s.ids[1]
     IN graph' = [o \in DOMAIN graph |-> [graph[o] EXCEPT !.id = id(o)]]
  /\ IF at < Len(executors) THEN at' = at + 1 /\ phase' = "before" /\ UNCHANGED status
     ELSE status' = "resolved" /\ UNCHANGED <<at, phase>>
  /\ UNCHANGED <<m, db, saved, mode, roots, chunk, executors, todo, calls, sent, start>>

Next == Call \/ BeforeEvents \/ PlanInserts \/ Insert \/ PlanUpdates \/ Update \/ PlanRemoves \/ RemoveRows
        \/ PlanSoftRemoves \/ SoftRemove \/ PlanRecovers \/ Recover \/ Finish
Spec == Init /\ [][Next]_vars

(***************************************************************************)
(* Properties.                                                             *)
(***************************************************************************)
\* The objects that a save of the roots saves, by the relations that cascade.
Closed(objects) ==
  \A o \in objects : \A r \in Relations(m, m.kindOf[o], AllTypes) :
    Cascades(r, mode) => ToSet(graph[o].rel[r.name].of) \subseteq objects
Operated ==
  {o \in DOMAIN graph :
     \A objects \in SUBSET DOMAIN graph : ToSet(roots) \subseteq objects /\ Closed(objects) => o \in objects}

IdsIn(objects) == {graph[o].id : o \in objects}
RowOf(o) == Row(db, m.kindOf[o], graph[o].id)

RelationIsStored(o, r) ==
  LET of == IdsIn(ToSet(graph[o].rel[r.name].of))
      stored == RelatedIds(m, db, r, graph[o].id)
  IN IF r.type = "oneToMany" /\ Relation(m, r.inverse).orphan = "disable"
     THEN of \subseteq stored ELSE of = stored

\* A save that resolved has stored the objects as they are now: each has its row,
\* with its value, and every relation of it that is defined relates the rows as it
\* does the objects, whichever side it was set on and in whichever order the rows
\* came to be.
SavedIsStored ==
  mode = "save" /\ status = "resolved" =>
    \A o \in Operated :
      /\ graph[o].id # 0 /\ Stored(db, m.kindOf[o], graph[o].id)
      /\ RowOf(o).value = graph[o].value
      /\ \A r \in Relations(m, m.kindOf[o], AllTypes) :
           graph[o].rel[r.name].set => RelationIsStored(o, r)

\* Saving again what was saved, with nothing changed, sends nothing but for relations
\* that are null.
SecondSaveIsSilent ==
  mode = "save" /\ status = "resolved" /\ calls > 1 /\ graph = start.graph => sent = 0

\* No statement is refused: the rows come in an order that their foreign keys allow.
NothingRefused == status # "rejected"

\* A row of no object that is saved or removed keeps its value and stays, and a join
\* column of it changes only when an object that is saved has, or had, it related;
\* such a row goes only as an orphan, whose options say so.
OthersAreKept ==
  LET objects == Operated
      operated(row) == \E o \in objects : m.kindOf[o] = row.kind /\ start.graph[o].id = row.id
      holders(row, r) == {o \in objects :
        \E x \in Relations(m, m.kindOf[o], {"oneToMany", "oneToOneInverse"}) :
           /\ x.inverse = r.name /\ graph[o].rel[x.name].set
           /\ \/ row.id \in IdsIn(ToSet(graph[o].rel[x.name].of))
              \/ row.refs[r.name] = start.graph[o].id}
      orphaned(row) == \E r \in OwningRelations(row.kind) :
        /\ holders(row, r) # {}
        /\ r.orphan = "delete" \/ (r.orphan = "nullify" /\ ~r.nullable)
  IN status = "resolved" =>
       \A row \in start.db.rows :
         operated(row) \/
         IF ~Stored(db, row.kind, row.id) THEN orphaned(row)
         ELSE LET now == Row(db, row.kind, row.id)
              IN /\ now.value = row.value
                 /\ \A r \in OwningRelations(row.kind) :
                      now.refs[r.name] # row.refs[r.name] => holders(row, r) # {}

\* What a remove took in is gone, with its links, and its objects are new again; a
\* soft removal leaves the row and a recovery brings it back.
RemovedIsGone ==
  status = "resolved" /\ mode # "save" =>
    \A o \in {x \in Operated : start.graph[x].id # 0} :
      LET stored == Stored(db, m.kindOf[o], start.graph[o].id)
      IN CASE mode = "remove" -> ~stored /\ graph[o].id = 0
           [] OTHER -> /\ stored /\ graph[o].id = start.graph[o].id
                       /\ RowOf(o).deleted = (mode = "soft-remove")
===============================================================================
