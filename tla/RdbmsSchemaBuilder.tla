-------------------------- MODULE RdbmsSchemaBuilder --------------------------
(***************************************************************************)
(* RdbmsSchemaBuilder on PostgreSQL: it brings the database from the       *)
(* schema of one version of the entities to that of another.               *)
(*   build()  sends the statements as it finds them, in one transaction or,*)
(*            with migrationsTransactionMode "none", each on its own; then *)
(*            the connection may be lost after any of them                 *)
(*   log()    only collects them, with those that undo them, for           *)
(*            migration:generate; the migration is then run and reverted   *)
(*                                                                         *)
(* The phases go through the entities in order, and each works out the     *)
(* calls of the query runner from the tables as the runner has cached      *)
(* them: what the runner notes down of its own changes decides what the    *)
(* later phases do.                                                        *)
(***************************************************************************)
EXTENDS Naturals, PostgresDdl

CONSTANTS Entities,     \* the tables, in the order of the entity metadata
          Versions,     \* of the entities: what they declare, per table
          Scenarios,    \* pairs of versions, [from, to], and how to get there, mode
          MaxBuilds     \* bound: calls of build()

VARIABLES scenario, db,
          saved,        \* the catalog that a rollback returns to
          tables,       \* loadedTables, which is also the builder's this.tables
          at,           \* <<phase, entity>>
          calls,        \* calls of the query runner that the phase has yet to make ...
          todo,         \* ... statements the current call has yet to send ...
          staged,       \* ... and the table it will then put into the cache
          ups, downs,   \* sqlInMemory
          status, builds,
          lost          \* a build was cut off

vars == <<scenario, db, saved, tables, at, calls, todo, staged, ups, downs, status, builds, lost>>

\* Mutant: the removed columns go before the keys that hold them.
PhasesColumnsFirst ==
  <<"dropRemovedColumns", "dropOldForeignKeys", "dropOldIndices", "dropOldChecks", "dropOldExclusions",
    "dropCompositeUniqueConstraints", "renameColumns", "changeTableComment",
    "createNewTables", "addNewColumns", "updatePrimaryKeys",
    "updateExistColumns", "createNewIndices", "createNewChecks",
    "createNewExclusions", "createCompositeUniqueConstraints", "createForeignKeys">>

Phases == <<"dropOldForeignKeys", "dropOldIndices", "dropOldChecks", "dropOldExclusions",
            "dropCompositeUniqueConstraints", "renameColumns", "changeTableComment",
            "createNewTables", "dropRemovedColumns", "addNewColumns", "updatePrimaryKeys",
            "updateExistColumns", "createNewIndices", "createNewChecks",
            "createNewExclusions", "createCompositeUniqueConstraints", "createForeignKeys">>

ASSUME SchemaAssumption ==
  /\ Entities # <<>> /\ MaxBuilds \in Nat \ {0}
  /\ \A s \in Scenarios : s.mode \in {"all", "none", "log"}

(***************************************************************************)
(* What the entities declare, as a catalog.                                *)
(***************************************************************************)
DeclaredTable(t, m) ==
  LET pk == PrimaryColumns(m)
  IN [columns |-> [i \in DOMAIN m.columns |->
        [CreateColumn(t, m.columns[i]) EXCEPT !.comment = m.columns[i].comment,
                                              !.data = m.columns[i].name]],
      keys |-> m.keys \union (IF pk = <<>> THEN {} ELSE {PrimaryKey(t, pk)}),
      comment |-> m.comment]

Declared(version) ==
  LET columns(t) == version[t].columns
      enums == UNION {{<<t, columns(t)[i]>> : i \in {j \in DOMAIN columns(t) : IsEnum(columns(t)[j])}}
                        : t \in DOMAIN version}
  IN [tables |-> [t \in DOMAIN version |-> DeclaredTable(t, version[t])],
      types |-> [n \in {EnumName(e[1], e[2]) : e \in enums} |->
                   (CHOOSE e \in enums : EnumName(e[1], e[2]) = n)[2].values],
      sequences |-> UNION {UNION {Serial(t, CreateColumn(t, columns(t)[i]))
                                    : i \in DOMAIN columns(t)} : t \in DOMAIN version},
      fresh |-> {}]

\* A catalog but for where the data of its columns comes from and their order.
Shape(catalog) ==
  [catalog EXCEPT !.fresh = {}, !.tables = [t \in DOMAIN @ |->
     [@[t] EXCEPT !.columns = {[@[i] EXCEPT !.data = None] : i \in DOMAIN @}]]]

Source == Versions[scenario.from]
Target == Versions[scenario.to]
Loaded(t) == t \in DOMAIN tables

(***************************************************************************)
(* What the phases ask of the query runner.                                *)
(***************************************************************************)
DoKey(do, t, key) == [do |-> do, table |-> t, key |-> key]
DoKeys(do, t, keys) == SetToSeq({DoKey(do, t, k) : k \in keys})
DoColumn(do, t, column) == [do |-> do, table |-> t, column |-> column]
OfKind(keys, kind) == {k \in keys : k.kind = kind}
Composite(key) == Cardinality(key.columns) > 1
NameSet(keys) == {k.name : k \in keys}
Missing(list, other) == SelectSeq(list, LAMBDA c : ~Named(other, c.name))

\* A rule that the entity leaves open never counts as changed.
IsOldForeignKey(key, m) ==
  ~\E k \in OfKind(m.keys, "FK") :
     k.name = key.name /\ k.ref[1] = key.ref[1] /\ k.rule \in {"", key.rule}

ShouldDropIndex(key, m) ==
  ~\E k \in OfKind(m.keys, "IDX") :
     k.name = key.name /\ k.rule = key.rule /\ k.columns = key.columns

\* Old keys of a kind, by their names.
Old(t, m, kind) == {k \in OfKind(tables[t].keys, kind) : k.name \notin NameSet(OfKind(m.keys, kind))}
New(t, m, kind) == {k \in OfKind(m.keys, kind) : k.name \notin NameSet(OfKind(tables[t].keys, kind))}

\* Just one column of the entity is not in the table, and just one the other way round.
SameColumn(c, m) == c.name = m.name /\ c.type = m.type /\ c.nullable = m.nullable /\ c.unique = m.unique
Unmatched(list, other) ==
  SelectSeq(list, LAMBDA c : \A i \in DOMAIN other : ~SameColumn(other[i], c))

RenameCalls(t, m) ==
  LET to == Unmatched(m.columns, tables[t].columns)
      from == Unmatched(tables[t].columns, m.columns)
  IN IF /\ Len(m.columns) = Len(tables[t].columns)
        /\ Len(to) = 1 /\ Len(from) = 1
     THEN <<[do |-> "changeColumn", table |-> t, old |-> from[1],
             new |-> [from[1] EXCEPT !.name = to[1].name]]>>
     ELSE <<>>

PrimaryKeyCalls(t, m) ==
  LET to == PrimaryColumns(m)
  IN IF Len(to) > 1 /\ Len(to) # Len(PrimaryColumns(tables[t]))
     THEN <<[do |-> "updatePrimaryKeys", table |-> t, columns |-> to]>>
     ELSE <<>>

\* The keys around a changed column are dropped first; the phases that follow
\* make them again.
ChangeCalls(t, m) ==
  LET changed == SelectSeq(m.columns, LAMBDA c :
                   /\ Named(tables[t].columns, c.name)
                   /\ IsColumnChanged(Find(tables[t].columns, c.name), c))
      each(do) == [i \in DOMAIN changed |-> DoColumn(do, t, changed[i].name)]
  IN each("dropColumnReferencedForeignKeys") \o each("dropColumnCompositeIndices")
     \o each("dropColumnCompositeUniques")
     \o [i \in DOMAIN changed |->
           [do |-> "changeColumn", table |-> t,
            old |-> Find(tables[t].columns, changed[i].name), new |-> changed[i]]]

CallsOf(phase, t) ==
  LET m == Target[t]
  IN CASE phase = "createNewTables" ->
            IF Loaded(t) THEN <<>> ELSE <<[do |-> "createTable", table |-> t, new |-> m]>>
       [] ~Loaded(t) -> <<>>
       [] phase = "dropOldForeignKeys" ->
            DoKeys("dropKey", t, {k \in OfKind(tables[t].keys, "FK") : IsOldForeignKey(k, m)})
       [] phase = "dropOldIndices" ->
            DoKeys("dropKey", t, {k \in OfKind(tables[t].keys, "IDX") : ShouldDropIndex(k, m)})
       [] phase = "dropOldChecks" -> DoKeys("dropKey", t, Old(t, m, "CHK"))
       [] phase = "dropOldExclusions" -> DoKeys("dropKey", t, Old(t, m, "XCL"))
       [] phase = "dropCompositeUniqueConstraints" ->
            DoKeys("dropKey", t, {k \in Old(t, m, "UQ") : Composite(k)})
       [] phase = "renameColumns" -> RenameCalls(t, m)
       [] phase = "changeTableComment" ->
            <<[do |-> "changeTableComment", table |-> t, comment |-> m.comment]>>
       [] phase = "dropRemovedColumns" ->
            LET removed == Missing(tables[t].columns, m.columns)
            IN [i \in DOMAIN removed |-> DoColumn("dropColumn", t, removed[i])]
       [] phase = "addNewColumns" ->
            LET added == Missing(m.columns, tables[t].columns)
            IN [i \in DOMAIN added |-> DoColumn("addColumn", t, added[i])]
       [] phase = "updatePrimaryKeys" -> PrimaryKeyCalls(t, m)
       [] phase = "updateExistColumns" -> ChangeCalls(t, m)
       [] phase = "createNewIndices" -> DoKeys("createKey", t, New(t, m, "IDX"))
       [] phase = "createNewChecks" -> DoKeys("createKey", t, New(t, m, "CHK"))
       [] phase = "createNewExclusions" -> DoKeys("createKey", t, New(t, m, "XCL"))
       [] phase = "createCompositeUniqueConstraints" ->
            DoKeys("createKey", t, {k \in New(t, m, "UQ") : Composite(k)})
       [] phase = "createForeignKeys" ->
            DoKeys("createKey", t, {k \in OfKind(m.keys, "FK") :
               \A l \in OfKind(tables[t].keys, "FK") : l.name # k.name \/ l.ref[1] # k.ref[1]})

(***************************************************************************)
(* Calls that stand for other calls, worked out when they are made.        *)
(***************************************************************************)
\* Of the table's own foreign keys on the column only the first one found.
ReferencedForeignKeys(t, column) ==
  LET own == {k \in OfKind(tables[t].keys, "FK") : column \in k.columns}
      depends == {<<u, k>> : u \in DOMAIN tables, k \in UNION {tables[v].keys : v \in DOMAIN tables}}
  IN (IF own = {} THEN {} ELSE {<<t, CHOOSE k \in own : TRUE>>})
     \union {d \in depends : /\ d[2].kind = "FK" /\ d[2] \in tables[d[1]].keys
                             /\ d[2].ref[1] = t /\ column \in d[2].ref[2]}

Expansion(call) ==
  LET composite(kind) == {k \in OfKind(tables[call.table].keys, kind) :
                            Composite(k) /\ call.column \in k.columns}
  IN CASE call.do = "dropColumnReferencedForeignKeys" ->
            SetToSeq({DoKey("dropKey", f[1], f[2])
                        : f \in ReferencedForeignKeys(call.table, call.column)})
       [] call.do = "dropColumnCompositeIndices" -> DoKeys("dropKey", call.table, composite("IDX"))
       [] call.do = "dropColumnCompositeUniques" -> DoKeys("dropKey", call.table, composite("UQ"))
       [] call.do = "changeColumn" ->
            <<DoColumn("dropColumn", call.table, call.old),
              DoColumn("addColumn", call.table, call.new)>>

Expands(call) ==
  \/ call.do \in {"dropColumnReferencedForeignKeys", "dropColumnCompositeIndices",
                  "dropColumnCompositeUniques"}
  \/ call.do = "changeColumn" /\ MustReplace(call.old, call.new)

Plan(call) ==
  LET t == call.table
      table == tables[t]
  IN CASE call.do = "createTable" -> CreateTable(db, t, call.new)
       [] call.do = "dropKey" -> RemoveKey(t, table, call.key)
       [] call.do = "createKey" -> CreateKey(t, table, call.key)
       [] call.do = "changeTableComment" -> ChangeTableComment(t, table, call.comment)
       [] call.do = "dropColumn" -> DropTableColumn(db, t, table, call.column)
       [] call.do = "addColumn" -> AddTableColumn(db, t, table, call.column)
       [] call.do = "updatePrimaryKeys" -> UpdatePrimaryKeys(t, table, call.columns)
       [] call.do = "changeColumn" -> ChangeColumn(db, t, table, call.old, call.new)

(***************************************************************************)
(* The steps.                                                              *)
(***************************************************************************)
Init ==
  /\ scenario \in Scenarios
  /\ db = Declared(Source)
  /\ saved = db /\ tables = <<>> /\ at = <<1, 1>>
  /\ calls = <<>> /\ todo = <<>> /\ staged = <<>> /\ ups = <<>> /\ downs = <<>>
  /\ status = "idle" /\ builds = 0 /\ lost = FALSE

\* build() or log(): the tables of the entities are loaded.
Begin ==
  /\ status \in {"idle", "synchronized", "lost"} /\ builds < MaxBuilds
  /\ scenario.mode = "log" => status = "idle"
  /\ status' = "building" /\ builds' = builds + 1
  /\ tables' = [t \in DOMAIN db.tables \intersect DOMAIN Target |-> LoadTable(db, t)]
  /\ at' = <<1, 1>> /\ saved' = db /\ ups' = <<>> /\ downs' = <<>>
  /\ UNCHANGED <<scenario, db, calls, todo, staged, lost>>

\* The next entity of the phase, or the next phase.
Advance ==
  /\ status = "building" /\ calls = <<>> /\ todo = <<>> /\ staged = <<>>
  /\ at[1] <= Len(Phases)
  /\ calls' = CallsOf(Phases[at[1]], Entities[at[2]])
  /\ at' = IF at[2] < Len(Entities) THEN <<at[1], at[2] + 1>> ELSE <<at[1] + 1, 1>>
  /\ UNCHANGED <<scenario, db, saved, tables, todo, staged, ups, downs, status, builds, lost>>

Expand ==
  /\ status = "building" /\ calls # <<>> /\ todo = <<>> /\ staged = <<>>
  /\ Expands(Head(calls))
  /\ calls' = Expansion(Head(calls)) \o Tail(calls)
  /\ UNCHANGED <<scenario, db, saved, tables, at, todo, staged, ups, downs, status, builds, lost>>

\* executeQueries: remembered, and sent unless the runner only remembers.
Call ==
  /\ status = "building" /\ calls # <<>> /\ todo = <<>> /\ staged = <<>>
  /\ ~Expands(Head(calls))
  /\ LET plan == Plan(Head(calls))
     IN /\ ups' = ups \o plan.up /\ downs' = downs \o plan.down
        /\ todo' = IF scenario.mode = "log" THEN <<>> ELSE plan.up
        /\ staged' = <<plan.table>>
  /\ UNCHANGED <<scenario, db, saved, tables, at, calls, status, builds, lost>>

Query ==
  /\ status = "building" /\ todo # <<>>
  /\ IF Accepts(db, Head(todo))
     THEN LET after == Apply(db, Head(todo))
          IN /\ db' = IF scenario.mode = "none" THEN [after EXCEPT !.fresh = {}] ELSE after
             /\ todo' = Tail(todo)
             /\ UNCHANGED <<saved, calls, staged, status>>
     ELSE /\ status' = "refused"
          /\ db' = IF scenario.mode = "all" THEN saved ELSE db
          /\ todo' = <<>> /\ calls' = <<>> /\ staged' = <<>>
          /\ UNCHANGED saved
  /\ UNCHANGED <<scenario, tables, at, ups, downs, builds, lost>>

\* replaceCachedTable.
Replace ==
  /\ status = "building" /\ todo = <<>> /\ staged # <<>>
  /\ LET t == Head(calls).table
     IN tables' = [u \in DOMAIN tables \union {t} |-> IF u = t THEN staged[1] ELSE tables[u]]
  /\ calls' = Tail(calls) /\ staged' = <<>>
  /\ UNCHANGED <<scenario, db, saved, at, todo, ups, downs, status, builds, lost>>

Finish ==
  /\ status = "building" /\ calls = <<>> /\ at[1] > Len(Phases)
  /\ status' = IF scenario.mode = "log" THEN "logged" ELSE "synchronized"
  /\ db' = [db EXCEPT !.fresh = {}]
  /\ UNCHANGED <<scenario, saved, tables, at, calls, todo, staged, ups, downs, builds, lost>>

\* The connection is lost between two statements that are not in a transaction.
Lose ==
  /\ status = "building" /\ scenario.mode = "none" /\ todo # <<>> /\ builds = 1
  /\ status' = "lost" /\ lost' = TRUE /\ calls' = <<>> /\ todo' = <<>> /\ staged' = <<>>
  /\ UNCHANGED <<scenario, db, saved, tables, at, ups, downs, builds>>

\* A migration that migration:generate wrote, run in a transaction of its own.
Run(catalog, statements) ==
  FoldLeft(LAMBDA r, s : IF r.ok /\ Accepts(r.db, s) THEN [r EXCEPT !.db = Apply(r.db, s)]
                         ELSE [r EXCEPT !.ok = FALSE],
           [db |-> catalog, ok |-> TRUE], statements)

Migrate(statements, next, otherwise) ==
  LET run == Run(db, statements)
  IN /\ db' = IF run.ok THEN [run.db EXCEPT !.fresh = {}] ELSE db
     /\ status' = IF run.ok THEN next ELSE otherwise
     /\ UNCHANGED <<scenario, saved, tables, at, calls, todo, staged, ups, downs, builds, lost>>

Up == status = "logged" /\ Migrate(ups, "migrated", "refused")
\* Mutant: what undoes the statements is run in their order.
DownForwards == status = "migrated" /\ Migrate(downs, "reverted", "stuck")

Down == status = "migrated" /\ Migrate(Reverse(downs), "reverted", "stuck")

Next == Begin \/ Advance \/ Expand \/ Call \/ Query \/ Replace \/ Finish \/ Lose \/ Up \/ Down

Spec == Init /\ [][Next]_vars

(***************************************************************************)
(* Properties.                                                             *)
(***************************************************************************)
\* A synchronization ends with the catalog that the entities declare, neither
\* more nor less, and the server refuses none of its statements: every phase
\* finds the keys it needs out of the way and none is left out because the
\* cache still has it.  So does the migration that was generated from memory.
\* One that comes after another that was cut off has the same tables in the
\* end; an enum type or a sequence may have stayed behind.
Converges ==
  /\ status # "refused"
  /\ status \in {"synchronized", "migrated"} =>
       LET end == Shape(db)
           declared == Shape(Declared(Target))
       IN IF lost THEN end.tables = declared.tables ELSE end = declared

\* "down has to revert whatever up changed": run backwards, the statements that
\* were collected to undo the others are accepted and lead to the catalog there
\* was before.
DownUndoesUp ==
  /\ status # "stuck"
  /\ status = "reverted" => Shape(db) = Shape(Declared(Source))

\* Synchronizing again finds nothing to change.
SecondSyncIsSilent == status = "synchronized" /\ builds > 1 /\ ~lost => ups = <<>>

\* A column that the two versions share with its type keeps its rows' values, and
\* one that got another name, with nothing else changed, brings them along.
DataIsKept ==
  status \in {"synchronized", "migrated"} =>
    \A t \in DOMAIN Target \intersect DOMAIN Source :
      LET before == Source[t].columns
          after == Target[t].columns
          gone == Missing(before, after)
          new == Missing(after, before)
          column(name) == Find(ColumnsOf(db, t), name)
      IN /\ \A i \in DOMAIN after :
              LET c == after[i]
              IN Named(before, c.name) /\ Find(before, c.name).type = c.type
                   => column(c.name).data = c.name
         /\ LET renamed == /\ Len(gone) = 1 /\ Len(new) = 1
                          /\ ToSet(after) = (ToSet(before) \ {gone[1]})
                                             \union {[gone[1] EXCEPT !.name = new[1].name]}
            IN renamed => column(new[1].name).data = gone[1].name

\* Between two calls the cache tells of the table what the database would: the
\* columns, which of them are primary, and the keys.
CacheIsTrue ==
  status = "building" /\ scenario.mode # "log" /\ todo = <<>> /\ staged = <<>> =>
    \A t \in DOMAIN tables :
      LET table == LoadTable(db, t)
          marks(x) == {<<x.columns[i].name, x.columns[i].primary>> : i \in DOMAIN x.columns}
      IN /\ tables[t].keys = table.keys
         /\ marks(tables[t]) = marks(table)
===============================================================================
