----------------------------- MODULE PostgresDdl -----------------------------
(***************************************************************************)
(* The schema methods of PostgresQueryRunner that a synchronization calls. *)
(* A method takes a loaded table and works out, before it sends anything,  *)
(* the statements, those that undo them, and what the table is to become   *)
(* in the runner's cache: [up, down, table].  It reads the database only   *)
(* to see which enum types there are.                                      *)
(*                                                                         *)
(* A loaded table has columns (in order), keys other than the primary key, *)
(* which its columns carry, and a comment.  type stands for everything     *)
(* about a column that cannot be altered in place (type, length, isArray,  *)
(* asExpression), detail for what ALTER COLUMN TYPE can change (precision, *)
(* scale, collation, spatial type).                                        *)
(***************************************************************************)
EXTENDS PostgresCatalog

\* Statements.
AddKey(t, key) == [op |-> "addKey", table |-> t, key |-> key]
DropKey(t, name) == [op |-> "dropKey", table |-> t, name |-> name]
RenameKey(t, from, to) == [op |-> "renameKey", table |-> t, name |-> from, to |-> to]
DropColumn(t, name) == [op |-> "dropColumn", table |-> t, name |-> name]
Alter(t, column, field, value) ==
  [op |-> "alterColumn", table |-> t, name |-> column, field |-> field, value |-> value]
CreateType(name, values) == [op |-> "createType", name |-> name, values |-> values]
DropType(name) == [op |-> "dropType", name |-> name]
RenameType(from, to) == [op |-> "renameType", name |-> from, to |-> to]
CommentTable(t, comment) == [op |-> "commentTable", table |-> t, value |-> comment]

EnumName(t, column) ==
  IF column.enumName # None THEN column.enumName ELSE <<"enum", t, column.name>>
OldEnumName(t, column) == <<"old", EnumName(t, column)>>
HasEnumType(db, t, column) == EnumName(t, column) \in DOMAIN db.types
UserDefinedTypeName(db, t, column) == Find(ColumnsOf(db, t), column.name).enum

IsEnum(column) == column.type = "enum"

\* The column that CREATE TABLE and ADD make, its comment aside.
CreateColumn(t, column) ==
  [name |-> column.name, type |-> column.type, detail |-> column.detail,
   nullable |-> column.nullable, comment |-> None,
   default |-> CASE column.generated = "increment" -> Nextval(SequenceName(t, column.name))
                 [] column.generated = "uuid" /\ column.default = None -> Uuid
                 [] OTHER -> column.default,
   enum |-> IF IsEnum(column) THEN EnumName(t, column) ELSE None,
   data |-> None]
AddColumn(t, column) ==
  [op |-> "addColumn", table |-> t, column |-> CreateColumn(t, column)]

\* Primary keys, of the columns of a loaded table that are marked so.
PrimaryColumns(table) == SelectSeq(table.columns, LAMBDA c : c.primary)
PrimaryKey(t, columns) ==
  Key("PK", IF columns[1].pkName # None THEN columns[1].pkName
            ELSE Hash("PK", t, NamesOf(columns), None),
      NamesOf(columns), None, "")

\* Pairs of what is sent and what undoes it; the latter is to be read backwards.
Both(up, down) == [up |-> <<up>>, down |-> <<down>>]
Nothing == [up |-> <<>>, down |-> <<>>]
When(condition, plan) == IF condition THEN plan ELSE Nothing
Join(plans) == [up |-> FlattenSeq([i \in DOMAIN plans |-> plans[i].up]),
                down |-> FlattenSeq([i \in DOMAIN plans |-> plans[i].down])]
With(plan, table) == [up |-> plan.up, down |-> plan.down, table |-> table]

Adding(t, key) == Both(AddKey(t, key), DropKey(t, key.name))
Dropping(t, key) == Both(DropKey(t, key.name), AddKey(t, key))
\* The primary key from these columns to those.
Rekey(t, from, to) ==
  Join(<<When(from # <<>>, Dropping(t, PrimaryKey(t, from))),
         When(to # <<>>, Adding(t, PrimaryKey(t, to)))>>)

SetColumn(table, column) ==
  [table EXCEPT !.columns = [i \in DOMAIN @ |-> IF @[i].name = column.name THEN column ELSE @[i]]]

\* createUniqueConstraint, createForeignKey, ..., and their opposites.
MarkUnique(table, key, unique) ==
  IF key.kind = "UQ" /\ Cardinality(key.columns) = 1
  THEN [table EXCEPT !.columns = [i \in DOMAIN @ |->
          IF @[i].name \in key.columns THEN [@[i] EXCEPT !.unique = unique] ELSE @[i]]]
  ELSE table

CreateKey(t, table, key) ==
  With(Adding(t, key), MarkUnique([table EXCEPT !.keys = @ \union {key}], key, TRUE))

\* Mutant: the dropped key stays in the cache.
RemoveKeyUncached(t, table, key) == With(Dropping(t, key), table)

RemoveKey(t, table, key) ==
  With(Dropping(t, key),
       MarkUnique([table EXCEPT !.keys = {k \in @ : k.name # key.name}], key, FALSE))

ChangeTableComment(t, table, comment) ==
  With(When(comment # table.comment,
            Both(CommentTable(t, comment), CommentTable(t, table.comment))),
       [table EXCEPT !.comment = comment])

\* Table.create takes over no foreign keys; the columns that are primary are NOT NULL.
CreateTable(db, t, table) ==
  LET enums == SelectSeq(table.columns, LAMBDA c : IsEnum(c) /\ ~HasEnumType(db, t, c))
      indices == SetToSeq({k \in table.keys : k.kind = "IDX"})
      commented == SelectSeq(table.columns, LAMBDA c : c.comment # None)
      pk == PrimaryColumns(table)
      columns == [i \in DOMAIN table.columns |->
                   LET c == table.columns[i]
                   IN [CreateColumn(t, c) EXCEPT !.comment = c.comment,
                         !.nullable = @ /\ ~c.primary]]
      keys == {k \in table.keys : k.kind \in {"UQ", "CHK", "XCL"}}
                \union (IF pk = <<>> THEN {} ELSE {PrimaryKey(t, pk)})
  IN With(Join(<<Join([i \in DOMAIN enums |->
                    Both(CreateType(EnumName(t, enums[i]), enums[i].values),
                         DropType(EnumName(t, enums[i])))]),
                 Both([op |-> "createTable", table |-> t, columns |-> columns, keys |-> keys],
                      [op |-> "dropTable", table |-> t]),
                 Join([i \in DOMAIN indices |-> Adding(t, indices[i])]),
                 When(table.comment # None,
                      Both(CommentTable(t, table.comment), CommentTable(t, None)))>>),
          [table EXCEPT !.keys = {k \in @ : k.kind # "FK"}])

DropTableColumn(db, t, table, column) ==
  LET pk == PrimaryColumns(table)
      named == [pk EXCEPT ![1].pkName = column.pkName]
      rest == Without(pk, column.name)
      single(kind) == {k \in table.keys : k.kind = kind /\ k.columns = {column.name}}
      first(kind) == IF single(kind) = {} THEN {} ELSE {CHOOSE k \in single(kind) : TRUE}
      drop(kind) == Join(SetToSeq({Dropping(t, k) : k \in first(kind)}))
      keys == first("IDX") \union first("CHK") \union first("UQ")
      type == UserDefinedTypeName(db, t, column)
  IN With(Join(<<When(column.primary, Rekey(t, named, rest)),
                 drop("IDX"), drop("CHK"), drop("UQ"),
                 Both(DropColumn(t, column.name), AddColumn(t, column)),
                 IF IsEnum(column) /\ HasEnumType(db, t, column)
                 THEN Both(DropType(type), CreateType(type, column.values))
                 ELSE Nothing>>),
          [table EXCEPT !.columns = Without(@, column.name), !.keys = @ \ keys])

AddTableColumn(db, t, table, column) ==
  LET pk == PrimaryColumns(table)
      indices == {k \in table.keys : k.kind = "IDX" /\ k.columns = {column.name}}
      unique == Key("UQ", Hash("UQ", t, {column.name}, None), {column.name}, None, "")
      comment == Alter(t, column.name, "comment", column.comment)
  IN With(Join(<<When(IsEnum(column) /\ ~HasEnumType(db, t, column),
                      Both(CreateType(EnumName(t, column), column.values),
                           DropType(EnumName(t, column)))),
                 Both(AddColumn(t, column), DropColumn(t, column.name)),
                 When(column.primary, Rekey(t, pk, Append(pk, column))),
                 Join(SetToSeq({Adding(t, k) : k \in indices})),
                 When(column.unique, Adding(t, unique)),
                 When(column.comment # None, Both(comment, comment))>>),
          [table EXCEPT !.columns = Append(@, column),
                        !.keys = IF column.unique THEN @ \union {unique} ELSE @])

UpdatePrimaryKeys(t, table, columns) ==
  LET pk == PrimaryColumns(table)
      to == IF pk # <<>> THEN [columns EXCEPT ![1].pkName = pk[1].pkName]
            ELSE [columns EXCEPT ![1].pkName = None]
  IN With(Rekey(t, pk, to),
          [table EXCEPT !.columns = [i \in DOMAIN @ |->
             IF Named(columns, @[i].name) THEN [@[i] EXCEPT !.primary = TRUE] ELSE @[i]]])

(***************************************************************************)
(* changeColumn, for a column that need not be dropped and added again.    *)
(***************************************************************************)
\* Mutant: a column that may no longer be NULL is made anew as well.
MustReplaceEagerly(old, new) == old.type # new.type \/ old.nullable # new.nullable

MustReplace(old, new) == old.type # new.type

\* Its name: only keys that have the names the naming strategy gives follow it.
Follows(t, key, column) ==
  /\ key.kind \in {"UQ", "IDX", "FK"} /\ column \in key.columns
  /\ key.name = Hash(key.kind, t, key.columns, key.ref)
Renaming(t, key, from, to) ==
  LET columns == Renamed(key.columns, from, to)
  IN [key EXCEPT !.columns = columns, !.name = Hash(key.kind, t, columns, key.ref)]

ChangeName(db, t, table, old, new) ==
  LET column(name) == [op |-> "renameColumn", table |-> t, name |-> name]
      pk == PrimaryColumns(table)
      pkName(names) == Hash("PK", t, names, None)
      newPk == pkName(Renamed(NamesOf(pk), old.name, new.name))
      oldEnum == UserDefinedTypeName(db, t, old)
      sequence(from, to) == [op |-> "renameSequence", name |-> SequenceName(t, from),
                             to |-> SequenceName(t, to)]
      keys == {k \in table.keys : Follows(t, k, old.name)}
      rename(k) == LET name == Renaming(t, k, old.name, new.name).name
                   IN Both(RenameKey(t, k.name, name), RenameKey(t, name, k.name))
  IN IF old.name = new.name THEN With(Nothing, table)
     ELSE With(Join(<<Both([op |-> "renameColumn", table |-> t, name |-> old.name, to |-> new.name],
                           [op |-> "renameColumn", table |-> t, name |-> new.name, to |-> old.name]),
                      IF ~IsEnum(old) THEN Nothing
                      ELSE Both(RenameType(oldEnum, EnumName(t, new)),
                                RenameType(EnumName(t, new), oldEnum)),
                      When(old.primary /\ old.pkName = None,
                           Both(RenameKey(t, pkName(NamesOf(pk)), newPk),
                                RenameKey(t, newPk, pkName(NamesOf(pk))))),
                      When(old.generated # "no" /\ new.generated = "increment",
                           Both(sequence(old.name, new.name), sequence(new.name, old.name))),
                      Join(SetToSeq({rename(k) : k \in keys}))>>),
               [table EXCEPT
                  !.columns = [i \in DOMAIN @ |-> IF @[i].name = old.name
                                                  THEN [@[i] EXCEPT !.name = new.name] ELSE @[i]],
                  !.keys = (@ \ keys) \union {Renaming(t, k, old.name, new.name) : k \in keys}])

SetDefault(t, new, to, from) ==
  Both(Alter(t, new.name, "default", to), Alter(t, new.name, "default", from))

\* The values of an enum: added when that is enough, otherwise the type is made
\* anew and the old one dropped.  On the way back it is always made anew.
ChangeEnum(t, old, new) ==
  LET name == EnumName(t, old)
      newName == EnumName(t, new)
      before == OldEnumName(t, old)
      extra == SetToSeq(new.values \ old.values)
      adds == new.values # old.values /\ old.values \subseteq new.values
      back == <<RenameType(before, name), DropType(newName), Alter(t, new.name, "enum", before),
                CreateType(before, old.values)>>
  IN IF adds
     THEN [up |-> [i \in DOMAIN extra |-> [op |-> "addValue", name |-> name, value |-> extra[i]]],
           down |-> back]
     ELSE Join(<<Both(RenameType(name, before), RenameType(before, name)),
                 Both(CreateType(newName, new.values), DropType(newName)),
                 When(old.default # None, SetDefault(t, new, None, old.default)),
                 Both(Alter(t, new.name, "enum", newName), Alter(t, new.name, "enum", before)),
                 When(new.default # None, SetDefault(t, new, new.default, None)),
                 Both(DropType(before), CreateType(before, old.values))>>)

EnumChanges(old, new) ==
  /\ IsEnum(old) /\ IsEnum(new)
  /\ old.values # new.values \/ old.enumName # new.enumName

\* The default was changed with the type already.
DefaultChanged(old, new) ==
  /\ EnumChanges(old, new) /\ old.default # None
  /\ ~(new.values # old.values /\ old.values \subseteq new.values)

\* isPrimary: the key is dropped, and made of the columns that are primary now.
ChangePrimary(t, table, new) ==
  LET pk == PrimaryColumns(table)
  IN Rekey(t, pk, IF new.primary THEN Append(pk, new) ELSE Without(pk, new.name))

\* isUnique: the constraint that is dropped is the one the cache has for the column.
UniqueOf(t, table, new) ==
  LET cached == {k \in table.keys : k.kind = "UQ" /\ k.columns = {new.name}}
  IN IF new.unique THEN Key("UQ", Hash("UQ", t, {new.name}, None), {new.name}, None, "")
     ELSE CHOOSE k \in cached : TRUE

ChangeGenerated(t, old, new) ==
  LET sequence == SequenceName(t, new.name)
      create == [op |-> "createSequence", name |-> sequence, owner |-> <<t, new.name>>]
      drop == [op |-> "dropSequence", name |-> sequence]
      value(c) == IF c.generated = "uuid" THEN Uuid ELSE Nextval(sequence)
  IN Join(<<When(old.generated # "no", SetDefault(t, new, None, value(old))),
            When(old.generated = "increment", Both(drop, create)),
            When(new.generated = "increment", Both(create, drop)),
            When(new.generated # "no", SetDefault(t, new, value(new), None))>>)

ChangeColumn(db, t, table, old, new) ==
  LET named == ChangeName(db, t, table, old, new)
      field(f) == When(old[f] # new[f],
                       Both(Alter(t, new.name, f, new[f]), Alter(t, new.name, f, old[f])))
      keyed == old.primary # new.primary
      cached == Find(named.table.columns, new.name)
      table1 == IF keyed THEN SetColumn(named.table, [cached EXCEPT !.primary = new.primary])
                ELSE named.table
      uniqued == old.unique # new.unique
      unique == UniqueOf(t, table1, new)
  IN With(Join(<<named, field("detail"),
                 IF EnumChanges(old, new) THEN ChangeEnum(t, old, new) ELSE Nothing,
                 field("nullable"), field("comment"),
                 IF keyed THEN ChangePrimary(t, named.table, new) ELSE Nothing,
                 IF ~uniqued THEN Nothing
                 ELSE IF new.unique THEN Adding(t, unique) ELSE Dropping(t, unique),
                 IF (old.generated # "no") # (new.generated # "no")
                 THEN ChangeGenerated(t, old, new) ELSE Nothing,
                 When(~DefaultChanged(old, new), field("default"))>>),
          IF ~uniqued THEN table1
          ELSE [table1 EXCEPT !.keys = IF new.unique THEN @ \union {unique} ELSE @ \ {unique}])

(***************************************************************************)
(* loadTables.                                                             *)
(***************************************************************************)
\* Mutant: the name that the driver gives a type is taken for a name of the user's.
RawEnumName(t, column) == column.enum

LoadedEnumName(t, column) ==
  IF column.enum \in {None, <<"enum", t, column.name>>} THEN None ELSE column.enum

LoadColumn(db, t, column) ==
  LET pk == {k \in KeysOf(db, t) : k.kind = "PK" /\ column.name \in k.columns}
      generated == CASE column.default = Nextval(SequenceName(t, column.name)) -> "increment"
                     [] column.default = Uuid /\ column.type = "uuid" -> "uuid"
                     [] OTHER -> "no"
  IN [name |-> column.name, type |-> column.type, detail |-> column.detail,
      nullable |-> column.nullable, comment |-> column.comment,
      primary |-> pk # {},
      pkName |-> IF \E k \in pk : k.name # Hash("PK", t, k.columns, None)
                 THEN (CHOOSE k \in pk : TRUE).name ELSE None,
      unique |-> \E k \in KeysOf(db, t) : k.kind = "UQ" /\ k.columns = {column.name},
      generated |-> generated,
      default |-> IF generated = "no" THEN column.default ELSE None,
      values |-> IF column.enum = None THEN {} ELSE db.types[column.enum],
      enumName |-> LoadedEnumName(t, column)]

LoadTable(db, t) ==
  [columns |-> [i \in DOMAIN ColumnsOf(db, t) |-> LoadColumn(db, t, ColumnsOf(db, t)[i])],
   keys |-> {k \in KeysOf(db, t) : k.kind # "PK"},
   comment |-> db.tables[t].comment]

\* PostgresDriver.findChangedColumns: a loaded column against the declared one.
IsColumnChanged(c, m) ==
  \/ c.type # m.type \/ c.detail # m.detail \/ c.comment # m.comment
  \/ c.generated = "no" /\ c.default # m.default
  \/ c.primary # m.primary \/ c.nullable # m.nullable \/ c.unique # m.unique
  \/ c.enumName # m.enumName
  \/ c.values # {} /\ m.values # {} /\ c.values # m.values
  \/ (c.generated # "no") # (m.generated # "no")
===============================================================================
