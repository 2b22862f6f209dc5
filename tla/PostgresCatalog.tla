---------------------------- MODULE PostgresCatalog ----------------------------
(***************************************************************************)
(* What a schema synchronization can see of PostgreSQL (external): its     *)
(* catalog, and which DDL statements it accepts.  A catalog has            *)
(*   tables     per table: its columns in order, its keys (constraints and *)
(*              indices) and its comment                                   *)
(*   types      per enum type: its values                                  *)
(*   sequences  those that columns own                                     *)
(*   fresh      values added to a type by the open transaction, which      *)
(*              cannot be used before it commits                           *)
(* A name is a tuple; <<>> is no name, no default and no comment.  Rows    *)
(* are left out, but for where a column has its data from.                 *)
(***************************************************************************)
EXTENDS FiniteSets, Sequences, SequencesExt

None == <<>>

Named(list, name) == \E i \in DOMAIN list : list[i].name = name
Find(list, name) == list[CHOOSE i \in DOMAIN list : list[i].name = name]
Without(list, name) == SelectSeq(list, LAMBDA x : x.name # name)
NamesOf(list) == {list[i].name : i \in DOMAIN list}

\* The name that the naming strategy gives a key: a hash of these, the columns sorted.
Hash(kind, table, columns, ref) == <<kind, table, columns, ref>>
SequenceName(table, column) == <<"seq", table, column>>

\* A key: rule is the ON DELETE of a foreign key, or whether an index is unique.
Key(kind, name, columns, ref, rule) ==
  [kind |-> kind, name |-> name, columns |-> columns, ref |-> ref, rule |-> rule]

Nextval(sequence) == <<"nextval", sequence>>
Uuid == <<"uuid">>

ColumnsOf(db, table) == db.tables[table].columns
KeysOf(db, table) == db.tables[table].keys
AllKeys(db) == UNION {KeysOf(db, t) : t \in DOMAIN db.tables}

\* A foreign key needs a primary key or a unique one on just the columns it references.
Referenced(db, table, columns) ==
  \E k \in KeysOf(db, table) :
    /\ k.columns = columns
    /\ k.kind \in {"PK", "UQ"} \/ (k.kind = "IDX" /\ k.rule = "UNIQUE")

ForeignKeysTo(db, table) ==
  {k \in AllKeys(db) : k.kind = "FK" /\ k.ref[1] = table}

\* A default of an enum column is a value of its type that is usable by now.
DefaultAccepted(db, enum, default) ==
  CASE default = None -> TRUE
    [] enum # None -> /\ default[2] \in db.types[enum]
                      /\ <<enum, default[2]>> \notin db.fresh
    [] default[1] = "nextval" -> \E s \in db.sequences : s.name = default[2]
    [] OTHER -> TRUE

Uses(db, enum) == \E t \in DOMAIN db.tables : \E i \in DOMAIN ColumnsOf(db, t) :
                    ColumnsOf(db, t)[i].enum = enum

DefaultsTo(db, default) == \E t \in DOMAIN db.tables : \E i \in DOMAIN ColumnsOf(db, t) :
                             ColumnsOf(db, t)[i].default = default

KeyAccepted(db, table, key) ==
  /\ key.columns \subseteq NamesOf(ColumnsOf(db, table))
  /\ key.name \notin {k.name : k \in AllKeys(db)}
  /\ key.kind = "PK" => \A k \in KeysOf(db, table) : k.kind # "PK"
  /\ key.kind = "FK" => /\ key.ref[1] \in DOMAIN db.tables
                        /\ Referenced(db, key.ref[1], key.ref[2])

\* SERIAL makes the sequence of the column with it.
Serial(table, column) ==
  IF column.default # None /\ column.default = Nextval(SequenceName(table, column.name))
  THEN {[name |-> SequenceName(table, column.name), owner |-> <<table, column.name>>]}
  ELSE {}

ColumnAccepted(db, table, column) ==
  /\ column.enum # None => column.enum \in DOMAIN db.types
  /\ \/ Serial(table, column) # {}
     \/ DefaultAccepted(db, column.enum, column.default)

\* Whether the server accepts a statement ...
Accepts(db, s) ==
  CASE s.op = "createTable" ->
         /\ s.table \notin DOMAIN db.tables
         /\ \A i \in DOMAIN s.columns : ColumnAccepted(db, s.table, s.columns[i])
         /\ \A k \in s.keys : k.name \notin {l.name : l \in AllKeys(db)}
    [] s.op = "createType" -> s.name \notin DOMAIN db.types
    [] s.op = "dropType" -> s.name \in DOMAIN db.types /\ ~Uses(db, s.name)
    [] s.op = "renameType" -> s.name \in DOMAIN db.types /\ s.to \notin DOMAIN db.types
    [] s.op = "addValue" -> s.name \in DOMAIN db.types /\ s.value \notin db.types[s.name]
    [] s.op = "createSequence" -> TRUE                                 \* IF NOT EXISTS
    [] s.op = "dropSequence" -> /\ \E q \in db.sequences : q.name = s.name
                                /\ ~DefaultsTo(db, Nextval(s.name))
    [] s.op = "renameSequence" -> /\ \E q \in db.sequences : q.name = s.name
                                  /\ \A q \in db.sequences : q.name # s.to
    [] s.table \notin DOMAIN db.tables -> FALSE
    [] s.op = "dropTable" -> ForeignKeysTo(db, s.table) \subseteq KeysOf(db, s.table)
    [] s.op = "commentTable" -> TRUE
    [] s.op = "addColumn" -> /\ ~Named(ColumnsOf(db, s.table), s.column.name)
                             /\ ColumnAccepted(db, s.table, s.column)
    [] s.op = "dropColumn" ->
         /\ Named(ColumnsOf(db, s.table), s.name)
         /\ \A k \in ForeignKeysTo(db, s.table) \ KeysOf(db, s.table) : s.name \notin k.ref[2]
    [] s.op = "renameColumn" -> /\ Named(ColumnsOf(db, s.table), s.name)
                                /\ ~Named(ColumnsOf(db, s.table), s.to)
    [] s.op = "addKey" -> KeyAccepted(db, s.table, s.key)
    [] s.op = "dropKey" ->
         \E k \in KeysOf(db, s.table) :
           /\ k.name = s.name
           /\ \A f \in ForeignKeysTo(db, s.table) :
                f.ref[2] = k.columns => k.kind \notin {"PK", "UQ"}
    [] s.op = "renameKey" -> /\ \E k \in KeysOf(db, s.table) : k.name = s.name
                             /\ \A k \in AllKeys(db) : k.name # s.to
    [] s.op = "alterColumn" ->
         /\ Named(ColumnsOf(db, s.table), s.name)
         /\ LET column == Find(ColumnsOf(db, s.table), s.name)
            IN CASE s.field = "default" -> DefaultAccepted(db, column.enum, s.value)
                 [] s.field = "enum" -> s.value \in DOMAIN db.types /\ column.default = None
                 [] s.field = "nullable" ->
                      s.value => ~\E k \in KeysOf(db, s.table) : k.kind = "PK" /\ s.name \in k.columns
                 [] OTHER -> TRUE

\* ... and what it makes of the catalog.
Renamed(names, from, to) == IF from \in names THEN (names \ {from}) \union {to} ELSE names

SetColumns(db, table, columns) == [db EXCEPT !.tables[table].columns = columns]

Rewritten(db, field, from, to) ==
  [db EXCEPT !.tables = [t \in DOMAIN @ |->
     [@[t] EXCEPT !.columns = [i \in DOMAIN @ |->
        IF @[i][field] = from THEN [@[i] EXCEPT ![field] = to] ELSE @[i]]]]]

AfterRenameColumn(db, s) ==
  LET keyOf(t, k) ==
        [k EXCEPT !.columns = IF t = s.table THEN Renamed(@, s.name, s.to) ELSE @,
                  !.ref = IF k.kind = "FK" /\ @[1] = s.table
                          THEN <<s.table, Renamed(@[2], s.name, s.to)>> ELSE @]
      columnOf(t, c) == IF t = s.table /\ c.name = s.name THEN [c EXCEPT !.name = s.to] ELSE c
  IN [db EXCEPT
        !.tables = [t \in DOMAIN @ |-> [@[t] EXCEPT
          !.columns = [i \in DOMAIN @ |-> columnOf(t, @[i])],
          !.keys = {keyOf(t, k) : k \in @}]],
        !.sequences = {IF q.owner = <<s.table, s.name>>
                       THEN [q EXCEPT !.owner = <<s.table, s.to>>] ELSE q : q \in @}]

\* The primary key makes its columns NOT NULL, and they stay so without it.
AfterAddKey(db, s) ==
  [db EXCEPT !.tables[s.table] =
     [@ EXCEPT !.keys = @ \union {s.key},
               !.columns = [i \in DOMAIN @ |->
                  IF s.key.kind = "PK" /\ @[i].name \in s.key.columns
                  THEN [@[i] EXCEPT !.nullable = FALSE] ELSE @[i]]]]

\* With a column go its own keys and its sequence.
AfterDropColumn(db, s) ==
  [db EXCEPT !.tables[s.table] =
       [@ EXCEPT !.columns = Without(@, s.name),
                 !.keys = {k \in @ : s.name \notin k.columns}],
     !.sequences = {q \in @ : q.owner # <<s.table, s.name>>}]

AfterRenameType(db, s) ==
  [Rewritten(db, "enum", s.name, s.to) EXCEPT
             !.types = [n \in (DOMAIN @ \ {s.name}) \union {s.to} |->
                         IF n = s.to THEN @[s.name] ELSE @[n]],
            !.fresh = {IF f[1] = s.name THEN <<s.to, f[2]>> ELSE f : f \in @}]

AfterRenameSequence(db, s) ==
  [Rewritten(db, "default", Nextval(s.name), Nextval(s.to)) EXCEPT
     !.sequences = {IF q.name = s.name THEN [q EXCEPT !.name = s.to] ELSE q : q \in @}]

Apply(db, s) ==
  CASE s.op = "createTable" ->
         [db EXCEPT !.tables = [t \in DOMAIN @ \union {s.table} |->
                      IF t = s.table
                      THEN [columns |-> s.columns, keys |-> s.keys, comment |-> None] ELSE @[t]],
                    !.sequences = @ \union UNION {Serial(s.table, s.columns[i]) : i \in DOMAIN s.columns}]
    [] s.op = "dropTable" ->
         [db EXCEPT !.tables = [t \in DOMAIN @ \ {s.table} |-> @[t]],
                    !.sequences = {q \in @ : q.owner[1] # s.table}]
    [] s.op = "commentTable" -> [db EXCEPT !.tables[s.table].comment = s.value]
    [] s.op = "createType" ->
         [db EXCEPT !.types = [n \in DOMAIN @ \union {s.name} |->
                                 IF n = s.name THEN s.values ELSE @[n]]]
    [] s.op = "dropType" -> [db EXCEPT !.types = [n \in DOMAIN @ \ {s.name} |-> @[n]]]
    [] s.op = "renameType" -> AfterRenameType(db, s)
    [] s.op = "addValue" -> [db EXCEPT !.types[s.name] = @ \union {s.value},
                                       !.fresh = @ \union {<<s.name, s.value>>}]
    [] s.op = "createSequence" ->
         IF \E q \in db.sequences : q.name = s.name THEN db
         ELSE [db EXCEPT !.sequences = @ \union {[name |-> s.name, owner |-> s.owner]}]
    [] s.op = "dropSequence" -> [db EXCEPT !.sequences = {q \in @ : q.name # s.name}]
    [] s.op = "renameSequence" -> AfterRenameSequence(db, s)
    [] s.op = "addColumn" ->
         [SetColumns(db, s.table, Append(ColumnsOf(db, s.table), s.column))
            EXCEPT !.sequences = @ \union Serial(s.table, s.column)]
    [] s.op = "dropColumn" -> AfterDropColumn(db, s)
    [] s.op = "renameColumn" -> AfterRenameColumn(db, s)
    [] s.op = "alterColumn" ->
         SetColumns(db, s.table, [i \in DOMAIN ColumnsOf(db, s.table) |->
           LET c == ColumnsOf(db, s.table)[i]
           IN IF c.name = s.name THEN [c EXCEPT ![s.field] = s.value] ELSE c])
    [] s.op = "addKey" -> AfterAddKey(db, s)
    [] s.op = "dropKey" ->
         [db EXCEPT !.tables[s.table].keys = {k \in @ : k.name # s.name}]
    [] s.op = "renameKey" ->
         [db EXCEPT !.tables[s.table].keys =
            {IF k.name = s.name THEN [k EXCEPT !.name = s.to] ELSE k : k \in @}]
===============================================================================
