------------------------ MODULE MCRdbmsSchemaBuilder ------------------------
(* RdbmsSchemaBuilder for TLC: versions of two entities, and pairs of them. *)
EXTENDS RdbmsSchemaBuilder

Plain(name, type) ==
  [name |-> name, type |-> type, detail |-> "", nullable |-> FALSE, default |-> None,
   comment |-> None, primary |-> FALSE, pkName |-> None, unique |-> FALSE,
   generated |-> "no", values |-> {}, enumName |-> None]
Id(type, generated) == [Plain("id", type) EXCEPT !.primary = TRUE, !.generated = generated]
Kind(values) == [Plain("kind", "enum") EXCEPT !.values = values]
Value(v) == <<"value", v>>

Default(kind, t, columns, rule) == Key(kind, Hash(kind, t, columns, None), columns, None, rule)
Custom(kind, t, columns, rule) == Key(kind, <<"custom", kind, t>>, columns, None, rule)
AuthorKey(columns, to, rule) ==
  Key("FK", Hash("FK", "post", columns, <<"author", to>>), columns, <<"author", to>>, rule)

Entity(columns, keys) == [columns |-> columns, keys |-> keys, comment |-> None]
Author == Entity(<<Id("int", "increment"), Plain("name", "text")>>, {})
Title == Plain("title", "text")
Post(title, others, keys) ==
  Entity(<<Id("int", "increment"), title, Plain("authorId", "int")>> \o others, keys)
ToAuthor == AuthorKey({"authorId"}, {"id"}, "CASCADE")
Of(author, post) == [t \in {"author", "post"} |-> IF t = "author" THEN author ELSE post]

Base == Of(Author, Post(Title, <<>>, {ToAuthor}))
TitleIndex == Default("IDX", "post", {"title"}, "")
TitleUnique == Default("UQ", "post", {"title"}, "")
UniqueTitle == [Title EXCEPT !.unique = TRUE]
Pair == {"title", "authorId"}

MCEntities == <<"post", "author">>

Empty == [t \in {} |-> Base["post"]]

MCVersions == <<
  Empty,
  Base,
  \* 3: another default, comment, nullability and detail
  Of(Author, Post([Title EXCEPT !.nullable = TRUE, !.default = Value("x"), !.comment = Value("c"),
                                !.detail = "d"], <<>>, {ToAuthor})),
  \* 4: a unique title, and composite keys around it
  Of(Author, Post(UniqueTitle, <<>>, {ToAuthor, TitleUnique, Default("UQ", "post", Pair, "")})),
  \* 5: a plain index, a composite one and a check
  Of(Author, Post(Title, <<>>, {ToAuthor, TitleIndex, Custom("IDX", "post", Pair, ""),
                                Default("CHK", "post", {"title"}, "")})),
  \* 6: the composite index is unique, and there is an exclusion
  Of(Author, Post(Title, <<>>, {ToAuthor, Custom("IDX", "post", Pair, "UNIQUE"),
                                Default("XCL", "post", {"title"}, "")})),
  \* 7: another type, with an index
  Of(Author, Post(Plain("title", "int"), <<>>, {ToAuthor, TitleIndex})),
  \* 8: another name, with an index
  Of(Author, Post(Plain("heading", "text"), <<>>,
                  {ToAuthor, Default("IDX", "post", {"heading"}, "")})),
  \* 9: the referenced key and the column that refers to it have another type
  Of(Entity(<<Id("uuid", "uuid"), Plain("name", "text")>>, {}),
     Entity(<<Id("int", "increment"), Title, Plain("authorId", "uuid")>>, {ToAuthor})),
  \* 10: the foreign key is enforced otherwise, and there is a new enum column
  Of(Author, Post(Title, <<Kind({"a", "b"})>>, {AuthorKey({"authorId"}, {"id"}, "RESTRICT")})),
  \* 11: the enum has another value, and there is a table comment
  Of([Author EXCEPT !.comment = Value("t")],
     Post(Title, <<Kind({"a", "b", "c"})>>, {ToAuthor})),
  \* 12: the enum lost one and has a default
  Of(Author, Post(Title, <<[Kind({"a", "c"}) EXCEPT !.default = Value("a")]>>, {ToAuthor})),
  \* 13: no foreign key, a composite primary key
  Of(Author, Entity(<<Id("int", "no"), Title, [Plain("authorId", "int") EXCEPT !.primary = TRUE]>>, {})),
  \* 14: the author gets a new primary key
  Of(Entity(<<Plain("id", "int"), [Plain("code", "int") EXCEPT !.primary = TRUE], Plain("name", "text")>>, {}),
     Post(Title, <<>>, {AuthorKey({"authorId"}, {"code"}, "CASCADE")})),
  \* 15: another column in the primary key
  Of(Author, Post(Title, <<[Plain("lang", "text") EXCEPT !.primary = TRUE]>>, {ToAuthor})),
  \* 16: the enum column of 10 has another name
  Of(Author, Post(Title, <<[Kind({"a", "b"}) EXCEPT !.name = "sort"]>>,
                  {AuthorKey({"authorId"}, {"id"}, "RESTRICT")})),
  \* 17: a key with another name, and the unique column of 4
  Of(Author, Entity(<<[Id("int", "increment") EXCEPT !.name = "key"], UniqueTitle, Plain("authorId", "int")>>,
                    {ToAuthor, TitleUnique, Default("UQ", "post", Pair, "")})),
  \* 18: the unique column of 4 has another name
  Of(Author, Post([UniqueTitle EXCEPT !.name = "heading"], <<>>,
                  {ToAuthor, Default("UQ", "post", {"heading"}, ""),
                   Default("UQ", "post", {"heading", "authorId"}, "")}))>>

\* From one of these to another an enum type is replaced or a key renamed along
\* with its column, in several statements: cut off in between, neither is resumed.
NotResumed == {{10, 11, 12, 15, 16}, {4, 17, 18}}

\* The down of these does not lead back ...
MCDowns == {[from |-> 3, to |-> 7, mode |-> "log"], [from |-> 12, to |-> 11, mode |-> "log"]}

\* ... and these go wrong: an enum column renamed and retyped in memory leaves its
\* type behind, and a column that left the primary key with updatePrimaryKeys
\* stays primary in the cache.
MCWrong ==
  [from : {10, 11, 12, 16}, to : {15}, mode : {"log"}]
    \union [from : {13}, to : {15}, mode : {"all", "none", "log"}]

MCScenarios ==
  {s \in [from : DOMAIN MCVersions, to : DOMAIN MCVersions \ {1}, mode : {"all", "none", "log"}] :
     /\ s \notin MCDowns \union MCWrong
     /\ s.mode = "none" => \A n \in NotResumed : ~({s.from, s.to} \subseteq n)}
===============================================================================
