-------------------------- MODULE MCSubjectExecutor --------------------------
(* SubjectExecutor for TLC: a few schemas, and what may be stored and in memory. *)
EXTENDS SubjectExecutor

To(kind, name, type, to, inverse) ==
  [kind |-> kind, name |-> name, type |-> type, to |-> to, inverse |-> inverse, table |-> "",
   nullable |-> TRUE, cascade |-> {"insert", "update"}, orphan |-> "nullify"]

\* Posts and their authors, by the options of the many-to-one side.
Blog(nullable, orphan) ==
  [relations |-> <<[To("post", "author", "manyToOne", "author", "posts") EXCEPT
                      !.nullable = nullable, !.orphan = orphan],
                   [To("author", "posts", "oneToMany", "post", "author") EXCEPT
                      !.cascade = @ \union {"remove", "soft-remove", "recover"}]>>,
   kindOf |-> [p1 |-> "post", p2 |-> "post", a1 |-> "author", a2 |-> "author"],
   order |-> <<"p1", "p2", "a1", "a2">>,
   uuids |-> {}]

Tags ==
  [relations |-> <<[To("post", "tags", "manyToMany", "tag", "tagged") EXCEPT !.table = "post_tags"],
                   [To("tag", "tagged", "manyToManyInverse", "post", "tags") EXCEPT !.table = "post_tags"]>>,
   kindOf |-> [p1 |-> "post", t1 |-> "tag", t2 |-> "tag"],
   order |-> <<"p1", "t1", "t2">>,
   uuids |-> {}]

Profiles ==
  [relations |-> <<To("profile", "user", "oneToOne", "user", "profile"),
                   To("user", "profile", "oneToOneInverse", "profile", "user")>>,
   kindOf |-> [f1 |-> "profile", f2 |-> "profile", u1 |-> "user"],
   order |-> <<"f1", "f2", "u1">>,
   uuids |-> {}]

\* Categories, and what is filed under them.
Tree ==
  [relations |-> <<To("category", "parent", "manyToOne", "category", "children"),
                   To("category", "children", "oneToMany", "category", "parent")>>,
   kindOf |-> [c1 |-> "category", c2 |-> "category", c3 |-> "category"],
   order |-> <<"c1", "c2", "c3">>,
   uuids |-> {}]

\* A detail of an order, which may have a coupon; uuids: the kinds whose objects get
\* their identifiers before they are saved.
Orders(uuids) ==
  [relations |-> <<[To("detail", "order", "manyToOne", "order", "") EXCEPT !.nullable = FALSE,
                      !.cascade = @ \union {"remove"}],
                   To("order", "coupon", "manyToOne", "coupon", "")>>,
   kindOf |-> [d1 |-> "detail", o1 |-> "order", k1 |-> "coupon"],
   order |-> <<"d1", "o1", "k1">>,
   uuids |-> uuids]

Objects(s) == ToSet(s.order)
InOrder(s, objects) == SelectSeq(s.order, LAMBDA o : o \in objects)
Number(s, o) == CHOOSE i \in DOMAIN s.order : s.order[i] = o
OfKind(s, kind) == {o \in Objects(s) : s.kindOf[o] = kind}
OwningOf(s, kind) == {r \in ToSet(s.relations) : r.type \in OwningTypes /\ r.kind = kind}
Names(s) == {r.name : r \in ToSet(s.relations)}

(* An assignment relates the objects: refs gives for an object and an owning       *)
(* relation of it the object referred to, or ""; pairs are those of a junction.    *)
Columns(s) == UNION {{<<o, r.name>> : r \in OwningOf(s, s.kindOf[o])} : o \in Objects(s)}
Target(s, c) == (CHOOSE r \in OwningOf(s, s.kindOf[c[1]]) : r.name = c[2]).to
OneToOne(s, f) == \A r \in ToSet(s.relations) : r.type = "oneToOne" =>
                    \A c, d \in DOMAIN f : c # d /\ f[c] # "" => f[c] # f[d]
Refs(s) ==
  {f \in [Columns(s) -> Objects(s) \union {""}] :
     /\ \A c \in DOMAIN f : f[c] # c[1] /\ f[c] \in OfKind(s, Target(s, c)) \union {""}
     /\ OneToOne(s, f)
     /\ ~\E c, d \in DOMAIN f : f[c] = d[1] /\ f[d] = c[1]}
Pairs(s) == SUBSET UNION {{[table |-> r.table, owner |-> o, inverse |-> i] :
                             o \in OfKind(s, r.kind), i \in OfKind(s, r.to)} :
                            r \in {x \in ToSet(s.relations) : x.type = "manyToMany"}}
Assignments(s) == [refs : Refs(s), pairs : Pairs(s)]

Required(s, a, objects) ==
  \A o \in objects : \A r \in OwningOf(s, s.kindOf[o]) : ~r.nullable => a.refs[<<o, r.name>>] # ""
Within(a, objects) ==
  /\ \A c \in DOMAIN a.refs : a.refs[c] = "" \/ {c[1], a.refs[c]} \subseteq objects
  /\ \A l \in a.pairs : {l.owner, l.inverse} \subseteq objects

DbOf(s, a, stored) ==
  [rows |-> {[kind |-> s.kindOf[o], id |-> Number(s, o), value |-> "old", deleted |-> FALSE,
              refs |-> [n \in {r.name : r \in OwningOf(s, s.kindOf[o])} |->
                          IF a.refs[<<o, n>>] = "" THEN 0 ELSE Number(s, a.refs[<<o, n>>])]] : o \in stored},
   links |-> {[table |-> l.table, owner |-> Number(s, l.owner), inverse |-> Number(s, l.inverse)] : l \in a.pairs}]

Related(s, a, o, r) ==
  CASE r.type \in OwningTypes -> {a.refs[<<o, r.name>>]} \ {""}
    [] r.type \in {"oneToMany", "oneToOneInverse"} -> {p \in OfKind(s, r.to) : a.refs[<<p, r.inverse>>] = o}
    [] r.type = "manyToMany" -> {l.inverse : l \in {x \in a.pairs : x.owner = o}}
    [] r.type = "manyToManyInverse" -> {l.owner : l \in {x \in a.pairs : x.inverse = o}}

GraphOf(s, a, stored, shown) ==
  [o \in Objects(s) |->
     [id |-> IF o \in stored \/ s.kindOf[o] \in s.uuids THEN Number(s, o) ELSE 0, value |-> "new",
      rel |-> [n \in {r.name : r \in {x \in ToSet(s.relations) : x.kind = s.kindOf[o]}} |->
                 LET r == CHOOSE x \in ToSet(s.relations) : x.name = n /\ x.kind = s.kindOf[o]
                 IN [set |-> n \in shown,
                     of |-> IF n \in shown THEN InOrder(s, Related(s, a, o, r)) ELSE <<>>]]]]

(* A child that has moved from one parent to another, the old one being saved with *)
(* its children (as in MCMoving), and a partner given to another one-to-one.    *)
Moved(s, before, after, shown) ==
  \E r \in ToSet(s.relations) : \E c \in DOMAIN before.refs :
    /\ r.type = "manyToOne" /\ c[2] = r.name /\ r.inverse \in shown
    /\ "" \notin {before.refs[c], after.refs[c]} /\ before.refs[c] # after.refs[c]
Replaced(s, before, after) ==
  \E r \in ToSet(s.relations) : \E c, d \in DOMAIN before.refs :
    r.type = "oneToOne" /\ c # d /\ before.refs[c] # "" /\ before.refs[c] = after.refs[d]

(* Objects that are stored, related as they are stored and as they are in memory,  *)
(* with the relations that are defined there, and a call.                          *)
Family(s, modes, rootses, chunks, shown) ==
  [m |-> s, modes |-> modes, rootses |-> rootses, chunks |-> chunks, shown |-> shown]
Saving(s, rootses, shown) == Family(s, {"save"}, rootses, {0}, shown)
Removing(s, modes, rootses, shown) == Family(s, modes, rootses, {0}, shown)

Begin(f, stored, before, after, shown) ==
  /\ m = f.m /\ graph = GraphOf(f.m, after, stored, shown) /\ db = DbOf(f.m, before, stored)
  /\ mode \in f.modes /\ roots \in f.rootses /\ chunk \in f.chunks
  /\ mode = "save" \/ ToSet(roots) \subseteq stored
  /\ Init
Assigned(s, objects) == {a \in Assignments(s) : Required(s, a, objects)}
Startings(families, Excluded(_, _, _, _)) ==
  \E f \in families : \E stored \in SUBSET Objects(f.m) :
    \E before \in {a \in Assigned(f.m, stored) : Within(a, stored)} :
      \E after \in IF f.modes = {"save"} THEN Assigned(f.m, Objects(f.m)) ELSE {before}, shown \in f.shown :
        ~Excluded(f.m, before, after, shown) /\ Begin(f, stored, before, after, shown)

BlogShown == {{"author"}, {"posts"}, {"author", "posts"}}
MCFamilies ==
  {Saving(Blog(TRUE, "nullify"), {<<"p1">>, <<"a1">>, <<"p1", "p2">>}, BlogShown),
   [Saving(Blog(TRUE, "nullify"), {<<"a1", "a2">>}, BlogShown) EXCEPT !.chunks = {0, 1}],
   Saving(Blog(FALSE, "nullify"), {<<"p1">>, <<"a1">>}, {{"author"}, {"author", "posts"}}),
   Saving(Blog(FALSE, "nullify"), {<<"a1">>, <<"a1", "a2">>}, {{"posts"}}),
   Saving(Blog(FALSE, "delete"), {<<"a1">>, <<"a1", "a2">>}, {{"posts"}, {"author", "posts"}}),
   Saving(Blog(TRUE, "disable"), {<<"a1">>}, {{"posts"}}),
   Saving(Blog(TRUE, "soft-delete"), {<<"a1">>}, {{"posts"}}),
   Saving(Tags, {<<"p1">>, <<"t1">>, <<"t1", "t2">>}, {{"tags"}, {"tagged"}}),
   Saving(Profiles, {<<"f1">>, <<"u1">>, <<"f1", "f2">>}, {{"user"}, {"profile"}, {"user", "profile"}}),
   Saving(Tree, {<<"c1">>, <<"c1", "c2", "c3">>}, {{"parent"}, {"children"}, {"parent", "children"}}),
   Saving(Orders({}), {<<"d1">>, <<"k1", "o1", "d1">>}, {{"order", "coupon"}}),
   Saving(Orders({"detail"}), {<<"d1">>, <<"k1", "o1", "d1">>}, {{"order", "coupon"}}),
   Removing(Blog(TRUE, "nullify"), {"remove"}, {<<"p1">>, <<"a1">>, <<"a1", "a2">>}, {{"posts"}, {"author", "posts"}}),
   Removing(Blog(TRUE, "nullify"), {"soft-remove", "recover"}, {<<"p1">>, <<"a1">>, <<"a1", "a2">>}, {{}, {"posts"}}),
   Removing(Tags, {"remove", "soft-remove", "recover"}, {<<"p1">>, <<"p1", "t1">>, <<"t1">>}, {{}, {"tags"}}),
   Removing(Tree, {"remove"}, {<<"c1", "c2", "c3">>}, {{}, {"children"}}),
   Removing(Orders({}), {"remove"}, {<<"d1">>, <<"d1", "o1">>, <<"k1", "o1", "d1">>}, {{}, {"order", "coupon"}})}

MCInit == Startings(MCFamilies, LAMBDA s, before, after, shown : Moved(s, before, after, shown) \/ Replaced(s, before, after))
MCSpec == MCInit /\ [][Next]_vars

MCMoving == {Saving(Blog(nullable, "nullify"), {<<"a1", "a2">>}, {{"posts"}}) : nullable \in BOOLEAN}
MCSpecMoving == Startings(MCMoving, LAMBDA s, before, after, shown : FALSE) /\ [][Next]_vars

MCValues == {"heard"}
===============================================================================
