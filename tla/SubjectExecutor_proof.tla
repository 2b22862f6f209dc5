------------------------- MODULE SubjectExecutor_proof -------------------------
(***************************************************************************)
(* What a save, remove, soft removal or recovery leaves alone, and that a  *)
(* remove takes away all that it is to, of any metadata, objects and rows. *)
(*                                                                         *)
(* The inductive invariant, IInv, says of every subject of every executor  *)
(* what it is (Lawful): the subject of an object that is operated on, that *)
(* of a row of a junction table, or that of a row which is related to such *)
(* an object and which it may only change by its join column, or remove as *)
(* an orphan.  That holds when the executors are built (the first part),   *)
(* and every step keeps it; so every statement keeps the rows that are not *)
(* to be changed (Kept).                                                   *)
(*                                                                         *)
(* For a remove, RInv adds what is in the executors: each object with an   *)
(* identifier that cascades from a root has a subject in one of them       *)
(* (AllCovered), whose row is in a group to come or gone.                  *)
(***************************************************************************)
EXTENDS SubjectExecutor, FiniteSetTheorems, TLAPS


(***************************************************************************)
(* Lists.                                                                  *)
(***************************************************************************)
\* A nonempty set of naturals has a smallest member.
LEMMA LeastExists ==
  ASSUME NEW T \in SUBSET Nat, T # {}
  PROVE  \E n \in T : \A x \in T : n <= x
<1>1. PICK n \in T : \A x \in T : ~(<<x, n>> \in OpToRel(<, Nat))
  BY WFMin, NatLessThanWellFounded, Zenon
<1>2. \A x \in T : <<x, n>> \in OpToRel(<, Nat) <=> x < n
  BY DEF OpToRel
<1>3. \A x \in T : ~(x < n)
  BY <1>1, <1>2, Zenon
<1>4. T \subseteq Nat
  OBVIOUS
<1> QED
  BY <1>3, <1>4

LEMMA MinIn ==
  ASSUME NEW T \in SUBSET Nat, T # {}
  PROVE  Min(T) \in T
<1>1. \E n \in T : \A x \in T : n <= x
  BY LeastExists
<1> QED
  BY <1>1 DEF Min

LEMMA ListFacts ==
  ASSUME NEW S, NEW t \in Seq(S)
  PROVE  /\ Len(t) \in Nat /\ DOMAIN t = 1..Len(t) /\ t = [i \in 1..Len(t) |-> t[i]]
         /\ \A i \in 1..Len(t) : t[i] \in S /\ t[i] \in ToSet(t)
  BY DEF ToSet

LEMMA WiderList ==
  ASSUME NEW S, NEW T, S \subseteq T, NEW t \in Seq(S)
  PROVE  t \in Seq(T)
  OBVIOUS

LEMMA AppendIn ==
  ASSUME NEW S, NEW t \in Seq(S), NEW x
  PROVE  Append(t, x) \in Seq(S \union {x})
<1>1. t \in Seq(S \union {x})
  BY WiderList
<1>2. \A T : \A u \in Seq(T) : \A y \in T : Append(u, y) \in Seq(T)
  OBVIOUS
<1> QED
  BY <1>1, <1>2

LEMMA OneIn ==
  ASSUME NEW x, NEW t, t = <<x>>
  PROVE  t \in Seq({x}) /\ Len(t) = 1 /\ t[1] = x /\ ToSet(t) = {x} /\ DOMAIN t = {1}
  BY DEF ToSet

LEMMA EmptyConcat ==
  ASSUME NEW S, NEW t \in Seq(S)
  PROVE  t \o <<>> = t
  OBVIOUS

LEMMA ConcatIn ==
  ASSUME NEW S, NEW t \in Seq(S), NEW u \in Seq(S)
  PROVE  t \o u \in Seq(S)
  OBVIOUS

LEMMA IndexedIn ==
  ASSUME NEW S, NEW n \in Nat, NEW f, DOMAIN f = 1..n, \A i \in 1..n : f[i] \in S, f = [i \in 1..n |-> f[i]]
  PROVE  f \in Seq(S) /\ Len(f) = n
<1>1. f \in [1..n -> S]
  OBVIOUS
<1> QED
  BY <1>1

LEMMA SeqOfItsOwn ==
  ASSUME NEW S, NEW t \in Seq(S)
  PROVE  t \in Seq(ToSet(t)) /\ ToSet(t) \subseteq S
<1>1. Len(t) \in Nat /\ DOMAIN t = 1..Len(t) /\ t = [i \in 1..Len(t) |-> t[i]]
  OBVIOUS
<1>2. \A i \in 1..Len(t) : t[i] \in ToSet(t) /\ t[i] \in S
  BY <1>1 DEF ToSet
<1>3. t \in Seq(ToSet(t))
  BY <1>1, <1>2, IndexedIn
<1> QED
  BY <1>1, <1>2, <1>3 DEF ToSet

LEMMA PlacesFinite ==
  ASSUME NEW n \in Nat, NEW places \in SUBSET (1..n)
  PROVE  IsFiniteSet(places) /\ Cardinality(places) \in Nat
<1>1. IsFiniteSet(1..n)
  BY FS_Interval
<1> QED
  BY <1>1, FS_Subset, FS_CardinalityType

UpTo(places, i) == {j \in places : j <= i}

\* Each place has a rank, and each rank a place.
LEMMA RankHasPlace ==
  ASSUME NEW n \in Nat, NEW places \in SUBSET (1..n), NEW k \in 1..Cardinality(places)
  PROVE  \E i \in places : Cardinality(UpTo(places, i)) = k
<1>1. \A i \in Nat : UpTo(places, i) \in SUBSET (1..n) /\ IsFiniteSet(UpTo(places, i)) /\ Cardinality(UpTo(places, i)) \in Nat
  BY PlacesFinite DEF UpTo
<1>0. \A j \in places : j \in Nat /\ 1 <= j /\ j <= n
  OBVIOUS
<1> DEFINE T == {i \in Nat : Cardinality(UpTo(places, i)) >= k}
<1>2. k \in Nat /\ k >= 1 /\ k <= Cardinality(places) /\ Cardinality(places) \in Nat
  BY PlacesFinite
<1>3. UpTo(places, n) = places
  BY <1>0 DEF UpTo
<1>4. n \in T
  BY <1>2, <1>3
<1>5. PICK l \in T : \A x \in T : l <= x
  <2>1. T \in SUBSET Nat /\ T # {}
    BY <1>4
  <2> HIDE DEF T
  <2> QED
    BY <2>1, LeastExists
<1>6. UpTo(places, 0) = {} /\ Cardinality({}) = 0
  <2>1. \A j \in places : ~(j <= 0)
    BY <1>0
  <2> QED
    BY <2>1, FS_EmptySet DEF UpTo
<1>7. l # 0
  BY <1>2, <1>5, <1>6
<1>8. l - 1 \in Nat /\ ~(Cardinality(UpTo(places, l - 1)) >= k)
  BY <1>5, <1>7
<1>9. CASE l \in places
  <2>0. \A j \in places : (j <= l <=> j <= l - 1 \/ j = l) /\ ~(l <= l - 1)
    BY <1>0, <1>5
  <2>1. UpTo(places, l) = UpTo(places, l - 1) \union {l} /\ l \notin UpTo(places, l - 1)
    BY <1>9, <2>0 DEF UpTo
  <2>2. Cardinality(UpTo(places, l)) = Cardinality(UpTo(places, l - 1)) + 1
    BY <1>1, <1>8, <2>1, FS_AddElement
  <2>3. Cardinality(UpTo(places, l)) = k
    BY <1>1, <1>2, <1>5, <1>8, <2>2
  <2> QED
    BY <1>9, <2>3
<1>10. CASE l \notin places
  <2>0. \A j \in places : j <= l <=> j <= l - 1
    BY <1>0, <1>5, <1>10
  <2>1. UpTo(places, l) = UpTo(places, l - 1)
    BY <2>0 DEF UpTo
  <2> QED
    BY <1>5, <1>8, <2>1
<1> QED
  BY <1>9, <1>10

LEMMA PickedFrom ==
  ASSUME NEW n \in Nat, NEW places \in SUBSET (1..n), NEW list
  PROVE  /\ Picked(list, places) \in Seq({list[i] : i \in places})
         /\ Len(Picked(list, places)) = Cardinality(places)
<1> DEFINE place(k) == CHOOSE i \in places : Cardinality({j \in places : j <= i}) = k
           them == [k \in 1..Cardinality(places) |-> list[place(k)]]
<1>1. Cardinality(places) \in Nat
  BY PlacesFinite
<1>2. \A k \in 1..Cardinality(places) : place(k) \in places
  BY RankHasPlace DEF UpTo
<1>3. \A k \in 1..Cardinality(places) : them[k] \in {list[i] : i \in places}
  BY <1>2
<1>4. them = [k \in 1..Cardinality(places) |-> them[k]] /\ DOMAIN them = 1..Cardinality(places)
  OBVIOUS
<1>5. Picked(list, places) = them \o <<>>
  BY DEF Picked
<1> HIDE DEF them
<1>6. them \in Seq({list[i] : i \in places}) /\ Len(them) = Cardinality(places)
  BY <1>1, <1>3, <1>4, IndexedIn
<1>7. them \o <<>> = them
  BY <1>6, EmptyConcat
<1> QED
  BY <1>5, <1>6, <1>7

LEMMA PickedIn ==
  ASSUME NEW S, NEW list \in Seq(S), NEW places \in SUBSET DOMAIN list
  PROVE  /\ Picked(list, places) \in Seq(S)
         /\ \A x \in ToSet(Picked(list, places)) : \E i \in places : x = list[i]
<1>1. Len(list) \in Nat /\ DOMAIN list = 1..Len(list) /\ places \in SUBSET (1..Len(list))
  OBVIOUS
<1>2. Picked(list, places) \in Seq({list[i] : i \in places})
  BY <1>1, PickedFrom
<1>3. \A i \in places : list[i] \in S
  BY <1>1
<1>4. {list[i] : i \in places} \subseteq S
  BY <1>3
<1>5. ToSet(Picked(list, places)) \subseteq {list[i] : i \in places}
  BY <1>2, SeqOfItsOwn
<1>6. \A T : T \subseteq S => Seq(T) \subseteq Seq(S)
  OBVIOUS
<1> QED
  BY <1>2, <1>4, <1>5, <1>6

\* What a list of lists is made one from: the first k of them, one after the other.
Flattened(f, seqs, k) ==
  f = [i \in 1..k |-> IF i = 1 THEN seqs[i] ELSE f[i - 1] \o seqs[i]]

LEMMA FlattenedOneMore ==
  ASSUME NEW seqs, NEW k \in Nat, NEW f, Flattened(f, seqs, k)
  PROVE  \E g : Flattened(g, seqs, k + 1)
<1> DEFINE g == [i \in 1..(k + 1) |->
                   IF i = k + 1 THEN (IF i = 1 THEN seqs[i] ELSE f[k] \o seqs[i]) ELSE f[i]]
           next(i) == IF i = 1 THEN seqs[i] ELSE g[i - 1] \o seqs[i]
<1>1. ASSUME NEW i \in 1..(k + 1)
      PROVE  g[i] = next(i)
  <2>1. CASE i = k + 1
    <3>1. CASE i = 1
      BY <2>1, <3>1
    <3>2. CASE i # 1
      <4>1. i - 1 \in 1..(k + 1) /\ i - 1 # k + 1 /\ i - 1 = k
        BY <2>1, <3>2
      <4>2. g[i - 1] = f[k]
        BY <4>1
      <4> QED
        BY <2>1, <3>2, <4>2
    <3> QED
      BY <3>1, <3>2
  <2>2. CASE i # k + 1
    <3>1. i \in 1..k /\ g[i] = f[i]
      BY <2>2
    <3>2. f[i] = IF i = 1 THEN seqs[i] ELSE f[i - 1] \o seqs[i]
      BY <3>1 DEF Flattened
    <3>3. CASE i = 1
      BY <3>1, <3>2, <3>3
    <3>4. CASE i # 1
      <4>1. i - 1 \in 1..(k + 1) /\ i - 1 # k + 1
        BY <3>1, <3>4
      <4>2. g[i - 1] = f[i - 1]
        BY <4>1
      <4> QED
        BY <3>1, <3>2, <3>4, <4>2
    <3> QED
      BY <3>3, <3>4
  <2> QED
    BY <2>1, <2>2
<1>2. g = [i \in 1..(k + 1) |-> next(i)]
  <2> SUFFICES [i \in 1..(k + 1) |-> g[i]] = [i \in 1..(k + 1) |-> next(i)]
    OBVIOUS
  <2> HIDE DEF g, next
  <2> QED
    BY <1>1
<1> QED
  BY <1>2 DEF Flattened

LEMMA FlattenedExists ==
  ASSUME NEW seqs, NEW n \in Nat
  PROVE  \E f : Flattened(f, seqs, n)
<1> DEFINE T == {k \in Nat : ~\E f : Flattened(f, seqs, k)}
<1>1. SUFFICES ASSUME T # {} PROVE FALSE
  OBVIOUS
<1>2. PICK l \in T : \A k \in T : l <= k
  <2>1. T \in SUBSET Nat
    OBVIOUS
  <2> HIDE DEF T
  <2> QED
    BY <1>1, <2>1, LeastExists
<1>3. l # 0
  <2> DEFINE f == [i \in 1..0 |-> seqs[i]]
  <2>1. \A i \in 1..0 : FALSE
    OBVIOUS
  <2>2. f = [i \in 1..0 |-> IF i = 1 THEN seqs[i] ELSE f[i - 1] \o seqs[i]]
    BY <2>1
  <2>3. Flattened(f, seqs, 0)
    BY <2>2 DEF Flattened
  <2> QED
    BY <1>2, <2>3
<1>4. l - 1 \in Nat /\ l - 1 \notin T /\ (l - 1) + 1 = l
  BY <1>2, <1>3
<1>5. PICK f : Flattened(f, seqs, l - 1)
  BY <1>4
<1>6. \E g : Flattened(g, seqs, (l - 1) + 1)
  BY <1>4, <1>5, FlattenedOneMore
<1> QED
  BY <1>2, <1>4, <1>6

LEMMA FlattenIn ==
  ASSUME NEW S, NEW seqs \in Seq(Seq(S))
  PROVE  FlattenSeq(seqs) \in Seq(S)
<1>1. Len(seqs) \in Nat /\ \A i \in 1..Len(seqs) : seqs[i] \in Seq(S)
  OBVIOUS
<1>2. CASE Len(seqs) = 0
  <2>1. seqs = <<>>
    BY <1>2
  <2> QED
    BY <1>2, <2>1 DEF FlattenSeq
<1>3. CASE Len(seqs) # 0
  <2> DEFINE n == Len(seqs)
             it == CHOOSE f : f = [i \in 1..n |-> IF i = 1 THEN seqs[i] ELSE f[i - 1] \o seqs[i]]
  <2>1. Flattened(it, seqs, n)
    <3>1. \E f : Flattened(f, seqs, n)
      BY <1>1, FlattenedExists
    <3>2. \E f : f = [i \in 1..n |-> IF i = 1 THEN seqs[i] ELSE f[i - 1] \o seqs[i]]
      BY <3>1 DEF Flattened
    <3> QED
      BY <3>2 DEF Flattened
  <2>2. FlattenSeq(seqs) = it[n]
    BY <1>3 DEF FlattenSeq
  <2> HIDE DEF it, n
  <2>3. n \in Nat /\ n # 0 /\ \A i \in 1..n : seqs[i] \in Seq(S)
    BY <1>1, <1>3 DEF n
  <2>4. \A i \in 1..n : it[i] = IF i = 1 THEN seqs[i] ELSE it[i - 1] \o seqs[i]
    BY <2>1 DEF Flattened
  <2> DEFINE T == {k \in Nat : k \in 1..n /\ it[k] \notin Seq(S)}
  <2>5. SUFFICES ASSUME T # {} PROVE FALSE
    BY <2>2, <2>3
  <2>6. PICK l \in T : \A k \in T : l <= k
    <3>1. T \in SUBSET Nat
      OBVIOUS
    <3> HIDE DEF T
    <3> QED
      BY <2>5, <3>1, LeastExists
  <2>7. l # 1
    BY <2>3, <2>4, <2>6
  <2>8. l - 1 \in 1..n /\ l - 1 \notin T /\ l \in 1..n
    BY <2>3, <2>6, <2>7
  <2>9. it[l - 1] \in Seq(S) /\ seqs[l] \in Seq(S)
    BY <2>3, <2>8
  <2>10. it[l - 1] \o seqs[l] \in Seq(S)
    BY <2>9, ConcatIn
  <2> QED
    BY <2>4, <2>6, <2>7, <2>8, <2>10
<1> QED
  BY <1>2, <1>3

LEMMA SetToSeqIn ==
  ASSUME NEW S, IsFiniteSet(S)
  PROVE  SetToSeq(S) \in Seq(S)
<1>1. Cardinality(S) \in Nat /\ ExistsBijection(1..Cardinality(S), S)
  BY FS_CardinalityType
<1>2. PICK f : f \in Bijection(1..Cardinality(S), S)
  BY <1>1 DEF ExistsBijection
<1>3. f \in [1..Cardinality(S) -> S] /\ IsInjective(f)
  BY <1>2 DEF Bijection, Injection, IsInjective
<1>4. SetToSeq(S) \in [1..Cardinality(S) -> S]
  BY <1>3 DEF SetToSeq
<1> QED
  BY <1>1, <1>4

LEMMA DistinctIn ==
  ASSUME NEW S, NEW list \in Seq(S)
  PROVE  Distinct(list) \in Seq(S)
<1>1. {i \in DOMAIN list : \A j \in 1..(i - 1) : list[j] # list[i]} \in SUBSET DOMAIN list
  OBVIOUS
<1> QED
  BY <1>1, PickedIn DEF Distinct

LEMMA ReverseIn ==
  ASSUME NEW S, NEW t \in Seq(S)
  PROVE  Reverse(t) \in Seq(S)
<1>1. Len(t) \in Nat /\ \A i \in 1..Len(t) : (Len(t) - i) + 1 \in 1..Len(t)
  OBVIOUS
<1>2. \A i \in 1..Len(t) : t[(Len(t) - i) + 1] \in S
  BY <1>1
<1> QED
  BY <1>1, <1>2 DEF Reverse

LEMMA MaxIn ==
  ASSUME NEW S \in SUBSET Nat, S # {}, IsFiniteSet(S)
  PROVE  Max(S) \in S /\ \A y \in S : y <= Max(S)
<1> DEFINE Above(x) == {y \in S : y > x}
           T == {Cardinality(Above(x)) : x \in S}
<1>1. \A x \in S : IsFiniteSet(Above(x)) /\ Cardinality(Above(x)) \in Nat
  <2> TAKE x \in S
  <2>1. Above(x) \in SUBSET S
    OBVIOUS
  <2> HIDE DEF Above
  <2> QED
    BY <2>1, FS_Subset, FS_CardinalityType
<1>2. PICK n \in T : \A k \in T : n <= k
  <2>1. T \in SUBSET Nat /\ T # {}
    BY <1>1
  <2> HIDE DEF T
  <2> QED
    BY <2>1, LeastExists
<1>3. PICK x \in S : n = Cardinality(Above(x))
  BY <1>2
<1>4. Above(x) = {}
  <2> SUFFICES ASSUME NEW y \in S, y > x PROVE FALSE
    OBVIOUS
  <2>0. \A z \in S : z > y => z > x
    OBVIOUS
  <2>1. Above(y) \in SUBSET Above(x) /\ y \in Above(x) /\ y \notin Above(y)
    <3>1. ~(y > y)
      OBVIOUS
    <3> QED
      BY <2>0, <3>1
  <2>2. n <= Cardinality(Above(y))
    BY <1>2
  <2> HIDE DEF Above
  <2>3. Cardinality(Above(y)) <= Cardinality(Above(x)) /\ Cardinality(Above(y)) # Cardinality(Above(x))
    BY <1>1, <2>1, FS_Subset
  <2> QED
    BY <1>1, <1>3, <2>2, <2>3
<1>5. \A y \in S : x >= y
  BY <1>4
<1>6. Max(S) \in S /\ \A y \in S : Max(S) >= y
  BY <1>5 DEF Max
<1> QED
  BY <1>6

(***************************************************************************)
(* What a call may touch.  g and d are the objects and rows that the call  *)
(* began with.                                                             *)
(***************************************************************************)
\* The row, if there is one, is that of an object that is saved or removed.
Free(g, d, kind, id) ==
  \A row \in d.rows : row.kind = kind /\ row.id = id =>
    \E o \in Operated : m.kindOf[o] = kind /\ g[o].id = id

InverseTypes == {"oneToMany", "oneToOneInverse"}
\* Such an object has, or had, the row in the inverse side of the relation.
HeldBy(g, d, kind, id, name, o, x) ==
  /\ x.inverse = name /\ g[o].rel[x.name].set
  /\ \/ \E p \in ToSet(g[o].rel[x.name].of) : p \notin Operated /\ g[p].id = id
     \/ \E row \in d.rows : row.kind = kind /\ row.id = id /\ row.refs[name] = g[o].id
Held(g, d, kind, id, name) ==
  \E o \in Operated : \E x \in Relations(m, m.kindOf[o], InverseTypes) :
    HeldBy(g, d, kind, id, name, o, x)
Orphaned(g, d, kind, id) ==
  \E r \in OwningRelations(kind) :
    /\ Held(g, d, kind, id, r.name)
    /\ r.orphan = "delete" \/ (r.orphan = "nullify" /\ ~r.nullable)

\* A subject of an object; memory: the objects as they are.
Own(memory, g, d, s) ==
  /\ s.object \in Operated /\ s.kind = m.kindOf[s.object]
  /\ \A i \in DOMAIN s.ids : s.ids[i] \in Nat \ {0} /\ Free(g, d, s.kind, s.ids[i])
  /\ s.canBeInserted => mode = "save"
  /\ s.mustBeRemoved => mode = "remove"
  /\ s.inserted => s.ids # <<>>
  /\ \A c \in ToSet(s.changes) : c.on = "id" =>
       /\ c.subject = 0 /\ c.object = s.object
       /\ s.canBeInserted => memory[s.object].id # 0

\* Of a row of a junction table.
Link(s) == s.object = "" /\ s.kind \in Tables

\* Of a related row.
Bare(g, d, s) ==
  /\ s.object = "" /\ s.kind \notin Tables /\ ~s.canBeInserted /\ Len(s.ids) = 1
  /\ Free(g, d, s.kind, s.ids[1]) \/
       /\ \A c \in ToSet(s.changes) : c.on # "value" /\ Held(g, d, s.kind, s.ids[1], c.on)
       /\ s.mustBeRemoved => Orphaned(g, d, s.kind, s.ids[1])

Fields == {"kind", "object", "ids", "before", "loaded", "canBeInserted", "canBeUpdated", "mustBeRemoved",
           "canBeSoftRemoved", "canBeRecovered", "changes", "inserted"}
Shaped(s) ==
  /\ s = [f \in Fields |-> s[f]]
  /\ s.changes \in Seq(ToSet(s.changes)) /\ s.ids \in Seq(ToSet(s.ids))
Lawful(memory, g, d, s) == Shaped(s) /\ (Own(memory, g, d, s) \/ Link(s) \/ Bare(g, d, s))
AllLawful(memory, g, d, list) ==
  list \in Seq(ToSet(list)) /\ \A s \in ToSet(list) : Lawful(memory, g, d, s)

Ready(p, s) ==
  CASE p = "inserting" -> s.canBeInserted
    [] p = "removing" -> s.mustBeRemoved /\ s.ids # <<>>
    [] OTHER -> s.ids # <<>>
Group(list, p, group) ==
  /\ group \in Seq(DOMAIN list)
  /\ \A i, j \in ToSet(group) : list[i].kind = list[j].kind
  /\ \A i \in ToSet(group) : Ready(p, list[i])
  /\ p = "updating" => group # <<>>

(***************************************************************************)
(* Building.                                                               *)
(***************************************************************************)
Typed ==
  /\ SchemaIsTyped /\ ObjectsAreTyped /\ RowsAreTyped(db)
  /\ mode \in {"save", "remove", "soft-remove", "recover"} /\ roots \in Seq(DOMAIN graph) /\ chunk \in Nat

\* What is worked out of the relations of an object.
ValuesOf(o) ==
  {v \in [relation : Relations(m, m.kindOf[o], AllTypes), object : DOMAIN graph] :
     v.object \in ToSet(graph[o].rel[v.relation.name].of)}

LEMMA SchemaFacts ==
  ASSUME SchemaIsTyped
  PROVE  /\ m.relations \in Seq(ToSet(m.relations))
         /\ \A q, r \in ToSet(m.relations) : q.name = r.name => q = r
         /\ \A r \in ToSet(m.relations) :
              /\ r.type \in AllTypes /\ r.orphan \in {"nullify", "delete", "soft-delete", "disable"}
              /\ r.name \notin {"id", "value", "owner", "inverse"}
              /\ r.type \in {"oneToMany", "oneToOneInverse"} =>
                   \E q \in Relations(m, r.to, OwningTypes) : q.name = r.inverse
  BY DEF SchemaIsTyped

LEMMA RelationsOfIn ==
  ASSUME SchemaIsTyped, NEW kind, NEW types
  PROVE  RelationsOf(m, kind, types) \in Seq(Relations(m, kind, types))
<1> DEFINE places == {i \in DOMAIN m.relations : m.relations[i] \in Relations(m, kind, types)}
<1>1. m.relations \in Seq(ToSet(m.relations))
  BY SchemaFacts
<1>2. Len(m.relations) \in Nat /\ DOMAIN m.relations = 1..Len(m.relations)
  BY <1>1
<1>3. places \in SUBSET (1..Len(m.relations))
  BY <1>2
<1>4. Picked(m.relations, places) \in Seq({m.relations[i] : i \in places})
  BY <1>2, <1>3, PickedFrom
<1>5. {m.relations[i] : i \in places} \subseteq Relations(m, kind, types)
  OBVIOUS
<1>6. \A S, T : S \subseteq T => Seq(S) \subseteq Seq(T)
  OBVIOUS
<1>7. RelationsOf(m, kind, types) = Picked(m.relations, places)
  BY DEF RelationsOf
<1> HIDE DEF places
<1> QED
  BY <1>4, <1>5, <1>6, <1>7

LEMMA ObjectFacts ==
  ASSUME ObjectsAreTyped, NEW o \in DOMAIN graph
  PROVE  /\ o # "" /\ m.kindOf[o] \notin Tables /\ graph[o].id \in Nat
         /\ \A r \in Relations(m, m.kindOf[o], AllTypes) :
              /\ graph[o].rel[r.name].of \in Seq(DOMAIN graph)
              /\ \A p \in ToSet(graph[o].rel[r.name].of) : p \in DOMAIN graph /\ m.kindOf[p] = r.to
<1>1. o # "" /\ m.kindOf[o] \notin Tables /\ graph[o].id \in Nat
  BY DEF ObjectsAreTyped
<1>2. ASSUME NEW r \in Relations(m, m.kindOf[o], AllTypes)
      PROVE  /\ graph[o].rel[r.name].of \in Seq(DOMAIN graph)
             /\ \A p \in ToSet(graph[o].rel[r.name].of) : p \in DOMAIN graph /\ m.kindOf[p] = r.to
  <2> DEFINE of == graph[o].rel[r.name].of
             them == {p \in DOMAIN graph : m.kindOf[p] = r.to}
  <2>1. of \in Seq(them)
    BY DEF ObjectsAreTyped
  <2>2. ToSet(of) \subseteq them
    BY <2>1, SeqOfItsOwn
  <2>3. them \subseteq DOMAIN graph
    OBVIOUS
  <2>4. \A S, T : S \subseteq T => Seq(S) \subseteq Seq(T)
    OBVIOUS
  <2>5. of \in Seq(DOMAIN graph)
    <3> HIDE DEF of, them
    <3> QED
      BY <2>1, <2>3, <2>4
  <2> QED
    BY <2>2, <2>5
<1> QED
  BY <1>1, <1>2

LEMMA RelationValuesIn ==
  ASSUME SchemaIsTyped, ObjectsAreTyped, NEW o \in DOMAIN graph
  PROVE  RelationValues(m, graph, o) \in Seq(ValuesOf(o))
<1> DEFINE own == RelationsOf(m, m.kindOf[o], AllTypes)
           of(i) == graph[o].rel[own[i].name].of
           part(i) == [j \in DOMAIN of(i) |-> [relation |-> own[i], object |-> of(i)[j]]]
           parts == [i \in DOMAIN own |-> part(i)]
<1>1. own \in Seq(Relations(m, m.kindOf[o], AllTypes))
  BY RelationsOfIn
<1>2. Len(own) \in Nat /\ DOMAIN own = 1..Len(own) /\ \A i \in 1..Len(own) : own[i] \in Relations(m, m.kindOf[o], AllTypes)
  BY <1>1
<1>3. ASSUME NEW i \in 1..Len(own)
      PROVE  part(i) \in Seq(ValuesOf(o))
  <2>1. own[i] \in Relations(m, m.kindOf[o], AllTypes)
    BY <1>2
  <2>2. of(i) \in Seq(DOMAIN graph)
    BY <2>1, ObjectFacts
  <2>3. /\ Len(of(i)) \in Nat /\ DOMAIN of(i) = 1..Len(of(i))
        /\ \A j \in 1..Len(of(i)) : of(i)[j] \in DOMAIN graph /\ of(i)[j] \in ToSet(of(i))
    <3> HIDE DEF of
    <3> QED
      BY <2>2, ListFacts
  <2>5. \A j \in 1..Len(of(i)) : [relation |-> own[i], object |-> of(i)[j]] \in ValuesOf(o)
    BY <2>1, <2>3 DEF ValuesOf
  <2>6. part(i) = [j \in 1..Len(of(i)) |-> [relation |-> own[i], object |-> of(i)[j]]]
    BY <2>3
  <2> HIDE DEF own, of
  <2> QED
    BY <2>3, <2>5, <2>6
<1>4. parts = [i \in 1..Len(own) |-> part(i)]
  BY <1>2
<1>5. parts \in Seq(Seq(ValuesOf(o)))
  <2> HIDE DEF own, part
  <2> QED
    BY <1>2, <1>3, <1>4
<1>6. RelationValues(m, graph, o) = FlattenSeq(parts)
  BY DEF RelationValues
<1> HIDE DEF parts
<1> QED
  BY <1>5, <1>6, FlattenIn

LEMMA ObjectValuesIn ==
  ASSUME SchemaIsTyped, ObjectsAreTyped, NEW objects, objects \in Seq(DOMAIN graph), NEW S,
         \A o \in ToSet(objects) : ValuesOf(o) \subseteq S
  PROVE  FlattenSeq([i \in DOMAIN objects |-> RelationValues(m, graph, objects[i])]) \in Seq(S)
<1>1. Len(objects) \in Nat /\ DOMAIN objects = 1..Len(objects)
  OBVIOUS
<1>2. ASSUME NEW i \in 1..Len(objects)
      PROVE  RelationValues(m, graph, objects[i]) \in Seq(S)
  <2>1. objects[i] \in DOMAIN graph /\ objects[i] \in ToSet(objects)
    BY DEF ToSet
  <2>2. RelationValues(m, graph, objects[i]) \in Seq(ValuesOf(objects[i])) /\ ValuesOf(objects[i]) \subseteq S
    BY <2>1, RelationValuesIn
  <2>3. \A X, Y : X \subseteq Y => Seq(X) \subseteq Seq(Y)
    OBVIOUS
  <2> QED
    BY <2>2, <2>3
<1>3. [i \in DOMAIN objects |-> RelationValues(m, graph, objects[i])] \in Seq(Seq(S))
  BY <1>1, <1>2
<1> QED
  BY <1>3, FlattenIn

\* A subject of an object as it was built, and as it was loaded.
Fresh(s) ==
  /\ Shaped(s)
  /\ s.object \in Operated /\ s.kind = m.kindOf[s.object] /\ s.ids = IdsOf(graph, s.object)
  /\ s.ids = <<>> => s.before = <<>>
  /\ s.changes = <<>> /\ ~s.inserted
  /\ s.canBeInserted => mode = "save"
  /\ s.mustBeRemoved => mode = "remove"
AllFresh(list) == list \in Seq(ToSet(list)) /\ \A s \in ToSet(list) : Fresh(s)

\* What is reached by a relation from an object that is saved or removed.
Reachable ==
  {v \in [relation : ToSet(m.relations), object : DOMAIN graph] : \E o \in Operated : v \in ValuesOf(o)}

LEMMA OperatedCloses ==
  ASSUME NEW v \in Reachable, Cascades(v.relation, mode)
  PROVE  v.object \in Operated
<1>1. PICK o \in Operated : v \in ValuesOf(o)
  BY DEF Reachable
<1>2. v.relation \in Relations(m, m.kindOf[o], AllTypes) /\ v.object \in DOMAIN graph
      /\ v.object \in ToSet(graph[o].rel[v.relation.name].of)
  BY <1>1 DEF ValuesOf
<1>3. ASSUME NEW objects \in SUBSET DOMAIN graph, ToSet(roots) \subseteq objects, Closed(objects)
      PROVE  v.object \in objects
  <2>1. o \in objects
    BY <1>3 DEF Operated
  <2> QED
    BY <1>2, <1>3, <2>1 DEF Closed
<1> QED
  BY <1>2, <1>3 DEF Operated

LEMMA RootsAreOperated ==
  ASSUME roots \in Seq(DOMAIN graph)
  PROVE  ToSet(roots) \subseteq Operated
<1>1. ToSet(roots) \subseteq DOMAIN graph
  BY SeqOfItsOwn
<1> QED
  BY <1>1 DEF Operated

LEMMA OperatedAreObjects ==
  Operated \subseteq DOMAIN graph
  BY DEF Operated

LEMMA ValuesAreReachable ==
  ASSUME NEW o \in Operated
  PROVE  ValuesOf(o) \subseteq Reachable
  BY DEF Reachable, ValuesOf, Relations

LEMMA AllFreshFrom ==
  ASSUME NEW S, NEW list \in Seq(S), \A s \in S : Fresh(s)
  PROVE  AllFresh(list)
  BY SeqOfItsOwn DEF AllFresh

LEMMA AllFreshAppend ==
  ASSUME NEW list, AllFresh(list), NEW s, Fresh(s)
  PROVE  AllFresh(Append(list, s))
<1>1. list \in Seq(ToSet(list) \union {s}) /\ \A x \in ToSet(list) \union {s} : Fresh(x)
  BY DEF AllFresh
<1>2. Append(list, s) \in Seq(ToSet(list) \union {s})
  BY <1>1
<1> QED
  BY <1>1, <1>2, AllFreshFrom

LEMMA AllFreshReplace ==
  ASSUME NEW list, AllFresh(list), NEW i \in DOMAIN list, NEW s, Fresh(s)
  PROVE  AllFresh([list EXCEPT ![i] = s])
<1>1. list \in Seq(ToSet(list) \union {s}) /\ \A x \in ToSet(list) \union {s} : Fresh(x)
  BY DEF AllFresh
<1>2. [list EXCEPT ![i] = s] \in Seq(ToSet(list) \union {s})
  BY <1>1
<1> QED
  BY <1>1, <1>2, AllFreshFrom

LEMMA SubjectShaped ==
  ASSUME NEW kind, NEW object, NEW ids, NEW S, ids \in Seq(S)
  PROVE  Shaped(Subject(kind, object, ids))
<1>1. ids \in Seq(ToSet(ids))
  BY SeqOfItsOwn
<1>2. <<>> \in Seq(ToSet(<<>>))
  OBVIOUS
<1> QED
  BY <1>1, <1>2 DEF Shaped, Fields, Subject

LEMMA IdsOfFacts ==
  ASSUME ObjectsAreTyped, NEW o \in DOMAIN graph
  PROVE  IdsOf(graph, o) \in Seq(Nat) /\ \A i \in DOMAIN IdsOf(graph, o) : IdsOf(graph, o)[i] = graph[o].id /\ graph[o].id \in Nat \ {0}
<1>1. graph[o].id \in Nat
  BY ObjectFacts
<1>2. CASE graph[o].id = 0
  BY <1>2 DEF IdsOf
<1>3. CASE graph[o].id # 0
  BY <1>1, <1>3 DEF IdsOf
<1> QED
  BY <1>2, <1>3

LEMMA NewIsFresh ==
  ASSUME ObjectsAreTyped, NEW o \in Operated
  PROVE  Fresh(Subject(m.kindOf[o], o, IdsOf(graph, o)))
<1>1. IdsOf(graph, o) \in Seq(Nat)
  BY OperatedAreObjects, IdsOfFacts
<1>2. Shaped(Subject(m.kindOf[o], o, IdsOf(graph, o)))
  BY <1>1, SubjectShaped
<1> QED
  BY <1>2 DEF Fresh, Subject

LEMMA AllowIsFresh ==
  ASSUME NEW s, Fresh(s), NEW r
  PROVE  Fresh(Allow(s, r, mode))
<1> DEFINE t == Allow(s, r, mode)
<1>1. Shaped(t) /\ s = [f \in Fields |-> s[f]]
  BY DEF Fresh, Shaped, Fields, Allow
<1>2. t.object = s.object /\ t.kind = s.kind /\ t.ids = s.ids /\ t.changes = s.changes /\ t.inserted = s.inserted
      /\ t.before = s.before
  BY <1>1 DEF Fields, Allow
<1>3. t.canBeInserted = (s.canBeInserted \/ (mode = "save" /\ "insert" \in r.cascade))
  BY <1>1 DEF Fields, Allow
<1>4. t.mustBeRemoved = (s.mustBeRemoved \/ (mode = "remove" /\ "remove" \in r.cascade /\ s.ids # <<>>))
  BY <1>1 DEF Fields, Allow
<1> HIDE DEF t
<1>5. (t.canBeInserted => mode = "save") /\ (t.mustBeRemoved => mode = "remove")
  BY <1>3, <1>4, Zenon DEF Fresh
<1>6. ~t.inserted
  BY <1>1, <1>2, Zenon DEF Fresh
<1>7. Fresh(t)
  BY <1>1, <1>2, <1>5, <1>6 DEF Fresh
<1> QED
  BY <1>7 DEF t

LEMMA RootIsFresh ==
  ASSUME ObjectsAreTyped, NEW o \in Operated
  PROVE  Fresh(RootSubject(m, graph, mode, o))
<1> DEFINE s == Subject(m.kindOf[o], o, IdsOf(graph, o))
           t == RootSubject(m, graph, mode, o)
<1>1. Fresh(s)
  BY NewIsFresh
<1>2. t = [s EXCEPT
     !.canBeInserted = mode = "save", !.canBeUpdated = mode = "save",
     !.mustBeRemoved = mode = "remove", !.canBeSoftRemoved = mode = "soft-remove",
     !.canBeRecovered = mode = "recover"]
  BY DEF RootSubject
<1> HIDE DEF s, t
<1>3. Shaped(t)
  BY <1>1, <1>2 DEF Fresh, Shaped, Fields
<1>4. t.object = s.object /\ t.kind = s.kind /\ t.ids = s.ids /\ t.changes = s.changes /\ t.inserted = s.inserted
      /\ t.before = s.before /\ t.canBeInserted = (mode = "save") /\ t.mustBeRemoved = (mode = "remove")
  BY <1>1, <1>2 DEF Fresh, Shaped, Fields
<1>5. (t.canBeInserted => mode = "save") /\ (t.mustBeRemoved => mode = "remove")
  BY <1>4
<1>6. ~t.inserted
  BY <1>1, <1>4, Zenon DEF Fresh
<1>7. Fresh(t)
  BY <1>1, <1>3, <1>4, <1>5, <1>6 DEF Fresh
<1> QED
  BY <1>7 DEF t

CascadeHolds(given, work) ==
  /\ work = [f \in {"m", "graph", "mode", "values", "list"} |-> work[f]]
  /\ work.m = m /\ work.graph = graph /\ work.mode = mode
  /\ work.values \in Seq(Reachable)
  /\ AllFresh(work.list)
CascadeFold == INSTANCE FoldFacts WITH Op <- Cascade, Holds <- CascadeHolds

LEMMA CascadeKeeps ==
  ASSUME SchemaIsTyped, ObjectsAreTyped, NEW work, CascadeHolds(0, work), NEW step
  PROVE  CascadeHolds(0, Cascade(work, step))
<1> DEFINE v == Head(work.values)
           rest == [work EXCEPT !.values = Tail(@)]
           there == AlreadyThere(work.m, work.graph, work.list, v.object)
           new == Subject(work.m.kindOf[v.object], v.object, IdsOf(work.graph, v.object))
<1>1. /\ work = [f \in {"m", "graph", "mode", "values", "list"} |-> work[f]]
      /\ work.m = m /\ work.graph = graph /\ work.mode = mode
      /\ work.values \in Seq(Reachable) /\ AllFresh(work.list)
  BY DEF CascadeHolds
<1>2. CASE work.values = <<>>
  BY <1>2 DEF Cascade
<1>3. ASSUME work.values # <<>> PROVE v \in Reachable /\ Tail(work.values) \in Seq(Reachable)
  BY <1>1, <1>3
<1>4. /\ rest = [f \in {"m", "graph", "mode", "values", "list"} |-> rest[f]]
      /\ rest.m = m /\ rest.graph = graph /\ rest.mode = mode
      /\ rest.values = Tail(work.values) /\ rest.list = work.list
      /\ work.m = m /\ work.graph = graph /\ work.mode = mode
  BY <1>1
<1>5. CASE work.values # <<>> /\ ~Cascades(v.relation, work.mode)
  <2>1. Cascade(work, step) = rest
    BY <1>5 DEF Cascade
  <2> HIDE DEF v, rest
  <2> QED
    BY <1>1, <1>3, <1>4, <1>5, <2>1 DEF CascadeHolds
<1>6. CASE work.values # <<>> /\ Cascades(v.relation, work.mode) /\ there # {}
  <2>1. Cascade(work, step) = [rest EXCEPT !.list[Min(there)] = Allow(@, v.relation, work.mode)]
    BY <1>6 DEF Cascade
  <2>2. there \in SUBSET DOMAIN work.list
    BY DEF AlreadyThere
  <2> HIDE DEF v, rest, there
  <2>3. work.list \in Seq(ToSet(work.list)) /\ \A s \in ToSet(work.list) : Fresh(s)
    BY <1>1 DEF AllFresh
  <2>4. DOMAIN work.list = 1..Len(work.list) /\ Len(work.list) \in Nat
    BY <2>3
  <2>5. Min(there) \in there
    BY <1>6, <2>2, <2>4, MinIn
  <2>6. Min(there) \in DOMAIN work.list /\ Fresh(work.list[Min(there)])
    BY <2>2, <2>3, <2>5 DEF ToSet
  <2> DEFINE now == Allow(work.list[Min(there)], v.relation, mode)
             list == [work.list EXCEPT ![Min(there)] = now]
  <2>7. Fresh(now)
    BY <2>6, AllowIsFresh
  <2>8. AllFresh(list)
    <3> HIDE DEF now
    <3> QED
      BY <1>1, <2>6, <2>7, AllFreshReplace
  <2>9. Cascade(work, step) = [rest EXCEPT !.list = list]
    BY <1>4, <2>1
  <2> HIDE DEF list
  <2> QED
    BY <1>3, <1>4, <1>6, <2>8, <2>9 DEF CascadeHolds
<1>7. CASE work.values # <<>> /\ Cascades(v.relation, work.mode) /\ there = {}
  <2>1. Cascade(work, step) = [rest EXCEPT !.list = Append(@, Allow(new, v.relation, work.mode)),
                       !.values = RelationValues(work.m, work.graph, v.object) \o @]
    BY <1>7 DEF Cascade
  <2>2. v.object \in Operated
    <3> HIDE DEF v
    <3> QED
      BY <1>3, <1>4, <1>7, OperatedCloses
  <2>3. v.object \in DOMAIN graph
    BY <2>2, OperatedAreObjects
  <2>4. Fresh(new)
    <3>1. new = Subject(m.kindOf[v.object], v.object, IdsOf(graph, v.object))
      BY <1>4
    <3> HIDE DEF new, v
    <3> QED
      BY <2>2, <3>1, NewIsFresh
  <2> HIDE DEF v, rest, there, new
  <2> DEFINE now == Allow(new, v.relation, mode)
             list == Append(work.list, now)
             values == RelationValues(m, graph, v.object) \o Tail(work.values)
  <2>5. Fresh(now)
    BY <2>4, AllowIsFresh
  <2>6. AllFresh(list)
    <3> HIDE DEF now
    <3> QED
      BY <1>1, <2>5, AllFreshAppend
  <2>7. RelationValues(m, graph, v.object) \in Seq(Reachable)
    <3>1. RelationValues(m, graph, v.object) \in Seq(ValuesOf(v.object))
      BY <2>3, RelationValuesIn
    <3>2. ValuesOf(v.object) \subseteq Reachable
      BY <2>2, ValuesAreReachable
    <3> QED
      BY <3>1, <3>2, WiderList
  <2>8. values \in Seq(Reachable)
    BY <1>3, <1>7, <2>7, ConcatIn
  <2>9. Cascade(work, step) = [rest EXCEPT !.list = list, !.values = values]
    BY <1>4, <2>1
  <2> HIDE DEF list, values
  <2> QED
    BY <1>4, <2>6, <2>8, <2>9 DEF CascadeHolds
<1> QED
  BY <1>2, <1>5, <1>6, <1>7

LEMMA BuildCascadesIsFresh ==
  ASSUME SchemaIsTyped, ObjectsAreTyped, NEW part, part \in Seq(Operated)
  PROVE  AllFresh(BuildCascades(m, graph, mode, part))
<1> DEFINE values(objects) == FlattenSeq([i \in DOMAIN objects |-> RelationValues(m, graph, objects[i])])
           list == [i \in DOMAIN part |-> RootSubject(m, graph, mode, part[i])]
           begin == [m |-> m, graph |-> graph, mode |-> mode, values |-> values(part), list |-> list]
           steps == values(part \o SetToSeq(DOMAIN graph))
<1>1. part \in Seq(DOMAIN graph) /\ ToSet(part) \subseteq Operated
  BY OperatedAreObjects, WiderList, SeqOfItsOwn
<1>2. Len(part) \in Nat /\ DOMAIN part = 1..Len(part) /\ \A i \in 1..Len(part) : part[i] \in Operated
  BY ListFacts
<1>3. values(part) \in Seq(Reachable)
  <2>1. \A o \in ToSet(part) : ValuesOf(o) \subseteq Reachable
    BY <1>1, ValuesAreReachable
  <2> QED
    BY <1>1, <2>1, ObjectValuesIn
<1>4. list \in Seq(ToSet(list)) /\ AllFresh(list) /\ list \o <<>> = list
  <2>1. \A i \in 1..Len(part) : Fresh(list[i])
    BY <1>2, RootIsFresh
  <2>2. list \in Seq({list[i] : i \in 1..Len(part)})
    BY <1>2
  <2> HIDE DEF list
  <2>3. AllFresh(list)
    BY <2>1, <2>2, AllFreshFrom
  <2>4. list \o <<>> = list
    BY <2>2, EmptyConcat
  <2> QED
    BY <2>3, <2>4 DEF AllFresh
<1>5. steps \in Seq(UNION {ValuesOf(o) : o \in DOMAIN graph})
  <2> DEFINE all == part \o SetToSeq(DOMAIN graph)
             S == UNION {ValuesOf(o) : o \in DOMAIN graph}
  <2>1. SetToSeq(DOMAIN graph) \in Seq(DOMAIN graph)
    BY SetToSeqIn DEF ObjectsAreTyped
  <2>2. all \in Seq(DOMAIN graph)
    BY <1>1, <2>1, ConcatIn
  <2>3. ToSet(all) \subseteq DOMAIN graph
    BY <2>2, SeqOfItsOwn
  <2>4. \A o \in ToSet(all) : ValuesOf(o) \subseteq S
    BY <2>3
  <2> HIDE DEF all, S
  <2> QED
    BY <2>2, <2>4, ObjectValuesIn DEF all, S
<1>6. CascadeHolds(0, begin)
  <2> HIDE DEF list, values
  <2> QED
    BY <1>3, <1>4 DEF CascadeHolds
<1> HIDE DEF begin, steps
<1>7. Len(steps) \in Nat /\ DOMAIN steps = 1..Len(steps)
  BY <1>5, ListFacts
<1>8. \A i \in 1..Len(steps) : \A a : CascadeHolds(0, a) => CascadeHolds(0, Cascade(a, steps[i]))
  BY CascadeKeeps
<1>9. CascadeHolds(0, CascadeFold!Fold(begin, steps, Len(steps)))
  BY <1>6, <1>7, <1>8, LeastExists, CascadeFold!FoldKeeps DEF CascadeFold!HaveLeast
<1>10. FoldLeft(Cascade, begin, steps) = CascadeFold!Fold(begin, steps, Len(steps))
  BY <1>7 DEF FoldLeft, MapThenFoldSet, Max, CascadeFold!Fold, CascadeFold!Folded, CascadeFold!Greatest
<1>11. BuildCascades(m, graph, mode, part) = FoldLeft(Cascade, begin, steps).list
  BY <1>4 DEF BuildCascades, Each, begin, steps
<1> QED
  BY <1>9, <1>10, <1>11 DEF CascadeHolds

BeforeIsTrue(s) ==
  /\ \A r \in ToSet(m.relations) : IsFiniteSet(Before(s, r))
  /\ s.object # "" =>
       \A r \in Relations(m, s.kind, InverseTypes) : \A id \in Before(s, r) :
         \E row \in db.rows : row.kind = r.to /\ row.id = id /\ row.refs[r.inverse] = graph[s.object].id
GoodOne(s) == Lawful(graph, graph, db, s) /\ BeforeIsTrue(s)
Good(list) == list \in Seq(ToSet(list)) /\ \A s \in ToSet(list) : GoodOne(s)

LEMMA GoodFrom ==
  ASSUME NEW S, NEW list \in Seq(S), \A s \in S : GoodOne(s)
  PROVE  Good(list)
  BY SeqOfItsOwn DEF Good

LEMMA RelationIs ==
  ASSUME SchemaIsTyped, NEW r \in ToSet(m.relations)
  PROVE  Relation(m, r.name) = r
<1>1. PICK i \in DOMAIN m.relations : m.relations[i] = r
  BY DEF ToSet
<1> DEFINE j == CHOOSE j \in DOMAIN m.relations : m.relations[j].name = r.name
<1>2. j \in DOMAIN m.relations /\ m.relations[j].name = r.name
  BY <1>1
<1>3. m.relations[j] \in ToSet(m.relations)
  BY <1>2 DEF ToSet
<1> HIDE DEF j
<1>4. m.relations[j] = r
  BY <1>2, <1>3, SchemaFacts
<1> QED
  BY <1>4 DEF Relation, j

LEMMA ImageFinite ==
  ASSUME NEW S, IsFiniteSet(S), NEW f, DOMAIN f = S, f = [x \in S |-> f[x]]
  PROVE  IsFiniteSet({f[x] : x \in S})
<1> DEFINE T == {f[x] : x \in S}
<1>1. f \in [S -> T] /\ \A t \in T : \E x \in S : f[x] = t
  OBVIOUS
<1>2. f \in Surjection(S, T)
  BY <1>1 DEF Surjection
<1> QED
  BY <1>2, FS_Surjection

LEMMA FieldFinite ==
  ASSUME NEW S, IsFiniteSet(S)
  PROVE  /\ IsFiniteSet({x.id : x \in S}) /\ IsFiniteSet({x.owner : x \in S}) /\ IsFiniteSet({x.inverse : x \in S})
<1>1. IsFiniteSet({x.id : x \in S})
  <2> DEFINE f == [x \in S |-> x.id]
  <2>1. IsFiniteSet({f[x] : x \in S})
    <3>1. DOMAIN f = S /\ f = [x \in S |-> f[x]]
      OBVIOUS
    <3> HIDE DEF f
    <3> QED
      BY <3>1, ImageFinite
  <2>2. {f[x] : x \in S} = {x.id : x \in S}
    OBVIOUS
  <2> QED
    BY <2>1, <2>2
<1>2. IsFiniteSet({x.owner : x \in S})
  <2> DEFINE f == [x \in S |-> x.owner]
  <2>1. IsFiniteSet({f[x] : x \in S})
    <3>1. DOMAIN f = S /\ f = [x \in S |-> f[x]]
      OBVIOUS
    <3> HIDE DEF f
    <3> QED
      BY <3>1, ImageFinite
  <2>2. {f[x] : x \in S} = {x.owner : x \in S}
    OBVIOUS
  <2> QED
    BY <2>1, <2>2
<1>3. IsFiniteSet({x.inverse : x \in S})
  <2> DEFINE f == [x \in S |-> x.inverse]
  <2>1. IsFiniteSet({f[x] : x \in S})
    <3>1. DOMAIN f = S /\ f = [x \in S |-> f[x]]
      OBVIOUS
    <3> HIDE DEF f
    <3> QED
      BY <3>1, ImageFinite
  <2>2. {f[x] : x \in S} = {x.inverse : x \in S}
    OBVIOUS
  <2> QED
    BY <2>1, <2>2
<1> QED
  BY <1>1, <1>2, <1>3

LEMMA RelatedIdsFinite ==
  ASSUME SchemaIsTyped, RowsAreTyped(db), NEW r \in ToSet(m.relations), NEW id
  PROVE  IsFiniteSet(RelatedIds(m, db, r, id))
<1>1. r.type \in AllTypes
  BY SchemaFacts
<1>2. IsFiniteSet(db.rows) /\ IsFiniteSet(db.links)
  BY DEF RowsAreTyped
<1>3. CASE r.type \in OwningTypes
  <2> DEFINE ref == Row(db, r.kind, id).refs[r.name]
  <2>1. RelatedIds(m, db, r, id) = {ref} \ {0}
    <3>1. CASE r.type = "manyToOne"
      BY <3>1 DEF RelatedIds, OwningTypes
    <3>2. CASE r.type = "oneToOne"
      BY <3>2 DEF RelatedIds, OwningTypes
    <3> QED
      BY <1>3, <3>1, <3>2 DEF OwningTypes
  <2> HIDE DEF ref
  <2>2. IsFiniteSet({ref})
    BY FS_Singleton
  <2>3. IsFiniteSet({ref} \ {0})
    BY <2>2, FS_Difference
  <2> QED
    BY <2>1, <2>3
<1>4. CASE r.type \in {"oneToMany", "oneToOneInverse"}
  <2> DEFINE them == {x \in db.rows : x.kind = r.to /\ ~x.deleted /\ x.refs[r.inverse] = id}
  <2>1. RelatedIds(m, db, r, id) = {row.id : row \in them}
    BY <1>4 DEF RelatedIds, OwningTypes
  <2>2. them \in SUBSET db.rows
    OBVIOUS
  <2> HIDE DEF them
  <2>3. IsFiniteSet(them)
    BY <1>2, <2>2, FS_Subset
  <2> QED
    BY <2>1, <2>3, FieldFinite
<1>5. CASE r.type = "manyToMany"
  <2> DEFINE them == {x \in db.links : x.table = r.table /\ x.owner = id}
  <2>1. RelatedIds(m, db, r, id) = {l.inverse : l \in them}
    BY <1>5 DEF RelatedIds, OwningTypes
  <2>2. them \in SUBSET db.links
    OBVIOUS
  <2> HIDE DEF them
  <2>3. IsFiniteSet(them)
    BY <1>2, <2>2, FS_Subset
  <2> QED
    BY <2>1, <2>3, FieldFinite
<1>6. CASE r.type = "manyToManyInverse"
  <2> DEFINE them == {x \in db.links : x.table = r.table /\ x.inverse = id}
  <2>1. RelatedIds(m, db, r, id) = {l.owner : l \in them}
    BY <1>6 DEF RelatedIds, OwningTypes
  <2>2. them \in SUBSET db.links
    OBVIOUS
  <2> HIDE DEF them
  <2>3. IsFiniteSet(them)
    BY <1>2, <2>2, FS_Subset
  <2> QED
    BY <2>1, <2>3, FieldFinite
<1> QED
  BY <1>1, <1>3, <1>4, <1>5, <1>6 DEF AllTypes, ManyToManyTypes

LEMMA InverseRelatedIds ==
  ASSUME NEW r, r.type \in InverseTypes, NEW id, NEW other \in RelatedIds(m, db, r, id)
  PROVE  \E row \in db.rows : row.kind = r.to /\ row.id = other /\ row.refs[r.inverse] = id
<1>1. RelatedIds(m, db, r, id) =
        {row.id : row \in {x \in db.rows : x.kind = r.to /\ ~x.deleted /\ x.refs[r.inverse] = id}}
  BY DEF RelatedIds, OwningTypes, InverseTypes
<1> QED
  BY <1>1

LEMMA FreshIsLawful ==
  ASSUME ObjectsAreTyped, NEW s, Fresh(s)
  PROVE  Lawful(graph, graph, db, s)
<1>1. s.object \in Operated /\ s.object \in DOMAIN graph /\ s.kind = m.kindOf[s.object] /\ s.ids = IdsOf(graph, s.object)
      /\ s.changes = <<>> /\ ~s.inserted
  BY OperatedAreObjects DEF Fresh
<1>2. \A i \in DOMAIN s.ids : s.ids[i] = graph[s.object].id /\ graph[s.object].id \in Nat \ {0}
  BY <1>1, IdsOfFacts
<1>3. Free(graph, db, s.kind, graph[s.object].id)
  BY <1>1 DEF Free
<1>4. ToSet(s.changes) = {}
  BY <1>1 DEF ToSet
<1>5. Own(graph, graph, db, s)
  BY <1>1, <1>2, <1>3, <1>4 DEF Own, Fresh
<1> QED
  BY <1>5 DEF Lawful, Fresh

LEMMA NothingBefore ==
  ASSUME NEW s, s.before = <<>>
  PROVE  BeforeIsTrue(s)
<1>1. \A r : Before(s, r) = {}
  BY DEF Before, Found
<1> QED
  BY <1>1, FS_EmptySet DEF BeforeIsTrue

LoadedSubject(s, wanted, value) ==
  [s EXCEPT !.loaded = TRUE,
            !.before = IF Stored(db, s.kind, s.ids[1])
                       THEN <<[value |-> value,
                               related |-> [n \in {r.name : r \in wanted} |->
                                              RelatedIds(m, db, Relation(m, n), Row(db, s.kind, s.ids[1]).id)]]>>
                       ELSE <<>>]

\* What is loaded for a subject is what the relations say.
LEMMA LoadedIsGood ==
  ASSUME SchemaIsTyped, ObjectsAreTyped, RowsAreTyped(db), NEW s, Fresh(s), NEW wanted, NEW value,
         wanted \subseteq ToSet(m.relations), s.ids # <<>>
  PROVE  GoodOne(LoadedSubject(s, wanted, value))
<1> DEFINE id == Row(db, s.kind, s.ids[1]).id
           related == [n \in {r.name : r \in wanted} |-> RelatedIds(m, db, Relation(m, n), id)]
           before == IF Stored(db, s.kind, s.ids[1]) THEN <<[value |-> value, related |-> related]>> ELSE <<>>
           t == LoadedSubject(s, wanted, value)
<1>1. s.object \in Operated /\ s.object \in DOMAIN graph /\ s.object # "" /\ s.kind = m.kindOf[s.object] /\ s.ids = IdsOf(graph, s.object)
  <2>1. s.object \in Operated /\ s.kind = m.kindOf[s.object] /\ s.ids = IdsOf(graph, s.object)
    BY DEF Fresh
  <2> QED
    BY <2>1, OperatedAreObjects DEF ObjectsAreTyped
<1>2. s.ids[1] = graph[s.object].id
  <2>1. graph[s.object].id # 0
    BY <1>1 DEF IdsOf
  <2>2. s.ids = <<graph[s.object].id>>
    BY <1>1, <2>1 DEF IdsOf
  <2> QED
    BY <2>2
<1>3. t = [s EXCEPT !.loaded = TRUE, !.before = before]
  BY DEF LoadedSubject
<1> HIDE DEF before, t
<1>4. Shaped(t) /\ t.before = before
  BY <1>3 DEF Fresh, Shaped, Fields
<1>5. /\ t.object = s.object /\ t.kind = s.kind /\ t.ids = s.ids /\ t.changes = s.changes /\ t.inserted = s.inserted
      /\ t.canBeInserted = s.canBeInserted /\ t.mustBeRemoved = s.mustBeRemoved
  BY <1>3 DEF Fresh, Shaped, Fields
<1>6. (t.canBeInserted => mode = "save") /\ (t.mustBeRemoved => mode = "remove") /\ ~t.inserted
  BY <1>5, Zenon DEF Fresh
<1>7. Fresh(t)
  BY <1>4, <1>5, <1>6 DEF Fresh
<1>8. Lawful(graph, graph, db, t)
  BY <1>7, FreshIsLawful
<1>9. ASSUME ~Stored(db, s.kind, s.ids[1])
      PROVE  GoodOne(t)
  BY <1>4, <1>8, <1>9, NothingBefore DEF before, GoodOne
<1>10. ASSUME Stored(db, s.kind, s.ids[1])
       PROVE  GoodOne(t)
  <2>1. id = s.ids[1]
    BY <1>10 DEF Stored, Row
  <2>2. t.before[1].related = related
    BY <1>4, <1>10 DEF before
  <2> HIDE DEF id, related
  <2>3. ASSUME NEW r \in ToSet(m.relations)
        PROVE  Before(t, r) = {} \/ Before(t, r) = RelatedIds(m, db, r, id)
    <3>1. CASE r.name \in {q.name : q \in wanted}
      BY <2>2, <2>3, <3>1, RelationIs DEF Before, related
    <3>2. CASE r.name \notin {q.name : q \in wanted}
      BY <2>2, <3>2 DEF Before, related
    <3> QED
      BY <3>1, <3>2
  <2>4. \A r \in ToSet(m.relations) : IsFiniteSet(Before(t, r))
    BY <2>3, RelatedIdsFinite, FS_EmptySet
  <2>5. ASSUME NEW r \in Relations(m, t.kind, InverseTypes), NEW other \in Before(t, r)
        PROVE  \E x \in db.rows : x.kind = r.to /\ x.id = other /\ x.refs[r.inverse] = graph[t.object].id
    <3>1. r \in ToSet(m.relations) /\ r.type \in InverseTypes
      BY DEF Relations
    <3>2. other \in RelatedIds(m, db, r, id)
      BY <2>3, <2>5, <3>1
    <3> QED
      BY <1>2, <1>5, <2>1, <3>1, <3>2, InverseRelatedIds
  <2> QED
    BY <1>5, <1>8, <2>4, <2>5 DEF GoodOne, BeforeIsTrue
<1> QED
  BY <1>9, <1>10 DEF t

LEMMA LoadIsGood ==
  ASSUME SchemaIsTyped, ObjectsAreTyped, RowsAreTyped(db), NEW list, AllFresh(list)
  PROVE  Good(Load(m, graph, db, mode, list))
<1> DEFINE wanted(kind) ==
             {r \in Relations(m, kind, AllTypes) :
                IF mode = "remove" THEN r.type \in ManyToManyTypes
                ELSE \E i \in DOMAIN list : list[i].kind = kind /\ graph[list[i].object].rel[r.name].set}
           entity(s) ==
             [value |-> Row(db, s.kind, s.ids[1]).value,
              related |-> [n \in {r.name : r \in wanted(s.kind)} |->
                             RelatedIds(m, db, Relation(m, n), Row(db, s.kind, s.ids[1]).id)]]
           load(s) ==
             IF s.ids = <<>> THEN s
             ELSE [s EXCEPT !.loaded = TRUE,
                            !.before = IF Stored(db, s.kind, s.ids[1]) THEN <<entity(s)>> ELSE <<>>]
           loaded == [i \in DOMAIN list |-> load(list[i])]
<1>1. list \in Seq(ToSet(list)) /\ \A s \in ToSet(list) : Fresh(s)
  BY DEF AllFresh
<1>2. Len(list) \in Nat /\ DOMAIN list = 1..Len(list) /\ \A i \in 1..Len(list) : list[i] \in ToSet(list)
  BY <1>1, ListFacts
<1>3. ASSUME NEW i \in 1..Len(list)
      PROVE  GoodOne(load(list[i]))
  <2> DEFINE s == list[i]
  <2>1. Fresh(s)
    BY <1>1, <1>2
  <2>2. CASE s.ids = <<>>
    <3>1. s.before = <<>>
      BY <2>1, <2>2 DEF Fresh
    <3>2. load(s) = s
      BY <2>2
    <3> HIDE DEF s, load
    <3>3. GoodOne(load(s))
      BY <2>1, <3>1, <3>2, FreshIsLawful, NothingBefore DEF GoodOne
    <3> QED
      BY <3>3 DEF s
  <2>3. CASE s.ids # <<>>
    <3> DEFINE w == wanted(s.kind)
               value == Row(db, s.kind, s.ids[1]).value
    <3>1. load(s) = LoadedSubject(s, w, value)
      BY <2>3 DEF LoadedSubject
    <3>2. w \subseteq ToSet(m.relations)
      BY DEF Relations
    <3> HIDE DEF s, load, w, value
    <3>3. GoodOne(load(s))
      BY <2>1, <2>3, <3>1, <3>2, LoadedIsGood
    <3> QED
      BY <3>3 DEF s
  <2> QED
    BY <2>2, <2>3
<1>4. loaded = [i \in 1..Len(list) |-> load(list[i])]
  BY <1>2
<1>5. Load(m, graph, db, mode, list) = loaded \o <<>>
  BY DEF Load, Each
<1> HIDE DEF load
<1>6. loaded \in Seq({load(list[i]) : i \in 1..Len(list)}) /\ \A s \in {load(list[i]) : i \in 1..Len(list)} : GoodOne(s)
  BY <1>2, <1>3, <1>4
<1> HIDE DEF loaded
<1> QED
  BY <1>5, <1>6, EmptyConcat, GoodFrom

(***************************************************************************)
(* Lists of subjects.                                                      *)
(***************************************************************************)
Extends(list0, list) ==
  DOMAIN list0 \subseteq DOMAIN list /\ \A i \in DOMAIN list0 : list[i].object = list0[i].object

LEMMA ExtendsOn ==
  ASSUME NEW a, NEW b, NEW c, Extends(a, b), Extends(b, c)
  PROVE  Extends(a, c)
  BY DEF Extends

LEMMA ExtendsItself ==
  ASSUME NEW a
  PROVE  Extends(a, a)
  BY DEF Extends

LEMMA GoodFacts ==
  ASSUME NEW list, Good(list)
  PROVE  /\ list \in Seq(ToSet(list)) /\ Len(list) \in Nat /\ DOMAIN list = 1..Len(list)
         /\ \A i \in DOMAIN list : GoodOne(list[i])
<1>1. list \in Seq(ToSet(list)) /\ \A s \in ToSet(list) : GoodOne(s)
  BY DEF Good
<1>2. Len(list) \in Nat /\ DOMAIN list = 1..Len(list) /\ \A i \in 1..Len(list) : list[i] \in ToSet(list)
  BY <1>1, ListFacts
<1> QED
  BY <1>1, <1>2

LEMMA ConcatKeeps ==
  ASSUME NEW a, NEW b, Good(a), Good(b)
  PROVE  Good(a \o b) /\ Extends(a, a \o b)
<1> DEFINE S == ToSet(a) \union ToSet(b)
<1>1. a \in Seq(S) /\ b \in Seq(S) /\ \A s \in S : GoodOne(s)
  <2>1. a \in Seq(ToSet(a)) /\ b \in Seq(ToSet(b)) /\ \A s \in S : GoodOne(s)
    BY DEF Good
  <2>2. ToSet(a) \subseteq S /\ ToSet(b) \subseteq S
    OBVIOUS
  <2> HIDE DEF S
  <2> QED
    BY <2>1, <2>2, WiderList
<1> HIDE DEF S
<1>2. Good(a \o b)
  BY <1>1, ConcatIn, GoodFrom
<1>3. DOMAIN a \subseteq DOMAIN (a \o b) /\ \A i \in DOMAIN a : (a \o b)[i] = a[i]
  BY <1>1
<1> QED
  BY <1>2, <1>3 DEF Extends

LEMMA AppendKeeps ==
  ASSUME NEW a, NEW s, Good(a), GoodOne(s)
  PROVE  Good(Append(a, s)) /\ Extends(a, Append(a, s))
<1> DEFINE S == ToSet(a) \union {s}
<1>1. a \in Seq(S) /\ s \in S /\ \A x \in S : GoodOne(x)
  <2>1. a \in Seq(ToSet(a)) /\ \A x \in S : GoodOne(x)
    BY DEF Good
  <2>2. ToSet(a) \subseteq S /\ s \in S
    OBVIOUS
  <2> HIDE DEF S
  <2> QED
    BY <2>1, <2>2, WiderList
<1> HIDE DEF S
<1>2. Append(a, s) \in Seq(S)
  BY <1>1
<1>3. Good(Append(a, s))
  BY <1>1, <1>2, GoodFrom
<1>4. DOMAIN a \subseteq DOMAIN Append(a, s) /\ \A i \in DOMAIN a : Append(a, s)[i] = a[i]
  BY <1>1
<1> QED
  BY <1>3, <1>4 DEF Extends

LEMMA ReplaceKeeps ==
  ASSUME NEW a, NEW i \in DOMAIN a, NEW s, Good(a), GoodOne(s), s.object = a[i].object
  PROVE  Good([a EXCEPT ![i] = s]) /\ Extends(a, [a EXCEPT ![i] = s])
<1> DEFINE S == ToSet(a) \union {s}
<1>1. a \in Seq(S) /\ s \in S /\ \A x \in S : GoodOne(x)
  <2>1. a \in Seq(ToSet(a)) /\ \A x \in S : GoodOne(x)
    BY DEF Good
  <2>2. ToSet(a) \subseteq S /\ s \in S
    OBVIOUS
  <2> HIDE DEF S
  <2> QED
    BY <2>1, <2>2, WiderList
<1> HIDE DEF S
<1>2. [a EXCEPT ![i] = s] \in Seq(S)
  BY <1>1
<1>3. Good([a EXCEPT ![i] = s])
  BY <1>1, <1>2, GoodFrom
<1> QED
  BY <1>3 DEF Extends

LEMMA OwnOf ==
  ASSUME NEW s, GoodOne(s), s.object # ""
  PROVE  Own(graph, graph, db, s) /\ s.object \in Operated /\ s.kind = m.kindOf[s.object] /\ Shaped(s)
  BY DEF GoodOne, Lawful, Link, Bare, Own

LEMMA PushIsGood ==
  ASSUME NEW s, GoodOne(s), s.object # "", NEW c, c.on # "id"
  PROVE  GoodOne([s EXCEPT !.changes = Append(@, c)]) /\ [s EXCEPT !.changes = Append(@, c)].object = s.object
<1> DEFINE t == [s EXCEPT !.changes = Append(@, c)]
<1>1. Own(graph, graph, db, s) /\ Shaped(s)
  BY OwnOf
<1>2. s.changes \in Seq(ToSet(s.changes)) /\ s.ids \in Seq(ToSet(s.ids)) /\ s = [f \in Fields |-> s[f]]
  BY <1>1 DEF Shaped
<1>3. /\ t = [f \in Fields |-> t[f]] /\ t.changes = Append(s.changes, c) /\ t.before = s.before
      /\ t.object = s.object /\ t.kind = s.kind /\ t.ids = s.ids /\ t.inserted = s.inserted
      /\ t.canBeInserted = s.canBeInserted /\ t.mustBeRemoved = s.mustBeRemoved
  BY <1>2, ZenonT(60) DEF Fields
<1> HIDE DEF t
<1>4. t.changes \in Seq(ToSet(t.changes)) /\ ToSet(t.changes) \subseteq ToSet(s.changes) \union {c}
  <2>1. t.changes \in Seq(ToSet(s.changes) \union {c})
    BY <1>2, <1>3, AppendIn
  <2> QED
    BY <2>1, SeqOfItsOwn
<1>5. Shaped(t)
  BY <1>2, <1>3, <1>4 DEF Shaped
<1>6. (t.canBeInserted => mode = "save") /\ (t.mustBeRemoved => mode = "remove") /\ (t.inserted => t.ids # <<>>)
  BY <1>1, <1>3, Zenon DEF Own
<1>7. \A x \in ToSet(t.changes) : x.on = "id" =>
        x.subject = 0 /\ x.object = t.object /\ (t.canBeInserted => graph[t.object].id # 0)
  <2>1. \A x \in ToSet(s.changes) : x.on = "id" =>
          x.subject = 0 /\ x.object = s.object /\ (s.canBeInserted => graph[s.object].id # 0)
    BY <1>1 DEF Own
  <2>2. \A x \in ToSet(t.changes) : x.on = "id" => x \in ToSet(s.changes)
    BY <1>4
  <2> QED
    BY <1>3, <2>1, <2>2, Zenon
<1>8. Own(graph, graph, db, t)
  BY <1>1, <1>3, <1>6, <1>7 DEF Own
<1>9. BeforeIsTrue(t)
  <2>1. \A r : Before(t, r) = Before(s, r)
    BY <1>3 DEF Before, Found
  <2> QED
    <3>1. BeforeIsTrue(s)
      BY DEF GoodOne
    <3>2. /\ \A r \in ToSet(m.relations) : IsFiniteSet(Before(s, r))
          /\ \A r \in Relations(m, s.kind, InverseTypes) : \A id \in Before(s, r) :
               \E row \in db.rows : row.kind = r.to /\ row.id = id /\ row.refs[r.inverse] = graph[s.object].id
      BY <3>1 DEF BeforeIsTrue
    <3>3. \A r \in ToSet(m.relations) : IsFiniteSet(Before(t, r))
      BY <2>1, <3>2
    <3>4. \A r \in Relations(m, t.kind, InverseTypes) : \A id \in Before(t, r) :
            \E row \in db.rows : row.kind = r.to /\ row.id = id /\ row.refs[r.inverse] = graph[t.object].id
      <4> TAKE r \in Relations(m, t.kind, InverseTypes)
      <4> TAKE id \in Before(t, r)
      <4>1. r \in Relations(m, s.kind, InverseTypes) /\ id \in Before(s, r)
        BY <1>3, <2>1
      <4>2. \E row \in db.rows : row.kind = r.to /\ row.id = id /\ row.refs[r.inverse] = graph[s.object].id
        BY <3>2, <4>1
      <4>3. t.object = s.object
        BY <1>3
      <4> QED
        BY <4>2, <4>3
    <3> QED
      BY <3>3, <3>4 DEF BeforeIsTrue
<1>10. GoodOne(t)
  BY <1>5, <1>8, <1>9 DEF GoodOne, Lawful
<1> QED
  BY <1>3, <1>10 DEF t

LEMMA BareIsGood ==
  ASSUME NEW s, Shaped(s), s.object = "", s.kind \notin Tables, ~s.canBeInserted, NEW id, s.ids = <<id>>, s.before = <<>>,
         \/ Free(graph, db, s.kind, id)
         \/ /\ \A c \in ToSet(s.changes) : c.on # "value" /\ Held(graph, db, s.kind, id, c.on)
            /\ s.mustBeRemoved => Orphaned(graph, db, s.kind, id)
  PROVE  GoodOne(s)
<1>1. Len(s.ids) = 1 /\ s.ids[1] = id
  BY OneIn
<1>2. Bare(graph, db, s)
  BY <1>1 DEF Bare
<1> QED
  BY <1>2, NothingBefore DEF GoodOne, Lawful

LEMMA InverseFacts ==
  ASSUME SchemaIsTyped, NEW r \in ToSet(m.relations), r.type \in InverseTypes
  PROVE  LET q == Relation(m, r.inverse)
         IN q \in Relations(m, r.to, OwningTypes) /\ q.name = r.inverse /\ q.kind = r.to
            /\ q \in ToSet(m.relations) /\ r.inverse \notin {"id", "value", "owner", "inverse"}
<1>1. PICK q \in Relations(m, r.to, OwningTypes) : q.name = r.inverse
  BY SchemaFacts DEF InverseTypes
<1>2. q \in ToSet(m.relations) /\ q.kind = r.to
  BY DEF Relations
<1>3. Relation(m, r.inverse) = q
  BY <1>1, <1>2, RelationIs
<1>4. q.name \notin {"id", "value", "owner", "inverse"}
  BY <1>2, SchemaFacts
<1> QED
  BY <1>1, <1>2, <1>3, <1>4

\* A list of one change.
LEMMA OneChange ==
  ASSUME NEW c
  PROVE  <<c>> \in Seq(ToSet(<<c>>)) /\ ToSet(<<c>>) = {c}
  BY OneIn

LEMMA BindKeeps ==
  ASSUME SchemaIsTyped, ObjectsAreTyped, NEW owner \in Operated,
         NEW r \in Relations(m, m.kindOf[owner], InverseTypes), graph[owner].rel[r.name].set,
         NEW x \in ToSet(graph[owner].rel[r.name].of), NEW list, Good(list), NEW i
  PROVE  Good(Bind(graph, list, i, r, x)) /\ Extends(list, Bind(graph, list, i, r, x))
<1> DEFINE id == IdOf(graph, list, x)
           there == SubjectsOf(list, x)
           c == ToSubject(r.inverse, i)
           bare == [Subject(r.to, "", <<id>>) EXCEPT !.canBeUpdated = TRUE]
           new == [bare EXCEPT !.changes = <<c>>]
<1>1. /\ r \in ToSet(m.relations) /\ r.type \in InverseTypes /\ r.inverse \notin {"id", "value", "owner", "inverse"}
      /\ r \in Relations(m, m.kindOf[owner], AllTypes)
  <2>1. r \in ToSet(m.relations) /\ r.type \in InverseTypes /\ r.kind = m.kindOf[owner]
    BY DEF Relations
  <2> QED
    BY <2>1, InverseFacts DEF Relations, InverseTypes, AllTypes
<1>2. x \in DOMAIN graph /\ m.kindOf[x] = r.to /\ x # "" /\ r.to \notin Tables
  <2>1. owner \in DOMAIN graph
    BY OperatedAreObjects
  <2>2. x \in DOMAIN graph /\ m.kindOf[x] = r.to
    BY <1>1, <2>1, ObjectFacts
  <2> QED
    BY <2>2, ObjectFacts
<1>3. c.on = r.inverse
  BY DEF ToSubject, Change
<1>4. CASE there # {}
  <2>1. Bind(graph, list, i, r, x) = [list EXCEPT ![Min(there)].changes = Append(@, c)]
    BY <1>4 DEF Bind, Push
  <2>2. there \in SUBSET DOMAIN list /\ DOMAIN list = 1..Len(list) /\ Len(list) \in Nat
    BY GoodFacts DEF SubjectsOf
  <2>3. Min(there) \in there
    <3> HIDE DEF there
    <3> QED
      BY <1>4, <2>2, MinIn
  <2>4. Min(there) \in DOMAIN list /\ list[Min(there)].object = x /\ GoodOne(list[Min(there)])
    BY <2>3, GoodFacts DEF SubjectsOf
  <2> HIDE DEF there, c
  <2> DEFINE k == Min(there)
             s == [list[k] EXCEPT !.changes = Append(@, c)]
  <2>5. GoodOne(s) /\ s.object = list[k].object
    BY <1>1, <1>2, <1>3, <2>4, PushIsGood
  <2>6. Bind(graph, list, i, r, x) = [list EXCEPT ![k] = s]
    BY <2>1
  <2>7. k \in DOMAIN list
    BY <2>4
  <2> HIDE DEF s, k
  <2>8. Good([list EXCEPT ![k] = s]) /\ Extends(list, [list EXCEPT ![k] = s])
    BY <2>5, <2>7, ReplaceKeeps
  <2> QED
    BY <2>6, <2>8
<1>5. CASE there = {} /\ id = 0
  <2>1. Bind(graph, list, i, r, x) = list
    BY <1>5 DEF Bind
  <2> QED
    BY <2>1, ExtendsItself
<1>6. CASE there = {} /\ id # 0
  <2>1. Bind(graph, list, i, r, x) = Append(list, new)
    BY <1>6 DEF Bind
  <2>2. id = graph[x].id
    BY <1>6 DEF IdOf
  <2> HIDE DEF id, c
  <2>3. Shaped(Subject(r.to, "", <<id>>))
    <3>1. <<id>> \in Seq({id})
      OBVIOUS
    <3> QED
      BY <3>1, SubjectShaped
  <2>4. /\ new = [f \in Fields |-> new[f]] /\ new.object = "" /\ new.kind = r.to /\ new.ids = <<id>>
        /\ new.before = <<>> /\ new.canBeInserted = FALSE /\ new.mustBeRemoved = FALSE /\ new.changes = <<c>>
    BY DEF Subject, Fields
  <2> HIDE DEF new
  <2>5. Shaped(new) /\ ToSet(new.changes) = {c}
    <3>1. <<id>> \in Seq(ToSet(<<id>>))
      BY OneChange
    <3> QED
      BY <2>4, <3>1, OneChange DEF Shaped
  <2>6. CASE x \in Operated
    <3>1. Free(graph, db, r.to, id)
      BY <1>2, <2>2, <2>6 DEF Free
    <3> QED
      BY <1>2, <2>1, <2>4, <2>5, <3>1, BareIsGood, AppendKeeps
  <2>7. CASE x \notin Operated
    <3>1. HeldBy(graph, db, r.to, id, r.inverse, owner, r)
      BY <2>2, <2>7 DEF HeldBy
    <3>2. Held(graph, db, r.to, id, r.inverse)
      BY <3>1 DEF Held
    <3>3. \A y \in ToSet(new.changes) : y.on # "value" /\ Held(graph, db, new.kind, id, y.on)
      BY <1>1, <1>3, <2>4, <2>5, <3>2
    <3>4. GoodOne(new)
      BY <1>2, <2>4, <2>5, <3>3, BareIsGood
    <3> QED
      BY <2>1, <3>4, AppendKeeps
  <2> QED
    BY <2>6, <2>7
<1> QED
  BY <1>4, <1>5, <1>6

LEMMA NothingIn ==
  ASSUME NEW t, t = <<>>
  PROVE  ToSet(t) = {} /\ Len(t) = 0 /\ DOMAIN t = {} /\ \A S : t \in Seq(S)
  BY DEF ToSet

\* A visit of a relation of an object that is saved.
IsVisit(list, v, types) ==
  /\ v.m = m /\ v.graph = graph /\ v.i \in DOMAIN list /\ list[v.i].object \in Operated
  /\ v.r \in Relations(m, m.kindOf[list[v.i].object], types)
  /\ graph[list[v.i].object].rel[v.r.name].set
Visits(list, types) ==
  {v \in [m : {m}, graph : {graph}, i : DOMAIN list, r : ToSet(m.relations)] : IsVisit(list, v, types)}

LEMMA VisitedIn ==
  ASSUME SchemaIsTyped, NEW list, Good(list), NEW types
  PROVE  Visited(m, graph, list, types) \in Seq(Visits(list, types))
<1> DEFINE defined(i, r) == list[i].object # "" /\ graph[list[i].object].rel[r.name].set
           of(i) == RelationsOf(m, list[i].kind, types)
           visits(i, relations) == [j \in DOMAIN relations |-> [m |-> m, graph |-> graph, i |-> i, r |-> relations[j]]]
           some(i) == Picked(of(i), {j \in DOMAIN of(i) : defined(i, of(i)[j])})
           part(i) == visits(i, some(i))
           parts == [i \in DOMAIN list |-> part(i)]
<1>1. Len(list) \in Nat /\ DOMAIN list = 1..Len(list) /\ \A i \in DOMAIN list : GoodOne(list[i])
  BY GoodFacts
<1>2. ASSUME NEW i \in 1..Len(list)
      PROVE  part(i) \in Seq(Visits(list, types))
  <2> DEFINE relations == RelationsOf(m, list[i].kind, types)
             places == {j \in DOMAIN relations : defined(i, relations[j])}
             wanted == Picked(relations, places)
             R == Relations(m, list[i].kind, types)
  <2>1. relations \in Seq(R)
    BY RelationsOfIn
  <2>2. places \in SUBSET DOMAIN relations /\ \A j \in places : defined(i, relations[j])
    OBVIOUS
  <2>3. some(i) = wanted
    OBVIOUS
  <2>7. part(i) = [j \in DOMAIN wanted |-> [m |-> m, graph |-> graph, i |-> i, r |-> wanted[j]]]
    BY <2>3
  <2> HIDE DEF places, relations, R, some, part
  <2>4. wanted \in Seq(R) /\ \A x \in ToSet(wanted) : \E j \in places : x = relations[j]
    BY <2>1, <2>2, PickedIn
  <2> HIDE DEF wanted
  <2>5. /\ Len(wanted) \in Nat /\ DOMAIN wanted = 1..Len(wanted)
        /\ \A j \in 1..Len(wanted) : wanted[j] \in R /\ wanted[j] \in ToSet(wanted)
    BY <2>4, ListFacts
  <2>6. ASSUME NEW j \in 1..Len(wanted)
        PROVE  [m |-> m, graph |-> graph, i |-> i, r |-> wanted[j]] \in Visits(list, types)
    <3> DEFINE r == wanted[j]
    <3>1. r \in R /\ defined(i, r)
      BY <2>2, <2>4, <2>5
    <3>2. i \in DOMAIN list /\ list[i].object # "" /\ graph[list[i].object].rel[r.name].set
      BY <1>1, <3>1
    <3>3. list[i].object \in Operated /\ list[i].kind = m.kindOf[list[i].object]
      BY <1>1, <3>2, OwnOf
    <3>4. r \in ToSet(m.relations) /\ r \in Relations(m, list[i].kind, types)
      BY <3>1 DEF Relations, R
    <3> HIDE DEF r
    <3>5. [m |-> m, graph |-> graph, i |-> i, r |-> r] \in Visits(list, types)
      BY <3>1, <3>2, <3>3, <3>4 DEF Visits, IsVisit
    <3> QED
      BY <3>5 DEF r
  <2> QED
    BY <2>5, <2>6, <2>7
<1>3. parts \in Seq(Seq(Visits(list, types)))
  <2> HIDE DEF part
  <2> QED
    BY <1>1, <1>2
<1>4. Visited(m, graph, list, types) = FlattenSeq(parts)
  BY DEF Visited
<1> HIDE DEF parts
<1> QED
  BY <1>3, <1>4, FlattenIn

\* A fold over the visits of a list keeps it good and only adds to it.
VisitHolds(list0, list) == Good(list) /\ Extends(list0, list)

LEMMA VisitIsOf ==
  ASSUME NEW list0, NEW list, VisitHolds(list0, list), NEW types, NEW v \in Visits(list0, types)
  PROVE  IsVisit(list, v, types) /\ v.i \in DOMAIN list0 /\ list[v.i].object = list0[v.i].object
<1>1. IsVisit(list0, v, types)
  BY DEF Visits
<1>2. v.i \in DOMAIN list0 /\ v.i \in DOMAIN list /\ list[v.i].object = list0[v.i].object
  BY <1>1 DEF IsVisit, VisitHolds, Extends
<1> QED
  BY <1>1, <1>2 DEF IsVisit

(***************************************************************************)
(* OneToManySubjectBuilder and OneToOneInverseSideSubjectBuilder.          *)
(***************************************************************************)
\* What an object is told of while the objects of a relation are gone through.
IsBinding(w) ==
  \E owner \in Operated :
    /\ w.graph = graph /\ w.r \in Relations(m, m.kindOf[owner], InverseTypes) /\ graph[owner].rel[w.r.name].set
    /\ w.object \in ToSet(graph[owner].rel[w.r.name].of)

LEMMA BindUnstoredKeeps ==
  ASSUME SchemaIsTyped, ObjectsAreTyped, NEW list0, NEW list, VisitHolds(list0, list), NEW w, IsBinding(w)
  PROVE  VisitHolds(list0, BindUnstored(list, w))
<1>1. Good(list) /\ Extends(list0, list)
  BY DEF VisitHolds
<1>2. PICK owner \in Operated :
        /\ w.graph = graph /\ w.r \in Relations(m, m.kindOf[owner], InverseTypes) /\ graph[owner].rel[w.r.name].set
        /\ w.object \in ToSet(graph[owner].rel[w.r.name].of)
  BY DEF IsBinding
<1>3. CASE IdOf(w.graph, list, w.object) \in w.stored
  BY <1>1, <1>3 DEF BindUnstored, VisitHolds
<1>4. CASE IdOf(w.graph, list, w.object) \notin w.stored
  <2> DEFINE r == w.r
             x == w.object
             i == w.i
  <2>1. BindUnstored(list, w) = Bind(graph, list, i, r, x)
    BY <1>2, <1>4 DEF BindUnstored
  <2>2. r \in Relations(m, m.kindOf[owner], InverseTypes) /\ graph[owner].rel[r.name].set /\ x \in ToSet(graph[owner].rel[r.name].of)
    BY <1>2
  <2> HIDE DEF r, x, i
  <2>3. Good(Bind(graph, list, i, r, x)) /\ Extends(list, Bind(graph, list, i, r, x))
    BY <1>1, <2>2, BindKeeps
  <2> QED
    BY <1>1, <2>1, <2>3, ExtendsOn DEF VisitHolds
<1> QED
  BY <1>3, <1>4

BindFold == INSTANCE FoldFacts WITH Op <- BindUnstored, Holds <- VisitHolds

LEMMA BoundKeeps ==
  ASSUME SchemaIsTyped, ObjectsAreTyped, NEW list0, NEW list, VisitHolds(list0, list), NEW n \in Nat, NEW ws, DOMAIN ws = 1..n,
         \A j \in 1..n : IsBinding(ws[j])
  PROVE  VisitHolds(list0, FoldLeft(BindUnstored, list, ws))
<1>1. \A j \in 1..n : \A a : VisitHolds(list0, a) => VisitHolds(list0, BindUnstored(a, ws[j]))
  BY BindUnstoredKeeps
<1>2. VisitHolds(list0, BindFold!Fold(list, ws, n))
  BY <1>1, LeastExists, BindFold!FoldKeeps DEF BindFold!HaveLeast
<1>3. FoldLeft(BindUnstored, list, ws) = BindFold!Fold(list, ws, n)
  BY DEF FoldLeft, MapThenFoldSet, Max, BindFold!Fold, BindFold!Folded, BindFold!Greatest
<1> QED
  BY <1>2, <1>3

\* A row that is held, with the change that the relation is null.
LEMMA NulledIsGood ==
  ASSUME NEW s, Shaped(s), s.object = "", s.kind \notin Tables, ~s.canBeInserted, ~s.mustBeRemoved, NEW id, s.ids = <<id>>,
         s.before = <<>>, NEW c, s.changes = <<c>>, c.on # "value", Held(graph, db, s.kind, id, c.on)
  PROVE  GoodOne(s)
<1>1. ToSet(s.changes) = {c}
  BY OneIn
<1> QED
  BY <1>1, BareIsGood

LEMMA OneId ==
  ASSUME NEW kind, NEW object, NEW id
  PROVE  Shaped(Subject(kind, object, <<id>>))
<1>1. <<id>> \in Seq({id})
  BY OneIn
<1> QED
  BY <1>1, SubjectShaped

LEMMA UnboundIsGood ==
  ASSUME SchemaIsTyped, NEW owner \in Operated, NEW r \in Relations(m, m.kindOf[owner], InverseTypes),
         graph[owner].rel[r.name].set, NEW row \in db.rows, row.kind = r.to, row.refs[r.inverse] = graph[owner].id,
         RowsAreTyped(db)
  PROVE  GoodOne(Unbound(r, row.id))
<1> DEFINE s == Unbound(r, row.id)
<1>1. r \in ToSet(m.relations) /\ r.type \in InverseTypes
  BY DEF Relations
<1>2. r.inverse # "value"
  BY <1>1, InverseFacts
<1>3. HeldBy(graph, db, r.to, row.id, r.inverse, owner, r)
  BY DEF HeldBy
<1>4. Held(graph, db, r.to, row.id, r.inverse)
  BY <1>3 DEF Held
<1>5. r.to \notin Tables
  BY DEF RowsAreTyped
<1>6. Shaped(Subject(r.to, "", <<row.id>>))
  BY OneId
<1>7. /\ s = [f \in Fields |-> s[f]] /\ s.object = "" /\ s.kind = r.to /\ s.ids = <<row.id>> /\ s.before = <<>>
      /\ s.canBeInserted = FALSE /\ s.mustBeRemoved = FALSE /\ s.changes = <<ToNull(r.inverse)>>
  BY DEF Unbound, Subject, Fields
<1>8. ToNull(r.inverse).on = r.inverse
  BY DEF ToNull, Change
<1> HIDE DEF s
<1>9. Shaped(s)
  BY <1>7, OneChange DEF Shaped
<1>10. GoodOne(s)
  BY <1>2, <1>4, <1>5, <1>7, <1>8, <1>9, NulledIsGood
<1> QED
  BY <1>10 DEF s

LEMMA OrphanIsGood ==
  ASSUME SchemaIsTyped, NEW owner \in Operated, NEW r \in Relations(m, m.kindOf[owner], InverseTypes),
         graph[owner].rel[r.name].set, NEW row \in db.rows, row.kind = r.to, row.refs[r.inverse] = graph[owner].id,
         RowsAreTyped(db), Relation(m, r.inverse).orphan # "disable"
  PROVE  GoodOne(Orphan(Relation(m, r.inverse), row.id))
<1> DEFINE q == Relation(m, r.inverse)
           b == Subject(q.kind, "", <<row.id>>)
           s == Orphan(q, row.id)
           id == row.id
<1>1. r \in ToSet(m.relations) /\ r.type \in InverseTypes
  BY DEF Relations
<1>2. /\ q \in Relations(m, r.to, OwningTypes) /\ q.name = r.inverse /\ q.kind = r.to
      /\ q \in ToSet(m.relations) /\ r.inverse # "value"
  BY <1>1, InverseFacts
<1>3. HeldBy(graph, db, r.to, id, r.inverse, owner, r)
  BY DEF HeldBy
<1>4. Held(graph, db, q.kind, id, q.name)
  BY <1>2, <1>3 DEF Held
<1>5. q.kind \notin Tables
  BY <1>2 DEF RowsAreTyped
<1>6. q.orphan \in {"nullify", "delete", "soft-delete"}
  BY <1>2, SchemaFacts
<1>7. Shaped(b)
  BY OneId
<1>8. /\ b = [f \in Fields |-> b[f]] /\ b.object = "" /\ b.kind = q.kind /\ b.ids = <<id>> /\ b.before = <<>>
      /\ b.canBeInserted = FALSE /\ b.mustBeRemoved = FALSE /\ b.changes = <<>>
  BY DEF Subject, Fields
<1>9. ToNull(q.name).on = q.name
  BY DEF ToNull, Change
<1>10. CASE q.orphan = "nullify" /\ q.nullable
  <2>1. s = [b EXCEPT !.canBeUpdated = TRUE, !.changes = <<ToNull(q.name)>>]
    BY <1>10 DEF Orphan
  <2> HIDE DEF b, s, q
  <2>2. /\ s = [f \in Fields |-> s[f]] /\ s.object = "" /\ s.kind = q.kind /\ s.ids = <<id>> /\ s.before = <<>>
        /\ s.canBeInserted = FALSE /\ s.mustBeRemoved = FALSE /\ s.changes = <<ToNull(q.name)>>
    BY <1>8, <2>1 DEF Fields
  <2>3. Shaped(s)
    BY <2>2, OneChange DEF Shaped
  <2>4. GoodOne(s)
    BY <1>2, <1>4, <1>5, <1>9, <2>2, <2>3, NulledIsGood
  <2> QED
    BY <2>4 DEF s, q
<1>11. CASE q.orphan = "delete" \/ (q.orphan = "nullify" /\ ~q.nullable)
  <2>1. s = [b EXCEPT !.mustBeRemoved = TRUE]
    BY <1>11 DEF Orphan
  <2>2. Orphaned(graph, db, q.kind, id)
    BY <1>2, <1>4, <1>11 DEF Orphaned, OwningRelations
  <2> HIDE DEF b, s, q
  <2>3. /\ s = [f \in Fields |-> s[f]] /\ s.object = "" /\ s.kind = q.kind /\ s.ids = <<id>> /\ s.before = <<>>
        /\ s.canBeInserted = FALSE /\ s.changes = <<>>
    BY <1>8, <2>1 DEF Fields
  <2>4. Shaped(s)
    BY <1>7, <1>8, <2>3 DEF Shaped
  <2>5. ToSet(s.changes) = {}
    BY <2>3, NothingIn
  <2>6. GoodOne(s)
    BY <1>5, <2>2, <2>3, <2>4, <2>5, BareIsGood
  <2> QED
    BY <2>6 DEF s, q
<1>12. CASE q.orphan = "soft-delete"
  <2>1. s = [b EXCEPT !.canBeSoftRemoved = TRUE]
    BY <1>12 DEF Orphan
  <2> HIDE DEF b, s, q
  <2>2. /\ s = [f \in Fields |-> s[f]] /\ s.object = "" /\ s.kind = q.kind /\ s.ids = <<id>> /\ s.before = <<>>
        /\ s.canBeInserted = FALSE /\ s.mustBeRemoved = FALSE /\ s.changes = <<>>
    BY <1>8, <2>1 DEF Fields
  <2>3. Shaped(s)
    BY <1>7, <1>8, <2>2 DEF Shaped
  <2>4. ToSet(s.changes) = {}
    BY <2>2, NothingIn
  <2>5. GoodOne(s)
    BY <1>5, <2>2, <2>3, <2>4, BareIsGood
  <2> QED
    BY <2>5 DEF s, q
<1> QED
  BY <1>6, <1>10, <1>11, <1>12

LEMMA FirstIn ==
  ASSUME NEW S, NEW t \in Seq(S), t # <<>>
  PROVE  1 \in DOMAIN t /\ t[1] \in ToSet(t) /\ t[1] \in S
<1>1. Len(t) \in Nat /\ Len(t) # 0 /\ DOMAIN t = 1..Len(t)
  OBVIOUS
<1> QED
  BY <1>1 DEF ToSet

LEMMA GoodSet ==
  ASSUME NEW S, IsFiniteSet(S), NEW f, DOMAIN f = S, f = [x \in S |-> f[x]], \A x \in S : GoodOne(f[x])
  PROVE  Good(SetToSeq({f[x] : x \in S}))
<1> DEFINE T == {f[x] : x \in S}
<1>1. IsFiniteSet(T)
  BY ImageFinite
<1>2. \A s \in T : GoodOne(s)
  OBVIOUS
<1> HIDE DEF T
<1>3. SetToSeq(T) \in Seq(T)
  BY <1>1, SetToSeqIn
<1>4. Good(SetToSeq(T))
  BY <1>2, <1>3, GoodFrom
<1> QED
  BY <1>4 DEF T

\* What the visit of an object finds.
LEMMA VisitFacts ==
  ASSUME SchemaIsTyped, ObjectsAreTyped, NEW list0, NEW list, VisitHolds(list0, list), NEW types, types \subseteq AllTypes,
         NEW v \in Visits(list0, types)
  PROVE  LET o == list[v.i].object
         IN /\ v.m = m /\ v.graph = graph /\ v.i \in DOMAIN list /\ GoodOne(list[v.i]) /\ Good(list)
            /\ o \in Operated /\ o \in DOMAIN graph /\ o # "" /\ list[v.i].kind = m.kindOf[o]
            /\ v.r \in Relations(m, m.kindOf[o], types) /\ graph[o].rel[v.r.name].set
            /\ v.r \in ToSet(m.relations) /\ v.r.type \in types
            /\ graph[o].rel[v.r.name].of \in Seq(DOMAIN graph)
            /\ IsFiniteSet(Before(list[v.i], v.r))
<1>1. IsVisit(list, v, types)
  BY VisitIsOf
<1>2. Good(list)
  BY DEF VisitHolds
<1> DEFINE s == list[v.i]
           o == s.object
           r == v.r
<1>3. /\ v.m = m /\ v.graph = graph /\ v.i \in DOMAIN list /\ o \in Operated
      /\ r \in Relations(m, m.kindOf[o], types) /\ graph[o].rel[r.name].set
  BY <1>1 DEF IsVisit
<1>4. GoodOne(s)
  BY <1>2, <1>3, GoodFacts
<1> HIDE DEF s, r
<1>5. o \in DOMAIN graph
  BY <1>3, OperatedAreObjects
<1>6. o # ""
  BY <1>5, ObjectFacts
<1>7. s.kind = m.kindOf[o]
  BY <1>4, <1>6, OwnOf
<1>8. r \in ToSet(m.relations) /\ r.type \in types /\ r \in Relations(m, m.kindOf[o], AllTypes)
  BY <1>3 DEF Relations
<1>9. graph[o].rel[r.name].of \in Seq(DOMAIN graph)
  BY <1>5, <1>8, ObjectFacts
<1>10. IsFiniteSet(Before(s, r))
  BY <1>4, <1>8 DEF GoodOne, BeforeIsTrue
<1> QED
  BY <1>2, <1>3, <1>4, <1>5, <1>6, <1>7, <1>8, <1>9, <1>10 DEF s, r

LEMMA OneToManyKeeps ==
  ASSUME SchemaIsTyped, ObjectsAreTyped, RowsAreTyped(db), NEW list0, NEW list, VisitHolds(list0, list),
         NEW v \in Visits(list0, {"oneToMany"})
  PROVE  VisitHolds(list0, VisitOneToMany(list, v))
<1> DEFINE s == list[v.i]
           o == s.object
           r == v.r
           of == graph[o].rel[r.name].of
           stored == Before(s, r)
           ws == [j \in DOMAIN of |-> [graph |-> graph, i |-> v.i, r |-> r, stored |-> stored, object |-> of[j]]]
           bound == FoldLeft(BindUnstored, list, ws)
           orphans == stored \ {IdOf(graph, bound, of[j]) : j \in DOMAIN of}
           q == Relation(m, r.inverse)
           after == IF q.orphan = "disable" THEN bound
                    ELSE bound \o SetToSeq({Orphan(q, id) : id \in orphans})
<1>0. {"oneToMany"} \subseteq AllTypes /\ {"oneToMany"} \subseteq InverseTypes
  BY DEF AllTypes, InverseTypes
<1>1. /\ v.m = m /\ v.graph = graph /\ v.i \in DOMAIN list /\ GoodOne(s) /\ Good(list)
      /\ o \in Operated /\ o \in DOMAIN graph /\ o # "" /\ s.kind = m.kindOf[o]
      /\ r \in Relations(m, m.kindOf[o], {"oneToMany"}) /\ graph[o].rel[r.name].set
      /\ r \in ToSet(m.relations) /\ r.type \in {"oneToMany"}
      /\ of \in Seq(DOMAIN graph) /\ IsFiniteSet(stored)
  BY <1>0, VisitFacts
<1>2. VisitOneToMany(list, v) = after
  <2>1. v.m = m /\ v.graph = graph
    BY <1>1
  <2> QED
    BY <2>1, ZenonT(60) DEF VisitOneToMany
<1>3. r \in Relations(m, m.kindOf[o], InverseTypes)
  BY <1>0, <1>1 DEF Relations
<1>4. VisitHolds(list0, bound)
  <2>1. Len(of) \in Nat /\ DOMAIN of = 1..Len(of) /\ \A j \in 1..Len(of) : of[j] \in ToSet(of)
    <3> HIDE DEF of
    <3> QED
      BY <1>1, ListFacts
  <2>2. DOMAIN ws = 1..Len(of)
    BY <2>1
  <2>3. ASSUME NEW j \in 1..Len(of)
        PROVE  IsBinding(ws[j])
    <3>1. ws[j] = [graph |-> graph, i |-> v.i, r |-> r, stored |-> stored, object |-> of[j]]
      BY <2>1
    <3>2. of[j] \in ToSet(graph[o].rel[r.name].of)
      BY <2>1
    <3> DEFINE w == ws[j]
    <3>3. w.graph = graph /\ w.r = r /\ w.object = of[j]
      <4> HIDE DEF ws, of, r, stored
      <4> QED
        BY <3>1
    <3>4. graph[o].rel[w.r.name].set /\ w.r \in Relations(m, m.kindOf[o], InverseTypes) /\ o \in Operated
          /\ w.object \in ToSet(graph[o].rel[w.r.name].of)
      BY <1>1, <1>3, <3>2, <3>3
    <3> HIDE DEF w, o
    <3>5. IsBinding(w)
      BY <3>3, <3>4 DEF IsBinding
    <3> QED
      BY <3>5 DEF w
  <2> HIDE DEF ws
  <2> QED
    BY <2>1, <2>2, <2>3, BoundKeeps
<1>5. CASE q.orphan = "disable"
  BY <1>2, <1>4, <1>5
<1>6. CASE q.orphan # "disable"
  <2> DEFINE f == [id \in orphans |-> Orphan(q, id)]
  <2>1. IsFiniteSet(orphans) /\ orphans \subseteq stored
    <3> HIDE DEF stored, bound
    <3> QED
      BY <1>1, FS_Subset
  <2>2. ASSUME NEW id \in orphans
        PROVE  GoodOne(Orphan(q, id))
    <3>1. id \in Before(s, r) /\ r \in Relations(m, s.kind, InverseTypes)
      BY <1>1, <1>3, <2>1
    <3>2. PICK row \in db.rows : row.kind = r.to /\ row.id = id /\ row.refs[r.inverse] = graph[o].id
      BY <1>1, <3>1 DEF GoodOne, BeforeIsTrue
    <3> HIDE DEF r, o
    <3>3. GoodOne(Orphan(q, row.id))
      BY <1>1, <1>3, <1>6, <3>2, OrphanIsGood
    <3> QED
      BY <3>2, <3>3
  <2>3. DOMAIN f = orphans /\ f = [id \in orphans |-> f[id]] /\ \A id \in orphans : GoodOne(f[id])
    <3> HIDE DEF orphans, q
    <3> QED
      BY <2>2
  <2>4. {f[id] : id \in orphans} = {Orphan(q, id) : id \in orphans}
    <3> HIDE DEF orphans, q
    <3> QED
      OBVIOUS
  <2>5. VisitOneToMany(list, v) = bound \o SetToSeq({Orphan(q, id) : id \in orphans})
    BY <1>2, <1>6
  <2> HIDE DEF orphans, q, f, bound
  <2>6. Good(SetToSeq({f[id] : id \in orphans}))
    BY <2>1, <2>3, GoodSet
  <2>7. Good(SetToSeq({Orphan(q, id) : id \in orphans}))
    BY <2>4, <2>6
  <2> QED
    BY <1>4, <2>5, <2>7, ConcatKeeps, ExtendsOn DEF VisitHolds
<1> QED
  BY <1>5, <1>6

OneToManyFold == INSTANCE FoldFacts WITH Op <- VisitOneToMany, Holds <- VisitHolds

LEMMA BuildOneToManyIsGood ==
  ASSUME SchemaIsTyped, ObjectsAreTyped, RowsAreTyped(db), NEW list, Good(list)
  PROVE  Good(BuildOneToMany(m, graph, list))
<1> DEFINE visits == Visited(m, graph, list, {"oneToMany"})
<1>1. visits \in Seq(Visits(list, {"oneToMany"}))
  BY VisitedIn
<1>2. BuildOneToMany(m, graph, list) = FoldLeft(VisitOneToMany, list, visits)
  BY DEF BuildOneToMany
<1> HIDE DEF visits
<1>3. /\ Len(visits) \in Nat /\ DOMAIN visits = 1..Len(visits)
      /\ \A j \in 1..Len(visits) : visits[j] \in Visits(list, {"oneToMany"})
  BY <1>1, ListFacts
<1>4. VisitHolds(list, list)
  BY ExtendsItself DEF VisitHolds
<1>5. \A j \in 1..Len(visits) : \A a : VisitHolds(list, a) => VisitHolds(list, VisitOneToMany(a, visits[j]))
  BY <1>3, OneToManyKeeps
<1>6. VisitHolds(list, OneToManyFold!Fold(list, visits, Len(visits)))
  BY <1>3, <1>4, <1>5, LeastExists, OneToManyFold!FoldKeeps DEF OneToManyFold!HaveLeast
<1>7. FoldLeft(VisitOneToMany, list, visits) = OneToManyFold!Fold(list, visits, Len(visits))
  BY <1>3 DEF FoldLeft, MapThenFoldSet, Max, OneToManyFold!Fold, OneToManyFold!Folded, OneToManyFold!Greatest
<1> QED
  BY <1>2, <1>6, <1>7 DEF VisitHolds

LEMMA OneToOneInverseKeeps ==
  ASSUME SchemaIsTyped, ObjectsAreTyped, RowsAreTyped(db), NEW list0, NEW list, VisitHolds(list0, list),
         NEW v \in Visits(list0, {"oneToOneInverse"})
  PROVE  VisitHolds(list0, VisitOneToOneInverse(list, v))
<1> DEFINE s == list[v.i]
           o == s.object
           r == v.r
           i == v.i
           of == graph[o].rel[r.name].of
           stored == Before(s, r)
           x == of[1]
           once == IF IdOf(graph, list, x) = 0 THEN Bind(graph, list, i, r, x) ELSE list
           after == IF of = <<>> THEN list \o SetToSeq({Unbound(r, id) : id \in stored})
                    ELSE IF IdOf(graph, list, x) \in stored THEN list
                    ELSE Bind(graph, once, i, r, x)
<1>0. {"oneToOneInverse"} \subseteq AllTypes /\ {"oneToOneInverse"} \subseteq InverseTypes
  BY DEF AllTypes, InverseTypes
<1>1. /\ v.m = m /\ v.graph = graph /\ v.i \in DOMAIN list /\ GoodOne(s) /\ Good(list)
      /\ o \in Operated /\ o \in DOMAIN graph /\ o # "" /\ s.kind = m.kindOf[o]
      /\ r \in Relations(m, m.kindOf[o], {"oneToOneInverse"}) /\ graph[o].rel[r.name].set
      /\ r \in ToSet(m.relations) /\ r.type \in {"oneToOneInverse"}
      /\ of \in Seq(DOMAIN graph) /\ IsFiniteSet(stored)
  BY <1>0, VisitFacts
<1>2. VisitOneToOneInverse(list, v) = after
  BY <1>1 DEF VisitOneToOneInverse
<1> HIDE DEF after, once
<1>3. r \in Relations(m, m.kindOf[o], InverseTypes)
  BY <1>0, <1>1 DEF Relations
<1>4. Extends(list0, list) /\ Good(list)
  BY DEF VisitHolds
<1>5. CASE of = <<>>
  <2> DEFINE f == [id \in stored |-> Unbound(r, id)]
  <2>2. ASSUME NEW id \in stored
        PROVE  GoodOne(Unbound(r, id))
    <3>1. id \in Before(s, r) /\ r \in Relations(m, s.kind, InverseTypes)
      BY <1>1, <1>3
    <3>2. PICK row \in db.rows : row.kind = r.to /\ row.id = id /\ row.refs[r.inverse] = graph[o].id
      BY <1>1, <3>1 DEF GoodOne, BeforeIsTrue
    <3> HIDE DEF r, o
    <3>3. GoodOne(Unbound(r, row.id))
      BY <1>1, <1>3, <3>2, UnboundIsGood
    <3> QED
      BY <3>2, <3>3
  <2>3. DOMAIN f = stored /\ f = [id \in stored |-> f[id]] /\ \A id \in stored : GoodOne(f[id])
    <3> HIDE DEF stored, r
    <3> QED
      BY <2>2
  <2>4. {f[id] : id \in stored} = {Unbound(r, id) : id \in stored}
    <3> HIDE DEF stored, r
    <3> QED
      OBVIOUS
  <2>5. VisitOneToOneInverse(list, v) = list \o SetToSeq({Unbound(r, id) : id \in stored})
    BY <1>2, <1>5 DEF after
  <2>8. IsFiniteSet(stored)
    BY <1>1
  <2> HIDE DEF stored, f
  <2>6. Good(SetToSeq({f[id] : id \in stored}))
    BY <2>8, <2>3, GoodSet
  <2>7. Good(SetToSeq({Unbound(r, id) : id \in stored}))
    BY <2>4, <2>6
  <2> QED
    BY <1>4, <2>5, <2>7, ConcatKeeps, ExtendsOn DEF VisitHolds
<1>6. CASE of # <<>>
  <2>1. x \in ToSet(of)
    <3> HIDE DEF of
    <3> QED
      BY <1>1, <1>6, FirstIn
  <2> DEFINE told == Bind(graph, list, i, r, x)
             twice == Bind(graph, told, i, r, x)
  <2>2. VisitOneToOneInverse(list, v) \in {list, told, twice}
    BY <1>2, <1>6 DEF after, once
  <2>3. x \in ToSet(graph[o].rel[r.name].of)
    BY <2>1
  <2> HIDE DEF r, o, x, i
  <2>4. Good(told) /\ Extends(list, told)
    BY <1>1, <1>3, <2>3, BindKeeps
  <2> HIDE DEF told
  <2>5. Good(twice) /\ Extends(told, twice)
    BY <1>1, <1>3, <2>3, <2>4, BindKeeps
  <2> HIDE DEF twice
  <2>6. Extends(list0, told) /\ Extends(list0, twice)
    BY <1>4, <2>4, <2>5, ExtendsOn
  <2> QED
    BY <1>4, <2>2, <2>4, <2>5, <2>6 DEF VisitHolds
<1> QED
  BY <1>5, <1>6

OneToOneFold == INSTANCE FoldFacts WITH Op <- VisitOneToOneInverse, Holds <- VisitHolds

LEMMA BuildOneToOneInverseIsGood ==
  ASSUME SchemaIsTyped, ObjectsAreTyped, RowsAreTyped(db), NEW list, Good(list)
  PROVE  Good(BuildOneToOneInverse(m, graph, list))
<1> DEFINE visits == Visited(m, graph, list, {"oneToOneInverse"})
<1>1. visits \in Seq(Visits(list, {"oneToOneInverse"}))
  BY VisitedIn
<1>2. BuildOneToOneInverse(m, graph, list) = FoldLeft(VisitOneToOneInverse, list, visits)
  BY DEF BuildOneToOneInverse
<1> HIDE DEF visits
<1>3. /\ Len(visits) \in Nat /\ DOMAIN visits = 1..Len(visits)
      /\ \A j \in 1..Len(visits) : visits[j] \in Visits(list, {"oneToOneInverse"})
  BY <1>1, ListFacts
<1>4. VisitHolds(list, list)
  BY ExtendsItself DEF VisitHolds
<1>5. \A j \in 1..Len(visits) : \A a : VisitHolds(list, a) => VisitHolds(list, VisitOneToOneInverse(a, visits[j]))
  BY <1>3, OneToOneInverseKeeps
<1>6. VisitHolds(list, OneToOneFold!Fold(list, visits, Len(visits)))
  BY <1>3, <1>4, <1>5, LeastExists, OneToOneFold!FoldKeeps DEF OneToOneFold!HaveLeast
<1>7. FoldLeft(VisitOneToOneInverse, list, visits) = OneToOneFold!Fold(list, visits, Len(visits))
  BY <1>3 DEF FoldLeft, MapThenFoldSet, Max, OneToOneFold!Fold, OneToOneFold!Folded, OneToOneFold!Greatest
<1> QED
  BY <1>2, <1>6, <1>7 DEF VisitHolds

(***************************************************************************)
(* ManyToManySubjectBuilder.                                               *)
(***************************************************************************)
LEMMA TwoIn ==
  ASSUME NEW x, NEW y, NEW t, t = <<x, y>>
  PROVE  t \in Seq({x, y}) /\ t \in Seq(ToSet(t)) /\ ToSet(t) = {x, y} /\ t # <<>>
<1>1. t \in Seq({x, y})
  OBVIOUS
<1>2. ToSet(t) = {x, y}
  <2>1. DOMAIN t = {1, 2} /\ t[1] = x /\ t[2] = y
    OBVIOUS
  <2> QED
    BY <2>1 DEF ToSet
<1> QED
  BY <1>1, <1>2

LEMMA LinkIsGood ==
  ASSUME NEW s, Shaped(s), s.object = "", s.kind \in Tables, s.before = <<>>
  PROVE  GoodOne(s)
  BY NothingBefore DEF GoodOne, Lawful, Link

LEMMA UnlinkedIsGood ==
  ASSUME NEW r \in ToSet(m.relations), r.type \in ManyToManyTypes, NEW id, NEW other
  PROVE  GoodOne(Unlinked(r, id, other))
<1> DEFINE ids == Pair(r, id, other)
           b == Subject(r.table, "", ids)
           s == [b EXCEPT !.mustBeRemoved = TRUE]
<1>1. r.table \in Tables
  BY DEF Tables
<1>2. \E S : ids \in Seq(S)
  BY TwoIn DEF Pair
<1>3. Unlinked(r, id, other) = s
  BY DEF Unlinked, Junction
<1> HIDE DEF ids
<1>4. Shaped(b)
  BY <1>2, SubjectShaped
<1>5. b = [f \in Fields |-> b[f]] /\ b.object = "" /\ b.kind = r.table /\ b.before = <<>>
  BY DEF Subject, Fields
<1> HIDE DEF b
<1>6. /\ s = [f \in Fields |-> s[f]] /\ s.object = "" /\ s.kind = r.table /\ s.before = <<>>
      /\ s.changes = b.changes /\ s.ids = b.ids
  BY <1>5 DEF Fields
<1> HIDE DEF s
<1>7. Shaped(s)
  BY <1>4, <1>6 DEF Shaped
<1> QED
  BY <1>1, <1>3, <1>6, <1>7, LinkIsGood

LEMMA LinkedIsGood ==
  ASSUME NEW r \in ToSet(m.relations), r.type \in ManyToManyTypes, NEW list, NEW i, NEW x
  PROVE  GoodOne(Linked(list, i, r, x))
<1> DEFINE related(on) == IF SubjectsOf(list, x) = {} THEN Change(on, "", x, 0)
                          ELSE ToSubject(on, Min(SubjectsOf(list, x)))
           one == IF r.type = "manyToMany" THEN ToSubject("owner", i) ELSE related("owner")
           two == IF r.type = "manyToMany" THEN related("inverse") ELSE ToSubject("inverse", i)
           b == Subject(r.table, "", <<>>)
           s == [b EXCEPT !.canBeInserted = TRUE, !.changes = <<one, two>>]
<1>1. r.table \in Tables
  BY DEF Tables
<1>2. <<>> \in Seq({})
  OBVIOUS
<1>3. Linked(list, i, r, x) = s
  BY DEF Linked, Junction
<1> HIDE DEF one, two
<1>4. Shaped(b)
  BY <1>2, SubjectShaped
<1>5. b = [f \in Fields |-> b[f]] /\ b.object = "" /\ b.kind = r.table /\ b.before = <<>>
  BY DEF Subject, Fields
<1> HIDE DEF b
<1>6. /\ s = [f \in Fields |-> s[f]] /\ s.object = "" /\ s.kind = r.table /\ s.before = <<>>
      /\ s.changes = <<one, two>> /\ s.ids = b.ids
  BY <1>5 DEF Fields
<1> HIDE DEF s
<1>7. Shaped(s)
  <2>1. s.ids \in Seq(ToSet(s.ids))
    BY <1>4, <1>6 DEF Shaped
  <2>2. s.changes \in Seq(ToSet(s.changes))
    BY <1>6, TwoIn
  <2> QED
    BY <1>6, <2>1, <2>2 DEF Shaped
<1> QED
  BY <1>1, <1>3, <1>6, <1>7, LinkIsGood

LEMMA GoodParts ==
  ASSUME NEW n \in Nat, NEW f, DOMAIN f = 1..n, f = [k \in 1..n |-> f[k]], \A k \in 1..n : Good(f[k])
  PROVE  Good(FlattenSeq(f))
<1> DEFINE S == UNION {ToSet(f[k]) : k \in 1..n}
<1>1. \A s \in S : GoodOne(s)
  BY DEF Good
<1>2. ASSUME NEW k \in 1..n
      PROVE  f[k] \in Seq(S)
  <2>1. f[k] \in Seq(ToSet(f[k]))
    BY DEF Good
  <2>2. ToSet(f[k]) \subseteq S
    OBVIOUS
  <2> HIDE DEF S
  <2> QED
    BY <2>1, <2>2, WiderList
<1> HIDE DEF S
<1>3. f \in Seq(Seq(S))
  BY <1>2, IndexedIn
<1>4. FlattenSeq(f) \in Seq(S)
  BY <1>3, FlattenIn
<1> QED
  BY <1>1, <1>4, GoodFrom

LEMMA GoodEach ==
  ASSUME NEW n \in Nat, NEW f, DOMAIN f = 1..n, f = [k \in 1..n |-> f[k]], \A k \in 1..n : GoodOne(f[k])
  PROVE  Good(f)
<1> DEFINE S == {f[k] : k \in 1..n}
<1>1. \A s \in S : GoodOne(s)
  OBVIOUS
<1>2. \A k \in 1..n : f[k] \in S
  OBVIOUS
<1> HIDE DEF S
<1>3. f \in Seq(S)
  BY <1>2, IndexedIn
<1> QED
  BY <1>1, <1>3, GoodFrom

LEMMA JunctionsAreGood ==
  ASSUME SchemaIsTyped, ObjectsAreTyped, NEW list, Good(list), NEW v \in Visits(list, ManyToManyTypes)
  PROVE  Good(JunctionsOf(graph, list, v.i, v.r))
<1> DEFINE s == list[v.i]
           o == s.object
           r == v.r
           i == v.i
           of == graph[o].rel[r.name].of
           stored == Before(s, r)
           places == {j \in DOMAIN of : IdOf(graph, list, of[j]) \notin stored
                                        /\ (IdOf(graph, list, of[j]) # 0 \/ SubjectsOf(list, of[j]) # {})}
           new == Picked(of, places)
           gone == stored \ {IdOf(graph, list, of[j]) : j \in DOMAIN of}
           links == [j \in DOMAIN new |-> Linked(list, i, r, new[j])]
           id == graph[o].id
           f == [x \in gone |-> Unlinked(r, id, x)]
<1>0. ManyToManyTypes \subseteq AllTypes /\ VisitHolds(list, list)
  BY ExtendsItself DEF AllTypes, VisitHolds
<1>1. /\ r \in ToSet(m.relations) /\ r.type \in ManyToManyTypes
      /\ of \in Seq(DOMAIN graph) /\ IsFiniteSet(stored)
  BY <1>0, VisitFacts
<1>2. JunctionsOf(graph, list, v.i, v.r) = links \o SetToSeq({Unlinked(r, id, x) : x \in gone})
  BY DEF JunctionsOf
<1>3. Good(links)
  <2>1. places \in SUBSET DOMAIN of
    OBVIOUS
  <2>2. new \in Seq(DOMAIN graph)
    <3> HIDE DEF places, of
    <3> QED
      BY <1>1, <2>1, PickedIn
  <2> HIDE DEF new, r, i
  <2>3. Len(new) \in Nat /\ DOMAIN new = 1..Len(new)
    BY <2>2, ListFacts
  <2>4. links = [j \in 1..Len(new) |-> links[j]] /\ DOMAIN links = 1..Len(new) /\ \A j \in 1..Len(new) : GoodOne(links[j])
    BY <1>1, <2>3, LinkedIsGood
  <2> HIDE DEF links
  <2> QED
    BY <2>3, <2>4, GoodEach
<1>4. Good(SetToSeq({Unlinked(r, id, x) : x \in gone}))
  <2>1. IsFiniteSet(gone)
    <3>1. gone \subseteq stored
      OBVIOUS
    <3> HIDE DEF gone, stored
    <3> QED
      BY <1>1, <3>1, FS_Subset
  <2> HIDE DEF gone, r, id
  <2>2. DOMAIN f = gone /\ f = [x \in gone |-> f[x]] /\ \A x \in gone : GoodOne(f[x])
    BY <1>1, UnlinkedIsGood
  <2>3. {f[x] : x \in gone} = {Unlinked(r, id, x) : x \in gone}
    OBVIOUS
  <2> HIDE DEF f
  <2>4. Good(SetToSeq({f[x] : x \in gone}))
    BY <2>1, <2>2, GoodSet
  <2> QED
    BY <2>3, <2>4
<1> HIDE DEF links, gone, r, i, id
<1> QED
  BY <1>2, <1>3, <1>4, ConcatKeeps

LEMMA BuildManyToManyIsGood ==
  ASSUME SchemaIsTyped, ObjectsAreTyped, NEW list, Good(list)
  PROVE  Good(BuildManyToMany(m, graph, list))
<1> DEFINE visits == Visited(m, graph, list, ManyToManyTypes)
           parts == [k \in DOMAIN visits |-> JunctionsOf(graph, list, visits[k].i, visits[k].r)]
<1>1. visits \in Seq(Visits(list, ManyToManyTypes))
  BY VisitedIn
<1>2. BuildManyToMany(m, graph, list) = list \o FlattenSeq(parts)
  BY DEF BuildManyToMany
<1> HIDE DEF visits
<1>3. /\ Len(visits) \in Nat /\ DOMAIN visits = 1..Len(visits)
      /\ \A j \in 1..Len(visits) : visits[j] \in Visits(list, ManyToManyTypes)
  BY <1>1, ListFacts
<1>4. DOMAIN parts = 1..Len(visits) /\ parts = [k \in 1..Len(visits) |-> parts[k]] /\ \A k \in 1..Len(visits) : Good(parts[k])
  BY <1>3, JunctionsAreGood
<1> HIDE DEF parts
<1>5. Good(FlattenSeq(parts))
  BY <1>3, <1>4, GoodParts
<1> QED
  BY <1>2, <1>5, ConcatKeeps

LEMMA UnlinkAllIsGood ==
  ASSUME SchemaIsTyped, NEW list, Good(list)
  PROVE  Good(UnlinkAll(m, list))
<1> DEFINE unlinked(s, r) == SetToSeq({Unlinked(r, s.ids[1], id) : id \in Before(s, r)})
           of(s) == IF s.mustBeRemoved /\ Found(s) THEN RelationsOf(m, s.kind, ManyToManyTypes) ELSE <<>>
           part(i) == FlattenSeq([j \in DOMAIN of(list[i]) |-> unlinked(list[i], of(list[i])[j])])
           parts == [i \in DOMAIN list |-> part(i)]
<1>1. Len(list) \in Nat /\ DOMAIN list = 1..Len(list) /\ \A i \in DOMAIN list : GoodOne(list[i])
  BY GoodFacts
<1>2. UnlinkAll(m, list) = list \o FlattenSeq(parts)
  BY DEF UnlinkAll
<1>3. ASSUME NEW i \in 1..Len(list)
      PROVE  Good(part(i))
  <2> DEFINE s == list[i]
             relations == of(s)
             inner == [j \in DOMAIN relations |-> unlinked(s, relations[j])]
  <2>1. GoodOne(s)
    BY <1>1
  <2>2. relations \in Seq(Relations(m, s.kind, ManyToManyTypes))
    <3> HIDE DEF s
    <3>1. CASE of(s) = <<>>
      <4> HIDE DEF of
      <4> QED
        BY <3>1, NothingIn
    <3>2. CASE of(s) # <<>>
      BY <3>2, RelationsOfIn
    <3> QED
      BY <3>1, <3>2
  <2>3. part(i) = FlattenSeq(inner)
    OBVIOUS
  <2> HIDE DEF relations, s, part
  <2>4. /\ Len(relations) \in Nat /\ DOMAIN relations = 1..Len(relations)
        /\ \A j \in 1..Len(relations) : relations[j] \in Relations(m, s.kind, ManyToManyTypes)
    BY <2>2, ListFacts
  <2>5. ASSUME NEW j \in 1..Len(relations)
        PROVE  Good(unlinked(s, relations[j]))
    <3> DEFINE r == relations[j]
               stored == Before(s, r)
               own == s.ids[1]
               f == [id \in stored |-> Unlinked(r, own, id)]
    <3>1. r \in ToSet(m.relations) /\ r.type \in ManyToManyTypes
      BY <2>4 DEF Relations
    <3>2. IsFiniteSet(stored)
      BY <2>1, <3>1 DEF GoodOne, BeforeIsTrue
    <3>3. unlinked(s, relations[j]) = SetToSeq({Unlinked(r, own, id) : id \in stored})
      OBVIOUS
    <3> HIDE DEF r, stored, own, unlinked
    <3>4. DOMAIN f = stored /\ f = [x \in stored |-> f[x]] /\ \A x \in stored : GoodOne(f[x])
      BY <3>1, UnlinkedIsGood
    <3>5. {f[x] : x \in stored} = {Unlinked(r, own, x) : x \in stored}
      OBVIOUS
    <3> HIDE DEF f
    <3>6. Good(SetToSeq({f[x] : x \in stored}))
      BY <3>2, <3>4, GoodSet
    <3> QED
      BY <3>3, <3>5, <3>6
  <2> HIDE DEF unlinked
  <2>6. DOMAIN inner = 1..Len(relations) /\ inner = [j \in 1..Len(relations) |-> inner[j]]
        /\ \A j \in 1..Len(relations) : Good(inner[j])
    BY <2>4, <2>5
  <2> HIDE DEF inner
  <2> QED
    BY <2>3, <2>4, <2>6, GoodParts
<1> HIDE DEF part
<1>4. DOMAIN parts = 1..Len(list) /\ parts = [i \in 1..Len(list) |-> parts[i]] /\ \A i \in 1..Len(list) : Good(parts[i])
  BY <1>1, <1>3
<1> HIDE DEF parts
<1>5. Good(FlattenSeq(parts))
  BY <1>1, <1>4, GoodParts
<1> QED
  BY <1>2, <1>5, ConcatKeeps

(***************************************************************************)
(* SubjectChangedColumnsComputer.                                          *)
(***************************************************************************)
\* A change that a subject of an object may have.
IsOwnChange(memory, s, c) ==
  c.on = "id" => c.subject = 0 /\ c.object = s.object /\ (s.canBeInserted => memory[s.object].id # 0)

LEMMA OtherChanges ==
  ASSUME NEW memory, NEW g, NEW d, NEW s, Shaped(s), Own(memory, g, d, s), NEW changes, NEW C, changes \in Seq(C),
         \A c \in C : IsOwnChange(memory, s, c)
  PROVE  LET t == [s EXCEPT !.changes = changes]
         IN /\ Shaped(t) /\ Own(memory, g, d, t)
            /\ t.object = s.object /\ t.kind = s.kind /\ t.canBeInserted = s.canBeInserted /\ t.changes = changes
<1> DEFINE t == [s EXCEPT !.changes = changes]
<1>1. s.ids \in Seq(ToSet(s.ids)) /\ s = [f \in Fields |-> s[f]]
  BY DEF Shaped
<1>2. /\ t = [f \in Fields |-> t[f]] /\ t.changes = changes
      /\ t.object = s.object /\ t.kind = s.kind /\ t.ids = s.ids /\ t.inserted = s.inserted
      /\ t.canBeInserted = s.canBeInserted /\ t.mustBeRemoved = s.mustBeRemoved
  BY <1>1 DEF Fields
<1> HIDE DEF t
<1>3. changes \in Seq(ToSet(changes)) /\ ToSet(changes) \subseteq C
  BY SeqOfItsOwn
<1>4. Shaped(t)
  BY <1>1, <1>2, <1>3 DEF Shaped
<1>5. /\ s.object \in Operated /\ s.kind = m.kindOf[s.object]
      /\ \A i \in DOMAIN s.ids : s.ids[i] \in Nat \ {0} /\ Free(g, d, s.kind, s.ids[i])
      /\ s.canBeInserted => mode = "save"
      /\ s.mustBeRemoved => mode = "remove"
      /\ s.inserted => s.ids # <<>>
  BY DEF Own
<1>6. (t.canBeInserted => mode = "save") /\ (t.mustBeRemoved => mode = "remove") /\ (t.inserted => t.ids # <<>>)
  BY <1>2, <1>5, Zenon
<1>7. \A c \in ToSet(t.changes) : IsOwnChange(memory, t, c)
  <2>1. \A c \in C : IsOwnChange(memory, t, c)
    BY <1>2 DEF IsOwnChange
  <2> QED
    BY <1>2, <1>3, <2>1
<1>8. Own(memory, g, d, t)
  BY <1>2, <1>5, <1>6, <1>7 DEF Own, IsOwnChange
<1> QED
  BY <1>2, <1>4, <1>8 DEF t

LEMMA OwnChanges ==
  ASSUME NEW memory, NEW g, NEW d, NEW s, Shaped(s), Own(memory, g, d, s)
  PROVE  s.changes \in Seq(ToSet(s.changes)) /\ \A c \in ToSet(s.changes) : IsOwnChange(memory, s, c)
  BY DEF Shaped, Own, IsOwnChange

LEMMA DiffColumnsIsOwn ==
  ASSUME NEW memory, NEW g, NEW d, NEW s, Shaped(s), Own(memory, g, d, s)
  PROVE  LET t == DiffColumns(memory, s)
         IN Shaped(t) /\ Own(memory, g, d, t) /\ t.object = s.object
<1> DEFINE object == memory[s.object]
           places == {j \in DOMAIN s.changes : s.changes[j].on \notin {"id", "value"}}
           rest == Picked(s.changes, places)
           theId == Change("id", "", s.object, 0)
           theValue == Change("value", object.value, "", 0)
           id == IF object.id = 0 \/ Found(s) THEN <<>> ELSE <<theId>>
           value == IF object.value = "" \/ (Found(s) /\ s.before[1].value = object.value) THEN <<>>
                    ELSE <<theValue>>
           C == {c \in ToSet(s.changes) \union {theId, theValue} : IsOwnChange(memory, s, c)}
           changes == rest \o id \o value
<1>1. DiffColumns(memory, s) = [s EXCEPT !.changes = changes]
  BY DEF DiffColumns
<1>2. s.changes \in Seq(ToSet(s.changes)) /\ \A c \in ToSet(s.changes) : IsOwnChange(memory, s, c)
  BY OwnChanges
<1>3. places \in SUBSET DOMAIN s.changes
  OBVIOUS
<1>4. rest \in Seq(C)
  <2>1. ToSet(s.changes) \subseteq C
    BY <1>2
  <2> HIDE DEF places, C
  <2>2. rest \in Seq(ToSet(s.changes))
    BY <1>2, <1>3, PickedIn
  <2> HIDE DEF rest
  <2> QED
    BY <2>1, <2>2, WiderList
<1>5. id \in Seq(C)
  <2>1. CASE object.id = 0 \/ Found(s)
    <3>1. id = <<>>
      BY <2>1
    <3> HIDE DEF id, C
    <3> QED
      BY <3>1, NothingIn
  <2>2. CASE ~(object.id = 0 \/ Found(s))
    <3>1. IsOwnChange(memory, s, theId)
      BY <2>2 DEF IsOwnChange, Change
    <3>2. {theId} \subseteq C
      BY <3>1
    <3>3. id = <<theId>>
      BY <2>2
    <3> HIDE DEF id, theId, C
    <3>4. id \in Seq({theId})
      BY <3>3, OneIn
    <3> QED
      BY <3>2, <3>4, WiderList
  <2> QED
    BY <2>1, <2>2
<1>6. value \in Seq(C)
  <2>1. theValue.on = "value"
    BY DEF Change
  <2>2. {theValue} \subseteq C
    <3> HIDE DEF theValue, theId
    <3> QED
      BY <2>1 DEF IsOwnChange
  <2>3. value = <<>> \/ value = <<theValue>>
    OBVIOUS
  <2> HIDE DEF value, theValue, C
  <2>4. CASE value = <<>>
    BY <2>4, NothingIn
  <2>5. CASE value = <<theValue>>
    <3>1. value \in Seq({theValue})
      BY <2>5, OneIn
    <3> QED
      BY <2>2, <3>1, WiderList
  <2> QED
    BY <2>3, <2>4, <2>5
<1>7. \A c \in C : IsOwnChange(memory, s, c)
  OBVIOUS
<1> HIDE DEF C, rest, id, value
<1>8. changes \in Seq(C)
  BY <1>4, <1>5, <1>6, ConcatIn
<1> HIDE DEF changes
<1> QED
  BY <1>1, <1>7, <1>8, OtherChanges

LEMMA DiffRelationIsOn ==
  ASSUME NEW memory, NEW list, NEW s, NEW r
  PROVE  DiffRelation(memory, list, s, r).on = r.name
<1> DEFINE of == memory[s.object].rel[r.name].of
           inserts == {j \in SubjectsOf(list, of[1]) : MustBeInserted(list[j])}
<1>1. \/ DiffRelation(memory, list, s, r) = ToNull(r.name)
      \/ DiffRelation(memory, list, s, r) = ToSubject(r.name, Min(inserts))
      \/ DiffRelation(memory, list, s, r) = Change(r.name, "", of[1], 0)
  BY DEF DiffRelation
<1> HIDE DEF of, inserts
<1>2. PICK value, object, subject : DiffRelation(memory, list, s, r) = Change(r.name, value, object, subject)
  BY <1>1, Zenon DEF ToNull, ToSubject
<1>3. Change(r.name, value, object, subject).on = r.name
  BY DEF Change
<1> QED
  BY <1>2, <1>3

LEMMA DiffRelationsIsOwn ==
  ASSUME SchemaIsTyped, NEW memory, NEW g, NEW d, NEW list, NEW s, Shaped(s), Own(memory, g, d, s)
  PROVE  LET t == DiffRelations(m, memory, list, s)
         IN Shaped(t) /\ Own(memory, g, d, t) /\ t.object = s.object
<1> DEFINE there(r) == {j \in DOMAIN s.changes : s.changes[j].on = r.name}
           order == RelationsOf(m, s.kind, OwningTypes)
           differing == {i \in DOMAIN order : Differs(memory, s, order[i])}
           replaced(j) == {i \in differing : there(order[i]) # {} /\ j = Min(there(order[i]))}
           diff(i) == DiffRelation(memory, list, s, order[i])
           added == {i \in differing : there(order[i]) = {}}
           numbers == [i \in DOMAIN order |-> i]
           new == Picked(numbers, added)
           old == [j \in DOMAIN s.changes |-> IF replaced(j) = {} THEN s.changes[j] ELSE diff(Min(replaced(j)))]
           rest == [n \in DOMAIN new |-> diff(new[n])]
           C == {c \in ToSet(s.changes) \union {diff(i) : i \in DOMAIN order} : IsOwnChange(memory, s, c)}
<1>1. DiffRelations(m, memory, list, s) = [s EXCEPT !.changes = old \o rest]
  BY DEF DiffRelations
<1>2. s.changes \in Seq(ToSet(s.changes)) /\ \A c \in ToSet(s.changes) : IsOwnChange(memory, s, c)
  BY OwnChanges
<1>3. order \in Seq(Relations(m, s.kind, OwningTypes))
  BY RelationsOfIn
<1>4. /\ Len(order) \in Nat /\ DOMAIN order = 1..Len(order)
      /\ \A i \in 1..Len(order) : order[i] \in Relations(m, s.kind, OwningTypes)
  <2> HIDE DEF order
  <2> QED
    BY <1>3, ListFacts
<1>5. ASSUME NEW i \in DOMAIN order
      PROVE  diff(i) \in C
  <2>1. diff(i).on = order[i].name
    BY DiffRelationIsOn
  <2>2. order[i] \in ToSet(m.relations)
    BY <1>4 DEF Relations
  <2>3. order[i].name # "id"
    BY <2>2, SchemaFacts
  <2>4. diff(i) \in {diff(k) : k \in DOMAIN order}
    OBVIOUS
  <2> HIDE DEF diff, order
  <2>5. IsOwnChange(memory, s, diff(i))
    BY <2>1, <2>3 DEF IsOwnChange
  <2> QED
    BY <2>4, <2>5
<1>6. ToSet(s.changes) \subseteq C
  BY <1>2
<1>7. old \in Seq(C)
  <2>1. /\ Len(s.changes) \in Nat /\ DOMAIN s.changes = 1..Len(s.changes)
        /\ \A j \in 1..Len(s.changes) : s.changes[j] \in ToSet(s.changes)
    BY <1>2, ListFacts
  <2>2. ASSUME NEW j \in 1..Len(s.changes)
        PROVE  (IF replaced(j) = {} THEN s.changes[j] ELSE diff(Min(replaced(j)))) \in C
    <3>1. CASE replaced(j) = {}
      BY <1>6, <2>1, <3>1
    <3>2. CASE replaced(j) # {}
      <4>1. replaced(j) \in SUBSET DOMAIN order /\ replaced(j) \in SUBSET Nat
        BY <1>4
      <4>2. Min(replaced(j)) \in DOMAIN order
        <5> HIDE DEF replaced
        <5> QED
          BY <3>2, <4>1, MinIn
      <4> HIDE DEF replaced, diff, C
      <4> QED
        BY <1>5, <3>2, <4>2
    <3> QED
      BY <3>1, <3>2
  <2>3. DOMAIN old = 1..Len(s.changes) /\ old = [j \in 1..Len(s.changes) |-> old[j]]
        /\ \A j \in 1..Len(s.changes) : old[j] \in C
    <3> HIDE DEF C, replaced, diff
    <3> QED
      BY <2>1, <2>2
  <2> HIDE DEF old, C
  <2> QED
    BY <2>1, <2>3, IndexedIn
<1>8. rest \in Seq(C)
  <2>1. numbers \in Seq(DOMAIN order) /\ DOMAIN numbers = DOMAIN order
    <3> HIDE DEF order
    <3> QED
      BY <1>4
  <2>2. added \in SUBSET DOMAIN numbers
    BY <2>1
  <2> HIDE DEF numbers, added, order, C, diff
  <2>3. new \in Seq(DOMAIN order)
    BY <2>1, <2>2, PickedIn
  <2> HIDE DEF new
  <2>4. Len(new) \in Nat /\ DOMAIN new = 1..Len(new) /\ \A n \in 1..Len(new) : new[n] \in DOMAIN order
    BY <2>3, ListFacts
  <2>5. DOMAIN rest = 1..Len(new) /\ rest = [n \in 1..Len(new) |-> rest[n]] /\ \A n \in 1..Len(new) : rest[n] \in C
    BY <1>5, <2>4
  <2> HIDE DEF rest
  <2> QED
    BY <2>4, <2>5, IndexedIn
<1>9. \A c \in C : IsOwnChange(memory, s, c)
  OBVIOUS
<1> HIDE DEF C, old, rest
<1>10. old \o rest \in Seq(C)
  BY <1>7, <1>8, ConcatIn
<1> DEFINE changes == old \o rest
<1>11. changes \in Seq(C) /\ DiffRelations(m, memory, list, s) = [s EXCEPT !.changes = changes]
  BY <1>1, <1>10
<1> HIDE DEF changes
<1> QED
  BY <1>9, <1>11, OtherChanges

LEMMA ComputedIsLawful ==
  ASSUME SchemaIsTyped, NEW memory, NEW g, NEW d, NEW list, AllLawful(memory, g, d, list), ObjectsAreTyped
  PROVE  /\ AllLawful(memory, g, d, ComputeChanges(m, memory, list))
         /\ DOMAIN ComputeChanges(m, memory, list) = DOMAIN list
<1> DEFINE columns(s) == DiffColumns(memory, s)
           changed(s) == IF s.object = "" THEN s ELSE DiffRelations(m, memory, list, columns(s))
           after == [i \in DOMAIN list |-> changed(list[i])]
           S == {s \in {changed(list[i]) : i \in DOMAIN list} : Lawful(memory, g, d, s)}
<1>1. list \in Seq(ToSet(list)) /\ \A s \in ToSet(list) : Lawful(memory, g, d, s)
  BY DEF AllLawful
<1>2. Len(list) \in Nat /\ DOMAIN list = 1..Len(list) /\ \A i \in 1..Len(list) : list[i] \in ToSet(list)
  BY <1>1, ListFacts
<1>3. ASSUME NEW s \in ToSet(list)
      PROVE  Lawful(memory, g, d, changed(s))
  <2>1. Lawful(memory, g, d, s)
    BY <1>1
  <2>2. CASE s.object = ""
    BY <2>1, <2>2
  <2>3. CASE s.object # ""
    <3>1. Shaped(s) /\ Own(memory, g, d, s)
      BY <2>1, <2>3 DEF Lawful, Link, Bare
    <3>2. Shaped(columns(s)) /\ Own(memory, g, d, columns(s))
      BY <3>1, DiffColumnsIsOwn
    <3>3. changed(s) = DiffRelations(m, memory, list, columns(s))
      BY <2>3
    <3> HIDE DEF columns, changed
    <3>4. Shaped(changed(s)) /\ Own(memory, g, d, changed(s))
      BY <3>2, <3>3, DiffRelationsIsOwn
    <3> QED
      BY <3>4 DEF Lawful
  <2> QED
    BY <2>2, <2>3
<1>4. ComputeChanges(m, memory, list) = after \o <<>>
  BY DEF ComputeChanges, Each
<1> HIDE DEF changed
<1>5. \A i \in 1..Len(list) : after[i] \in S
  BY <1>2, <1>3
<1>6. DOMAIN after = 1..Len(list) /\ after = [i \in 1..Len(list) |-> after[i]]
  BY <1>2
<1>7. \A s \in S : Lawful(memory, g, d, s)
  OBVIOUS
<1> HIDE DEF after, S
<1>8. after \in Seq(S)
  BY <1>2, <1>5, <1>6, IndexedIn
<1>9. ComputeChanges(m, memory, list) = after
  BY <1>4, <1>8, EmptyConcat
<1>10. after \in Seq(ToSet(after)) /\ ToSet(after) \subseteq S
  BY <1>8, SeqOfItsOwn
<1> QED
  BY <1>2, <1>6, <1>7, <1>9, <1>10 DEF AllLawful

(***************************************************************************)
(* The executor of some of the roots.                                      *)
(***************************************************************************)
LEMMA BuildExecutorIsLawful ==
  ASSUME SchemaIsTyped, ObjectsAreTyped, RowsAreTyped(db), mode \in {"save", "remove", "soft-remove", "recover"},
         NEW part \in Seq(Operated)
  PROVE  AllLawful(graph, graph, db, BuildExecutor(m, graph, db, mode, part))
<1> DEFINE loaded == Load(m, graph, db, mode, BuildCascades(m, graph, mode, part))
           one == BuildOneToMany(m, graph, loaded)
           two == BuildOneToOneInverse(m, graph, one)
           related == IF mode = "remove" THEN UnlinkAll(m, loaded) ELSE BuildManyToMany(m, graph, two)
<1>1. Good(loaded)
  BY BuildCascadesIsFresh, LoadIsGood
<1>2. BuildExecutor(m, graph, db, mode, part) = ComputeChanges(m, graph, related)
  BY DEF BuildExecutor
<1> HIDE DEF loaded
<1>3. Good(one)
  BY <1>1, BuildOneToManyIsGood
<1> HIDE DEF one
<1>4. Good(two)
  BY <1>3, BuildOneToOneInverseIsGood
<1> HIDE DEF two
<1>5. Good(related)
  BY <1>1, <1>4, UnlinkAllIsGood, BuildManyToManyIsGood
<1> HIDE DEF related
<1>6. AllLawful(graph, graph, db, related)
  BY <1>5 DEF Good, GoodOne, AllLawful
<1> QED
  BY <1>2, <1>6, ComputedIsLawful

(***************************************************************************)
(* The inductive invariant.                                                *)
(***************************************************************************)
SameObjects ==
  /\ DOMAIN start.graph = DOMAIN graph
  /\ \A o \in DOMAIN graph : start.graph[o].rel = graph[o].rel
\* An object that is operated on has an identifier that is its to change.
IdsAreFree ==
  \A o \in DOMAIN graph :
    IF o \in Operated THEN Free(start.graph, start.db, m.kindOf[o], graph[o].id)
    ELSE graph[o].id = start.graph[o].id
SubjectsAreLawful ==
  /\ executors \in Seq(ToSet(executors))
  /\ \A p \in DOMAIN executors : AllLawful(graph, start.graph, start.db, executors[p])
  /\ status = "running" => at \in DOMAIN executors
GroupsAreReady ==
  status = "running" =>
    /\ todo \in Seq(ToSet(todo))
    /\ \A g \in ToSet(todo) : Group(Subjects, phase, g)
    /\ phase \in {"before", "insert"} => todo = <<>>
\* The rows that are not to be changed are as they were, but for what the relations ask.
Kept ==
  \A row \in start.db.rows :
    \/ Free(start.graph, start.db, row.kind, row.id)
    \/ /\ \A now \in db.rows : now.kind = row.kind /\ now.id = row.id =>
            /\ now.value = row.value
            /\ \A r \in OwningRelations(row.kind) :
                 now.refs[r.name] # row.refs[r.name] => Held(start.graph, start.db, row.kind, row.id, r.name)
       /\ Stored(db, row.kind, row.id) \/ Orphaned(start.graph, start.db, row.kind, row.id)
StartIsTyped == RowsAreTyped(start.db) /\ saved = start.db

IInv == Typed /\ StartIsTyped /\ SameObjects /\ IdsAreFree /\ SubjectsAreLawful /\ GroupsAreReady /\ Kept

(***************************************************************************)
(* What does not change.                                                   *)
(***************************************************************************)
LEMMA SameOperated ==
  ASSUME m' = m, mode' = mode, roots' = roots, DOMAIN graph' = DOMAIN graph,
         \A o \in DOMAIN graph : graph'[o].rel = graph[o].rel
  PROVE  Operated' = Operated
<1>1. ASSUME NEW objects \in SUBSET DOMAIN graph
      PROVE  Closed(objects)' <=> Closed(objects)
  BY DEF Closed, Relations
<1> QED
  BY <1>1 DEF Operated

LEMMA FreeStays ==
  ASSUME m' = m, Operated' = Operated, NEW g, NEW d, NEW kind, NEW id
  PROVE  Free(g, d, kind, id)' <=> Free(g, d, kind, id)
  BY DEF Free

LEMMA OwningStays ==
  ASSUME m' = m, NEW kind
  PROVE  OwningRelations(kind)' = OwningRelations(kind)
  BY DEF OwningRelations

LEMMA HeldStays ==
  ASSUME m' = m, Operated' = Operated, NEW g, NEW d, NEW kind, NEW id, NEW name
  PROVE  Held(g, d, kind, id, name)' <=> Held(g, d, kind, id, name)
<1>1. ASSUME NEW o, NEW x
      PROVE  HeldBy(g, d, kind, id, name, o, x)' <=> HeldBy(g, d, kind, id, name, o, x)
  BY DEF HeldBy
<1> QED
  BY <1>1 DEF Held

LEMMA OrphanedStays ==
  ASSUME m' = m, Operated' = Operated, NEW g, NEW d, NEW kind, NEW id
  PROVE  Orphaned(g, d, kind, id)' <=> Orphaned(g, d, kind, id)
  BY HeldStays, OwningStays DEF Orphaned

LEMMA LawfulStays ==
  ASSUME m' = m, mode' = mode, Operated' = Operated, NEW memory, NEW g, NEW d, NEW s
  PROVE  Lawful(memory, g, d, s)' <=> Lawful(memory, g, d, s)
<1>1. Own(memory, g, d, s)' <=> Own(memory, g, d, s)
  BY FreeStays DEF Own
<1>2. Tables' = Tables
  BY DEF Tables
<1>3. Link(s)' <=> Link(s)
  BY <1>2 DEF Link
<1>4. Bare(g, d, s)' <=> Bare(g, d, s)
  BY <1>2, FreeStays, HeldStays, OrphanedStays DEF Bare
<1> QED
  BY <1>1, <1>3, <1>4 DEF Lawful

LEMMA AllLawfulStays ==
  ASSUME m' = m, mode' = mode, Operated' = Operated, NEW memory, NEW g, NEW d, NEW list
  PROVE  AllLawful(memory, g, d, list)' <=> AllLawful(memory, g, d, list)
  BY LawfulStays DEF AllLawful

\* The objects stay too.
Static == UNCHANGED <<m, graph, mode, roots, chunk, start>> /\ saved' = saved

LEMMA StaticKeeps ==
  ASSUME IInv, Static
  PROVE  /\ Operated' = Operated /\ SchemaIsTyped' /\ ObjectsAreTyped' /\ StartIsTyped' /\ SameObjects' /\ IdsAreFree'
         /\ (mode \in {"save", "remove", "soft-remove", "recover"} /\ roots \in Seq(DOMAIN graph) /\ chunk \in Nat)'
         /\ \A d : RowsAreTyped(d)' <=> RowsAreTyped(d)
<1>1. m' = m /\ graph' = graph /\ mode' = mode /\ roots' = roots /\ chunk' = chunk /\ start' = start /\ saved' = saved
  BY DEF Static
<1>2. Operated' = Operated
  BY <1>1, SameOperated
<1>3. SchemaIsTyped'
  BY <1>1, SMTT(30) DEF IInv, Typed, SchemaIsTyped
<1>4. Tables' = Tables
  BY <1>1 DEF Tables
<1>5. ObjectsAreTyped'
  BY <1>1, <1>4 DEF IInv, Typed, ObjectsAreTyped
<1>6. ASSUME NEW d PROVE RowsAreTyped(d)' <=> RowsAreTyped(d)
  BY <1>1, <1>4, OwningStays DEF RowsAreTyped
<1>7. StartIsTyped'
  BY <1>1, <1>6 DEF IInv, StartIsTyped
<1>8. SameObjects'
  BY <1>1 DEF IInv, SameObjects
<1>9. IdsAreFree'
  BY <1>1, <1>2, FreeStays DEF IInv, IdsAreFree
<1> QED
  BY <1>1, <1>2, <1>3, <1>5, <1>6, <1>7, <1>8, <1>9 DEF IInv, Typed

\* What a statement may do to the rows.
Touches(d0, d) ==
  /\ \A now \in d.rows :
       \/ Free(start.graph, start.db, now.kind, now.id)
       \/ \E old \in d0.rows :
            /\ old.kind = now.kind /\ old.id = now.id /\ now.value = old.value
            /\ \A r \in OwningRelations(old.kind) :
                 now.refs[r.name] # old.refs[r.name] => Held(start.graph, start.db, old.kind, old.id, r.name)
  /\ \A old \in d0.rows :
       \/ Free(start.graph, start.db, old.kind, old.id)
       \/ Stored(d, old.kind, old.id)
       \/ Orphaned(start.graph, start.db, old.kind, old.id)

LEMMA TouchesKeeps ==
  ASSUME Kept, Static, Operated' = Operated, NEW d, db' = d, Touches(db, d)
  PROVE  Kept'
<1>1. m' = m /\ start' = start
  BY DEF Static
<1> DEFINE F(row) == Free(start.graph, start.db, row.kind, row.id)
           H(row, r) == Held(start.graph, start.db, row.kind, row.id, r.name)
           R(row) == Orphaned(start.graph, start.db, row.kind, row.id)
<1>2. ASSUME NEW row \in start.db.rows, ~F(row)
      PROVE  /\ \A now \in d.rows : now.kind = row.kind /\ now.id = row.id =>
                  now.value = row.value
                  /\ \A r \in OwningRelations(row.kind) : now.refs[r.name] # row.refs[r.name] => H(row, r)
             /\ Stored(d, row.kind, row.id) \/ R(row)
  <2>1. /\ \A now \in db.rows : now.kind = row.kind /\ now.id = row.id =>
             now.value = row.value
             /\ \A r \in OwningRelations(row.kind) : now.refs[r.name] # row.refs[r.name] => H(row, r)
        /\ Stored(db, row.kind, row.id) \/ R(row)
    BY <1>2 DEF Kept
  <2>2. ASSUME NEW now \in d.rows, now.kind = row.kind, now.id = row.id
        PROVE  now.value = row.value
               /\ \A r \in OwningRelations(row.kind) : now.refs[r.name] # row.refs[r.name] => H(row, r)
    <3>1. PICK old \in db.rows :
            /\ old.kind = now.kind /\ old.id = now.id /\ now.value = old.value
            /\ \A r \in OwningRelations(old.kind) : now.refs[r.name] # old.refs[r.name] => H(old, r)
      BY <1>2, <2>2 DEF Touches
    <3>2. old.value = row.value
          /\ \A r \in OwningRelations(row.kind) : old.refs[r.name] # row.refs[r.name] => H(row, r)
      BY <2>1, <2>2, <3>1
    <3> QED
      BY <2>2, <3>1, <3>2
  <2>3. Stored(d, row.kind, row.id) \/ R(row)
    <3>1. CASE R(row)
      BY <3>1
    <3>2. CASE Stored(db, row.kind, row.id)
      <4>1. PICK old \in db.rows : old.kind = row.kind /\ old.id = row.id
        BY <3>2 DEF Stored
      <4>2. Free(start.graph, start.db, old.kind, old.id) \/ Stored(d, old.kind, old.id) \/ R(old)
        BY DEF Touches
      <4> QED
        BY <1>2, <4>1, <4>2
    <3> QED
      BY <2>1, <3>1, <3>2
  <2> QED
    BY <2>2, <2>3
<1>3. ASSUME NEW row \in start.db.rows, NEW r
      PROVE  (Free(start.graph, start.db, row.kind, row.id)' <=> F(row))
             /\ (Held(start.graph, start.db, row.kind, row.id, r.name)' <=> H(row, r))
             /\ (Orphaned(start.graph, start.db, row.kind, row.id)' <=> R(row))
             /\ OwningRelations(row.kind)' = OwningRelations(row.kind)
  BY <1>1, FreeStays, HeldStays, OrphanedStays, OwningStays
<1> HIDE DEF F, H, R
<1>4. ASSUME NEW row \in start.db.rows
      PROVE  \/ Free(start.graph, start.db, row.kind, row.id)'
             \/ /\ \A now \in db'.rows : now.kind = row.kind /\ now.id = row.id =>
                     /\ now.value = row.value
                     /\ \A r \in OwningRelations(row.kind)' :
                          now.refs[r.name] # row.refs[r.name] => Held(start.graph, start.db, row.kind, row.id, r.name)'
                /\ Stored(d, row.kind, row.id) \/ Orphaned(start.graph, start.db, row.kind, row.id)'
  <2>1. CASE F(row)
    BY <1>3, <2>1
  <2>2. CASE ~F(row)
    BY <1>2, <1>3, <2>2
  <2> QED
    BY <2>1, <2>2
<1>5. \A kind, id : Stored(db, kind, id)' <=> Stored(d, kind, id)
  BY DEF Stored
<1> QED
  BY <1>1, <1>4, <1>5 DEF Kept

LEMMA SameRowsKept ==
  ASSUME Kept, Static, Operated' = Operated, db' = db
  PROVE  Kept'
<1>1. Touches(db, db)
  BY DEF Touches, Stored
<1> QED
  BY <1>1, TouchesKeeps

LEMMA RejectKeeps ==
  ASSUME IInv, Reject
  PROVE  IInv'
<1>1. Static
  BY DEF Reject, Static
<1>2. /\ Operated' = Operated /\ SchemaIsTyped' /\ ObjectsAreTyped' /\ StartIsTyped' /\ SameObjects' /\ IdsAreFree'
      /\ (mode \in {"save", "remove", "soft-remove", "recover"} /\ roots \in Seq(DOMAIN graph) /\ chunk \in Nat)'
      /\ \A d : RowsAreTyped(d)' <=> RowsAreTyped(d)
  BY <1>1, StaticKeeps
<1>3. /\ status' = "rejected" /\ db' = start.db /\ executors' = executors /\ at' = at /\ phase' = phase /\ todo' = <<>>
      /\ m' = m /\ graph' = graph /\ mode' = mode /\ start' = start
  BY DEF Reject, IInv, StartIsTyped
<1>4. RowsAreTyped(start.db)
  BY DEF IInv, StartIsTyped
<1>5. RowsAreTyped(db)'
  <2>1. RowsAreTyped(start.db)'
    BY <1>2 DEF StartIsTyped
  <2> QED
    BY <1>3, <2>1 DEF RowsAreTyped
<1>6. SubjectsAreLawful'
  BY <1>2, <1>3, AllLawfulStays DEF IInv, SubjectsAreLawful
<1>7. GroupsAreReady'
  BY <1>3 DEF GroupsAreReady
<1>8. Kept'
  <2>1. ASSUME NEW row \in start.db.rows
        PROVE  /\ \A now \in start.db.rows : now.kind = row.kind /\ now.id = row.id => now = row
               /\ Stored(start.db, row.kind, row.id)
    BY <1>4 DEF RowsAreTyped, Stored
  <2>2. \A kind, id : Stored(db, kind, id)' <=> Stored(start.db, kind, id)
    BY <1>3 DEF Stored
  <2> QED
    BY <1>3, <2>1, <2>2 DEF Kept
<1> QED
  BY <1>2, <1>5, <1>6, <1>7, <1>8 DEF IInv, Typed

\* The parts of a list of roots.
LEMMA ChunksIn ==
  ASSUME NEW S, NEW list \in Seq(S), NEW size \in Nat
  PROVE  /\ \A p \in DOMAIN Chunks(list, size) : Chunks(list, size)[p] \in Seq(S)
         /\ \E n \in Nat : DOMAIN Chunks(list, size) = 1..n
<1>1. Len(list) \in Nat
  OBVIOUS
<1>2. CASE size = 0
  <2>1. Chunks(list, size) = <<list>>
    BY <1>2 DEF Chunks
  <2> QED
    BY <2>1
<1>3. CASE size # 0
  <2> DEFINE n == (Len(list) + size - 1) \div size
             high(i) == Min({i * size, Len(list)})
  <2>1. n \in Nat
    <3>1. Len(list) + size - 1 \in Nat /\ size \in Nat \ {0}
      BY <1>1, <1>3
    <3> QED
      BY <3>1
  <2>2. Chunks(list, size) = [i \in 1..n |-> SubSeq(list, (i - 1) * size + 1, high(i))]
    BY <1>3 DEF Chunks
  <2>3. ASSUME NEW i \in 1..n
        PROVE  SubSeq(list, (i - 1) * size + 1, high(i)) \in Seq(S)
    <3> DEFINE low == (i - 1) * size + 1
               ends == {i * size, Len(list)}
    <3>0. i \in Nat /\ i - 1 \in Nat
      BY <2>1
    <3>1. low \in Nat /\ low >= 1 /\ i * size \in Nat
      <4>1. \A a, b \in Nat : a * b \in Nat
        OBVIOUS
      <4>2. (i - 1) * size \in Nat /\ i * size \in Nat
        BY <3>0, <4>1
      <4> DEFINE x == (i - 1) * size
                 y == i * size
      <4>3. x \in Nat /\ y \in Nat
        BY <4>2
      <4> HIDE DEF x, y
      <4>4. x + 1 \in Nat /\ x + 1 >= 1
        BY <4>3
      <4> QED
        BY <4>3, <4>4 DEF x, y
    <3>2. ends \in SUBSET Nat /\ ends # {}
      BY <1>1, <3>1
    <3> HIDE DEF low
    <3>3. high(i) \in ends /\ \A x \in ends : high(i) <= x
      <4>1. \E e \in ends : \A x \in ends : e <= x
        BY <3>2, LeastExists
      <4> HIDE DEF ends
      <4>2. Min(ends) \in ends /\ \A x \in ends : Min(ends) <= x
        BY <4>1 DEF Min
      <4> QED
        BY <4>2 DEF ends
    <3>4. high(i) \in Nat /\ high(i) <= Len(list)
      BY <3>2, <3>3
    <3> HIDE DEF high
    <3>5. SubSeq(list, low, high(i)) \in Seq(S)
      BY <1>1, <3>1, <3>4
    <3> QED
      BY <3>5 DEF low
  <2> HIDE DEF n, high
  <2> QED
    BY <2>1, <2>2, <2>3
<1> QED
  BY <1>2, <1>3

LEMMA CallKeeps ==
  ASSUME IInv, Call
  PROVE  IInv'
<1> DEFINE Op(part) == BuildExecutor(m, graph, db, mode, part)
           built == Each(Chunks(roots, chunk), Op)
           busy == {p \in DOMAIN built : \E i \in DOMAIN built[p] : Executable(built[p][i])}
<1>1. /\ executors' = Picked(built, busy)
      /\ status' = IF busy = {} THEN "resolved" ELSE "running"
      /\ saved' = db /\ start' = [graph |-> graph, db |-> db]
      /\ at' = 1 /\ phase' = "before" /\ todo' = <<>>
      /\ m' = m /\ graph' = graph /\ db' = db /\ mode' = mode /\ roots' = roots /\ chunk' = chunk
  BY DEF Call
<1>2. Operated' = Operated
  BY <1>1, SameOperated
<1>3. SchemaIsTyped /\ ObjectsAreTyped /\ RowsAreTyped(db) /\ mode \in {"save", "remove", "soft-remove", "recover"}
      /\ roots \in Seq(DOMAIN graph) /\ chunk \in Nat
  BY DEF IInv, Typed
<1>4. start'.graph = graph /\ start'.db = db
  BY <1>1
<1>5. Typed' /\ StartIsTyped'
  <2>1. Tables' = Tables
    BY <1>1 DEF Tables
  <2>2. SchemaIsTyped'
    BY <1>1, <1>3, SMTT(30) DEF SchemaIsTyped
  <2>3. ObjectsAreTyped'
    BY <1>1, <1>3, <2>1 DEF ObjectsAreTyped
  <2>4. RowsAreTyped(db)'
    BY <1>1, <1>3, <2>1, OwningStays DEF RowsAreTyped
  <2>5. RowsAreTyped(start.db)'
    BY <1>1, <1>4, <2>4 DEF RowsAreTyped
  <2> QED
    BY <1>1, <1>3, <1>4, <2>2, <2>3, <2>4, <2>5 DEF Typed, StartIsTyped
<1>6. SameObjects'
  BY <1>1, <1>4 DEF SameObjects
<1>7. IdsAreFree'
  <2>1. \A o \in Operated : Free(graph, db, m.kindOf[o], graph[o].id)
    BY DEF Free
  <2>2. \A o \in Operated : Free(start.graph, start.db, m.kindOf[o], graph[o].id)'
    BY <1>1, <1>2, <1>4, <2>1, FreeStays
  <2> QED
    BY <1>1, <1>2, <1>4, <2>2, SMTT(30) DEF IdsAreFree
<1>8. SubjectsAreLawful'
  <2> DEFINE parts == Chunks(roots, chunk)
             each == [p \in DOMAIN parts |-> Op(parts[p])]
             L == {list \in {Op(parts[p]) : p \in DOMAIN parts} : AllLawful(graph, graph, db, list)}
  <2>1. roots \in Seq(Operated)
    BY <1>3, RootsAreOperated, SeqOfItsOwn, WiderList
  <2>2. /\ \A p \in DOMAIN parts : parts[p] \in Seq(Operated)
        /\ \E n \in Nat : DOMAIN parts = 1..n
    BY <1>3, <2>1, ChunksIn
  <2>3. built = each \o <<>>
    BY DEF Each
  <2> HIDE DEF parts
  <2>4. \A p \in DOMAIN parts : Op(parts[p]) \in L
    BY <1>3, <2>2, BuildExecutorIsLawful
  <2>5. \A list \in L : AllLawful(graph, graph, db, list)
    OBVIOUS
  <2> HIDE DEF Op, L
  <2>6. each \in Seq(L)
    <3>1. PICK n \in Nat : DOMAIN parts = 1..n
      BY <2>2
    <3>2. DOMAIN each = 1..n /\ each = [p \in 1..n |-> each[p]] /\ \A p \in 1..n : each[p] \in L
      BY <2>4, <3>1
    <3> HIDE DEF each
    <3> QED
      BY <3>2, IndexedIn
  <2>7. built \in Seq(L)
    <3> HIDE DEF each, built
    <3> QED
      BY <2>3, <2>6, EmptyConcat
  <2>8. busy \in SUBSET DOMAIN built
    OBVIOUS
  <2> HIDE DEF built, each, busy
  <2>9. executors' \in Seq(L)
    BY <1>1, <2>7, <2>8, PickedIn
  <2>10. executors' \in Seq(ToSet(executors')) /\ ToSet(executors') \subseteq L
    BY <2>9, SeqOfItsOwn
  <2>11. \A p \in DOMAIN executors' : executors'[p] \in L
    BY <2>9, ListFacts
  <2>12. \A p \in DOMAIN executors' : AllLawful(graph, start.graph, start.db, executors[p])'
    <3>1. ASSUME NEW p \in DOMAIN executors'
          PROVE  AllLawful(graph, start.graph, start.db, executors[p])'
      <4>1. AllLawful(graph, graph, db, executors'[p])
        BY <2>5, <2>11
      <4> QED
        BY <1>1, <1>2, <1>4, <4>1, AllLawfulStays
    <3> QED
      BY <3>1
  <2>13. status' = "running" => at' \in DOMAIN executors'
    <3> SUFFICES ASSUME status' = "running" PROVE 1 \in DOMAIN executors'
      BY <1>1
    <3>1. busy # {}
      BY <1>1
    <3>2. busy \in SUBSET (1..Len(built)) /\ Len(built) \in Nat
      BY <2>7, <2>8, ListFacts
    <3>3. IsFiniteSet(busy) /\ Cardinality(busy) \in Nat
      BY <3>2, PlacesFinite
    <3>4. Cardinality(busy) # 0
      BY <3>1, <3>3, FS_EmptySet
    <3>5. Len(executors') = Cardinality(busy)
      BY <1>1, <3>2, PickedFrom
    <3>6. DOMAIN executors' = 1..Len(executors')
      BY <2>9, ListFacts
    <3> QED
      BY <3>3, <3>4, <3>5, <3>6
  <2>14. executors' \in Seq(ToSet(executors))'
    <3>1. ToSet(executors)' = ToSet(executors')
      BY DEF ToSet
    <3> QED
      BY <2>10, <3>1
  <2> QED
    BY <2>12, <2>13, <2>14 DEF SubjectsAreLawful
<1>9. GroupsAreReady'
  <2>1. todo' = <<>>
    BY <1>1
  <2>2. ToSet(todo)' = {} /\ todo' \in Seq(ToSet(todo)')
    BY <2>1, NothingIn DEF ToSet
  <2> QED
    BY <2>1, <2>2 DEF GroupsAreReady
<1>10. Kept'
  <2>1. ASSUME NEW row \in db.rows
        PROVE  /\ \A now \in db.rows : now.kind = row.kind /\ now.id = row.id => now = row
               /\ Stored(db, row.kind, row.id)
    BY <1>3 DEF RowsAreTyped, Stored
  <2>2. \A kind, id : Stored(db, kind, id)' <=> Stored(db, kind, id)
    BY <1>1 DEF Stored
  <2> QED
    BY <1>1, <1>4, <2>1, <2>2 DEF Kept
<1> QED
  BY <1>5, <1>6, <1>7, <1>8, <1>9, <1>10 DEF IInv

LEMMA InitHolds ==
  ASSUME Init
  PROVE  IInv
<1>1. /\ SchemaIsTyped /\ ObjectsAreTyped /\ RowsAreTyped(db) /\ mode \in {"save", "remove", "soft-remove", "recover"}
      /\ roots \in Seq(DOMAIN graph) /\ chunk \in Nat
      /\ saved = db /\ start.graph = graph /\ start.db = db /\ executors = <<>> /\ at = 1 /\ phase = "" /\ todo = <<>>
      /\ status = "idle"
  BY DEF Init, Consistent, Idle
<1>2. Typed /\ StartIsTyped /\ SameObjects
  BY <1>1 DEF Typed, StartIsTyped, SameObjects
<1>3. IdsAreFree
  BY <1>1 DEF IdsAreFree, Free
<1>4. SubjectsAreLawful
  BY <1>1, NothingIn DEF SubjectsAreLawful
<1>5. GroupsAreReady
  BY <1>1 DEF GroupsAreReady
<1>6. Kept
  <2>1. ASSUME NEW row \in db.rows
        PROVE  /\ \A now \in db.rows : now.kind = row.kind /\ now.id = row.id => now = row
               /\ Stored(db, row.kind, row.id)
    BY <1>1 DEF RowsAreTyped, Stored
  <2> QED
    BY <1>1, <2>1 DEF Kept
<1> QED
  BY <1>2, <1>3, <1>4, <1>5, <1>6 DEF IInv

LEMMA WithKeeps ==
  ASSUME executors \in Seq(ToSet(executors)), at \in DOMAIN executors, NEW memory, NEW g, NEW d, NEW list,
         \A p \in DOMAIN executors : AllLawful(memory, g, d, executors[p]), AllLawful(memory, g, d, list)
  PROVE  /\ With(list) \in Seq(ToSet(With(list))) /\ DOMAIN With(list) = DOMAIN executors
         /\ \A p \in DOMAIN With(list) : AllLawful(memory, g, d, With(list)[p])
         /\ With(list)[at] = list
<1> DEFINE S == ToSet(executors) \union {list}
<1>1. With(list) = [executors EXCEPT ![at] = list]
  BY DEF With
<1>2. executors \in Seq(S) /\ list \in S
  <2>1. ToSet(executors) \subseteq S /\ list \in S
    OBVIOUS
  <2> HIDE DEF S
  <2> QED
    BY <2>1, WiderList
<1> HIDE DEF S
<1>3. With(list) \in Seq(S)
  BY <1>1, <1>2
<1> QED
  BY <1>1, <1>3, SeqOfItsOwn

\* A subject stays lawful when the objects do not lose the identifiers they have.
LEMMA OtherMemory ==
  ASSUME NEW a, NEW b, mode = "save" => \A o \in Operated : a[o].id # 0 => b[o].id # 0,
         NEW g, NEW d, NEW s, Lawful(a, g, d, s)
  PROVE  Lawful(b, g, d, s)
<1>1. Own(a, g, d, s) => Own(b, g, d, s)
  <2> SUFFICES ASSUME Own(a, g, d, s) PROVE Own(b, g, d, s)
    OBVIOUS
  <2>1. /\ s.object \in Operated /\ s.kind = m.kindOf[s.object]
        /\ \A i \in DOMAIN s.ids : s.ids[i] \in Nat \ {0} /\ Free(g, d, s.kind, s.ids[i])
        /\ s.canBeInserted => mode = "save"
        /\ s.mustBeRemoved => mode = "remove"
        /\ s.inserted => s.ids # <<>>
    BY DEF Own
  <2>2. \A c \in ToSet(s.changes) : c.on = "id" =>
          c.subject = 0 /\ c.object = s.object /\ (s.canBeInserted => a[s.object].id # 0)
    BY DEF Own
  <2>3. s.canBeInserted => (a[s.object].id # 0 => b[s.object].id # 0)
    BY <2>1
  <2>4. \A c \in ToSet(s.changes) : c.on = "id" =>
          c.subject = 0 /\ c.object = s.object /\ (s.canBeInserted => b[s.object].id # 0)
    BY <2>2, <2>3
  <2> QED
    BY <2>1, <2>4 DEF Own
<1> QED
  BY <1>1 DEF Lawful

LEMMA AllOtherMemory ==
  ASSUME NEW a, NEW b, mode = "save" => \A o \in Operated : a[o].id # 0 => b[o].id # 0,
         NEW g, NEW d, NEW list, AllLawful(a, g, d, list)
  PROVE  AllLawful(b, g, d, list)
  BY OtherMemory DEF AllLawful

LEMMA NoGroups ==
  ASSUME todo' = <<>>
  PROVE  GroupsAreReady'
<1>1. ToSet(todo)' = {} /\ todo' \in Seq(ToSet(todo)')
  BY NothingIn DEF ToSet
<1> QED
  BY <1>1 DEF GroupsAreReady

\* Of the facts about the objects, those that depend on their identifiers and values.
LEMMA ObjectsMove ==
  ASSUME IInv, UNCHANGED <<m, mode, roots, chunk, start, saved, db>>, DOMAIN graph' = DOMAIN graph,
         \A o \in DOMAIN graph : /\ graph'[o].rel = graph[o].rel /\ graph'[o].id \in Nat
                                 /\ graph'[o] = [id |-> graph'[o].id, value |-> graph'[o].value, rel |-> graph'[o].rel],
         \A o \in DOMAIN graph : IF o \in Operated THEN Free(start.graph, start.db, m.kindOf[o], graph'[o].id)
                                 ELSE graph'[o].id = graph[o].id
  PROVE  Operated' = Operated /\ Typed' /\ StartIsTyped' /\ SameObjects' /\ IdsAreFree' /\ Kept'
<1>1. m' = m /\ mode' = mode /\ roots' = roots /\ chunk' = chunk /\ start' = start /\ saved' = saved /\ db' = db
  OBVIOUS
<1>2. Operated' = Operated
  BY <1>1, SameOperated
<1>3. SchemaIsTyped' /\ Tables' = Tables
  BY <1>1 DEF IInv, Typed, SchemaIsTyped, Tables
<1>4. ObjectsAreTyped'
  <2>1. ObjectsAreTyped
    BY DEF IInv, Typed
  <2>2. IsFiniteSet(DOMAIN graph') /\ "" \notin DOMAIN graph'
    BY <2>1 DEF ObjectsAreTyped
  <2>3. ASSUME NEW o \in DOMAIN graph'
        PROVE  /\ m.kindOf[o] \notin Tables
               /\ graph'[o] = [id |-> graph'[o].id, value |-> graph'[o].value, rel |-> graph'[o].rel]
               /\ graph'[o].id \in Nat
               /\ \A r \in Relations(m, m.kindOf[o], AllTypes) :
                    graph'[o].rel[r.name].of \in Seq({p \in DOMAIN graph' : m.kindOf[p] = r.to})
    BY <2>1, <2>3 DEF ObjectsAreTyped
  <2> QED
    BY <1>1, <1>3, <2>2, <2>3 DEF ObjectsAreTyped
<1>5. ASSUME NEW d PROVE RowsAreTyped(d)' <=> RowsAreTyped(d)
  BY <1>1, <1>3, OwningStays DEF RowsAreTyped
<1>6. Typed' /\ StartIsTyped'
  <2>1. RowsAreTyped(db)' /\ RowsAreTyped(start.db)'
    BY <1>1, <1>5 DEF IInv, Typed, StartIsTyped
  <2> QED
    BY <1>1, <1>3, <1>4, <2>1 DEF IInv, Typed, StartIsTyped
<1>7. SameObjects'
  BY <1>1 DEF IInv, SameObjects
<1>8. IdsAreFree'
  <2>1. ASSUME NEW o \in DOMAIN graph, o \notin Operated
        PROVE  graph'[o].id = start.graph[o].id
    BY <2>1 DEF IInv, IdsAreFree
  <2>2. ASSUME NEW o \in Operated
        PROVE  Free(start.graph, start.db, m.kindOf[o], graph[o].id)'
    <3>1. o \in DOMAIN graph
      BY OperatedAreObjects
    <3>2. Free(start.graph, start.db, m.kindOf[o], graph'[o].id)
      BY <3>1
    <3> QED
      BY <1>1, <1>2, <3>2, FreeStays
  <2> QED
    BY <1>1, <1>2, <2>1, <2>2 DEF IdsAreFree
<1>9. Kept'
  <2>1. \A kind, id : Stored(db, kind, id)' <=> Stored(db, kind, id)
    BY <1>1 DEF Stored
  <2> QED
    BY <1>1, <1>2, <2>1, FreeStays, HeldStays, OrphanedStays, OwningStays DEF IInv, Kept
<1> QED
  BY <1>2, <1>6, <1>7, <1>8, <1>9

LEMMA BeforeEventsKeeps ==
  ASSUME IInv, BeforeEvents
  PROVE  IInv'
<1>1. /\ UNCHANGED <<m, db, saved, mode, roots, chunk, at, todo, status, calls, sent, start>>
      /\ phase' = "insert" /\ status = "running" /\ phase = "before"
  BY DEF BeforeEvents, Running
<1>2. todo = <<>> /\ at \in DOMAIN executors /\ executors \in Seq(ToSet(executors))
      /\ \A p \in DOMAIN executors : AllLawful(graph, start.graph, start.db, executors[p])
  BY <1>1 DEF IInv, GroupsAreReady, SubjectsAreLawful
<1>3. GroupsAreReady'
  BY <1>1, <1>2, NoGroups
<1>4. SchemaIsTyped /\ ObjectsAreTyped
  BY DEF IInv, Typed
<1>5. \A o \in DOMAIN graph : /\ graph[o] = [id |-> graph[o].id, value |-> graph[o].value, rel |-> graph[o].rel]
                              /\ graph[o].id \in Nat
  BY <1>4 DEF ObjectsAreTyped
<1>6. \A o \in DOMAIN graph : o \in Operated => Free(start.graph, start.db, m.kindOf[o], graph[o].id)
  BY DEF IInv, IdsAreFree
<1>7. CASE UNCHANGED <<graph, executors>>
  <2>1. Operated' = Operated /\ Typed' /\ StartIsTyped' /\ SameObjects' /\ IdsAreFree' /\ Kept'
    BY <1>1, <1>5, <1>6, <1>7, ObjectsMove
  <2>2. SubjectsAreLawful'
    BY <1>1, <1>7, <2>1, AllLawfulStays DEF IInv, SubjectsAreLawful
  <2> QED
    BY <1>3, <2>1, <2>2 DEF IInv
<1>8. CASE \E i \in DOMAIN Subjects, v \in Values :
             /\ Subjects[i].object # ""
             /\ graph' = [graph EXCEPT ![Subjects[i].object].value = v]
             /\ executors' = With(ComputeChanges(m, graph', Subjects))
  <2>1. PICK i \in DOMAIN Subjects, v \in Values :
          /\ Subjects[i].object # ""
          /\ graph' = [graph EXCEPT ![Subjects[i].object].value = v]
          /\ executors' = With(ComputeChanges(m, graph', Subjects))
    BY <1>8
  <2> DEFINE o == Subjects[i].object
             list == ComputeChanges(m, graph', Subjects)
  <2>2. AllLawful(graph, start.graph, start.db, Subjects)
    BY <1>2 DEF Subjects
  <2>3. DOMAIN graph' = DOMAIN graph
        /\ \A x \in DOMAIN graph : graph'[x] = IF x = o THEN [graph[o] EXCEPT !.value = v] ELSE graph[x]
    BY <2>1
  <2> HIDE DEF o
  <2>4. \A x \in DOMAIN graph :
          /\ graph'[x].rel = graph[x].rel /\ graph'[x].id = graph[x].id
          /\ graph'[x] = [id |-> graph'[x].id, value |-> graph'[x].value, rel |-> graph'[x].rel]
    <3> TAKE x \in DOMAIN graph
    <3>1. graph[x] = [id |-> graph[x].id, value |-> graph[x].value, rel |-> graph[x].rel]
      BY <1>5
    <3>2. CASE x = o
      <4>1. graph'[x] = [graph[x] EXCEPT !.value = v]
        BY <2>3, <3>2
      <4> QED
        BY <3>1, <4>1
    <3>3. CASE x # o
      BY <2>3, <3>1, <3>3
    <3> QED
      BY <3>2, <3>3
  <2>5. Operated' = Operated /\ Typed' /\ StartIsTyped' /\ SameObjects' /\ IdsAreFree' /\ Kept'
    BY <1>1, <1>5, <1>6, <2>3, <2>4, ObjectsMove
  <2>6. \A x \in Operated : graph[x].id # 0 => graph'[x].id # 0
    BY <2>4, OperatedAreObjects
  <2>7. /\ \A p \in DOMAIN executors : AllLawful(graph', start.graph, start.db, executors[p])
        /\ AllLawful(graph', start.graph, start.db, Subjects)
    BY <1>2, <2>2, <2>6, AllOtherMemory
  <2>8. AllLawful(graph', start.graph, start.db, list)
    BY <1>4, <2>7, ComputedIsLawful
  <2> HIDE DEF list
  <2>9. executors' = With(list)
    BY <2>1 DEF list
  <2>10. /\ executors' \in Seq(ToSet(executors')) /\ DOMAIN executors' = DOMAIN executors
         /\ \A p \in DOMAIN executors' : AllLawful(graph', start.graph, start.db, executors'[p])
    BY <1>2, <2>7, <2>8, <2>9, WithKeeps
  <2>11. SubjectsAreLawful'
    <3>1. ToSet(executors)' = ToSet(executors')
      BY DEF ToSet
    <3>2. \A p \in DOMAIN executors' : AllLawful(graph, start.graph, start.db, executors[p])'
      BY <1>1, <2>5, <2>10, AllLawfulStays
    <3> QED
      BY <1>1, <1>2, <2>10, <3>1, <3>2 DEF SubjectsAreLawful
  <2> QED
    BY <1>3, <2>5, <2>11 DEF IInv
<1> QED
  BY <1>7, <1>8 DEF BeforeEvents

\* The identifier that an object has once its executor is through.
Assigned(o) ==
  LET of == {i \in SubjectsOf(Subjects, o) : Subjects[i].inserted \/ Subjects[i].mustBeRemoved}
  IN IF of = {} THEN graph[o].id
     ELSE IF Subjects[Min(of)].mustBeRemoved THEN 0 ELSE Subjects[Min(of)].ids[1]

LEMMA AssignedIsFree ==
  ASSUME IInv, status = "running", NEW o \in DOMAIN graph
  PROVE  /\ Assigned(o) \in Nat
         /\ IF o \in Operated THEN Free(start.graph, start.db, m.kindOf[o], Assigned(o)) ELSE Assigned(o) = graph[o].id
         /\ mode = "save" /\ graph[o].id # 0 => Assigned(o) # 0
<1> DEFINE of == {i \in SubjectsOf(Subjects, o) : Subjects[i].inserted \/ Subjects[i].mustBeRemoved}
           s == Subjects[Min(of)]
<1>1. AllLawful(graph, start.graph, start.db, Subjects)
  BY DEF IInv, SubjectsAreLawful, Subjects
<1>2. graph[o].id \in Nat /\ o # ""
  BY ObjectFacts DEF IInv, Typed
<1>3. CASE of = {}
  <2>1. Assigned(o) = graph[o].id
    BY <1>3 DEF Assigned
  <2> QED
    BY <1>2, <2>1 DEF IInv, IdsAreFree
<1>4. CASE of # {}
  <2>1. Assigned(o) = IF s.mustBeRemoved THEN 0 ELSE s.ids[1]
    BY <1>4 DEF Assigned
  <2>2. Subjects \in Seq(ToSet(Subjects)) /\ \A x \in ToSet(Subjects) : Lawful(graph, start.graph, start.db, x)
    BY <1>1 DEF AllLawful
  <2>3. /\ Len(Subjects) \in Nat /\ DOMAIN Subjects = 1..Len(Subjects)
        /\ \A i \in 1..Len(Subjects) : Subjects[i] \in ToSet(Subjects)
    BY <2>2, ListFacts
  <2>4. of \in SUBSET Nat
    BY <2>3 DEF SubjectsOf
  <2>5. Min(of) \in of
    <3> HIDE DEF of
    <3> QED
      BY <1>4, <2>4, MinIn
  <2>6. s.object = o /\ (s.inserted \/ s.mustBeRemoved) /\ Lawful(graph, start.graph, start.db, s)
    BY <2>2, <2>3, <2>5 DEF SubjectsOf
  <2> HIDE DEF of, s
  <2>7. Shaped(s) /\ Own(graph, start.graph, start.db, s)
    BY <1>2, <2>6 DEF Lawful, Link, Bare
  <2>8. /\ o \in Operated /\ s.kind = m.kindOf[o]
        /\ \A i \in DOMAIN s.ids : s.ids[i] \in Nat \ {0} /\ Free(start.graph, start.db, m.kindOf[o], s.ids[i])
        /\ s.mustBeRemoved => mode = "remove"
        /\ s.inserted => s.ids # <<>>
        /\ s.ids \in Seq(ToSet(s.ids))
    BY <2>6, <2>7 DEF Own, Shaped
  <2>9. CASE s.mustBeRemoved
    <3>1. Free(start.graph, start.db, m.kindOf[o], 0)
      BY DEF Free, IInv, StartIsTyped, RowsAreTyped
    <3> QED
      BY <2>1, <2>8, <2>9, <3>1
  <2>10. CASE ~s.mustBeRemoved
    <3>1. s.ids # <<>>
      BY <2>6, <2>8, <2>10, Zenon
    <3>2. 1 \in DOMAIN s.ids
      BY <2>8, <3>1, FirstIn
    <3> QED
      BY <2>1, <2>8, <2>10, <3>2
  <2> QED
    BY <2>9, <2>10
<1> QED
  BY <1>3, <1>4

LEMMA FinishKeeps ==
  ASSUME IInv, Finish
  PROVE  IInv'
<1>1. /\ UNCHANGED <<m, db, saved, mode, roots, chunk, executors, todo, calls, sent, start>>
      /\ status = "running" /\ todo = <<>>
      /\ graph' = [o \in DOMAIN graph |-> [graph[o] EXCEPT !.id = Assigned(o)]]
  BY DEF Finish, Running, Assigned
<1>2. \/ at < Len(executors) /\ at' = at + 1 /\ phase' = "before" /\ status' = status
      \/ status' = "resolved" /\ at' = at /\ phase' = phase
  BY DEF Finish
<1>3. /\ ObjectsAreTyped /\ executors \in Seq(ToSet(executors)) /\ at \in DOMAIN executors
      /\ \A p \in DOMAIN executors : AllLawful(graph, start.graph, start.db, executors[p])
  BY <1>1 DEF IInv, Typed, SubjectsAreLawful
<1>4. DOMAIN graph' = DOMAIN graph
      /\ \A o \in DOMAIN graph : /\ graph'[o].rel = graph[o].rel /\ graph'[o].id = Assigned(o)
                                 /\ graph'[o] = [id |-> graph'[o].id, value |-> graph'[o].value, rel |-> graph'[o].rel]
  <2>1. DOMAIN graph' = DOMAIN graph /\ \A o \in DOMAIN graph : graph'[o] = [graph[o] EXCEPT !.id = Assigned(o)]
    BY <1>1
  <2>2. \A o \in DOMAIN graph : graph[o] = [id |-> graph[o].id, value |-> graph[o].value, rel |-> graph[o].rel]
    BY <1>3 DEF ObjectsAreTyped
  <2>3. ASSUME NEW o \in DOMAIN graph
        PROVE  /\ graph'[o].rel = graph[o].rel /\ graph'[o].id = Assigned(o)
               /\ graph'[o] = [id |-> graph'[o].id, value |-> graph'[o].value, rel |-> graph'[o].rel]
    <3>1. graph[o] = [id |-> graph[o].id, value |-> graph[o].value, rel |-> graph[o].rel]
          /\ graph'[o] = [graph[o] EXCEPT !.id = Assigned(o)]
      BY <2>1, <2>2
    <3> QED
      BY <3>1
  <2> QED
    BY <2>1, <2>3
<1>5. \A o \in DOMAIN graph :
        /\ graph'[o].id \in Nat
        /\ IF o \in Operated THEN Free(start.graph, start.db, m.kindOf[o], graph'[o].id) ELSE graph'[o].id = graph[o].id
        /\ mode = "save" /\ graph[o].id # 0 => graph'[o].id # 0
  <2> TAKE o \in DOMAIN graph
  <2>1. /\ Assigned(o) \in Nat
        /\ IF o \in Operated THEN Free(start.graph, start.db, m.kindOf[o], Assigned(o)) ELSE Assigned(o) = graph[o].id
        /\ mode = "save" /\ graph[o].id # 0 => Assigned(o) # 0
    BY <1>1, AssignedIsFree
  <2>2. graph'[o].id = Assigned(o)
    BY <1>4
  <2> QED
    BY <2>1, <2>2
<1>6. Operated' = Operated /\ Typed' /\ StartIsTyped' /\ SameObjects' /\ IdsAreFree' /\ Kept'
  BY <1>1, <1>4, <1>5, ObjectsMove
<1>7. SubjectsAreLawful'
  <2>1. mode = "save" => \A o \in Operated : graph[o].id # 0 => graph'[o].id # 0
    BY <1>5, OperatedAreObjects
  <2>2. \A p \in DOMAIN executors : AllLawful(graph', start.graph, start.db, executors[p])
    BY <1>3, <2>1, AllOtherMemory
  <2>3. \A p \in DOMAIN executors' : AllLawful(graph, start.graph, start.db, executors[p])'
    BY <1>1, <1>6, <2>2, AllLawfulStays
  <2>4. at' \in DOMAIN executors'
    <3>1. Len(executors) \in Nat /\ DOMAIN executors = 1..Len(executors)
      BY <1>3, ListFacts
    <3> QED
      BY <1>1, <1>2, <1>3, <3>1
  <2> QED
    BY <1>1, <1>3, <2>3, <2>4 DEF SubjectsAreLawful
<1>8. GroupsAreReady'
  BY <1>1, NoGroups
<1> QED
  BY <1>6, <1>7, <1>8 DEF IInv

LEMMA StutterKeeps ==
  ASSUME IInv, UNCHANGED vars
  PROVE  IInv'
<1>1. Static /\ db' = db /\ executors' = executors /\ at' = at /\ phase' = phase /\ todo' = todo /\ status' = status
      /\ m' = m /\ mode' = mode /\ graph' = graph /\ start' = start
  BY DEF vars, Static
<1>2. /\ Operated' = Operated /\ SchemaIsTyped' /\ ObjectsAreTyped' /\ StartIsTyped' /\ SameObjects' /\ IdsAreFree'
      /\ (mode \in {"save", "remove", "soft-remove", "recover"} /\ roots \in Seq(DOMAIN graph) /\ chunk \in Nat)'
      /\ \A d : RowsAreTyped(d)' <=> RowsAreTyped(d)
  BY <1>1, StaticKeeps
<1>3. RowsAreTyped(db)'
  BY <1>1, <1>2 DEF IInv, Typed
<1>4. SubjectsAreLawful'
  BY <1>1, <1>2, AllLawfulStays DEF IInv, SubjectsAreLawful
<1>5. GroupsAreReady'
  BY <1>1 DEF IInv, GroupsAreReady, Group, Ready, Subjects
<1>6. Kept'
  BY <1>1, <1>2, SameRowsKept DEF IInv
<1> QED
  BY <1>2, <1>3, <1>4, <1>5, <1>6 DEF IInv, Typed

\* A statement leaves the subjects what the groups to come need of them.
SameReady(list) ==
  /\ DOMAIN list = DOMAIN Subjects
  /\ \A i \in DOMAIN Subjects :
       /\ list[i].kind = Subjects[i].kind /\ list[i].canBeInserted = Subjects[i].canBeInserted
       /\ list[i].mustBeRemoved = Subjects[i].mustBeRemoved
       /\ Subjects[i].ids # <<>> => list[i].ids # <<>>

LEMMA TailIn ==
  ASSUME NEW S, NEW t \in Seq(S), t # <<>>
  PROVE  Tail(t) \in Seq(S) /\ ToSet(Tail(t)) \subseteq ToSet(t) /\ Head(t) \in ToSet(t)
<1>1. t \in Seq(ToSet(t))
  BY SeqOfItsOwn
<1>2. Tail(t) \in Seq(ToSet(t)) /\ Tail(t) \in Seq(S) /\ Head(t) \in ToSet(t)
  BY <1>1
<1> QED
  BY <1>2, SeqOfItsOwn

LEMMA GroupStays ==
  ASSUME NEW list, SameReady(list), NEW p, NEW group, Group(Subjects, p, group)
  PROVE  Group(list, p, group)
<1>1. group \in Seq(DOMAIN list) /\ \A i \in ToSet(group) : i \in DOMAIN Subjects
  <2>1. group \in Seq(DOMAIN Subjects)
    BY DEF Group
  <2> QED
    BY <2>1, SeqOfItsOwn DEF SameReady
<1>2. \A i, j \in ToSet(group) : list[i].kind = list[j].kind
  BY <1>1 DEF Group, SameReady
<1>3. ASSUME NEW i \in ToSet(group)
      PROVE  Ready(p, list[i])
  BY <1>1 DEF Group, SameReady, Ready
<1>4. p = "updating" => group # <<>>
  BY DEF Group
<1> QED
  BY <1>1, <1>2, <1>3, <1>4 DEF Group

LEMMA SentKeeps ==
  ASSUME IInv, status = "running", todo # <<>>, NEW d, NEW list, NEW counted, Sent(d, list, counted),
         AllLawful(graph, start.graph, start.db, list), SameReady(list), RowsAreTyped(d), Touches(db, d)
  PROVE  IInv'
<1>1. Static /\ db' = d /\ executors' = With(list) /\ todo' = Tail(todo) /\ at' = at /\ phase' = phase /\ status' = status
      /\ m' = m /\ mode' = mode /\ graph' = graph /\ start' = start
  BY DEF Sent, Static
<1>2. /\ Operated' = Operated /\ SchemaIsTyped' /\ ObjectsAreTyped' /\ StartIsTyped' /\ SameObjects' /\ IdsAreFree'
      /\ (mode \in {"save", "remove", "soft-remove", "recover"} /\ roots \in Seq(DOMAIN graph) /\ chunk \in Nat)'
      /\ \A x : RowsAreTyped(x)' <=> RowsAreTyped(x)
  BY <1>1, StaticKeeps
<1>3. RowsAreTyped(db)'
  BY <1>1, <1>2 DEF RowsAreTyped
<1>4. Kept'
  BY <1>1, <1>2, TouchesKeeps DEF IInv
<1>5. executors \in Seq(ToSet(executors)) /\ at \in DOMAIN executors
      /\ \A p \in DOMAIN executors : AllLawful(graph, start.graph, start.db, executors[p])
  BY DEF IInv, SubjectsAreLawful
<1>6. /\ executors' \in Seq(ToSet(executors')) /\ DOMAIN executors' = DOMAIN executors
      /\ \A p \in DOMAIN executors' : AllLawful(graph, start.graph, start.db, executors'[p])
      /\ executors'[at] = list
  BY <1>1, <1>5, WithKeeps
<1>7. SubjectsAreLawful'
  <2>1. ToSet(executors)' = ToSet(executors')
    BY DEF ToSet
  <2>2. \A p \in DOMAIN executors' : AllLawful(graph, start.graph, start.db, executors[p])'
    BY <1>1, <1>2, <1>6, AllLawfulStays
  <2> QED
    BY <1>1, <1>5, <1>6, <2>1, <2>2 DEF SubjectsAreLawful
<1>8. GroupsAreReady'
  <2>1. todo \in Seq(ToSet(todo)) /\ (phase \in {"before", "insert"} => todo = <<>>)
        /\ \A g \in ToSet(todo) : Group(Subjects, phase, g)
    BY DEF IInv, GroupsAreReady
  <2>2. Tail(todo) \in Seq(ToSet(todo)) /\ ToSet(Tail(todo)) \subseteq ToSet(todo)
    BY <2>1, TailIn
  <2>3. Tail(todo) \in Seq(ToSet(Tail(todo)))
    BY <2>2, SeqOfItsOwn
  <2>4. ToSet(todo)' = ToSet(Tail(todo)) /\ Subjects' = list
    BY <1>1, <1>6 DEF ToSet, Subjects
  <2>5. \A g \in ToSet(Tail(todo)) : Group(list, phase, g)
    BY <2>1, <2>2, GroupStays
  <2>6. \A g \in ToSet(Tail(todo)) : Group(Subjects, phase, g)'
    BY <1>1, <2>4, <2>5 DEF Group, Ready
  <2> QED
    BY <1>1, <2>1, <2>3, <2>4, <2>6 DEF GroupsAreReady
<1> QED
  BY <1>2, <1>3, <1>4, <1>7, <1>8 DEF IInv, Typed

(***************************************************************************)
(* The order of the subjects: only some of them, in some order.            *)
(***************************************************************************)
IsList(t) == t \in Seq(ToSet(t))

LEMMA ListsConcat ==
  ASSUME NEW t, NEW u, IsList(t), IsList(u)
  PROVE  IsList(t \o u)
<1> DEFINE S == ToSet(t) \union ToSet(u)
<1>1. ToSet(t) \subseteq S /\ ToSet(u) \subseteq S /\ t \in Seq(ToSet(t)) /\ u \in Seq(ToSet(u))
  BY DEF IsList
<1> HIDE DEF S
<1>2. t \in Seq(S) /\ u \in Seq(S)
  BY <1>1, WiderList
<1>3. t \o u \in Seq(S)
  BY <1>2, ConcatIn
<1> QED
  BY <1>3, SeqOfItsOwn DEF IsList

LEMMA OneIsList ==
  ASSUME NEW x
  PROVE  IsList(<<x>>)
<1>1. <<x>> \in Seq({x})
  BY OneIn
<1> QED
  BY <1>1, SeqOfItsOwn DEF IsList

LEMMA IsListIn ==
  ASSUME NEW S, NEW t \in Seq(S)
  PROVE  IsList(t)
  BY SeqOfItsOwn DEF IsList

SortedHolds(given, work) ==
  /\ work = [edges |-> work.edges, sorted |-> work.sorted, stack |-> work.stack]
  /\ IsList(work.sorted)

LEMMA OtherField ==
  ASSUME NEW e, NEW s, NEW k, NEW w, w = [edges |-> e, sorted |-> s, stack |-> k], NEW x
  PROVE  /\ [w EXCEPT !.stack = x] = [edges |-> e, sorted |-> s, stack |-> x]
         /\ [w EXCEPT !.sorted = x] = [edges |-> e, sorted |-> x, stack |-> k]
  OBVIOUS

LEMMA VisitSorts ==
  ASSUME NEW given, NEW work, SortedHolds(given, work), NEW step
  PROVE  SortedHolds(given, Visit(work, step))
<1> DEFINE top == Head(work.stack)
           rest == [work EXCEPT !.stack = Tail(@)]
           outgoing == Reverse(Picked(work.edges, {i \in DOMAIN work.edges : work.edges[i][1] = top.node}))
           new == [i \in DOMAIN outgoing |-> Enter(outgoing[i][2])] \o <<[top EXCEPT !.done = TRUE]>>
           sorted == <<top.node>> \o work.sorted
<1>1. work = [edges |-> work.edges, sorted |-> work.sorted, stack |-> work.stack] /\ IsList(work.sorted)
  BY DEF SortedHolds
<1>2. \/ Visit(work, step) = work
      \/ Visit(work, step) = rest
      \/ Visit(work, step) = [rest EXCEPT !.sorted = <<top.node>> \o @]
      \/ Visit(work, step) = [rest EXCEPT !.stack = new \o @]
  BY DEF Visit
<1>3. rest = [edges |-> work.edges, sorted |-> work.sorted, stack |-> Tail(work.stack)]
  <2> DEFINE e == work.edges
             s == work.sorted
             k == work.stack
             t == Tail(work.stack)
  <2>1. work = [edges |-> e, sorted |-> s, stack |-> k]
    BY <1>1
  <2>2. rest = [work EXCEPT !.stack = t]
    OBVIOUS
  <2> HIDE DEF e, s, k, t, rest
  <2>3. rest = [edges |-> e, sorted |-> s, stack |-> t]
    BY <2>1, <2>2, OtherField
  <2> QED
    BY <2>3 DEF e, s, t
<1>4. IsList(sorted)
  BY <1>1, OneIsList, ListsConcat
<1> HIDE DEF new, top, rest
<1>5. CASE Visit(work, step) = work
  BY <1>5
<1>6. CASE Visit(work, step) = rest
  BY <1>1, <1>3, <1>6 DEF SortedHolds
<1>7. CASE Visit(work, step) = [rest EXCEPT !.sorted = <<top.node>> \o @]
  <2>1. Visit(work, step) = [edges |-> work.edges, sorted |-> sorted, stack |-> Tail(work.stack)]
    BY <1>3, <1>7
  <2> HIDE DEF sorted
  <2> QED
    BY <1>4, <2>1 DEF SortedHolds
<1>8. CASE Visit(work, step) = [rest EXCEPT !.stack = new \o @]
  <2>1. Visit(work, step) = [edges |-> work.edges, sorted |-> work.sorted, stack |-> new \o Tail(work.stack)]
    BY <1>3, <1>8
  <2> QED
    BY <1>1, <2>1 DEF SortedHolds
<1> QED
  BY <1>2, <1>5, <1>6, <1>7, <1>8

VisitFold == INSTANCE FoldFacts WITH Op <- Visit, Holds <- SortedHolds

LEMMA ToposortIsList ==
  ASSUME NEW S, NEW edges \in Seq(Seq(S))
  PROVE  IsList(Toposort(edges))
<1> DEFINE nodes == Reverse(UniqueNodes(edges))
           stack == [i \in DOMAIN nodes |-> Enter(nodes[i])]
           begin == [edges |-> edges, sorted |-> <<>>, stack |-> stack]
           steps == nodes \o nodes \o edges
<1>1. Toposort(edges) = FoldLeft(Visit, begin, steps).sorted
  BY DEF Toposort
<1>2. nodes \in Seq(S)
  BY FlattenIn, DistinctIn, ReverseIn DEF UniqueNodes
<1> HIDE DEF nodes
<1>3. IsList(steps)
  BY <1>2, IsListIn, ListsConcat
<1>4. SortedHolds(0, begin)
  <2>1. IsList(<<>>)
    BY NothingIn DEF IsList
  <2> HIDE DEF stack
  <2> QED
    BY <2>1 DEF SortedHolds
<1> HIDE DEF steps, begin
<1>5. Len(steps) \in Nat /\ DOMAIN steps = 1..Len(steps)
  BY <1>3, ListFacts DEF IsList
<1>6. \A j \in 1..Len(steps) : \A a : SortedHolds(0, a) => SortedHolds(0, Visit(a, steps[j]))
  BY VisitSorts
<1>7. SortedHolds(0, VisitFold!Fold(begin, steps, Len(steps)))
  BY <1>4, <1>5, <1>6, LeastExists, VisitFold!FoldKeeps DEF VisitFold!HaveLeast
<1>8. FoldLeft(Visit, begin, steps) = VisitFold!Fold(begin, steps, Len(steps))
  BY <1>5 DEF FoldLeft, MapThenFoldSet, Max, VisitFold!Fold, VisitFold!Folded, VisitFold!Greatest
<1> QED
  BY <1>1, <1>7, <1>8 DEF SortedHolds

LEMMA EdgesIn ==
  ASSUME NEW R, NEW relations \in Seq(R), NEW places \in SUBSET DOMAIN relations, NEW edges,
         LET depending == Picked(relations, places)
         IN edges = [i \in DOMAIN depending |-> <<depending[i].kind, depending[i].to>>]
  PROVE  IsList(Toposort(edges))
<1> DEFINE depending == Picked(relations, places)
           S == {r.kind : r \in R} \union {r.to : r \in R}
<1>1. depending \in Seq(R)
  BY PickedIn
<1>2. edges = [i \in DOMAIN depending |-> <<depending[i].kind, depending[i].to>>]
  OBVIOUS
<1> HIDE DEF depending
<1>3. Len(depending) \in Nat /\ DOMAIN depending = 1..Len(depending) /\ \A i \in 1..Len(depending) : depending[i] \in R
  BY <1>1, ListFacts
<1>4. ASSUME NEW i \in 1..Len(depending)
      PROVE  edges[i] \in Seq(S)
  <2>1. edges[i] = <<depending[i].kind, depending[i].to>>
    BY <1>2, <1>3
  <2>2. edges[i] \in Seq({depending[i].kind, depending[i].to})
    BY <2>1, TwoIn
  <2>3. {depending[i].kind, depending[i].to} \subseteq S
    BY <1>3
  <2> HIDE DEF S
  <2> QED
    BY <2>2, <2>3, WiderList
<1> HIDE DEF S
<1>5. edges \in Seq(Seq(S))
  <2>1. DOMAIN edges = 1..Len(depending) /\ edges = [i \in 1..Len(depending) |-> edges[i]]
    BY <1>2, <1>3
  <2> QED
    BY <1>3, <1>4, <2>1, IndexedIn
<1> QED
  BY <1>5, ToposortIsList

LEMMA ByKindIn ==
  ASSUME NEW S, NEW subjects \in Seq(S), NEW order, IsList(order)
  PROVE  ByKind(subjects, order) \in Seq(S)
<1> DEFINE kinds == Distinct(order)
           of(kind) == Picked(subjects, {i \in DOMAIN subjects : subjects[i].kind = kind})
           parts == [k \in DOMAIN kinds |-> of(kinds[k])]
           others == {i \in DOMAIN subjects : ~Contains(kinds, subjects[i].kind)}
<1>1. ByKind(subjects, order) = FlattenSeq(parts) \o Picked(subjects, others)
  BY DEF ByKind
<1>2. kinds \in Seq(ToSet(order))
  BY DistinctIn DEF IsList
<1> HIDE DEF kinds
<1>3. Len(kinds) \in Nat /\ DOMAIN kinds = 1..Len(kinds)
  BY <1>2, ListFacts
<1>4. ASSUME NEW kind
      PROVE  of(kind) \in Seq(S)
  <2> DEFINE places == {i \in DOMAIN subjects : subjects[i].kind = kind}
  <2>1. places \in SUBSET DOMAIN subjects
    OBVIOUS
  <2> HIDE DEF places
  <2>2. Picked(subjects, places) \in Seq(S)
    BY <2>1, PickedIn
  <2> QED
    BY <2>2 DEF places
<1>5. others \in SUBSET DOMAIN subjects
  OBVIOUS
<1> HIDE DEF others, of
<1>6. DOMAIN parts = 1..Len(kinds) /\ parts = [k \in 1..Len(kinds) |-> parts[k]] /\ \A k \in 1..Len(kinds) : parts[k] \in Seq(S)
  BY <1>3, <1>4
<1> HIDE DEF parts
<1>7. parts \in Seq(Seq(S))
  BY <1>3, <1>6, IndexedIn
<1>8. FlattenSeq(parts) \in Seq(S)
  BY <1>7, FlattenIn
<1>9. Picked(subjects, others) \in Seq(S)
  BY <1>5, PickedIn
<1> QED
  BY <1>1, <1>8, <1>9, ConcatIn

LEMMA SortIn ==
  ASSUME SchemaIsTyped, NEW S, NEW subjects \in Seq(S), NEW direction
  PROVE  Sort(m.relations, subjects, direction) \in Seq(S)
<1> DEFINE kinds == KindsOf(subjects)
           first == {i \in DOMAIN subjects : /\ direction = "delete"
                                             /\ subjects[i].object = "" /\ subjects[i].before = <<>>}
           turn(order) == IF direction = "insert" THEN Reverse(order) ELSE order
           one == Toposort(NonNullableDependencies(m.relations, kinds))
           two == Toposort(Dependencies(m.relations, kinds))
           rest == DOMAIN subjects \ first
           order == turn(one) \o turn(two)
<1>1. Sort(m.relations, subjects, direction) = Picked(subjects, first) \o ByKind(Picked(subjects, rest), order)
  BY DEF Sort
<1>2. m.relations \in Seq(ToSet(m.relations))
  BY SchemaFacts
<1>3. IsList(one)
  <2> DEFINE places == {i \in DOMAIN m.relations :
                          Owning(m.relations[i]) /\ m.relations[i].kind \in kinds /\ ~m.relations[i].nullable}
             depending == Picked(m.relations, places)
             edges == [i \in DOMAIN depending |-> <<depending[i].kind, depending[i].to>>]
  <2>1. places \in SUBSET DOMAIN m.relations
    OBVIOUS
  <2>2. NonNullableDependencies(m.relations, kinds) = edges
    BY DEF NonNullableDependencies, Edges
  <2> HIDE DEF places
  <2>3. IsList(Toposort(edges))
    BY <1>2, <2>1, EdgesIn
  <2> QED
    BY <2>2, <2>3
<1>4. IsList(two)
  <2> DEFINE places == {i \in DOMAIN m.relations :
                          Owning(m.relations[i]) /\ m.relations[i].kind \in kinds /\ m.relations[i].to # m.relations[i].kind}
             depending == Picked(m.relations, places)
             edges == [i \in DOMAIN depending |-> <<depending[i].kind, depending[i].to>>]
  <2>1. places \in SUBSET DOMAIN m.relations
    OBVIOUS
  <2>2. Dependencies(m.relations, kinds) = edges
    BY DEF Dependencies, Edges
  <2> HIDE DEF places
  <2>3. IsList(Toposort(edges))
    BY <1>2, <2>1, EdgesIn
  <2> QED
    BY <2>2, <2>3
<1> HIDE DEF one, two
<1>5. ASSUME NEW t, IsList(t)
      PROVE  IsList(turn(t))
  <2>1. IsList(Reverse(t))
    <3>1. Reverse(t) \in Seq(ToSet(t))
      BY <1>5, ReverseIn DEF IsList
    <3> QED
      BY <3>1, IsListIn
  <2> QED
    BY <1>5, <2>1
<1> HIDE DEF turn
<1>6. IsList(order)
  BY <1>3, <1>4, <1>5, ListsConcat
<1>7. first \in SUBSET DOMAIN subjects /\ rest \in SUBSET DOMAIN subjects
  OBVIOUS
<1> HIDE DEF first, rest, order
<1>8. Picked(subjects, first) \in Seq(S) /\ Picked(subjects, rest) \in Seq(S)
  BY <1>7, PickedIn
<1>9. ByKind(Picked(subjects, rest), order) \in Seq(S)
  BY <1>6, <1>8, ByKindIn
<1> QED
  BY <1>1, <1>8, <1>9, ConcatIn

LEMMA SortedIn ==
  ASSUME SchemaIsTyped, NEW T, NEW places \in Seq(T), NEW direction
  PROVE  Sorted(places, direction) \in Seq(T)
<1> DEFINE list == [j \in DOMAIN places |-> Subjects[places[j]]]
           numbered == [j \in DOMAIN list |-> [kind |-> list[j].kind, object |-> list[j].object,
                                               before |-> list[j].before, place |-> places[j]]]
           sorted == Sort(m.relations, numbered, direction)
           N == {x \in {numbered[j] : j \in DOMAIN places} : x.place \in T}
<1>1. Sorted(places, direction) = [j \in DOMAIN sorted |-> sorted[j].place]
  BY DEF Sorted
<1>2. Len(places) \in Nat /\ DOMAIN places = 1..Len(places) /\ \A j \in 1..Len(places) : places[j] \in T
  BY ListFacts
<1>3. /\ DOMAIN numbered = 1..Len(places) /\ numbered = [j \in 1..Len(places) |-> numbered[j]]
      /\ \A j \in 1..Len(places) : numbered[j].place = places[j]
  BY <1>2
<1> HIDE DEF numbered
<1>4. \A j \in 1..Len(places) : numbered[j] \in N
  BY <1>2, <1>3
<1>5. \A x \in N : x.place \in T
  OBVIOUS
<1> HIDE DEF N
<1>6. numbered \in Seq(N)
  BY <1>2, <1>3, <1>4, IndexedIn
<1>7. sorted \in Seq(N)
  BY <1>6, SortIn
<1> HIDE DEF sorted
<1>8. Len(sorted) \in Nat /\ DOMAIN sorted = 1..Len(sorted) /\ \A j \in 1..Len(sorted) : sorted[j] \in N
  BY <1>7, ListFacts
<1> DEFINE result == [j \in DOMAIN sorted |-> sorted[j].place]
<1>9. DOMAIN result = 1..Len(sorted) /\ result = [j \in 1..Len(sorted) |-> result[j]]
      /\ \A j \in 1..Len(sorted) : result[j] \in T
  BY <1>5, <1>8
<1>10. Sorted(places, direction) = result
  BY <1>1
<1> HIDE DEF result
<1> QED
  BY <1>8, <1>9, <1>10, IndexedIn

\* The groups that may be made of some subjects.
GroupsOf(T) == {g \in Seq(T) : \A i, j \in ToSet(g) : Subjects[i].kind = Subjects[j].kind}

LEMMA PartOfGroup ==
  ASSUME NEW T, NEW g \in GroupsOf(T), NEW places \in SUBSET DOMAIN g
  PROVE  Picked(g, places) \in GroupsOf(T)
<1> DEFINE part == Picked(g, places)
<1>1. g \in Seq(T) /\ \A i, j \in ToSet(g) : Subjects[i].kind = Subjects[j].kind
  BY DEF GroupsOf
<1>2. g \in Seq(ToSet(g)) /\ ToSet(g) \subseteq T
  BY <1>1, SeqOfItsOwn
<1>3. part \in Seq(ToSet(g))
  BY <1>2, PickedIn
<1> HIDE DEF part
<1>4. part \in Seq(T) /\ ToSet(part) \subseteq ToSet(g)
  BY <1>2, <1>3, WiderList, SeqOfItsOwn
<1>5. part \in GroupsOf(T)
  BY <1>1, <1>4 DEF GroupsOf
<1> QED
  BY <1>5 DEF part

LEMMA OneGroup ==
  ASSUME NEW T, NEW x \in T
  PROVE  <<x>> \in GroupsOf(T) /\ <<x>> # <<>>
<1>1. <<x>> \in Seq({x}) /\ ToSet(<<x>>) = {x}
  BY OneIn
<1>2. <<x>> \in Seq(T)
  BY <1>1, WiderList
<1> QED
  BY <1>1, <1>2 DEF GroupsOf

LEMMA OnesIn ==
  ASSUME NEW T, NEW places \in Seq(T)
  PROVE  Ones(places) \in Seq({g \in GroupsOf(T) : g # <<>>})
<1> DEFINE G == {g \in GroupsOf(T) : g # <<>>}
           ones == [j \in DOMAIN places |-> <<places[j]>>]
<1>1. Len(places) \in Nat /\ DOMAIN places = 1..Len(places) /\ \A j \in 1..Len(places) : places[j] \in T
  BY ListFacts
<1>2. \A j \in 1..Len(places) : <<places[j]>> \in G
  BY <1>1, OneGroup
<1>3. Ones(places) = ones
  BY DEF Ones
<1> HIDE DEF G
<1>4. DOMAIN ones = 1..Len(places) /\ ones = [j \in 1..Len(places) |-> ones[j]] /\ \A j \in 1..Len(places) : ones[j] \in G
  BY <1>1, <1>2
<1> HIDE DEF ones
<1>5. ones \in Seq(G)
  BY <1>1, <1>4, IndexedIn
<1> QED
  BY <1>3, <1>5 DEF G

LEMMA BulkGroupsIn ==
  ASSUME NEW T, NEW places \in Seq(T)
  PROVE  GroupBulkSubjects(places) \in Seq(GroupsOf(T))
<1> DEFINE kind(j) == Subjects[places[j]].kind
           all == [j \in DOMAIN places |-> kind(j)]
           kinds == Distinct(all)
           group(k) == Picked(places, {j \in DOMAIN places : kind(j) = kinds[k]})
           groups == [k \in DOMAIN kinds |-> group(k)]
<1>1. Len(places) \in Nat /\ DOMAIN places = 1..Len(places) /\ \A j \in 1..Len(places) : places[j] \in T
  BY ListFacts
<1>2. GroupBulkSubjects(places) = groups
  BY DEF GroupBulkSubjects
<1>3. \E S : all \in Seq(S)
  <2> DEFINE S == {kind(j) : j \in DOMAIN places}
  <2>1. DOMAIN all = 1..Len(places) /\ all = [j \in 1..Len(places) |-> all[j]] /\ \A j \in 1..Len(places) : all[j] \in S
    BY <1>1
  <2> HIDE DEF all, S
  <2>2. all \in Seq(S)
    BY <1>1, <2>1, IndexedIn
  <2> QED
    BY <2>2
<1> HIDE DEF all
<1>4. \E S : kinds \in Seq(S)
  BY <1>3, DistinctIn
<1> HIDE DEF kinds
<1>5. Len(kinds) \in Nat /\ DOMAIN kinds = 1..Len(kinds)
  BY <1>4, ListFacts
<1>6. ASSUME NEW k \in 1..Len(kinds)
      PROVE  group(k) \in GroupsOf(T)
  <2> DEFINE them == {j \in DOMAIN places : kind(j) = kinds[k]}
             g == Picked(places, them)
  <2>1. them \in SUBSET DOMAIN places
    OBVIOUS
  <2>2. \A j \in them : Subjects[places[j]].kind = kinds[k]
    OBVIOUS
  <2> HIDE DEF them
  <2>3. g \in Seq(T) /\ \A x \in ToSet(g) : \E j \in them : x = places[j]
    BY <2>1, PickedIn
  <2> HIDE DEF g
  <2>4. \A x \in ToSet(g) : Subjects[x].kind = kinds[k]
    BY <2>2, <2>3
  <2>5. g \in GroupsOf(T)
    BY <2>3, <2>4 DEF GroupsOf
  <2> QED
    BY <2>5 DEF g, them
<1> HIDE DEF group
<1>7. DOMAIN groups = 1..Len(kinds) /\ groups = [k \in 1..Len(kinds) |-> groups[k]]
      /\ \A k \in 1..Len(kinds) : groups[k] \in GroupsOf(T)
  BY <1>5, <1>6
<1> HIDE DEF groups
<1> QED
  BY <1>2, <1>5, <1>7, IndexedIn

LEMMA BulksIn ==
  ASSUME NEW T, NEW group \in GroupsOf(T)
  PROVE  Bulks(group) \in Seq(GroupsOf(T))
<1> DEFINE singles == {j \in DOMAIN group : Subjects[group[j]].changes = <<>>}
           single == Picked(group, singles)
           rest == DOMAIN group \ singles
           bulk == Picked(group, rest)
           first == IF singles = DOMAIN group THEN <<>> ELSE <<bulk>>
           ones == [j \in DOMAIN single |-> <<single[j]>>]
<1>1. Bulks(group) = first \o ones
  BY DEF Bulks
<1>2. singles \in SUBSET DOMAIN group /\ rest \in SUBSET DOMAIN group
  OBVIOUS
<1> HIDE DEF singles, rest
<1>3. bulk \in GroupsOf(T)
  BY <1>2, PartOfGroup
<1>4. single \in Seq(T)
  BY <1>2, PickedIn DEF GroupsOf
<1> HIDE DEF bulk, single
<1>5. first \in Seq(GroupsOf(T))
  <2>1. CASE first = <<>>
    <3> HIDE DEF first
    <3> QED
      BY <2>1, NothingIn
  <2>2. CASE first = <<bulk>>
    <3> HIDE DEF first
    <3>1. first \in Seq({bulk}) /\ {bulk} \subseteq GroupsOf(T)
      BY <1>3, <2>2, OneIn
    <3> QED
      BY <3>1, WiderList
  <2> QED
    BY <2>1, <2>2
<1>6. ones \in Seq(GroupsOf(T))
  <2>1. Ones(single) = ones
    BY DEF Ones
  <2>2. ones \in Seq({g \in GroupsOf(T) : g # <<>>})
    BY <1>4, <2>1, OnesIn
  <2>3. {g \in GroupsOf(T) : g # <<>>} \subseteq GroupsOf(T)
    OBVIOUS
  <2> HIDE DEF ones
  <2> QED
    BY <2>2, <2>3, WiderList
<1> HIDE DEF first, ones
<1> QED
  BY <1>1, <1>5, <1>6, ConcatIn

LEMMA NumbersIn ==
  ASSUME NEW S, Subjects \in Seq(S), NEW T \in SUBSET DOMAIN Subjects
  PROVE  Picked([i \in DOMAIN Subjects |-> i], T) \in Seq(T)
<1> DEFINE numbers == [i \in DOMAIN Subjects |-> i]
<1>1. Len(Subjects) \in Nat /\ DOMAIN Subjects = 1..Len(Subjects)
  BY ListFacts
<1>2. {numbers[i] : i \in T} \subseteq T
  OBVIOUS
<1> HIDE DEF numbers
<1>3. Picked(numbers, T) \in Seq({numbers[i] : i \in T})
  BY <1>1, PickedFrom
<1>4. Picked(numbers, T) \in Seq(T)
  BY <1>2, <1>3, WiderList
<1> QED
  BY <1>4 DEF numbers

LEMMA SubjectsFacts ==
  ASSUME IInv, status = "running"
  PROVE  /\ Subjects \in Seq(ToSet(Subjects)) /\ SchemaIsTyped
         /\ AllLawful(graph, start.graph, start.db, Subjects)
         /\ Len(Subjects) \in Nat /\ DOMAIN Subjects = 1..Len(Subjects)
         /\ \A i \in DOMAIN Subjects : Lawful(graph, start.graph, start.db, Subjects[i])
<1>1. AllLawful(graph, start.graph, start.db, Subjects) /\ SchemaIsTyped
  BY DEF IInv, SubjectsAreLawful, Subjects, Typed
<1>2. Subjects \in Seq(ToSet(Subjects)) /\ \A s \in ToSet(Subjects) : Lawful(graph, start.graph, start.db, s)
  BY <1>1 DEF AllLawful
<1> QED
  BY <1>1, <1>2, ListFacts

LEMMA PlanKeeps ==
  ASSUME IInv, status = "running", NEW p, NEW next, NEW groups, Plan(p, next, groups), NEW T \in SUBSET DOMAIN Subjects,
         groups \in Seq(GroupsOf(T)), \A i \in T : Ready(next, Subjects[i]), next \notin {"before", "insert"},
         next = "updating" => \A g \in ToSet(groups) : g # <<>>
  PROVE  IInv'
<1>1. Static /\ db' = db /\ executors' = executors /\ todo' = groups /\ at' = at /\ phase' = next /\ status' = status
      /\ m' = m /\ mode' = mode /\ graph' = graph /\ start' = start
  BY DEF Plan, Static
<1>2. /\ Operated' = Operated /\ SchemaIsTyped' /\ ObjectsAreTyped' /\ StartIsTyped' /\ SameObjects' /\ IdsAreFree'
      /\ (mode \in {"save", "remove", "soft-remove", "recover"} /\ roots \in Seq(DOMAIN graph) /\ chunk \in Nat)'
      /\ \A x : RowsAreTyped(x)' <=> RowsAreTyped(x)
  BY <1>1, StaticKeeps
<1>3. RowsAreTyped(db)'
  BY <1>1, <1>2 DEF IInv, Typed
<1>4. SubjectsAreLawful'
  BY <1>1, <1>2, AllLawfulStays DEF IInv, SubjectsAreLawful
<1>5. Kept'
  BY <1>1, <1>2, SameRowsKept DEF IInv
<1>6. groups \in Seq(ToSet(groups)) /\ ToSet(groups) \subseteq GroupsOf(T)
  BY SeqOfItsOwn
<1>7. ASSUME NEW g \in ToSet(groups)
      PROVE  Group(Subjects, next, g)
  <2>1. g \in Seq(T) /\ \A i, j \in ToSet(g) : Subjects[i].kind = Subjects[j].kind
    BY <1>6 DEF GroupsOf
  <2>2. g \in Seq(DOMAIN Subjects) /\ ToSet(g) \subseteq T
    BY <2>1, WiderList, SeqOfItsOwn
  <2> QED
    BY <2>1, <2>2 DEF Group
<1>8. GroupsAreReady'
  <2>1. ToSet(todo)' = ToSet(groups) /\ Subjects' = Subjects
    BY <1>1 DEF ToSet, Subjects
  <2>2. \A g \in ToSet(groups) : Group(Subjects, phase, g)'
    BY <1>1, <1>7, <2>1 DEF Group, Ready
  <2> QED
    BY <1>1, <1>6, <2>1, <2>2 DEF GroupsAreReady
<1> QED
  BY <1>2, <1>3, <1>4, <1>5, <1>8 DEF IInv, Typed

LEMMA PlanOnesKeeps ==
  ASSUME IInv, NEW p, NEW next \in {"updating", "soft-removing", "recovering"}, NEW T \in SUBSET DOMAIN Subjects,
         Plan(p, next, Ones(Picked([i \in DOMAIN Subjects |-> i], T))), \A i \in T : Subjects[i].ids # <<>>
  PROVE  IInv'
<1> DEFINE places == Picked([i \in DOMAIN Subjects |-> i], T)
           G == {g \in GroupsOf(T) : g # <<>>}
<1>1. status = "running"
  BY DEF Plan, Running
<1>2. places \in Seq(T)
  BY <1>1, SubjectsFacts, NumbersIn
<1> HIDE DEF places
<1>3. Ones(places) \in Seq(G)
  BY <1>2, OnesIn
<1>4. G \subseteq GroupsOf(T)
  OBVIOUS
<1>5. \A g \in ToSet(Ones(places)) : g # <<>>
  <2>1. ToSet(Ones(places)) \subseteq G
    <3> HIDE DEF G
    <3> QED
      BY <1>3, SeqOfItsOwn
  <2> QED
    BY <2>1
<1> HIDE DEF G
<1>6. Ones(places) \in Seq(GroupsOf(T))
  BY <1>3, <1>4, WiderList
<1>7. \A i \in T : Ready(next, Subjects[i])
  BY DEF Ready
<1>8. Plan(p, next, Ones(places))
  BY DEF places
<1> QED
  BY <1>1, <1>5, <1>6, <1>7, <1>8, PlanKeeps

LEMMA PlanUpdatesKeeps ==
  ASSUME IInv, PlanUpdates
  PROVE  IInv'
<1> DEFINE T == {i \in DOMAIN Subjects : MustBeUpdated(Subjects[i])}
<1>1. Plan("inserting", "updating", Ones(Picked([i \in DOMAIN Subjects |-> i], T)))
  BY DEF PlanUpdates, Places
<1>2. T \in SUBSET DOMAIN Subjects /\ \A i \in T : Subjects[i].ids # <<>>
  BY DEF MustBeUpdated, Known
<1> HIDE DEF T
<1> QED
  BY <1>1, <1>2, PlanOnesKeeps

LEMMA PlanSoftRemovesKeeps ==
  ASSUME IInv, PlanSoftRemoves
  PROVE  IInv'
<1> DEFINE T == {i \in DOMAIN Subjects : MustBeSoftRemoved(Subjects[i])}
<1>1. Plan("removing", "soft-removing", Ones(Picked([i \in DOMAIN Subjects |-> i], T)))
  BY DEF PlanSoftRemoves, Places
<1>2. T \in SUBSET DOMAIN Subjects /\ \A i \in T : Subjects[i].ids # <<>>
  BY DEF MustBeSoftRemoved, Known
<1> HIDE DEF T
<1> QED
  BY <1>1, <1>2, PlanOnesKeeps

LEMMA PlanRecoversKeeps ==
  ASSUME IInv, PlanRecovers
  PROVE  IInv'
<1> DEFINE T == {i \in DOMAIN Subjects : MustBeRecovered(Subjects[i])}
<1>1. Plan("soft-removing", "recovering", Ones(Picked([i \in DOMAIN Subjects |-> i], T)))
  BY DEF PlanRecovers, Places
<1>2. T \in SUBSET DOMAIN Subjects /\ \A i \in T : Subjects[i].ids # <<>>
  BY DEF MustBeRecovered, Known
<1> HIDE DEF T
<1> QED
  BY <1>1, <1>2, PlanOnesKeeps

LEMMA PlanInsertsKeeps ==
  ASSUME IInv, PlanInserts
  PROVE  IInv'
<1> DEFINE T == {i \in DOMAIN Subjects : MustBeInserted(Subjects[i])}
           places == Picked([i \in DOMAIN Subjects |-> i], T)
           groups == GroupBulkSubjects(Sorted(places, "insert"))
           bulks == [g \in DOMAIN groups |-> Bulks(groups[g])]
<1>1. Reject \/ Plan("insert", "inserting", FlattenSeq(bulks))
  BY DEF PlanInserts, Places
<1>2. CASE Reject
  BY <1>2, RejectKeeps
<1>3. CASE Plan("insert", "inserting", FlattenSeq(bulks))
  <2>1. status = "running"
    BY <1>3 DEF Plan, Running
  <2>2. T \in SUBSET DOMAIN Subjects /\ \A i \in T : Ready("inserting", Subjects[i])
    BY DEF MustBeInserted, Ready
  <2> HIDE DEF T
  <2>3. places \in Seq(T) /\ SchemaIsTyped
    BY <2>1, <2>2, SubjectsFacts, NumbersIn
  <2> HIDE DEF places
  <2>4. groups \in Seq(GroupsOf(T))
    BY <2>3, SortedIn, BulkGroupsIn
  <2> HIDE DEF groups
  <2>5. Len(groups) \in Nat /\ DOMAIN groups = 1..Len(groups) /\ \A g \in 1..Len(groups) : groups[g] \in GroupsOf(T)
    BY <2>4, ListFacts
  <2>6. DOMAIN bulks = 1..Len(groups) /\ bulks = [g \in 1..Len(groups) |-> bulks[g]]
        /\ \A g \in 1..Len(groups) : bulks[g] \in Seq(GroupsOf(T))
    BY <2>5, BulksIn
  <2> HIDE DEF bulks
  <2>7. bulks \in Seq(Seq(GroupsOf(T)))
    BY <2>5, <2>6, IndexedIn
  <2>8. FlattenSeq(bulks) \in Seq(GroupsOf(T))
    BY <2>7, FlattenIn
  <2> QED
    BY <1>3, <2>1, <2>2, <2>8, PlanKeeps
<1> QED
  BY <1>1, <1>2, <1>3

LEMMA PlanRemovesKeeps ==
  ASSUME IInv, PlanRemoves
  PROVE  IInv'
<1> DEFINE A == {i \in DOMAIN Subjects : Subjects[i].mustBeRemoved}
           places == Picked([i \in DOMAIN Subjects |-> i], A)
           T == {i \in A : Subjects[i].ids # <<>>}
           groups == GroupBulkSubjects(Sorted(places, "delete"))
<1>1. \/ Reject
      \/ /\ Plan("updating", "removing", groups)
         /\ ~(Running("updating") /\ \E j \in DOMAIN places : Subjects[places[j]].ids = <<>>)
  BY DEF PlanRemoves, Places
<1>2. CASE Reject
  BY <1>2, RejectKeeps
<1>3. CASE /\ Plan("updating", "removing", groups)
           /\ ~(Running("updating") /\ \E j \in DOMAIN places : Subjects[places[j]].ids = <<>>)
  <2>1. status = "running" /\ Running("updating")
    BY <1>3 DEF Plan, Running
  <2>2. A \in SUBSET DOMAIN Subjects
    OBVIOUS
  <2>3. places \in Seq(A) /\ SchemaIsTyped
    <3> HIDE DEF A
    <3> QED
      BY <2>1, <2>2, SubjectsFacts, NumbersIn
  <2>4. \A j \in DOMAIN places : Subjects[places[j]].ids # <<>>
    BY <1>3, <2>1
  <2> HIDE DEF places
  <2>5. /\ Len(places) \in Nat /\ DOMAIN places = 1..Len(places) /\ places = [j \in 1..Len(places) |-> places[j]]
        /\ \A j \in 1..Len(places) : places[j] \in A
    <3> HIDE DEF A
    <3> QED
      BY <2>3, ListFacts
  <2>6. \A j \in 1..Len(places) : places[j] \in T
    BY <2>4, <2>5
  <2>7. T \in SUBSET DOMAIN Subjects /\ \A i \in T : Ready("removing", Subjects[i])
    BY DEF Ready
  <2> HIDE DEF T, A
  <2>8. places \in Seq(T)
    BY <2>5, <2>6, IndexedIn
  <2>9. groups \in Seq(GroupsOf(T))
    BY <2>3, <2>8, SortedIn, BulkGroupsIn
  <2> HIDE DEF groups
  <2> QED
    BY <1>3, <2>1, <2>7, <2>9, PlanKeeps
<1> QED
  BY <1>1, <1>2, <1>3

RowFields(row) == [kind |-> row.kind, id |-> row.id, deleted |-> row.deleted, value |-> row.value, refs |-> row.refs]

LEMMA RowFacts ==
  ASSUME NEW d, RowsAreTyped(d)
  PROVE  /\ d = [rows |-> d.rows, links |-> d.links] /\ IsFiniteSet(d.rows) /\ IsFiniteSet(d.links)
         /\ \A x, y \in d.rows : x.kind = y.kind /\ x.id = y.id => x = y
         /\ \A row \in d.rows : /\ row = RowFields(row) /\ row.kind \notin Tables /\ row.id \in Nat \ {0}
                                /\ DOMAIN row.refs = {r.name : r \in OwningRelations(row.kind)}
  BY DEF RowsAreTyped, RowFields

\* Rows that change, but for their kinds and identifiers.
RowsMapped(d0, f, d) ==
  /\ DOMAIN f = d0.rows /\ f = [row \in d0.rows |-> f[row]]
  /\ d = [rows |-> {f[row] : row \in d0.rows}, links |-> d0.links]
  /\ \A row \in d0.rows : /\ f[row] = RowFields(f[row]) /\ f[row].kind = row.kind /\ f[row].id = row.id
                           /\ DOMAIN f[row].refs = DOMAIN row.refs
\* ... and only as they may.
RowTouched(row, now) ==
  \/ Free(start.graph, start.db, row.kind, row.id)
  \/ /\ now.value = row.value
     /\ \A r \in OwningRelations(row.kind) :
          now.refs[r.name] # row.refs[r.name] => Held(start.graph, start.db, row.kind, row.id, r.name)

LEMMA MapRows ==
  ASSUME NEW d0, RowsAreTyped(d0), NEW f, NEW d, RowsMapped(d0, f, d)
  PROVE  RowsAreTyped(d)
<1>0. /\ DOMAIN f = d0.rows /\ f = [row \in d0.rows |-> f[row]]
      /\ d = [rows |-> {f[row] : row \in d0.rows}, links |-> d0.links]
      /\ \A row \in d0.rows : /\ f[row] = RowFields(f[row]) /\ f[row].kind = row.kind /\ f[row].id = row.id
                               /\ DOMAIN f[row].refs = DOMAIN row.refs
  BY DEF RowsMapped
<1>1. /\ IsFiniteSet(d0.rows) /\ IsFiniteSet(d0.links)
      /\ \A x, y \in d0.rows : x.kind = y.kind /\ x.id = y.id => x = y
      /\ \A row \in d0.rows : /\ row.kind \notin Tables /\ row.id \in Nat \ {0}
                              /\ DOMAIN row.refs = {r.name : r \in OwningRelations(row.kind)}
  BY RowFacts
<1>2. d.rows = {f[row] : row \in d0.rows} /\ d.links = d0.links /\ d = [rows |-> d.rows, links |-> d.links]
  BY <1>0
<1>3. IsFiniteSet(d.rows)
  BY <1>0, <1>1, <1>2, ImageFinite
<1>4. ASSUME NEW x \in d.rows, NEW y \in d.rows, x.kind = y.kind, x.id = y.id
      PROVE  x = y
  <2>1. PICK a \in d0.rows : x = f[a]
    BY <1>2
  <2>2. PICK b \in d0.rows : y = f[b]
    BY <1>2
  <2>3. a.kind = b.kind /\ a.id = b.id
    BY <1>0, <1>4, <2>1, <2>2
  <2> QED
    BY <1>1, <2>1, <2>2, <2>3
<1>5. ASSUME NEW x \in d.rows
      PROVE  /\ x = RowFields(x) /\ x.kind \notin Tables /\ x.id \in Nat \ {0}
             /\ DOMAIN x.refs = {r.name : r \in OwningRelations(x.kind)}
  <2>1. PICK a \in d0.rows : x = f[a]
    BY <1>2
  <2> QED
    BY <1>0, <1>1, <2>1
<1> QED
  BY <1>1, <1>2, <1>3, <1>4, <1>5 DEF RowsAreTyped, RowFields

LEMMA MapTouches ==
  ASSUME NEW d0, NEW f, NEW d, RowsMapped(d0, f, d), \A row \in d0.rows : RowTouched(row, f[row])
  PROVE  Touches(d0, d)
<1>1. /\ d.rows = {f[row] : row \in d0.rows}
      /\ \A row \in d0.rows : f[row].kind = row.kind /\ f[row].id = row.id
  BY DEF RowsMapped
<1>2. ASSUME NEW now \in d.rows
      PROVE  \/ Free(start.graph, start.db, now.kind, now.id)
             \/ \E old \in d0.rows :
                  /\ old.kind = now.kind /\ old.id = now.id /\ now.value = old.value
                  /\ \A r \in OwningRelations(old.kind) :
                       now.refs[r.name] # old.refs[r.name] => Held(start.graph, start.db, old.kind, old.id, r.name)
  <2>1. PICK old \in d0.rows : now = f[old]
    BY <1>1
  <2>2. RowTouched(old, now)
    BY <2>1
  <2> QED
    BY <1>1, <2>1, <2>2 DEF RowTouched
<1>3. ASSUME NEW old \in d0.rows
      PROVE  Stored(d, old.kind, old.id)
  <2>1. f[old] \in d.rows
    BY <1>1
  <2> QED
    BY <1>1, <2>1 DEF Stored
<1> QED
  BY <1>2, <1>3 DEF Touches

LEMMA SameSubjectsReady ==
  SameReady(Subjects)
  BY DEF SameReady

LEMMA WithRows ==
  ASSUME RowsAreTyped(db), NEW rows
  PROVE  [db EXCEPT !.rows = rows] = [rows |-> rows, links |-> db.links]
<1>1. db = [rows |-> db.rows, links |-> db.links]
  BY RowFacts
<1> QED
  BY <1>1

LEMMA WithLinks ==
  ASSUME RowsAreTyped(db), NEW links
  PROVE  [db EXCEPT !.links = links] = [rows |-> db.rows, links |-> links]
<1>1. db = [rows |-> db.rows, links |-> db.links]
  BY RowFacts
<1> QED
  BY <1>1

LEMMA MarkKeeps ==
  ASSUME IInv, NEW p, NEW deleted, Mark(p, deleted)
  PROVE  IInv'
<1> DEFINE s == Subjects[Head(todo)[1]]
           is(row) == row.kind = s.kind /\ row.id = s.ids[1]
           marked(row) == IF is(row) THEN [row EXCEPT !.deleted = deleted] ELSE row
           f == [row \in db.rows |-> marked(row)]
           rows == {marked(row) : row \in db.rows}
           d == [db EXCEPT !.rows = rows]
<1>1. status = "running" /\ todo # <<>> /\ Sent(d, Subjects, TRUE)
  BY DEF Mark, Running
<1>2. RowsAreTyped(db)
  BY DEF IInv, Typed
<1> HIDE DEF is, s
<1>3. ASSUME NEW row \in db.rows
      PROVE  /\ f[row] = RowFields(f[row]) /\ f[row].kind = row.kind /\ f[row].id = row.id
             /\ f[row].value = row.value /\ f[row].refs = row.refs
  <2>1. row = [kind |-> row.kind, id |-> row.id, deleted |-> row.deleted, value |-> row.value, refs |-> row.refs]
    BY <1>2, RowFacts DEF RowFields
  <2>2. CASE is(row)
    <3>1. f[row] = [row EXCEPT !.deleted = deleted]
      BY <2>2
    <3> HIDE DEF f
    <3> QED
      BY <2>1, <3>1 DEF RowFields
  <2>3. CASE ~is(row)
    <3>1. f[row] = row
      BY <2>3
    <3> HIDE DEF f
    <3> QED
      BY <2>1, <3>1 DEF RowFields
  <2> QED
    BY <2>2, <2>3
<1>4. DOMAIN f = db.rows /\ f = [row \in db.rows |-> f[row]] /\ rows = {f[row] : row \in db.rows}
  OBVIOUS
<1> HIDE DEF f, rows, marked
<1>5. d = [rows |-> {f[row] : row \in db.rows}, links |-> db.links]
  BY <1>2, <1>4, WithRows
<1> HIDE DEF d
<1>8. RowsMapped(db, f, d) /\ \A row \in db.rows : RowTouched(row, f[row])
  BY <1>3, <1>4, <1>5 DEF RowsMapped, RowTouched
<1>6. RowsAreTyped(d)
  BY <1>2, <1>8, MapRows
<1>7. Touches(db, d)
  BY <1>8, MapTouches
<1> QED
  BY <1>1, <1>6, <1>7, SubjectsFacts, SameSubjectsReady, SentKeeps

(***************************************************************************)
(* Updates.                                                                *)
(***************************************************************************)
LEMMA ValueSetOn ==
  ASSUME NEW list, NEW s
  PROVE  DOMAIN ValueSet(list, s) \subseteq {c.on : c \in ToSet(s.changes)}
  BY DEF ValueSet, ToSet

LEMMA PopFacts ==
  ASSUME NEW list, NEW s, Shaped(s)
  PROVE  LET t == Pop(list, s)
         IN /\ t = [f \in Fields |-> t[f]] /\ t.changes \in Seq(ToSet(t.changes)) /\ ToSet(t.changes) \subseteq ToSet(s.changes)
            /\ t.kind = s.kind /\ t.object = s.object /\ t.ids = s.ids /\ t.inserted = s.inserted
            /\ t.canBeInserted = s.canBeInserted /\ t.mustBeRemoved = s.mustBeRemoved
<1> DEFINE places == {j \in DOMAIN s.changes : Deferred(list, s.changes[j])}
           later == Picked(s.changes, places)
           t == [s EXCEPT !.changes = later, !.canBeUpdated = @ \/ later # <<>>]
<1>1. Pop(list, s) = t
  BY DEF Pop
<1>2. s.changes \in Seq(ToSet(s.changes)) /\ s = [f \in Fields |-> s[f]]
  BY DEF Shaped
<1>3. places \in SUBSET DOMAIN s.changes
  OBVIOUS
<1> HIDE DEF places
<1>4. later \in Seq(ToSet(s.changes))
  BY <1>2, <1>3, PickedIn
<1> HIDE DEF later
<1>5. /\ t = [f \in Fields |-> t[f]] /\ t.changes = later
      /\ t.kind = s.kind /\ t.object = s.object /\ t.ids = s.ids /\ t.inserted = s.inserted
      /\ t.canBeInserted = s.canBeInserted /\ t.mustBeRemoved = s.mustBeRemoved
  BY <1>2 DEF Fields
<1> HIDE DEF t
<1> QED
  BY <1>1, <1>4, <1>5, SeqOfItsOwn

LEMMA PopIsLawful ==
  ASSUME NEW list, NEW memory, NEW g, NEW d, NEW s, Lawful(memory, g, d, s)
  PROVE  Lawful(memory, g, d, Pop(list, s))
<1> DEFINE t == Pop(list, s)
<1>1. Shaped(s)
  BY DEF Lawful
<1>2. /\ t = [f \in Fields |-> t[f]] /\ t.changes \in Seq(ToSet(t.changes)) /\ ToSet(t.changes) \subseteq ToSet(s.changes)
      /\ t.kind = s.kind /\ t.object = s.object /\ t.ids = s.ids /\ t.inserted = s.inserted
      /\ t.canBeInserted = s.canBeInserted /\ t.mustBeRemoved = s.mustBeRemoved
  BY <1>1, PopFacts
<1> HIDE DEF t
<1>3. Shaped(t)
  BY <1>1, <1>2 DEF Shaped
<1>4. ASSUME Own(memory, g, d, s)
      PROVE  Lawful(memory, g, d, t)
  <2>1. /\ s.object \in Operated /\ s.kind = m.kindOf[s.object]
        /\ \A i \in DOMAIN s.ids : s.ids[i] \in Nat \ {0} /\ Free(g, d, s.kind, s.ids[i])
        /\ s.canBeInserted => mode = "save"
        /\ s.mustBeRemoved => mode = "remove"
        /\ s.inserted => s.ids # <<>>
    BY <1>4 DEF Own
  <2>2. (t.canBeInserted => mode = "save") /\ (t.mustBeRemoved => mode = "remove") /\ (t.inserted => t.ids # <<>>)
    BY <1>2, <2>1, Zenon
  <2>3. \A c \in ToSet(s.changes) : IsOwnChange(memory, s, c)
    BY <1>4 DEF Own, IsOwnChange
  <2>4. \A c \in ToSet(t.changes) : IsOwnChange(memory, t, c)
    BY <1>2, <2>3 DEF IsOwnChange
  <2>5. Own(memory, g, d, t)
    BY <1>2, <2>1, <2>2, <2>4 DEF Own, IsOwnChange
  <2> QED
    BY <1>3, <2>5 DEF Lawful
<1>5. ASSUME Link(s)
      PROVE  Lawful(memory, g, d, t)
  BY <1>2, <1>3, <1>5 DEF Lawful, Link
<1>6. ASSUME Bare(g, d, s)
      PROVE  Lawful(memory, g, d, t)
  <2>1. /\ s.object = "" /\ s.kind \notin Tables /\ ~s.canBeInserted /\ Len(s.ids) = 1
        /\ Free(g, d, s.kind, s.ids[1]) \/
             /\ \A c \in ToSet(s.changes) : c.on # "value" /\ Held(g, d, s.kind, s.ids[1], c.on)
             /\ s.mustBeRemoved => Orphaned(g, d, s.kind, s.ids[1])
    BY <1>6 DEF Bare
  <2>2. ~t.canBeInserted
    BY <1>2, <2>1, Zenon
  <2>3. (s.mustBeRemoved => Orphaned(g, d, s.kind, s.ids[1])) => (t.mustBeRemoved => Orphaned(g, d, s.kind, s.ids[1]))
    BY <1>2, Zenon
  <2>4. Bare(g, d, t)
    BY <1>2, <2>1, <2>2, <2>3 DEF Bare
  <2> QED
    BY <1>3, <2>4 DEF Lawful
<1>7. Lawful(memory, g, d, t)
  BY <1>4, <1>5, <1>6 DEF Lawful
<1> QED
  BY <1>7 DEF t

LEMMA ReplacedIsLawful ==
  ASSUME NEW memory, NEW g, NEW d, NEW list, AllLawful(memory, g, d, list), NEW i \in DOMAIN list, NEW s, Lawful(memory, g, d, s)
  PROVE  AllLawful(memory, g, d, [list EXCEPT ![i] = s])
<1> DEFINE S == ToSet(list) \union {s}
           after == [list EXCEPT ![i] = s]
<1>1. list \in Seq(ToSet(list)) /\ \A x \in S : Lawful(memory, g, d, x)
  BY DEF AllLawful
<1>2. ToSet(list) \subseteq S /\ s \in S
  OBVIOUS
<1> HIDE DEF S
<1>3. list \in Seq(S)
  BY <1>1, <1>2, WiderList
<1>4. after \in Seq(S)
  BY <1>2, <1>3
<1> HIDE DEF after
<1>5. after \in Seq(ToSet(after)) /\ ToSet(after) \subseteq S
  BY <1>4, SeqOfItsOwn
<1>6. AllLawful(memory, g, d, after)
  BY <1>1, <1>5 DEF AllLawful
<1> QED
  BY <1>6 DEF after

\* The rows that a subject stands for.
LEMMA LawfulUpdate ==
  ASSUME IInv, NEW s, Lawful(graph, start.graph, start.db, s), s.ids # <<>>, NEW row \in db.rows, row.kind = s.kind, row.id = s.ids[1]
  PROVE  \/ Free(start.graph, start.db, row.kind, row.id)
         \/ /\ \A c \in ToSet(s.changes) : c.on # "value" /\ Held(start.graph, start.db, row.kind, row.id, c.on)
            /\ s.mustBeRemoved => Orphaned(start.graph, start.db, row.kind, row.id)
<1>1. row.kind \notin Tables
  BY RowFacts DEF IInv, Typed
<1>2. CASE Own(graph, start.graph, start.db, s)
  <2>1. s.ids \in Seq(ToSet(s.ids))
    BY DEF Lawful, Shaped
  <2>2. 1 \in DOMAIN s.ids
    BY <2>1, FirstIn
  <2> QED
    BY <1>2, <2>2 DEF Own
<1>3. CASE Link(s)
  BY <1>1, <1>3 DEF Link
<1>4. CASE Bare(start.graph, start.db, s)
  BY <1>4 DEF Bare
<1> QED
  BY <1>2, <1>3, <1>4 DEF Lawful

LEMMA UpdateKeeps ==
  ASSUME IInv, Update
  PROVE  IInv'
<1> DEFINE i == Head(todo)[1]
           s == Subjects[i]
           set == ValueSet(Subjects, s)
           is(row) == row.kind = s.kind /\ row.id = s.ids[1]
           changed(row) == IF is(row) THEN Updated(row, set) ELSE row
           f == [row \in db.rows |-> changed(row)]
           rows == {changed(row) : row \in db.rows}
           d == [db EXCEPT !.rows = rows]
           list == [Subjects EXCEPT ![i] = Pop(Subjects, s)]
<1>1. status = "running" /\ phase = "updating" /\ todo # <<>>
  BY DEF Update, Running
<1>2. \/ Reject
      \/ Sent(d, list, \E on \in DOMAIN set : on = "value" \/ set[on] # 0)
  BY DEF Update
<1>3. CASE Reject
  BY <1>3, RejectKeeps
<1>4. CASE Sent(d, list, \E on \in DOMAIN set : on = "value" \/ set[on] # 0)
  <2>1. RowsAreTyped(db)
    BY DEF IInv, Typed
  <2>2. i \in DOMAIN Subjects /\ s.ids # <<>>
    <3>1. todo \in Seq(ToSet(todo)) /\ \A g \in ToSet(todo) : Group(Subjects, phase, g)
      BY <1>1 DEF IInv, GroupsAreReady
    <3>2. Group(Subjects, "updating", Head(todo))
      BY <1>1, <3>1, TailIn
    <3>3. Head(todo) \in Seq(DOMAIN Subjects) /\ Head(todo) # <<>>
      BY <3>2 DEF Group
    <3>4. Head(todo)[1] \in ToSet(Head(todo)) /\ Head(todo)[1] \in DOMAIN Subjects
      BY <3>3, FirstIn
    <3>5. Ready("updating", Subjects[Head(todo)[1]])
      BY <3>2, <3>4 DEF Group
    <3> QED
      BY <3>4, <3>5 DEF Ready
  <2>3. Lawful(graph, start.graph, start.db, s) /\ AllLawful(graph, start.graph, start.db, Subjects)
    BY <1>1, <2>2, SubjectsFacts
  <2>4. AllLawful(graph, start.graph, start.db, list)
    <3>1. Lawful(graph, start.graph, start.db, Pop(Subjects, s))
      BY <2>3, PopIsLawful
    <3> HIDE DEF i, s
    <3> QED
      BY <2>2, <2>3, <3>1, ReplacedIsLawful
  <2>5. SameReady(list)
    <3> DEFINE t == Pop(Subjects, s)
    <3>1. t.kind = s.kind /\ t.ids = s.ids /\ t.canBeInserted = s.canBeInserted /\ t.mustBeRemoved = s.mustBeRemoved
      BY <2>3, PopFacts DEF Lawful
    <3>2. DOMAIN list = DOMAIN Subjects
          /\ \A j \in DOMAIN Subjects : list[j] = IF j = i THEN t ELSE Subjects[j]
      BY <2>2
    <3> HIDE DEF t, list, i
    <3> QED
      BY <3>1, <3>2 DEF SameReady, s
  <2>6. \A row \in db.rows : is(row) =>
           \/ Free(start.graph, start.db, row.kind, row.id)
           \/ \A c \in ToSet(s.changes) : c.on # "value" /\ Held(start.graph, start.db, row.kind, row.id, c.on)
    <3> HIDE DEF s
    <3> QED
      BY <2>2, <2>3, LawfulUpdate
  <2>7. DOMAIN set \subseteq {c.on : c \in ToSet(s.changes)}
    BY ValueSetOn
  <2> DEFINE F(row) == Free(start.graph, start.db, row.kind, row.id)
             H(row, name) == Held(start.graph, start.db, row.kind, row.id, name)
             changes == ToSet(s.changes)
  <2>8. \A row \in db.rows : is(row) => F(row) \/ \A c \in changes : c.on # "value" /\ H(row, c.on)
    BY <2>6
  <2>9. \A on \in DOMAIN set : \E c \in changes : on = c.on
    BY <2>7
  <2> HIDE DEF set, is, s, i, changes, F, H
  <2>10. ASSUME NEW row \in db.rows
         PROVE  /\ f[row] = RowFields(f[row]) /\ f[row].kind = row.kind /\ f[row].id = row.id
                /\ DOMAIN f[row].refs = DOMAIN row.refs
                /\ F(row) \/ (f[row].value = row.value
                              /\ \A r \in OwningRelations(row.kind) : f[row].refs[r.name] # row.refs[r.name] => H(row, r.name))
    <3>1. row = [kind |-> row.kind, id |-> row.id, deleted |-> row.deleted, value |-> row.value, refs |-> row.refs]
          /\ DOMAIN row.refs = {r.name : r \in OwningRelations(row.kind)}
      BY <2>1, RowFacts DEF RowFields
    <3>2. CASE is(row)
      <4> DEFINE value == IF "value" \in DOMAIN set THEN set["value"] ELSE row.value
                 refs == [n \in DOMAIN row.refs |-> IF n \in DOMAIN set THEN set[n] ELSE row.refs[n]]
      <4>1. f[row] = [row EXCEPT !.value = value, !.refs = refs]
        BY <3>2 DEF Updated
      <4>2. DOMAIN refs = DOMAIN row.refs /\ \A n \in DOMAIN row.refs : n \notin DOMAIN set => refs[n] = row.refs[n]
        OBVIOUS
      <4>3. "value" \notin DOMAIN set => value = row.value
        OBVIOUS
      <4> HIDE DEF value, refs, f
      <4>4. f[row] = [kind |-> row.kind, id |-> row.id, deleted |-> row.deleted, value |-> value, refs |-> refs]
        BY <3>1, <4>1
      <4>5. F(row) \/ ("value" \notin DOMAIN set /\ \A n \in DOMAIN set : H(row, n))
        BY <2>8, <2>9, <3>2
      <4> QED
        BY <3>1, <4>2, <4>3, <4>4, <4>5 DEF RowFields
    <3>3. CASE ~is(row)
      <4>1. f[row] = row
        BY <3>3
      <4> HIDE DEF f
      <4> QED
        BY <3>1, <4>1 DEF RowFields
    <3> QED
      BY <3>2, <3>3
  <2>11. DOMAIN f = db.rows /\ f = [row \in db.rows |-> f[row]] /\ rows = {f[row] : row \in db.rows}
    OBVIOUS
  <2> HIDE DEF f, rows, changed
  <2>12. d = [rows |-> {f[row] : row \in db.rows}, links |-> db.links]
    BY <2>1, <2>11, WithRows
  <2> HIDE DEF d, list
  <2>15. RowsMapped(db, f, d)
    BY <2>10, <2>11, <2>12 DEF RowsMapped
  <2>16. \A row \in db.rows : RowTouched(row, f[row])
    BY <2>10 DEF RowTouched, F, H
  <2>13. RowsAreTyped(d)
    BY <2>1, <2>15, MapRows
  <2>14. Touches(db, d)
    BY <2>15, <2>16, MapTouches
  <2> QED
    BY <1>1, <1>4, <2>4, <2>5, <2>13, <2>14, SentKeeps
<1> QED
  BY <1>2, <1>3, <1>4

(***************************************************************************)
(* Removals.                                                               *)
(***************************************************************************)
LEMMA FewerRows ==
  ASSUME NEW d0, RowsAreTyped(d0), NEW rows \in SUBSET d0.rows, NEW links \in SUBSET d0.links,
         NEW d, d = [rows |-> rows, links |-> links],
         \A row \in d0.rows \ rows : Free(start.graph, start.db, row.kind, row.id) \/ Orphaned(start.graph, start.db, row.kind, row.id)
  PROVE  RowsAreTyped(d) /\ Touches(d0, d)
<1>1. d.rows = rows /\ d.links = links /\ d = [rows |-> d.rows, links |-> d.links]
  OBVIOUS
<1>2. /\ IsFiniteSet(d0.rows) /\ IsFiniteSet(d0.links)
      /\ \A x, y \in d0.rows : x.kind = y.kind /\ x.id = y.id => x = y
      /\ \A row \in d0.rows : /\ row = RowFields(row) /\ row.kind \notin Tables /\ row.id \in Nat \ {0}
                              /\ DOMAIN row.refs = {r.name : r \in OwningRelations(row.kind)}
  BY RowFacts
<1>3. IsFiniteSet(rows) /\ IsFiniteSet(links)
  BY <1>2, FS_Subset
<1>4. RowsAreTyped(d)
  BY <1>1, <1>2, <1>3 DEF RowsAreTyped, RowFields
<1>5. \A row \in rows : Stored(d, row.kind, row.id)
  BY <1>1 DEF Stored
<1>6. Touches(d0, d)
  BY <1>1, <1>5 DEF Touches
<1> QED
  BY <1>4, <1>6

LEMMA RemoveRowsKeeps ==
  ASSUME IInv, RemoveRows
  PROVE  IInv'
<1> DEFINE group == Head(todo)
           kind == Subjects[group[1]].kind
           ids == {Subjects[i].ids : i \in ToSet(group)}
           junction == \E r \in ToSet(m.relations) : r.type = "manyToMany" /\ r.table = kind
           kept == {l \in db.links : l.table # kind \/ <<l.owner, l.inverse>> \notin ids}
           firsts == {id[1] : id \in ids}
           without == WithoutRows(db, kind, firsts)
           after == IF junction THEN [db EXCEPT !.links = kept] ELSE without
<1>1. status = "running" /\ phase = "removing" /\ todo # <<>>
  BY DEF RemoveRows, Running
<1>2. Reject \/ Sent(after, Subjects, TRUE)
  BY DEF RemoveRows
<1>3. CASE Reject
  BY <1>3, RejectKeeps
<1>4. CASE Sent(after, Subjects, TRUE)
  <2>1. RowsAreTyped(db)
    BY DEF IInv, Typed
  <2>2. Group(Subjects, "removing", group)
    <3>1. todo \in Seq(ToSet(todo)) /\ \A g \in ToSet(todo) : Group(Subjects, phase, g)
      BY <1>1 DEF IInv, GroupsAreReady
    <3> QED
      BY <1>1, <3>1, TailIn
  <2>3. /\ group \in Seq(DOMAIN Subjects)
        /\ \A i, j \in ToSet(group) : Subjects[i].kind = Subjects[j].kind
        /\ \A i \in ToSet(group) : Subjects[i].mustBeRemoved /\ Subjects[i].ids # <<>>
    BY <2>2 DEF Group, Ready
  <2>4. ToSet(group) \subseteq DOMAIN Subjects
    BY <2>3, SeqOfItsOwn
  <2>5. \A i \in ToSet(group) : Subjects[i].kind = kind
    <3> TAKE i \in ToSet(group)
    <3>1. group # <<>>
      BY <2>3 DEF ToSet
    <3>2. group[1] \in ToSet(group)
      BY <2>3, <3>1, FirstIn
    <3> QED
      BY <2>3, <3>2
  <2>6. \A i \in DOMAIN Subjects : Lawful(graph, start.graph, start.db, Subjects[i])
    BY <1>1, SubjectsFacts
  <2> HIDE DEF kind, group
  <2>7. ASSUME NEW row \in db.rows, row.kind = kind, row.id \in firsts
        PROVE  Free(start.graph, start.db, row.kind, row.id) \/ Orphaned(start.graph, start.db, row.kind, row.id)
    <3>1. PICK i \in ToSet(group) : row.id = Subjects[i].ids[1]
      BY <2>7
    <3>2. /\ Lawful(graph, start.graph, start.db, Subjects[i])
          /\ Subjects[i].mustBeRemoved /\ Subjects[i].ids # <<>> /\ row.kind = Subjects[i].kind
      BY <2>3, <2>4, <2>5, <2>6, <2>7, <3>1
    <3> QED
      BY <3>1, <3>2, LawfulUpdate
  <2> HIDE DEF ids, firsts
  <2>8. RowsAreTyped(after) /\ Touches(db, after)
    <3>1. CASE junction
      <4>1. after = [rows |-> db.rows, links |-> kept]
        BY <2>1, <3>1, WithLinks
      <4>2. kept \in SUBSET db.links /\ db.rows \in SUBSET db.rows /\ db.rows \ db.rows = {}
        OBVIOUS
      <4> HIDE DEF kept, after
      <4> QED
        BY <2>1, <4>1, <4>2, FewerRows
    <3>2. CASE ~junction
      <4> DEFINE gone == {row \in db.rows : row.kind = kind /\ row.id \in firsts}
                 rows == db.rows \ gone
      <4>1. PICK links \in SUBSET db.links : without = [rows |-> rows, links |-> links]
        BY DEF WithoutRows
      <4>2. after = without
        BY <3>2
      <4>3. rows \in SUBSET db.rows
            /\ \A row \in db.rows \ rows : Free(start.graph, start.db, row.kind, row.id) \/ Orphaned(start.graph, start.db, row.kind, row.id)
        BY <2>7
      <4> HIDE DEF rows, after, without
      <4> QED
        BY <2>1, <4>1, <4>2, <4>3, FewerRows
    <3> QED
      BY <3>1, <3>2
  <2> HIDE DEF after
  <2> QED
    BY <1>1, <1>4, <2>8, SubjectsFacts, SameSubjectsReady, SentKeeps
<1> QED
  BY <1>2, <1>3, <1>4

(***************************************************************************)
(* Insertions.                                                             *)
(***************************************************************************)
LEMMA LastIdIn ==
  ASSUME IInv
  PROVE  LastId \in Nat /\ \A row \in start.db.rows : row.id <= LastId
<1> DEFINE A == {row.id : row \in saved.rows}
           B == {row.id : row \in db.rows}
           C == {graph[o].id : o \in DOMAIN graph}
           all == {0} \union A \union B \union C
<1>1. RowsAreTyped(saved) /\ RowsAreTyped(db) /\ saved = start.db /\ ObjectsAreTyped
  BY DEF IInv, Typed, StartIsTyped
<1>2. /\ IsFiniteSet(saved.rows) /\ IsFiniteSet(db.rows)
      /\ \A row \in saved.rows : row.id \in Nat
      /\ \A row \in db.rows : row.id \in Nat
  BY <1>1 DEF RowsAreTyped
<1>3. IsFiniteSet(DOMAIN graph) /\ \A o \in DOMAIN graph : graph[o].id \in Nat
  BY <1>1 DEF ObjectsAreTyped
<1>4. IsFiniteSet(A) /\ IsFiniteSet(B)
  BY <1>2, FieldFinite
<1>5. IsFiniteSet(C)
  <2> DEFINE f == [o \in DOMAIN graph |-> graph[o].id]
  <2>1. DOMAIN f = DOMAIN graph /\ f = [o \in DOMAIN graph |-> f[o]]
    OBVIOUS
  <2>2. C = {f[o] : o \in DOMAIN graph}
    OBVIOUS
  <2> HIDE DEF f, C
  <2> QED
    BY <1>3, <2>1, <2>2, ImageFinite
<1>6. IsFiniteSet(all)
  <2> HIDE DEF A, B, C
  <2>1. IsFiniteSet({0})
    BY FS_Singleton
  <2>2. IsFiniteSet({0} \union A)
    BY <1>4, <2>1, FS_Union
  <2>3. IsFiniteSet({0} \union A \union B)
    BY <1>4, <2>2, FS_Union
  <2> QED
    BY <1>5, <2>3, FS_Union
<1>7. all \in SUBSET Nat /\ all # {} /\ A \subseteq all
  BY <1>2, <1>3
<1>8. \A row \in start.db.rows : row.id \in all
  BY <1>1
<1>9. LastId = Max(all)
  BY DEF LastId
<1> HIDE DEF all
<1> QED
  BY <1>6, <1>7, <1>8, <1>9, MaxIn

\* An identifier that is set is that of the object.
LEMMA SetIdIs ==
  ASSUME IInv, NEW list, NEW s, Shaped(s), Own(graph, start.graph, start.db, s), s.canBeInserted, "id" \in DOMAIN ValueSet(list, s)
  PROVE  ValueSet(list, s)["id"] = graph[s.object].id /\ graph[s.object].id # 0
<1> DEFINE now == {j \in DOMAIN s.changes : ~Deferred(list, s.changes[j])}
           ofId == {j \in now : s.changes[j].on = "id"}
           c == s.changes[Max(ofId)]
<1>1. "id" \in {s.changes[j].on : j \in now} /\ ValueSet(list, s)["id"] = TargetId(list, c)
  BY DEF ValueSet
<1>2. ofId # {}
  BY <1>1
<1>3. s.changes \in Seq(ToSet(s.changes))
  BY DEF Shaped
<1>4. Len(s.changes) \in Nat /\ DOMAIN s.changes = 1..Len(s.changes)
      /\ \A j \in 1..Len(s.changes) : s.changes[j] \in ToSet(s.changes)
  BY <1>3, ListFacts
<1>5. ofId \in SUBSET (1..Len(s.changes))
  BY <1>4
<1>6. Max(ofId) \in ofId
  <2> HIDE DEF ofId
  <2>1. IsFiniteSet(ofId)
    BY <1>4, <1>5, PlacesFinite
  <2>2. ofId \in SUBSET Nat
    BY <1>5
  <2> QED
    BY <1>2, <2>1, <2>2, MaxIn
<1>7. c \in ToSet(s.changes) /\ c.on = "id"
  BY <1>4, <1>6
<1> HIDE DEF c
<1>8. c.subject = 0 /\ c.object = s.object /\ graph[s.object].id # 0
  BY <1>7, Zenon DEF Own
<1>9. s.object # ""
  <2>1. s.object \in DOMAIN graph
    BY OperatedAreObjects DEF Own
  <2> QED
    BY <2>1 DEF IInv, Typed, ObjectsAreTyped
<1> QED
  BY <1>1, <1>8, <1>9 DEF TargetId

IdOfNew(group, i) ==
  LET set == ValueSet(Subjects, Subjects[i])
      place == CHOOSE j \in DOMAIN group : group[j] = i
  IN IF "id" \in DOMAIN set THEN set["id"] ELSE LastId + place

LEMMA IdOfNewIsFree ==
  ASSUME IInv, NEW group, group \in Seq(DOMAIN Subjects), NEW i \in ToSet(group), Shaped(Subjects[i]),
         Own(graph, start.graph, start.db, Subjects[i]), Subjects[i].canBeInserted
  PROVE  IdOfNew(group, i) \in Nat \ {0} /\ Free(start.graph, start.db, Subjects[i].kind, IdOfNew(group, i))
<1> DEFINE s == Subjects[i]
           set == ValueSet(Subjects, s)
           place == CHOOSE j \in DOMAIN group : group[j] = i
<1>1. CASE "id" \in DOMAIN set
  <2>1. IdOfNew(group, i) = set["id"]
    BY <1>1 DEF IdOfNew
  <2>2. set["id"] = graph[s.object].id /\ graph[s.object].id # 0
    BY <1>1, SetIdIs
  <2>3. s.object \in Operated /\ s.kind = m.kindOf[s.object]
    BY DEF Own
  <2> HIDE DEF s, set
  <2>4. s.object \in DOMAIN graph
    BY <2>3, OperatedAreObjects
  <2>5. graph[s.object].id \in Nat
    BY <2>4 DEF IInv, Typed, ObjectsAreTyped
  <2>6. Free(start.graph, start.db, s.kind, graph[s.object].id)
    BY <2>3, <2>4 DEF IInv, IdsAreFree
  <2> QED
    BY <2>1, <2>2, <2>5, <2>6 DEF s
<1>2. CASE "id" \notin DOMAIN set
  <2>1. IdOfNew(group, i) = LastId + place
    BY <1>2 DEF IdOfNew
  <2>2. place \in DOMAIN group
    BY DEF ToSet
  <2>3. place \in Nat \ {0}
    <3>1. Len(group) \in Nat /\ DOMAIN group = 1..Len(group)
      BY ListFacts
    <3> HIDE DEF place
    <3> QED
      BY <2>2, <3>1
  <2> HIDE DEF place
  <2>4. LastId \in Nat /\ \A row \in start.db.rows : row.id <= LastId
    BY LastIdIn
  <2>5. \A row \in start.db.rows : row.id \in Nat
    BY DEF IInv, StartIsTyped, RowsAreTyped
  <2>6. LastId + place \in Nat \ {0} /\ \A row \in start.db.rows : row.id # LastId + place
    <3> DEFINE last == LastId
    <3>1. last \in Nat /\ \A row \in start.db.rows : row.id <= last
      BY <2>4
    <3> HIDE DEF last
    <3>2. last + place \in Nat \ {0} /\ last + place > last
      BY <2>3, <3>1
    <3>3. ASSUME NEW row \in start.db.rows PROVE row.id # last + place
      BY <2>3, <2>5, <3>1
    <3> QED
      BY <3>2, <3>3 DEF last
  <2> QED
    BY <2>1, <2>6 DEF Free
<1> QED
  BY <1>1, <1>2

Inserted(list, s, ids) == [Pop(list, s) EXCEPT !.inserted = TRUE, !.ids = ids]
IdsAreOwn(memory, g, d, s, ids) ==
  Own(memory, g, d, s) => \A i \in DOMAIN ids : ids[i] \in Nat \ {0} /\ Free(g, d, s.kind, ids[i])

\* What an inserted subject is.
LEMMA InsertedIsLawful ==
  ASSUME NEW list, NEW memory, NEW g, NEW d, NEW s, Lawful(memory, g, d, s), ~Bare(g, d, s), NEW ids, ids \in Seq(ToSet(ids)), ids # <<>>,
         IdsAreOwn(memory, g, d, s, ids), NEW new, new = Inserted(list, s, ids)
  PROVE  /\ Lawful(memory, g, d, new)
         /\ new.kind = s.kind /\ new.canBeInserted = s.canBeInserted /\ new.mustBeRemoved = s.mustBeRemoved /\ new.ids = ids
<1> DEFINE p == Pop(list, s)
           t == [p EXCEPT !.inserted = TRUE, !.ids = ids]
<1>1. Shaped(s)
  BY DEF Lawful
<1>2. /\ p = [f \in Fields |-> p[f]] /\ p.changes \in Seq(ToSet(p.changes)) /\ ToSet(p.changes) \subseteq ToSet(s.changes)
      /\ p.kind = s.kind /\ p.object = s.object
      /\ p.canBeInserted = s.canBeInserted /\ p.mustBeRemoved = s.mustBeRemoved
  BY <1>1, PopFacts
<1> HIDE DEF p
<1>3. /\ t = [f \in Fields |-> t[f]] /\ t.changes = p.changes
      /\ t.kind = p.kind /\ t.object = p.object /\ t.ids = ids
      /\ t.canBeInserted = p.canBeInserted /\ t.mustBeRemoved = p.mustBeRemoved
  BY <1>2 DEF Fields
<1> HIDE DEF t
<1>4. Shaped(t)
  BY <1>2, <1>3 DEF Shaped
<1>5. ASSUME Own(memory, g, d, s)
      PROVE  Lawful(memory, g, d, t)
  <2>1. /\ s.object \in Operated /\ s.kind = m.kindOf[s.object]
        /\ s.canBeInserted => mode = "save"
        /\ s.mustBeRemoved => mode = "remove"
    BY <1>5 DEF Own
  <2>2. (t.canBeInserted => mode = "save") /\ (t.mustBeRemoved => mode = "remove")
    BY <1>2, <1>3, <2>1, Zenon
  <2>3. \A c \in ToSet(s.changes) : IsOwnChange(memory, s, c)
    BY <1>5 DEF Own, IsOwnChange
  <2>4. \A c \in ToSet(t.changes) : IsOwnChange(memory, t, c)
    BY <1>2, <1>3, <2>3 DEF IsOwnChange
  <2>5. \A i \in DOMAIN t.ids : t.ids[i] \in Nat \ {0} /\ Free(g, d, t.kind, t.ids[i])
    BY <1>2, <1>3, <1>5 DEF IdsAreOwn
  <2>6. t.object \in Operated /\ t.kind = m.kindOf[t.object]
    BY <1>2, <1>3, <2>1
  <2>7. t.inserted => t.ids # <<>>
    BY <1>3
  <2>8. Own(memory, g, d, t)
    BY <2>2, <2>4, <2>5, <2>6, <2>7 DEF Own, IsOwnChange
  <2> QED
    BY <1>4, <2>8 DEF Lawful
<1>6. ASSUME Link(s)
      PROVE  Lawful(memory, g, d, t)
  BY <1>2, <1>3, <1>4, <1>6 DEF Lawful, Link
<1>7. Lawful(memory, g, d, t)
  BY <1>5, <1>6 DEF Lawful
<1> QED
  BY <1>2, <1>3, <1>7 DEF t, p, Inserted

\* A group inserts rows of entities or rows of a junction table.
LEMMA GroupIsOfOne ==
  ASSUME IInv, status = "running", NEW group, Group(Subjects, "inserting", group)
  PROVE  /\ group \in Seq(DOMAIN Subjects) /\ ToSet(group) \subseteq DOMAIN Subjects /\ IsFiniteSet(ToSet(group))
         /\ \A i \in ToSet(group) :
              /\ Lawful(graph, start.graph, start.db, Subjects[i]) /\ Subjects[i].canBeInserted
              /\ Subjects[i].kind = Subjects[group[1]].kind
              /\ IF Subjects[group[1]].object = "" THEN Link(Subjects[i])
                 ELSE Own(graph, start.graph, start.db, Subjects[i])
<1>1. /\ group \in Seq(DOMAIN Subjects)
      /\ \A i, j \in ToSet(group) : Subjects[i].kind = Subjects[j].kind
      /\ \A i \in ToSet(group) : Subjects[i].canBeInserted
  BY DEF Group, Ready
<1>2. ToSet(group) \subseteq DOMAIN Subjects
  BY <1>1, SeqOfItsOwn
<1>3. Len(Subjects) \in Nat /\ DOMAIN Subjects = 1..Len(Subjects)
      /\ \A i \in DOMAIN Subjects : Lawful(graph, start.graph, start.db, Subjects[i])
  BY SubjectsFacts
<1>4. IsFiniteSet(ToSet(group))
  BY <1>2, <1>3, PlacesFinite
<1>5. \A s : Lawful(graph, start.graph, start.db, s) /\ s.canBeInserted =>
        \/ Link(s) /\ s.object = "" /\ s.kind \in Tables
        \/ Own(graph, start.graph, start.db, s) /\ s.object # "" /\ s.kind \notin Tables
  <2> TAKE s
  <2> HAVE Lawful(graph, start.graph, start.db, s) /\ s.canBeInserted
  <2>1. CASE Link(s)
    BY <2>1 DEF Link
  <2>2. CASE Own(graph, start.graph, start.db, s)
    <3>1. s.object \in Operated /\ s.kind = m.kindOf[s.object]
      BY <2>2 DEF Own
    <3>2. s.object \in DOMAIN graph
      BY <3>1, OperatedAreObjects
    <3> QED
      BY <2>2, <3>1, <3>2, ObjectFacts DEF IInv, Typed
  <2>3. CASE Bare(graph, start.db, s)
    BY <2>3 DEF Bare
  <2> QED
    BY <2>1, <2>2, <2>3 DEF Lawful, Bare
<1>6. ASSUME NEW i \in ToSet(group)
      PROVE  /\ Lawful(graph, start.graph, start.db, Subjects[i]) /\ Subjects[i].canBeInserted
             /\ Subjects[i].kind = Subjects[group[1]].kind
             /\ IF Subjects[group[1]].object = "" THEN Link(Subjects[i])
                ELSE Own(graph, start.graph, start.db, Subjects[i])
  <2>1. group # <<>>
    BY DEF ToSet
  <2>2. group[1] \in ToSet(group)
    BY <1>1, <2>1, FirstIn
  <2>3. \A j \in ToSet(group) :
          \/ Link(Subjects[j]) /\ Subjects[j].object = "" /\ Subjects[j].kind \in Tables
          \/ Own(graph, start.graph, start.db, Subjects[j]) /\ Subjects[j].object # "" /\ Subjects[j].kind \notin Tables
    BY <1>1, <1>2, <1>3, <1>5
  <2>4. Subjects[i].kind = Subjects[group[1]].kind
    BY <1>1, <2>2
  <2> QED
    BY <1>1, <1>2, <1>3, <2>2, <2>3, <2>4
<1> QED
  BY <1>1, <1>2, <1>4, <1>6

LEMMA NewRowFacts ==
  ASSUME NEW kind, NEW id, NEW set, NEW row, row = NewRow(kind, id, set)
  PROVE  row = RowFields(row) /\ row.kind = kind /\ row.id = id /\ DOMAIN row.refs = {r.name : r \in OwningRelations(kind)}
  BY DEF NewRow, RowFields

LEMMA MoreRows ==
  ASSUME NEW d0, RowsAreTyped(d0), NEW new, IsFiniteSet(new), NEW d, d = [rows |-> d0.rows \union new, links |-> d0.links],
         \A row \in new : /\ row = RowFields(row) /\ row.kind \notin Tables /\ row.id \in Nat \ {0}
                          /\ DOMAIN row.refs = {r.name : r \in OwningRelations(row.kind)}
                          /\ Free(start.graph, start.db, row.kind, row.id),
         Valid(d)
  PROVE  RowsAreTyped(d) /\ Touches(d0, d)
<1>1. d.rows = d0.rows \union new /\ d.links = d0.links /\ d = [rows |-> d.rows, links |-> d.links]
  OBVIOUS
<1>2. /\ IsFiniteSet(d0.rows) /\ IsFiniteSet(d0.links)
      /\ \A row \in d0.rows : /\ row = RowFields(row) /\ row.kind \notin Tables /\ row.id \in Nat \ {0}
                              /\ DOMAIN row.refs = {r.name : r \in OwningRelations(row.kind)}
  BY RowFacts
<1>3. IsFiniteSet(d.rows)
  BY <1>1, <1>2, FS_Union
<1>4. \A x, y \in d.rows : x.kind = y.kind /\ x.id = y.id => x = y
  BY DEF Valid
<1>5. RowsAreTyped(d)
  BY <1>1, <1>2, <1>3, <1>4 DEF RowsAreTyped, RowFields
<1>6. \A row \in d0.rows : Stored(d, row.kind, row.id)
  BY <1>1 DEF Stored
<1>7. Touches(d0, d)
  BY <1>1, <1>6 DEF Touches
<1> QED
  BY <1>5, <1>7

\* Some of a list's subjects replaced.
LEMMA SomeReplaced ==
  ASSUME NEW list, AllLawful(graph, start.graph, start.db, list), NEW next, DOMAIN next = DOMAIN list,
         next = [i \in DOMAIN list |-> next[i]],
         \A i \in DOMAIN list : Lawful(graph, start.graph, start.db, next[i])
  PROVE  AllLawful(graph, start.graph, start.db, next)
<1> DEFINE S == {next[i] : i \in DOMAIN list}
<1>1. list \in Seq(ToSet(list))
  BY DEF AllLawful
<1>2. Len(list) \in Nat /\ DOMAIN list = 1..Len(list)
  BY <1>1, ListFacts
<1>3. \A i \in 1..Len(list) : next[i] \in S
  BY <1>2
<1>4. \A s \in S : Lawful(graph, start.graph, start.db, s)
  OBVIOUS
<1> HIDE DEF S
<1>5. next \in Seq(S)
  BY <1>2, <1>3, IndexedIn
<1>6. next \in Seq(ToSet(next)) /\ ToSet(next) \subseteq S
  BY <1>5, SeqOfItsOwn
<1> QED
  BY <1>4, <1>6 DEF AllLawful

LEMMA InsertKeeps ==
  ASSUME IInv, Insert
  PROVE  IInv'
<1> DEFINE group == Head(todo)
           set(i) == ValueSet(Subjects, Subjects[i])
           kind == Subjects[group[1]].kind
           junction == Subjects[group[1]].object = ""
           link(i) == [table |-> kind, owner |-> set(i)["owner"], inverse |-> set(i)["inverse"]]
           row(i) == NewRow(kind, IdOfNew(group, i), set(i))
           new == {row(i) : i \in ToSet(group)}
           links == {link(i) : i \in ToSet(group)}
           after == IF junction THEN [db EXCEPT !.links = @ \union links] ELSE [db EXCEPT !.rows = @ \union new]
           ids(i) == IF junction THEN <<link(i).owner, link(i).inverse>> ELSE <<IdOfNew(group, i)>>
           inserted(i) == [Pop(Subjects, Subjects[i]) EXCEPT !.inserted = TRUE, !.ids = ids(i)]
           list == [i \in DOMAIN Subjects |-> IF i \notin ToSet(group) THEN Subjects[i] ELSE inserted(i)]
<1>1. status = "running" /\ phase = "inserting" /\ todo # <<>>
  BY DEF Insert, Running
<1>2. Reject \/ (Sent(after, list, TRUE) /\ (junction \/ Valid(after)))
  BY DEF Insert, IdOfNew
<1>3. CASE Reject
  BY <1>3, RejectKeeps
<1>4. CASE Sent(after, list, TRUE) /\ (junction \/ Valid(after))
  <2>1. RowsAreTyped(db)
    BY DEF IInv, Typed
  <2>2. Group(Subjects, "inserting", group)
    <3>1. todo \in Seq(ToSet(todo)) /\ \A g \in ToSet(todo) : Group(Subjects, phase, g)
      BY <1>1 DEF IInv, GroupsAreReady
    <3> QED
      BY <1>1, <3>1, TailIn
  <2> HIDE DEF group
  <2>3. /\ group \in Seq(DOMAIN Subjects) /\ ToSet(group) \subseteq DOMAIN Subjects /\ IsFiniteSet(ToSet(group))
        /\ \A i \in ToSet(group) :
             /\ Lawful(graph, start.graph, start.db, Subjects[i]) /\ Subjects[i].canBeInserted
             /\ Subjects[i].kind = kind
             /\ IF junction THEN Link(Subjects[i]) ELSE Own(graph, start.graph, start.db, Subjects[i])
    BY <1>1, <2>2, GroupIsOfOne
  <2> HIDE DEF kind, junction
  <2>4. \A i \in ToSet(group) : ~junction =>
          /\ IdOfNew(group, i) \in Nat \ {0} /\ Free(start.graph, start.db, kind, IdOfNew(group, i))
          /\ kind \notin Tables
    <3> TAKE i \in ToSet(group)
    <3> HAVE ~junction
    <3>1. Shaped(Subjects[i]) /\ Own(graph, start.graph, start.db, Subjects[i]) /\ Subjects[i].canBeInserted /\ Subjects[i].kind = kind
      BY <2>3 DEF Lawful
    <3>2. IdOfNew(group, i) \in Nat \ {0} /\ Free(start.graph, start.db, kind, IdOfNew(group, i))
      BY <2>3, <3>1, IdOfNewIsFree
    <3>3. Subjects[i].object \in Operated /\ kind = m.kindOf[Subjects[i].object]
      BY <3>1 DEF Own
    <3>4. kind \notin Tables
      BY <3>3, OperatedAreObjects, ObjectFacts DEF IInv, Typed
    <3> QED
      BY <3>2, <3>4
  <2>5. RowsAreTyped(after) /\ Touches(db, after)
    <3>1. CASE junction
      <4>1. after = [rows |-> db.rows, links |-> db.links \union links]
        BY <2>1, <3>1, WithLinks
      <4>2. IsFiniteSet(links)
        <5> DEFINE f == [i \in ToSet(group) |-> link(i)]
        <5>1. DOMAIN f = ToSet(group) /\ f = [i \in ToSet(group) |-> f[i]] /\ links = {f[i] : i \in ToSet(group)}
          OBVIOUS
        <5> HIDE DEF f, links
        <5> QED
          BY <2>3, <5>1, ImageFinite
      <4> HIDE DEF links, after
      <4>3. after.rows = db.rows /\ after.links = db.links \union links /\ after = [rows |-> after.rows, links |-> after.links]
        BY <4>1
      <4>4. IsFiniteSet(after.links)
        <5>1. IsFiniteSet(db.links)
          BY <2>1, RowFacts
        <5>2. IsFiniteSet(db.links \union links)
          BY <4>2, <5>1, FS_Union
        <5> QED
          BY <4>3, <5>2
      <4>5. RowsAreTyped(after)
        BY <2>1, <4>3, <4>4 DEF RowsAreTyped
      <4>6. Touches(db, after)
        BY <4>3 DEF Touches, Stored
      <4> QED
        BY <4>5, <4>6
    <3>2. CASE ~junction
      <4>1. after = [rows |-> db.rows \union new, links |-> db.links] /\ Valid(after)
        BY <1>4, <2>1, <3>2, WithRows
      <4>2. IsFiniteSet(new)
        <5> DEFINE f == [i \in ToSet(group) |-> row(i)]
        <5>1. DOMAIN f = ToSet(group) /\ f = [i \in ToSet(group) |-> f[i]] /\ new = {f[i] : i \in ToSet(group)}
          OBVIOUS
        <5> HIDE DEF f, new
        <5> QED
          BY <2>3, <5>1, ImageFinite
      <4>3. ASSUME NEW x \in new
            PROVE  /\ x = RowFields(x) /\ x.kind \notin Tables /\ x.id \in Nat \ {0}
                   /\ DOMAIN x.refs = {r.name : r \in OwningRelations(x.kind)}
                   /\ Free(start.graph, start.db, x.kind, x.id)
        <5>1. PICK i \in ToSet(group) : x = NewRow(kind, IdOfNew(group, i), set(i))
          BY DEF new
        <5>2. x = RowFields(x) /\ x.kind = kind /\ x.id = IdOfNew(group, i)
              /\ DOMAIN x.refs = {r.name : r \in OwningRelations(kind)}
          BY <5>1, NewRowFacts
        <5> QED
          BY <2>4, <3>2, <5>2
      <4> HIDE DEF new, after
      <4> QED
        BY <2>1, <4>1, <4>2, <4>3, MoreRows
    <3> QED
      BY <3>1, <3>2
  <2>6. ASSUME NEW i \in ToSet(group)
        PROVE  /\ Lawful(graph, start.graph, start.db, inserted(i))
               /\ inserted(i).kind = Subjects[i].kind /\ inserted(i).canBeInserted = Subjects[i].canBeInserted
               /\ inserted(i).mustBeRemoved = Subjects[i].mustBeRemoved /\ inserted(i).ids # <<>>
    <3> DEFINE s == Subjects[i]
               own == ids(i)
    <3>1. Lawful(graph, start.graph, start.db, s) /\ s.canBeInserted /\ s.kind = kind
          /\ IF junction THEN Link(s) ELSE Own(graph, start.graph, start.db, s)
      BY <2>3
    <3>2. ~Bare(start.graph, start.db, s)
      BY <3>1 DEF Bare
    <3>3. own \in Seq(ToSet(own)) /\ own # <<>>
          /\ IdsAreOwn(graph, start.graph, start.db, s, own)
      <4>1. CASE junction
        <5>1. own = <<link(i).owner, link(i).inverse>>
          BY <4>1
        <5>4. ~Own(graph, start.graph, start.db, s)
          <6>1. s.object = ""
            BY <3>1, <4>1 DEF Link
          <6>2. "" \notin Operated
            BY OperatedAreObjects DEF IInv, Typed, ObjectsAreTyped
          <6> QED
            BY <6>1, <6>2 DEF Own
        <5> HIDE DEF own, s
        <5>5. own \in Seq(ToSet(own)) /\ own # <<>>
          BY <5>1, TwoIn
        <5> QED
          BY <5>4, <5>5 DEF IdsAreOwn
      <4>2. CASE ~junction
        <5>1. own = <<IdOfNew(group, i)>>
          BY <4>2
        <5> HIDE DEF own
        <5>2. own \in Seq({IdOfNew(group, i)}) /\ Len(own) = 1 /\ own[1] = IdOfNew(group, i) /\ DOMAIN own = {1}
          BY <5>1, OneIn
        <5>3. own \in Seq(ToSet(own)) /\ own # <<>>
          BY <5>2, SeqOfItsOwn
        <5> QED
          BY <2>4, <3>1, <4>2, <5>2, <5>3 DEF IdsAreOwn
      <4> QED
        BY <4>1, <4>2
    <3>4. inserted(i) = Inserted(Subjects, s, own)
      BY DEF Inserted
    <3> HIDE DEF own, s, inserted
    <3>5. ASSUME NEW x, x = Inserted(Subjects, s, own)
          PROVE  /\ Lawful(graph, start.graph, start.db, x)
                 /\ x.kind = s.kind /\ x.canBeInserted = s.canBeInserted /\ x.mustBeRemoved = s.mustBeRemoved /\ x.ids = own
      <4>1. Lawful(graph, start.graph, start.db, s) /\ ~Bare(start.graph, start.db, s)
        BY <3>1, <3>2
      <4>2. own \in Seq(ToSet(own)) /\ own # <<>> /\ IdsAreOwn(graph, start.graph, start.db, s, own)
        BY <3>3
      <4> QED
        BY <3>5, <4>1, <4>2, InsertedIsLawful
    <3>6. /\ Lawful(graph, start.graph, start.db, inserted(i))
          /\ inserted(i).kind = s.kind /\ inserted(i).canBeInserted = s.canBeInserted
          /\ inserted(i).mustBeRemoved = s.mustBeRemoved /\ inserted(i).ids = own
      BY <3>4, <3>5
    <3> QED
      BY <3>3, <3>6 DEF s
  <2>7. DOMAIN list = DOMAIN Subjects /\ list = [i \in DOMAIN Subjects |-> list[i]]
        /\ \A i \in DOMAIN Subjects : list[i] = IF i \notin ToSet(group) THEN Subjects[i] ELSE inserted(i)
    OBVIOUS
  <2> HIDE DEF list, inserted, after
  <2>8. AllLawful(graph, start.graph, start.db, Subjects) /\ \A i \in DOMAIN Subjects : Lawful(graph, start.graph, start.db, Subjects[i])
    BY <1>1, SubjectsFacts
  <2>9. AllLawful(graph, start.graph, start.db, list)
    <3>1. \A i \in DOMAIN Subjects : Lawful(graph, start.graph, start.db, list[i])
      BY <2>6, <2>7, <2>8
    <3> QED
      BY <2>7, <2>8, <3>1, SomeReplaced
  <2>10. SameReady(list)
    BY <2>6, <2>7 DEF SameReady
  <2> QED
    BY <1>1, <1>4, <2>5, <2>9, <2>10, SentKeeps
<1> QED
  BY <1>2, <1>3, <1>4

LEMMA StepKeeps ==
  ASSUME IInv, [Next]_vars
  PROVE  IInv'
<1>1. CASE Call
  BY <1>1, CallKeeps
<1>2. CASE BeforeEvents
  BY <1>2, BeforeEventsKeeps
<1>3. CASE PlanInserts
  BY <1>3, PlanInsertsKeeps
<1>4. CASE Insert
  BY <1>4, InsertKeeps
<1>5. CASE PlanUpdates
  BY <1>5, PlanUpdatesKeeps
<1>6. CASE Update
  BY <1>6, UpdateKeeps
<1>7. CASE PlanRemoves
  BY <1>7, PlanRemovesKeeps
<1>8. CASE RemoveRows
  BY <1>8, RemoveRowsKeeps
<1>9. CASE PlanSoftRemoves
  BY <1>9, PlanSoftRemovesKeeps
<1>10. CASE SoftRemove
  BY <1>10, MarkKeeps DEF SoftRemove
<1>11. CASE PlanRecovers
  BY <1>11, PlanRecoversKeeps
<1>12. CASE Recover
  BY <1>12, MarkKeeps DEF Recover
<1>13. CASE Finish
  BY <1>13, FinishKeeps
<1>14. CASE UNCHANGED vars
  BY <1>14, StutterKeeps
<1> QED
  BY <1>1, <1>2, <1>3, <1>4, <1>5, <1>6, <1>7, <1>8, <1>9, <1>10, <1>11, <1>12, <1>13, <1>14 DEF Next

\* The inductive invariant, of any metadata, objects, rows and call.
THEOREM IInvHolds == Spec => []IInv
<1>1. Init => IInv
  BY InitHolds
<1>2. IInv /\ [Next]_vars => IInv'
  BY StepKeeps
<1> QED
  BY <1>1, <1>2, PTL DEF Spec

\* Who holds a row at the start holds it in the terms of the property.
LEMMA HeldIsHeld ==
  ASSUME IInv, NEW row \in start.db.rows, NEW name, Held(start.graph, start.db, row.kind, row.id, name)
  PROVE  \E o \in Operated : \E x \in Relations(m, m.kindOf[o], InverseTypes) :
           /\ x.inverse = name /\ graph[o].rel[x.name].set
           /\ \/ row.id \in IdsIn(ToSet(graph[o].rel[x.name].of))
              \/ row.refs[name] = start.graph[o].id
<1>0. PICK o \in Operated : \E x \in Relations(m, m.kindOf[o], InverseTypes) :
        HeldBy(start.graph, start.db, row.kind, row.id, name, o, x)
  BY DEF Held
<1>1. PICK x \in Relations(m, m.kindOf[o], InverseTypes) : HeldBy(start.graph, start.db, row.kind, row.id, name, o, x)
  BY <1>0
<1>2. o \in DOMAIN graph
  BY OperatedAreObjects
<1>3. start.graph[o].rel = graph[o].rel
  BY <1>2 DEF IInv, SameObjects
<1>4. x.inverse = name /\ graph[o].rel[x.name].set
  BY <1>1, <1>3 DEF HeldBy
<1>5. CASE \E p \in ToSet(start.graph[o].rel[x.name].of) : p \notin Operated /\ start.graph[p].id = row.id
  <2>1. PICK p \in ToSet(graph[o].rel[x.name].of) : p \notin Operated /\ start.graph[p].id = row.id
    BY <1>3, <1>5
  <2>2. x \in Relations(m, m.kindOf[o], AllTypes)
    BY <1>1 DEF Relations, InverseTypes, AllTypes
  <2>3. p \in DOMAIN graph
    BY <1>2, <2>1, <2>2, ObjectFacts DEF IInv, Typed
  <2>4. graph[p].id = row.id
    BY <2>1, <2>3 DEF IInv, IdsAreFree
  <2>5. row.id \in IdsIn(ToSet(graph[o].rel[x.name].of))
    BY <2>1, <2>4 DEF IdsIn
  <2> QED
    BY <1>1, <1>4, <2>5
<1>6. CASE \E now \in start.db.rows : now.kind = row.kind /\ now.id = row.id /\ now.refs[name] = start.graph[o].id
  <2>1. PICK now \in start.db.rows : now.kind = row.kind /\ now.id = row.id /\ now.refs[name] = start.graph[o].id
    BY <1>6
  <2>2. now = row
    BY <2>1, RowFacts DEF IInv, StartIsTyped
  <2> QED
    BY <1>1, <1>4, <2>1, <2>2
<1> QED
  BY <1>1, <1>5, <1>6 DEF HeldBy

LEMMA KeptIsKept ==
  ASSUME IInv
  PROVE  OthersAreKept
<1> DEFINE operated(row) == \E o \in Operated : m.kindOf[o] = row.kind /\ start.graph[o].id = row.id
           holders(row, r) == {o \in Operated :
             \E x \in Relations(m, m.kindOf[o], {"oneToMany", "oneToOneInverse"}) :
                /\ x.inverse = r.name /\ graph[o].rel[x.name].set
                /\ \/ row.id \in IdsIn(ToSet(graph[o].rel[x.name].of))
                   \/ row.refs[r.name] = start.graph[o].id}
           orphaned(row) == \E r \in OwningRelations(row.kind) :
             /\ holders(row, r) # {}
             /\ r.orphan = "delete" \/ (r.orphan = "nullify" /\ ~r.nullable)
           now(row) == Row(db, row.kind, row.id)
<1>1. ASSUME NEW row \in start.db.rows, NEW r, Held(start.graph, start.db, row.kind, row.id, r.name)
      PROVE  holders(row, r) # {}
  <2>1. \E o \in Operated : \E x \in Relations(m, m.kindOf[o], InverseTypes) :
           /\ x.inverse = r.name /\ graph[o].rel[x.name].set
           /\ \/ row.id \in IdsIn(ToSet(graph[o].rel[x.name].of))
              \/ row.refs[r.name] = start.graph[o].id
    BY <1>1, HeldIsHeld
  <2> QED
    BY <2>1 DEF InverseTypes
<1>2. ASSUME NEW row \in start.db.rows, ~operated(row)
      PROVE  IF ~Stored(db, row.kind, row.id) THEN orphaned(row)
             ELSE /\ now(row).value = row.value
                  /\ \A r \in OwningRelations(row.kind) : now(row).refs[r.name] # row.refs[r.name] => holders(row, r) # {}
  <2>1. ~Free(start.graph, start.db, row.kind, row.id)
    BY <1>2 DEF Free
  <2>2. /\ \A x \in db.rows : x.kind = row.kind /\ x.id = row.id =>
             /\ x.value = row.value
             /\ \A r \in OwningRelations(row.kind) :
                  x.refs[r.name] # row.refs[r.name] => Held(start.graph, start.db, row.kind, row.id, r.name)
        /\ Stored(db, row.kind, row.id) \/ Orphaned(start.graph, start.db, row.kind, row.id)
    BY <2>1 DEF IInv, Kept
  <2> HIDE DEF holders
  <2>3. CASE ~Stored(db, row.kind, row.id)
    <3>1. Orphaned(start.graph, start.db, row.kind, row.id)
      BY <2>2, <2>3
    <3> QED
      BY <1>1, <2>3, <3>1 DEF Orphaned
  <2>4. CASE Stored(db, row.kind, row.id)
    <3>1. now(row) \in db.rows /\ now(row).kind = row.kind /\ now(row).id = row.id
      BY <2>4 DEF Stored, Row
    <3> HIDE DEF now
    <3> QED
      BY <1>1, <2>2, <2>4, <3>1
  <2> QED
    BY <2>3, <2>4
<1>3. \A row \in start.db.rows :
        operated(row) \/ (IF ~Stored(db, row.kind, row.id) THEN orphaned(row)
                          ELSE /\ now(row).value = row.value
                               /\ \A r \in OwningRelations(row.kind) : now(row).refs[r.name] # row.refs[r.name] => holders(row, r) # {})
  BY <1>2
<1> QED
  BY <1>3, Zenon DEF OthersAreKept

\* A row of no object that is saved or removed keeps its value and stays, and a join
\* column of it changes only where the relations of such objects ask for it: whatever
\* the metadata, the objects, the rows, the chunks and the order of the statements.
THEOREM OthersAreKeptHolds == Spec => []OthersAreKept
<1>1. IInv => OthersAreKept
  BY KeptIsKept
<1> QED
  BY <1>1, IInvHolds, PTL

(***************************************************************************)
(* What becomes of all the elements of a list.                             *)
(***************************************************************************)
\* Every place that is picked is in the list of those picked.
LEMMA PickedAll ==
  ASSUME NEW n \in Nat, NEW places \in SUBSET (1..n), NEW list, NEW i \in places
  PROVE  list[i] \in ToSet(Picked(list, places))
<1> DEFINE place(k) == CHOOSE j \in places : Cardinality({l \in places : l <= j}) = k
           them == [k \in 1..Cardinality(places) |-> list[place(k)]]
           k == Cardinality(UpTo(places, i))
<1>0. \A j \in places : j \in Nat /\ 1 <= j /\ j <= n
  OBVIOUS
<1>1. \A j \in places : UpTo(places, j) \in SUBSET (1..n) /\ IsFiniteSet(UpTo(places, j)) /\ Cardinality(UpTo(places, j)) \in Nat
  BY PlacesFinite DEF UpTo
<1>2. IsFiniteSet(places) /\ Cardinality(places) \in Nat
  BY PlacesFinite
<1>3. k \in 1..Cardinality(places)
  <2>1. UpTo(places, i) \in SUBSET places /\ i \in UpTo(places, i)
    BY <1>0 DEF UpTo
  <2>2. k <= Cardinality(places) /\ k \in Nat
    BY <1>1, <1>2, <2>1, FS_Subset
  <2>3. k # 0
    BY <1>1, <2>1, FS_EmptySet
  <2> QED
    BY <1>2, <2>2, <2>3
<1>4. ASSUME NEW j \in places, NEW l \in places, j < l, Cardinality(UpTo(places, j)) = Cardinality(UpTo(places, l))
      PROVE  FALSE
  <2>1. \A x \in places : x <= j => x <= l
    BY <1>0, <1>4
  <2>2. ~(l <= j) /\ l <= l
    BY <1>0, <1>4
  <2>3. UpTo(places, j) \in SUBSET UpTo(places, l) /\ l \notin UpTo(places, j) /\ l \in UpTo(places, l)
    BY <1>0, <2>1, <2>2 DEF UpTo
  <2> QED
    BY <1>1, <1>4, <2>3, FS_Subset
<1>5. \A j \in places : Cardinality(UpTo(places, j)) = k => j = i
  <2> TAKE j \in places
  <2>1. j < i \/ i < j \/ i = j
    BY <1>0
  <2> HIDE DEF k
  <2> QED
    BY <1>4, <2>1 DEF k
<1>6. place(k) = i
  <2>1. Cardinality({l \in places : l <= i}) = k /\ \A j \in places : Cardinality({l \in places : l <= j}) = k => j = i
    BY <1>5 DEF UpTo
  <2> HIDE DEF k
  <2> QED
    BY <2>1
<1>7. Picked(list, places) = them \o <<>>
  BY DEF Picked
<1>8. \A x \in 1..Cardinality(places) : place(x) \in places
  BY RankHasPlace DEF UpTo
<1>9. them \in Seq({list[j] : j \in places})
  <2>1. \A x \in 1..Cardinality(places) : them[x] \in {list[j] : j \in places}
    BY <1>8
  <2>2. them = [x \in 1..Cardinality(places) |-> them[x]] /\ DOMAIN them = 1..Cardinality(places)
    OBVIOUS
  <2> HIDE DEF them
  <2> QED
    BY <1>2, <2>1, <2>2, IndexedIn
<1>10. k \in DOMAIN them /\ them[k] = list[i]
  <2> HIDE DEF k, place
  <2> QED
    BY <1>3, <1>6
<1>11. Picked(list, places) = them
  <2> HIDE DEF them
  <2> QED
    BY <1>7, <1>9, EmptyConcat
<1> HIDE DEF them, k
<1> QED
  BY <1>10, <1>11 DEF ToSet

\* A list of lists, one list after the other.
LEMMA FlattenSteps ==
  ASSUME NEW S, NEW seqs \in Seq(Seq(S))
  PROVE  \E f : /\ f[0] = <<>>
                /\ \A k \in 0..Len(seqs) : f[k] \in Seq(S)
                /\ \A k \in 1..Len(seqs) : f[k] = f[k - 1] \o seqs[k]
                /\ FlattenSeq(seqs) = f[Len(seqs)]
<1>1. Len(seqs) \in Nat /\ \A i \in 1..Len(seqs) : seqs[i] \in Seq(S)
  OBVIOUS
<1>2. CASE Len(seqs) = 0
  <2> DEFINE f == [k \in 0..0 |-> <<>>]
  <2>1. seqs = <<>>
    BY <1>2
  <2>2. FlattenSeq(seqs) = <<>>
    BY <2>1 DEF FlattenSeq
  <2>3. f[0] = <<>> /\ <<>> \in Seq(S)
    OBVIOUS
  <2>4. \A k \in 0..Len(seqs) : k = 0
    BY <1>2
  <2>5. \A k \in 1..Len(seqs) : FALSE
    BY <1>2
  <2> HIDE DEF f
  <2> QED
    BY <1>2, <2>2, <2>3, <2>4, <2>5
<1>3. CASE Len(seqs) # 0
  <2> DEFINE n == Len(seqs)
             it == CHOOSE f : f = [i \in 1..n |-> IF i = 1 THEN seqs[i] ELSE f[i - 1] \o seqs[i]]
             f == [k \in 0..n |-> IF k = 0 THEN <<>> ELSE it[k]]
  <2>1. Flattened(it, seqs, n)
    <3>1. \E h : Flattened(h, seqs, n)
      BY <1>1, FlattenedExists
    <3>2. \E h : h = [i \in 1..n |-> IF i = 1 THEN seqs[i] ELSE h[i - 1] \o seqs[i]]
      BY <3>1 DEF Flattened
    <3> QED
      BY <3>2 DEF Flattened
  <2>2. FlattenSeq(seqs) = it[n]
    BY <1>3 DEF FlattenSeq
  <2> HIDE DEF it, n
  <2>3. n \in Nat /\ n # 0 /\ \A i \in 1..n : seqs[i] \in Seq(S)
    BY <1>1, <1>3 DEF n
  <2>4. \A i \in 1..n : it[i] = IF i = 1 THEN seqs[i] ELSE it[i - 1] \o seqs[i]
    BY <2>1 DEF Flattened
  <2>5. f[0] = <<>> /\ \A k \in 1..n : f[k] = it[k]
    BY <2>3
  <2>6. \A k \in 1..n : f[k] = f[k - 1] \o seqs[k]
    <3> TAKE k \in 1..n
    <3>1. CASE k = 1
      <4>1. f[k] = seqs[k]
        BY <2>4, <2>5, <3>1
      <4>2. <<>> \o seqs[k] = seqs[k]
        BY <2>3
      <4>3. k - 1 = 0
        BY <3>1
      <4> HIDE DEF f
      <4>4. f[k - 1] = <<>>
        BY <2>5, <4>3
      <4> QED
        BY <4>1, <4>2, <4>4
    <3>2. CASE k # 1
      <4>1. k - 1 \in 1..n
        BY <2>3, <3>2
      <4> HIDE DEF f
      <4> QED
        BY <2>4, <2>5, <3>2, <4>1
    <3> QED
      BY <3>1, <3>2
  <2> HIDE DEF f
  <2> DEFINE T == {k \in Nat : k <= n /\ f[k] \notin Seq(S)}
  <2>7. T = {}
    <3> SUFFICES ASSUME T # {} PROVE FALSE
      OBVIOUS
    <3>1. PICK l \in T : \A k \in T : l <= k
      <4>1. T \in SUBSET Nat
        OBVIOUS
      <4> HIDE DEF T
      <4> QED
        BY <4>1, LeastExists
    <3>0. <<>> \in Seq(S)
      OBVIOUS
    <3>2. l # 0
      BY <2>5, <3>0, <3>1
    <3>3. l \in 1..n /\ l - 1 \in Nat /\ l - 1 <= n /\ l - 1 \notin T
      BY <2>3, <3>1, <3>2
    <3>4. f[l - 1] \in Seq(S) /\ seqs[l] \in Seq(S)
      BY <2>3, <3>3
    <3>5. f[l - 1] \o seqs[l] \in Seq(S)
      BY <3>4, ConcatIn
    <3> QED
      BY <2>6, <3>1, <3>3, <3>5
  <2>8. \A k \in 0..n : f[k] \in Seq(S)
    BY <2>3, <2>7
  <2>9. FlattenSeq(seqs) = f[n] /\ n = Len(seqs)
    <3>1. n \in 1..n
      BY <2>3
    <3> QED
      BY <2>2, <2>5, <3>1 DEF n
  <2> QED
    BY <2>5, <2>6, <2>8, <2>9
<1> QED
  BY <1>2, <1>3

\* Each element of each of the lists is in the one list.
LEMMA FlattenAll ==
  ASSUME NEW S, NEW seqs \in Seq(Seq(S)), NEW i \in DOMAIN seqs, NEW j \in DOMAIN seqs[i]
  PROVE  seqs[i][j] \in ToSet(FlattenSeq(seqs))
<1> DEFINE n == Len(seqs)
           x == seqs[i][j]
<1>1. n \in Nat /\ DOMAIN seqs = 1..n /\ \A k \in 1..n : seqs[k] \in Seq(S)
  OBVIOUS
<1>2. PICK f : /\ f[0] = <<>>
               /\ \A k \in 0..n : f[k] \in Seq(S)
               /\ \A k \in 1..n : f[k] = f[k - 1] \o seqs[k]
               /\ FlattenSeq(seqs) = f[n]
  BY FlattenSteps
<1>3. x \in ToSet(seqs[i])
  BY DEF ToSet
<1> HIDE DEF x, n
<1>4. \A a, b \in Seq(S) : ToSet(a) \subseteq ToSet(a \o b) /\ ToSet(b) \subseteq ToSet(a \o b)
  <2> TAKE a, b \in Seq(S)
  <2>1. Len(a) \in Nat /\ Len(b) \in Nat /\ DOMAIN a = 1..Len(a) /\ DOMAIN b = 1..Len(b)
        /\ DOMAIN (a \o b) = 1..(Len(a) + Len(b))
    OBVIOUS
  <2>2. \A k \in 1..Len(a) : k \in 1..(Len(a) + Len(b)) /\ (a \o b)[k] = a[k]
    BY <2>1
  <2>3. \A k \in 1..Len(b) : Len(a) + k \in 1..(Len(a) + Len(b)) /\ (a \o b)[Len(a) + k] = b[k]
    BY <2>1
  <2> QED
    BY <2>1, <2>2, <2>3 DEF ToSet
<1> DEFINE T == {k \in Nat : k >= i /\ k <= n /\ x \notin ToSet(f[k])}
<1>5. SUFFICES ASSUME T # {} PROVE FALSE
  <2>1. n >= i /\ n \in Nat
    BY <1>1
  <2>2. x \in ToSet(f[n])
    BY <2>1
  <2> QED
    BY <1>2, <2>2 DEF x
<1>6. PICK l \in T : \A k \in T : l <= k
  <2>1. T \in SUBSET Nat
    OBVIOUS
  <2> HIDE DEF T
  <2> QED
    BY <1>5, <2>1, LeastExists
<1>7. i \in 1..n /\ l \in 1..n /\ l - 1 \in 0..n
  BY <1>1, <1>6
<1>8. f[l] = f[l - 1] \o seqs[l] /\ f[l - 1] \in Seq(S) /\ seqs[l] \in Seq(S)
  BY <1>1, <1>2, <1>7
<1>9. ToSet(f[l - 1]) \subseteq ToSet(f[l]) /\ ToSet(seqs[l]) \subseteq ToSet(f[l])
  BY <1>4, <1>8
<1>10. l # i
  BY <1>3, <1>6, <1>9
<1>11. l - 1 \in Nat /\ l - 1 >= i /\ l - 1 <= n
  BY <1>1, <1>6, <1>7, <1>10
<1>12. l - 1 \notin T
  BY <1>6, <1>7
<1>13. x \in ToSet(f[l - 1])
  BY <1>11, <1>12
<1> QED
  BY <1>6, <1>9, <1>13

\* ... and there are no more than those.
InParts(seqs, k) == UNION {{<<i, j>> : j \in DOMAIN seqs[i]} : i \in 1..k}
LEMMA FlattenLen ==
  ASSUME NEW S, NEW seqs \in Seq(Seq(S))
  PROVE  IsFiniteSet(InParts(seqs, Len(seqs))) /\ Len(FlattenSeq(seqs)) = Cardinality(InParts(seqs, Len(seqs)))
<1> DEFINE n == Len(seqs)
<1>1. n \in Nat /\ DOMAIN seqs = 1..n /\ \A k \in 1..n : seqs[k] \in Seq(S)
  OBVIOUS
<1>2. PICK f : /\ f[0] = <<>>
               /\ \A k \in 0..n : f[k] \in Seq(S)
               /\ \A k \in 1..n : f[k] = f[k - 1] \o seqs[k]
               /\ FlattenSeq(seqs) = f[n]
  BY FlattenSteps
<1> HIDE DEF n
<1> DEFINE counts(k) == IsFiniteSet(InParts(seqs, k)) /\ Len(f[k]) = Cardinality(InParts(seqs, k))
           T == {k \in Nat : k <= n /\ ~counts(k)}
<1>3. SUFFICES ASSUME T # {} PROVE FALSE
  BY <1>1, <1>2 DEF n
<1>4. PICK l \in T : \A k \in T : l <= k
  <2>1. T \in SUBSET Nat
    OBVIOUS
  <2> HIDE DEF T
  <2> QED
    BY <1>3, <2>1, LeastExists
<1>5. l # 0
  <2>1. InParts(seqs, 0) = {}
    <3>1. \A i \in 1..0 : FALSE
      OBVIOUS
    <3> QED
      BY <3>1 DEF InParts
  <2>2. counts(0)
    BY <1>2, <2>1, FS_EmptySet
  <2> HIDE DEF counts
  <2> QED
    BY <1>4, <2>2
<1>6. l \in 1..n /\ l - 1 \in 0..n /\ l - 1 \in Nat /\ l - 1 <= n
  BY <1>1, <1>4, <1>5
<1>7. counts(l - 1)
  <2>1. l - 1 \notin T
    BY <1>4, <1>6
  <2> HIDE DEF counts
  <2> QED
    BY <1>6, <2>1
<1>8. f[l] = f[l - 1] \o seqs[l] /\ f[l - 1] \in Seq(S) /\ seqs[l] \in Seq(S)
  BY <1>1, <1>2, <1>6
<1>9. Len(f[l]) = Len(f[l - 1]) + Len(seqs[l]) /\ Len(f[l - 1]) \in Nat /\ Len(seqs[l]) \in Nat /\ DOMAIN seqs[l] = 1..Len(seqs[l])
  BY <1>8
<1> DEFINE B == {<<l, j>> : j \in DOMAIN seqs[l]}
           A == InParts(seqs, l - 1)
<1>10. InParts(seqs, l) = A \union B
  <2>1. \A i : i \in 1..l <=> i \in 1..(l - 1) \/ i = l
    BY <1>6
  <2>2. \A k, y : y \in InParts(seqs, k) <=> \E i \in 1..k : y \in {<<i, j>> : j \in DOMAIN seqs[i]}
    BY DEF InParts
  <2>3. ASSUME NEW y
        PROVE  y \in InParts(seqs, l) <=> y \in A \/ y \in B
    <3> DEFINE P(i) == y \in {<<i, j>> : j \in DOMAIN seqs[i]}
    <3>1. y \in InParts(seqs, l) <=> \E i \in 1..l : P(i)
      BY <2>2
    <3>2. y \in A <=> \E i \in 1..(l - 1) : P(i)
      BY <2>2
    <3>3. y \in B <=> P(l)
      OBVIOUS
    <3> HIDE DEF P, A, B
    <3> QED
      BY <2>1, <3>1, <3>2, <3>3
  <2> HIDE DEF A, B
  <2> QED
    BY <2>3
<1>11. A \intersect B = {}
  <2>1. \A i \in 1..(l - 1) : i # l
    BY <1>6
  <2> QED
    BY <2>1 DEF InParts
<1>12. IsFiniteSet(B) /\ Cardinality(B) = Len(seqs[l])
  <2> DEFINE h == [j \in 1..Len(seqs[l]) |-> <<l, j>>]
  <2>1. h \in [1..Len(seqs[l]) -> B] /\ \A y \in B : \E j \in 1..Len(seqs[l]) : h[j] = y
    BY <1>9
  <2>2. \A a, b \in 1..Len(seqs[l]) : h[a] = h[b] => a = b
    OBVIOUS
  <2>3. h \in Bijection(1..Len(seqs[l]), B)
    <3> HIDE DEF h, B
    <3> QED
      BY <2>1, <2>2 DEF Bijection, Injection, Surjection, IsInjective
  <2>4. ExistsBijection(1..Len(seqs[l]), B)
    BY <2>3 DEF ExistsBijection
  <2> HIDE DEF h, B
  <2> QED
    BY <1>9, <2>4, FS_NatBijection, FS_CountingElements
<1> HIDE DEF A, B
<1>13. IsFiniteSet(A) /\ Len(f[l - 1]) = Cardinality(A)
  BY <1>7 DEF A
<1>14. IsFiniteSet(A \union B) /\ Cardinality(A \union B) = Cardinality(A) + Cardinality(B) - Cardinality(A \intersect B)
  BY <1>12, <1>13, FS_Union
<1>15. Cardinality(A \union B) = Len(f[l])
  <2>1. Cardinality(A \intersect B) = 0
    BY <1>11, FS_EmptySet
  <2> QED
    BY <1>9, <1>12, <1>13, <1>14, <2>1
<1>16. counts(l)
  BY <1>10, <1>14, <1>15
<1> HIDE DEF counts
<1> QED
  BY <1>4, <1>16

LEMMA NoneIn ==
  ASSUME NEW t, t \in Seq({})
  PROVE  t = <<>>
<1>1. Len(t) \in Nat /\ \A i \in 1..Len(t) : t[i] \in {}
  BY ListFacts
<1>2. ~(1 \in 1..Len(t))
  BY <1>1
<1>3. Len(t) = 0
  BY <1>1, <1>2
<1> QED
  BY <1>3

LEMMA ConcatAll ==
  ASSUME NEW S, NEW T, NEW t \in Seq(S), NEW u \in Seq(T)
  PROVE  ToSet(t \o u) = ToSet(t) \union ToSet(u)
<1>0. t \in Seq(S \union T) /\ u \in Seq(S \union T)
  BY WiderList
<1>1. /\ Len(t) \in Nat /\ Len(u) \in Nat /\ DOMAIN t = 1..Len(t) /\ DOMAIN u = 1..Len(u)
      /\ DOMAIN (t \o u) = 1..(Len(t) + Len(u))
  BY <1>0
<1>2. \A k \in 1..Len(t) : k \in 1..(Len(t) + Len(u)) /\ (t \o u)[k] = t[k]
  BY <1>0, <1>1
<1>3. \A k \in 1..Len(u) : Len(t) + k \in 1..(Len(t) + Len(u)) /\ (t \o u)[Len(t) + k] = u[k]
  BY <1>0, <1>1
<1>4. ASSUME NEW k \in 1..(Len(t) + Len(u))
      PROVE  (t \o u)[k] \in ToSet(t) \union ToSet(u)
  <2>1. CASE k <= Len(t)
    <3>1. k \in 1..Len(t)
      BY <1>1, <2>1
    <3> QED
      BY <1>1, <1>2, <3>1 DEF ToSet
  <2>2. CASE ~(k <= Len(t))
    <3>1. k - Len(t) \in 1..Len(u) /\ Len(t) + (k - Len(t)) = k
      BY <1>1, <2>2
    <3>2. (t \o u)[k] = u[k - Len(t)]
      BY <1>3, <3>1
    <3> QED
      BY <1>1, <3>1, <3>2 DEF ToSet
  <2> QED
    BY <2>1, <2>2
<1>5. ToSet(t) \union ToSet(u) \subseteq ToSet(t \o u)
  BY <1>1, <1>2, <1>3 DEF ToSet
<1>6. ToSet(t \o u) \subseteq ToSet(t) \union ToSet(u)
  BY <1>1, <1>4 DEF ToSet
<1> QED
  BY <1>5, <1>6

LEMMA SetToSeqAll ==
  ASSUME NEW S, IsFiniteSet(S)
  PROVE  ToSet(SetToSeq(S)) = S
<1> DEFINE n == Cardinality(S)
           t == SetToSeq(S)
<1>1. n \in Nat /\ ExistsBijection(1..n, S)
  BY FS_CardinalityType
<1>2. PICK f : f \in Bijection(1..n, S)
  BY <1>1 DEF ExistsBijection
<1>3. f \in [1..n -> S] /\ IsInjective(f)
  BY <1>2 DEF Bijection, Injection, IsInjective
<1>4. t \in [1..n -> S] /\ IsInjective(t)
  BY <1>3 DEF SetToSeq
<1> HIDE DEF t, n
<1>5. t \in Injection(1..n, S)
  BY <1>4 DEF Injection, IsInjective
<1>6. Cardinality(1..n) = n
  <2>1. Cardinality(1..n) = IF 1 > n THEN 0 ELSE n - 1 + 1
    BY <1>1, FS_Interval
  <2> QED
    BY <1>1, <2>1
<1>7. t \in Surjection(1..n, S)
  <2>1. Cardinality(1..n) = Cardinality(S)
    BY <1>6 DEF n
  <2> QED
    BY <1>5, <2>1, FS_Injection
<1>8. \A x \in S : \E i \in 1..n : t[i] = x
  BY <1>7 DEF Surjection
<1>9. DOMAIN t = 1..n
  BY <1>4
<1>10. ToSet(t) = S
  BY <1>4, <1>8, <1>9 DEF ToSet
<1> QED
  BY <1>10 DEF t

LEMMA DistinctAll ==
  ASSUME NEW S, NEW list \in Seq(S)
  PROVE  ToSet(Distinct(list)) = ToSet(list)
<1> DEFINE firsts == {i \in DOMAIN list : \A j \in 1..(i - 1) : list[j] # list[i]}
<1>1. Len(list) \in Nat /\ DOMAIN list = 1..Len(list)
  OBVIOUS
<1>2. firsts \in SUBSET (1..Len(list)) /\ Distinct(list) = Picked(list, firsts)
  BY <1>1 DEF Distinct
<1>3. ASSUME NEW i \in 1..Len(list)
      PROVE  \E j \in firsts : list[j] = list[i]
  <2> DEFINE T == {j \in 1..Len(list) : list[j] = list[i]}
  <2>1. PICK j \in T : \A k \in T : j <= k
    <3>1. T \in SUBSET Nat /\ T # {}
      BY <1>1
    <3> HIDE DEF T
    <3> QED
      BY <3>1, LeastExists
  <2>2. \A k \in 1..(j - 1) : k \in 1..Len(list) /\ ~(j <= k)
    BY <1>1
  <2>3. j \in firsts
    BY <1>1, <2>1, <2>2
  <2> QED
    BY <2>1, <2>3
<1> HIDE DEF firsts
<1>4. ASSUME NEW i \in 1..Len(list)
      PROVE  list[i] \in ToSet(Picked(list, firsts))
  <2>1. PICK j \in firsts : list[j] = list[i]
    BY <1>3
  <2>2. list[j] \in ToSet(Picked(list, firsts))
    BY <1>1, <1>2, PickedAll
  <2> QED
    BY <2>1, <2>2
<1>5. firsts \in SUBSET DOMAIN list
  BY <1>1, <1>2
<1>6. \A x \in ToSet(Picked(list, firsts)) : \E i \in firsts : x = list[i]
  BY <1>5, PickedIn
<1> DEFINE all == ToSet(Picked(list, firsts))
<1>7. all \subseteq ToSet(list)
  BY <1>5, <1>6 DEF ToSet
<1>8. ToSet(list) \subseteq all
  <2>1. \A x \in ToSet(list) : \E i \in 1..Len(list) : x = list[i]
    BY <1>1 DEF ToSet
  <2> QED
    BY <1>4, <2>1
<1> HIDE DEF all
<1>9. all = ToSet(list)
  BY <1>7, <1>8
<1> QED
  BY <1>2, <1>9 DEF all

\* No subject is lost when they are sorted ...
LEMMA ByKindAll ==
  ASSUME NEW S, NEW subjects \in Seq(S), NEW order, IsList(order), NEW x \in ToSet(subjects)
  PROVE  x \in ToSet(ByKind(subjects, order))
<1> DEFINE kinds == Distinct(order)
           of(kind) == Picked(subjects, {i \in DOMAIN subjects : subjects[i].kind = kind})
           parts == [k \in DOMAIN kinds |-> of(kinds[k])]
           others == {i \in DOMAIN subjects : ~Contains(kinds, subjects[i].kind)}
<1>1. ByKind(subjects, order) = FlattenSeq(parts) \o Picked(subjects, others)
  BY DEF ByKind
<1>2. kinds \in Seq(ToSet(order))
  BY DistinctIn DEF IsList
<1>3. PICK i \in DOMAIN subjects : x = subjects[i]
  BY DEF ToSet
<1>4. Len(subjects) \in Nat /\ DOMAIN subjects = 1..Len(subjects)
  OBVIOUS
<1> HIDE DEF kinds
<1>5. Len(kinds) \in Nat /\ DOMAIN kinds = 1..Len(kinds)
  BY <1>2, ListFacts
<1>6. ASSUME NEW kind
      PROVE  of(kind) \in Seq(S) /\ (x.kind = kind => x \in ToSet(of(kind)))
  <2> DEFINE places == {j \in DOMAIN subjects : subjects[j].kind = kind}
  <2>1. places \in SUBSET (1..Len(subjects)) /\ places \in SUBSET DOMAIN subjects /\ (x.kind = kind => i \in places)
    BY <1>3, <1>4
  <2> HIDE DEF places
  <2>2. Picked(subjects, places) \in Seq(S)
    BY <2>1, PickedIn
  <2>3. x.kind = kind => x \in ToSet(Picked(subjects, places))
    BY <1>3, <1>4, <2>1, PickedAll
  <2> QED
    BY <2>2, <2>3 DEF places
<1>7. others \in SUBSET (1..Len(subjects)) /\ others \in SUBSET DOMAIN subjects /\ (~Contains(kinds, x.kind) => i \in others)
  BY <1>3, <1>4
<1> HIDE DEF others, of
<1>8. DOMAIN parts = 1..Len(kinds) /\ parts = [k \in 1..Len(kinds) |-> parts[k]]
      /\ \A k \in 1..Len(kinds) : parts[k] = of(kinds[k]) /\ parts[k] \in Seq(S)
  BY <1>5, <1>6
<1> HIDE DEF parts
<1>9. parts \in Seq(Seq(S))
  BY <1>5, <1>8, IndexedIn
<1>10. FlattenSeq(parts) \in Seq(S)
  BY <1>9, FlattenIn
<1>11. Picked(subjects, others) \in Seq(S)
  BY <1>7, PickedIn
<1>12. ToSet(ByKind(subjects, order)) = ToSet(FlattenSeq(parts)) \union ToSet(Picked(subjects, others))
  BY <1>1, <1>10, <1>11, ConcatAll
<1>13. CASE Contains(kinds, x.kind)
  <2>1. PICK k \in 1..Len(kinds) : kinds[k] = x.kind
    BY <1>5, <1>13 DEF Contains
  <2>2. x \in ToSet(parts[k])
    BY <1>6, <1>8, <2>1
  <2>3. PICK j \in DOMAIN parts[k] : x = parts[k][j]
    BY <2>2 DEF ToSet
  <2>4. x \in ToSet(FlattenSeq(parts))
    BY <1>8, <1>9, <2>3, FlattenAll
  <2> QED
    BY <1>12, <2>4
<1>14. CASE ~Contains(kinds, x.kind)
  <2>1. x \in ToSet(Picked(subjects, others))
    BY <1>3, <1>4, <1>7, <1>14, PickedAll
  <2> QED
    BY <1>12, <2>1
<1> QED
  BY <1>13, <1>14

LEMMA OrderIsList ==
  ASSUME SchemaIsTyped, NEW kinds, NEW direction
  PROVE  LET turn(order) == IF direction = "insert" THEN Reverse(order) ELSE order
         IN IsList(turn(Toposort(NonNullableDependencies(m.relations, kinds)))
                   \o turn(Toposort(Dependencies(m.relations, kinds))))
<1> DEFINE turn(order) == IF direction = "insert" THEN Reverse(order) ELSE order
           one == Toposort(NonNullableDependencies(m.relations, kinds))
           two == Toposort(Dependencies(m.relations, kinds))
<1>2. m.relations \in Seq(ToSet(m.relations))
  BY SchemaFacts
<1>3. IsList(one)
  <2> DEFINE places == {i \in DOMAIN m.relations :
                          Owning(m.relations[i]) /\ m.relations[i].kind \in kinds /\ ~m.relations[i].nullable}
             depending == Picked(m.relations, places)
             edges == [i \in DOMAIN depending |-> <<depending[i].kind, depending[i].to>>]
  <2>1. places \in SUBSET DOMAIN m.relations
    OBVIOUS
  <2>2. NonNullableDependencies(m.relations, kinds) = edges
    BY DEF NonNullableDependencies, Edges
  <2> HIDE DEF places
  <2>3. IsList(Toposort(edges))
    BY <1>2, <2>1, EdgesIn
  <2> QED
    BY <2>2, <2>3
<1>4. IsList(two)
  <2> DEFINE places == {i \in DOMAIN m.relations :
                          Owning(m.relations[i]) /\ m.relations[i].kind \in kinds /\ m.relations[i].to # m.relations[i].kind}
             depending == Picked(m.relations, places)
             edges == [i \in DOMAIN depending |-> <<depending[i].kind, depending[i].to>>]
  <2>1. places \in SUBSET DOMAIN m.relations
    OBVIOUS
  <2>2. Dependencies(m.relations, kinds) = edges
    BY DEF Dependencies, Edges
  <2> HIDE DEF places
  <2>3. IsList(Toposort(edges))
    BY <1>2, <2>1, EdgesIn
  <2> QED
    BY <2>2, <2>3
<1> HIDE DEF one, two
<1>5. ASSUME NEW t, IsList(t)
      PROVE  IsList(turn(t))
  <2>1. IsList(Reverse(t))
    <3>1. Reverse(t) \in Seq(ToSet(t))
      BY <1>5, ReverseIn DEF IsList
    <3> QED
      BY <3>1, IsListIn
  <2> QED
    BY <1>5, <2>1
<1> HIDE DEF turn
<1>6. IsList(turn(one) \o turn(two))
  BY <1>3, <1>4, <1>5, ListsConcat
<1> QED
  BY <1>6 DEF one, two, turn

LEMMA SortAll ==
  ASSUME SchemaIsTyped, NEW S, NEW subjects \in Seq(S), NEW direction, NEW x \in ToSet(subjects)
  PROVE  x \in ToSet(Sort(m.relations, subjects, direction))
<1> DEFINE kinds == KindsOf(subjects)
           first == {i \in DOMAIN subjects : /\ direction = "delete"
                                             /\ subjects[i].object = "" /\ subjects[i].before = <<>>}
           turn(order) == IF direction = "insert" THEN Reverse(order) ELSE order
           one == Toposort(NonNullableDependencies(m.relations, kinds))
           two == Toposort(Dependencies(m.relations, kinds))
           rest == DOMAIN subjects \ first
           order == turn(one) \o turn(two)
<1>1. Sort(m.relations, subjects, direction) = Picked(subjects, first) \o ByKind(Picked(subjects, rest), order)
  BY DEF Sort
<1>2. IsList(order)
  BY OrderIsList
<1>3. Len(subjects) \in Nat /\ DOMAIN subjects = 1..Len(subjects)
  OBVIOUS
<1>4. PICK i \in DOMAIN subjects : x = subjects[i]
  BY DEF ToSet
<1>5. /\ first \in SUBSET DOMAIN subjects /\ rest \in SUBSET DOMAIN subjects
      /\ first \in SUBSET (1..Len(subjects)) /\ rest \in SUBSET (1..Len(subjects)) /\ (i \in first \/ i \in rest)
  BY <1>3
<1> HIDE DEF first, rest, order
<1>6. Picked(subjects, first) \in Seq(S) /\ Picked(subjects, rest) \in Seq(S)
  BY <1>5, PickedIn
<1>7. ByKind(Picked(subjects, rest), order) \in Seq(S)
  BY <1>2, <1>6, ByKindIn
<1>8. ToSet(Sort(m.relations, subjects, direction))
        = ToSet(Picked(subjects, first)) \union ToSet(ByKind(Picked(subjects, rest), order))
  BY <1>1, <1>6, <1>7, ConcatAll
<1>9. CASE i \in first
  BY <1>3, <1>4, <1>5, <1>8, <1>9, PickedAll
<1>10. CASE i \in rest
  <2>1. x \in ToSet(Picked(subjects, rest))
    BY <1>3, <1>4, <1>5, <1>10, PickedAll
  <2>2. x \in ToSet(ByKind(Picked(subjects, rest), order))
    BY <1>2, <1>6, <2>1, ByKindAll
  <2> QED
    BY <1>8, <2>2
<1> QED
  BY <1>5, <1>9, <1>10

LEMMA SortedAll ==
  ASSUME SchemaIsTyped, NEW T, NEW places \in Seq(T), NEW direction, NEW p \in ToSet(places)
  PROVE  p \in ToSet(Sorted(places, direction))
<1> DEFINE list == [j \in DOMAIN places |-> Subjects[places[j]]]
           numbered == [j \in DOMAIN list |-> [kind |-> list[j].kind, object |-> list[j].object,
                                               before |-> list[j].before, place |-> places[j]]]
           sorted == Sort(m.relations, numbered, direction)
           N == {numbered[j] : j \in DOMAIN places}
<1>1. Sorted(places, direction) = [j \in DOMAIN sorted |-> sorted[j].place]
  BY DEF Sorted
<1>2. Len(places) \in Nat /\ DOMAIN places = 1..Len(places)
  BY ListFacts
<1>3. PICK k \in 1..Len(places) : p = places[k]
  BY <1>2 DEF ToSet
<1>4. /\ DOMAIN numbered = 1..Len(places) /\ numbered = [j \in 1..Len(places) |-> numbered[j]]
      /\ numbered[k].place = p
  BY <1>2, <1>3
<1> HIDE DEF numbered
<1>5. \A j \in 1..Len(places) : numbered[j] \in N
  BY <1>2
<1> HIDE DEF N
<1>6. numbered \in Seq(N)
  BY <1>2, <1>4, <1>5, IndexedIn
<1>7. numbered[k] \in ToSet(numbered)
  BY <1>3, <1>4 DEF ToSet
<1>8. numbered[k] \in ToSet(sorted)
  BY <1>6, <1>7, SortAll
<1>9. PICK j \in DOMAIN sorted : numbered[k] = sorted[j]
  BY <1>8 DEF ToSet
<1> HIDE DEF sorted
<1>10. sorted[j].place = p
  BY <1>4, <1>9
<1> QED
  BY <1>1, <1>9, <1>10 DEF ToSet

\* ... nor when they are grouped.
LEMMA BulkGroupsAll ==
  ASSUME NEW T, NEW places \in Seq(T), NEW p \in ToSet(places)
  PROVE  \E g \in ToSet(GroupBulkSubjects(places)) : p \in ToSet(g)
<1> DEFINE kind(j) == Subjects[places[j]].kind
           all == [j \in DOMAIN places |-> kind(j)]
           kinds == Distinct(all)
           them(k) == {j \in DOMAIN places : kind(j) = kinds[k]}
           groups == [k \in DOMAIN kinds |-> Picked(places, them(k))]
<1>1. Len(places) \in Nat /\ DOMAIN places = 1..Len(places)
  BY ListFacts
<1>2. GroupBulkSubjects(places) = groups
  BY DEF GroupBulkSubjects
<1>3. PICK i \in 1..Len(places) : p = places[i]
  BY <1>1 DEF ToSet
<1>4. PICK S : all \in Seq(S)
  <2> DEFINE S == {kind(j) : j \in DOMAIN places}
  <2>1. DOMAIN all = 1..Len(places) /\ all = [j \in 1..Len(places) |-> all[j]] /\ \A j \in 1..Len(places) : all[j] \in S
    BY <1>1
  <2> HIDE DEF all, S
  <2>2. all \in Seq(S)
    BY <1>1, <2>1, IndexedIn
  <2> QED
    BY <2>2
<1>5. kind(i) \in ToSet(all)
  BY <1>1 DEF ToSet
<1>6. ToSet(kinds) = ToSet(all)
  <2> HIDE DEF all
  <2> QED
    BY <1>4, DistinctAll
<1> HIDE DEF all, kinds
<1>7. PICK k \in DOMAIN kinds : kind(i) = kinds[k]
  BY <1>5, <1>6 DEF ToSet
<1>8. them(k) \in SUBSET (1..Len(places)) /\ i \in them(k)
  BY <1>1, <1>7
<1>9. groups[k] \in ToSet(groups) /\ groups[k] = Picked(places, them(k))
  BY <1>7 DEF ToSet
<1> HIDE DEF them, groups
<1>10. p \in ToSet(groups[k])
  BY <1>1, <1>3, <1>8, <1>9, PickedAll
<1> QED
  BY <1>2, <1>9, <1>10

\* Every root is in some chunk.
LEMMA ChunksAll ==
  ASSUME NEW S, NEW list \in Seq(S), NEW size \in Nat, NEW x \in ToSet(list)
  PROVE  \E p \in DOMAIN Chunks(list, size) : x \in ToSet(Chunks(list, size)[p])
<1>1. Len(list) \in Nat /\ DOMAIN list = 1..Len(list)
  OBVIOUS
<1>2. PICK i \in 1..Len(list) : x = list[i]
  BY <1>1 DEF ToSet
<1>3. CASE size = 0
  <2>1. Chunks(list, size) = <<list>>
    BY <1>3 DEF Chunks
  <2> QED
    BY <2>1
<1>4. CASE size # 0
  <2> DEFINE n == (Len(list) + size - 1) \div size
             high(p) == Min({p * size, Len(list)})
             len == Len(list)
  <2>1. n \in Nat /\ size \in Nat \ {0} /\ len \in Nat
    <3>1. Len(list) + size - 1 \in Nat /\ size \in Nat \ {0}
      BY <1>1, <1>4
    <3> QED
      BY <1>1, <3>1
  <2>2. Chunks(list, size) = [p \in 1..n |-> SubSeq(list, (p - 1) * size + 1, high(p))]
    BY <1>4 DEF Chunks
  <2>3. \A a, b \in Nat : a * b \in Nat
    OBVIOUS
  <2>4. \A a, b, c \in Nat : a <= b => a * c <= b * c
    OBVIOUS
  <2>5. len + size - 1 < (n + 1) * size
    <3>1. \A a \in Nat : \A b \in Nat \ {0} : a < ((a \div b) + 1) * b
      OBVIOUS
    <3>2. len + size - 1 \in Nat
      BY <2>1
    <3> QED
      BY <2>1, <3>1, <3>2
  <2> HIDE DEF n, len
  <2> DEFINE T == {p \in Nat : i <= p * size}
  <2>6. i \in T
    <3>1. i * 1 <= i * size
      BY <1>2, <2>1
    <3> QED
      BY <1>2, <3>1
  <2>7. PICK p \in T : \A k \in T : p <= k
    <3>1. T \in SUBSET Nat
      OBVIOUS
    <3> HIDE DEF T
    <3> QED
      BY <2>6, <3>1, LeastExists
  <2>8. p # 0
    BY <1>2, <2>1, <2>7
  <2>9. p - 1 \in Nat /\ p - 1 \notin T
    BY <2>7, <2>8
  <2> DEFINE low == (p - 1) * size
             top == p * size
  <2>10. low \in Nat /\ top \in Nat /\ low < i /\ i <= top
    <3>1. low \in Nat /\ top \in Nat
      BY <2>1, <2>3, <2>9
    <3> QED
      BY <1>2, <2>7, <2>9, <3>1
  <2>11. top = low + size
    <3>1. \A a, b \in Nat : (a + 1) * b = a * b + b
      OBVIOUS
    <3>2. ((p - 1) + 1) * size = low + size
      BY <2>1, <2>9, <3>1
    <3>3. (p - 1) + 1 = p
      BY <2>7
    <3> QED
      BY <3>2, <3>3
  <2>12. p <= n
    <3> SUFFICES ASSUME n + 1 <= p PROVE FALSE
      BY <2>1, <2>7
    <3>1. (n + 1) * size <= top /\ (n + 1) * size \in Nat
      BY <2>1, <2>3, <2>4, <2>7
    <3> DEFINE above == (n + 1) * size
    <3>2. len + size - 1 < above /\ above <= top /\ above \in Nat
      BY <2>5, <3>1
    <3> HIDE DEF above, low, top
    <3>3. i <= len
      BY <1>1 DEF len
    <3> QED
      BY <1>1, <1>2, <2>1, <2>10, <2>11, <3>2, <3>3
  <2>13. high(p) \in {top, len} /\ high(p) \in Nat /\ i <= high(p) /\ high(p) <= len
    <3> DEFINE ends == {top, len}
    <3> HIDE DEF top
    <3>1. ends \in SUBSET Nat /\ ends # {}
      BY <2>1, <2>10
    <3>2. \E e \in ends : \A y \in ends : e <= y
      <4> HIDE DEF ends
      <4> QED
        BY <3>1, LeastExists
    <3>3. Min(ends) \in ends /\ \A y \in ends : Min(ends) <= y
      <4> HIDE DEF ends
      <4> QED
        BY <3>2 DEF Min
    <3>4. high(p) = Min(ends)
      BY DEF len, top
    <3>5. i <= len
      BY <1>1 DEF len
    <3> HIDE DEF high
    <3> QED
      BY <2>1, <2>10, <3>1, <3>3, <3>4, <3>5
  <2>14. p \in DOMAIN Chunks(list, size) /\ Chunks(list, size)[p] = SubSeq(list, low + 1, high(p))
    <3>1. p \in 1..n
      BY <2>1, <2>7, <2>8, <2>12
    <3> QED
      BY <2>2, <3>1
  <2> HIDE DEF low, high
  <2> DEFINE part == SubSeq(list, low + 1, high(p))
             k == i - low
  <2>15. k \in 1..((high(p) - (low + 1)) + 1) /\ low + 1 + k - 1 = i
    BY <1>1, <1>2, <2>10, <2>13
  <2>16. DOMAIN part = 1..((high(p) - (low + 1)) + 1)
    <3>1. low + 1 \in 1..(Len(list) + 1) /\ high(p) \in 0..Len(list)
      BY <1>1, <1>2, <2>1, <2>10, <2>13 DEF len
    <3>2. low + 1 <= high(p)
      BY <1>2, <2>10, <2>13
    <3> QED
      BY <1>1, <3>1, <3>2
  <2>17. part[k] = list[i]
    <3>1. part = [y \in 1..((high(p) - (low + 1)) + 1) |-> list[(low + 1) + y - 1]]
      BY <1>1, <2>10, <2>13 
    <3> QED
      BY <2>15, <3>1
  <2> HIDE DEF part, k
  <2>18. x \in ToSet(part)
    BY <1>2, <2>15, <2>16, <2>17 DEF ToSet
  <2> QED
    BY <2>14, <2>18 DEF part
<1> QED
  BY <1>3, <1>4

LEMMA RelationsOfAll ==
  ASSUME SchemaIsTyped, NEW kind, NEW types, NEW r \in Relations(m, kind, types)
  PROVE  r \in ToSet(RelationsOf(m, kind, types))
<1> DEFINE places == {i \in DOMAIN m.relations : m.relations[i] \in Relations(m, kind, types)}
<1>1. m.relations \in Seq(ToSet(m.relations))
  BY SchemaFacts
<1>2. Len(m.relations) \in Nat /\ DOMAIN m.relations = 1..Len(m.relations)
  BY <1>1
<1>3. PICK i \in DOMAIN m.relations : r = m.relations[i]
  BY DEF Relations, ToSet
<1>4. places \in SUBSET (1..Len(m.relations)) /\ i \in places
  BY <1>2, <1>3
<1> HIDE DEF places
<1>5. m.relations[i] \in ToSet(Picked(m.relations, places))
  BY <1>2, <1>4, PickedAll
<1> QED
  BY <1>3, <1>5 DEF RelationsOf, places

LEMMA RelationValuesAll ==
  ASSUME SchemaIsTyped, ObjectsAreTyped, NEW o \in DOMAIN graph, NEW v \in ValuesOf(o)
  PROVE  v \in ToSet(RelationValues(m, graph, o))
<1> DEFINE own == RelationsOf(m, m.kindOf[o], AllTypes)
           of(i) == graph[o].rel[own[i].name].of
           part(i) == [j \in DOMAIN of(i) |-> [relation |-> own[i], object |-> of(i)[j]]]
           parts == [i \in DOMAIN own |-> part(i)]
           S == [relation : Relations(m, m.kindOf[o], AllTypes), object : DOMAIN graph]
<1>1. own \in Seq(Relations(m, m.kindOf[o], AllTypes))
  BY RelationsOfIn
<1>2. Len(own) \in Nat /\ DOMAIN own = 1..Len(own) /\ \A i \in 1..Len(own) : own[i] \in Relations(m, m.kindOf[o], AllTypes)
  BY <1>1
<1>3. ASSUME NEW i \in 1..Len(own)
      PROVE  part(i) \in Seq(S) /\ DOMAIN part(i) = DOMAIN of(i)
  <2>1. own[i] \in Relations(m, m.kindOf[o], AllTypes)
    BY <1>2
  <2>2. of(i) \in Seq(DOMAIN graph)
    BY <2>1, ObjectFacts
  <2>3. /\ Len(of(i)) \in Nat /\ DOMAIN of(i) = 1..Len(of(i))
        /\ \A j \in 1..Len(of(i)) : of(i)[j] \in DOMAIN graph
    <3> HIDE DEF of
    <3> QED
      BY <2>2, ListFacts
  <2>4. \A j \in 1..Len(of(i)) : [relation |-> own[i], object |-> of(i)[j]] \in S
    BY <2>1, <2>3
  <2>5. part(i) = [j \in 1..Len(of(i)) |-> [relation |-> own[i], object |-> of(i)[j]]]
    BY <2>3
  <2> HIDE DEF own, of, S
  <2> QED
    BY <2>3, <2>4, <2>5
<1>4. parts = [i \in 1..Len(own) |-> part(i)] /\ parts \in Seq(Seq(S))
  <2>1. parts = [i \in 1..Len(own) |-> part(i)]
    BY <1>2
  <2> HIDE DEF own, part, S
  <2> QED
    BY <1>2, <1>3, <2>1
<1>5. RelationValues(m, graph, o) = FlattenSeq(parts)
  BY DEF RelationValues
<1>6. /\ v.relation \in Relations(m, m.kindOf[o], AllTypes) /\ v = [relation |-> v.relation, object |-> v.object]
      /\ v.object \in ToSet(graph[o].rel[v.relation.name].of)
  BY DEF ValuesOf
<1>7. PICK i \in 1..Len(own) : own[i] = v.relation
  <2>1. v.relation \in ToSet(own)
    BY <1>6, RelationsOfAll
  <2> HIDE DEF own
  <2> QED
    BY <1>2, <2>1 DEF ToSet
<1>8. PICK j \in DOMAIN of(i) : of(i)[j] = v.object
  BY <1>6, <1>7 DEF ToSet
<1>9. part(i)[j] = v
  BY <1>6, <1>7, <1>8
<1>10. i \in DOMAIN parts /\ parts[i] = part(i) /\ j \in DOMAIN parts[i]
  <2> HIDE DEF own, of
  <2> QED
    BY <1>2, <1>3, <1>8
<1> HIDE DEF parts, part, S
<1>11. v \in ToSet(FlattenSeq(parts))
  BY <1>4, <1>9, <1>10, FlattenAll
<1> QED
  BY <1>5, <1>11

(***************************************************************************)
(* The cascades of a remove are followed to their end.                     *)
(***************************************************************************)
\* The values of some objects, by the object and the place among its values.
ListedValues(objects) == FlattenSeq([i \in DOMAIN objects |-> RelationValues(m, graph, objects[i])])
ValuePlaces == UNION {{<<o, j>> : j \in DOMAIN RelationValues(m, graph, o)} : o \in DOMAIN graph}

\* Their number is what the lists of values are long.
LEMMA ListedLen ==
  ASSUME SchemaIsTyped, ObjectsAreTyped, NEW objects \in Seq(DOMAIN graph)
  PROVE  LET parts == [i \in DOMAIN objects |-> RelationValues(m, graph, objects[i])]
         IN /\ IsFiniteSet(InParts(parts, Len(objects)))
            /\ Len(ListedValues(objects)) = Cardinality(InParts(parts, Len(objects)))
            /\ Len(ListedValues(objects)) \in Nat
<1> DEFINE parts == [i \in DOMAIN objects |-> RelationValues(m, graph, objects[i])]
           S == UNION {ValuesOf(o) : o \in DOMAIN graph}
<1>1. Len(objects) \in Nat /\ DOMAIN objects = 1..Len(objects) /\ \A i \in 1..Len(objects) : objects[i] \in DOMAIN graph
  BY ListFacts
<1>2. \A i \in 1..Len(objects) : parts[i] \in Seq(S)
  <2> TAKE i \in 1..Len(objects)
  <2>1. RelationValues(m, graph, objects[i]) \in Seq(ValuesOf(objects[i]))
    BY <1>1, RelationValuesIn
  <2>2. ValuesOf(objects[i]) \subseteq S
    BY <1>1
  <2>3. RelationValues(m, graph, objects[i]) \in Seq(S)
    <3> HIDE DEF S
    <3> QED
      BY <2>1, <2>2, WiderList
  <2>4. parts[i] = RelationValues(m, graph, objects[i])
    BY <1>1
  <2> QED
    BY <2>3, <2>4
<1>3. DOMAIN parts = 1..Len(objects) /\ parts = [i \in 1..Len(objects) |-> parts[i]]
  BY <1>1
<1> HIDE DEF S, parts
<1>4. parts \in Seq(Seq(S)) /\ Len(parts) = Len(objects)
  BY <1>1, <1>2, <1>3, IndexedIn
<1>5. IsFiniteSet(InParts(parts, Len(objects))) /\ Len(FlattenSeq(parts)) = Cardinality(InParts(parts, Len(objects)))
  BY <1>4, FlattenLen
<1>6. Len(FlattenSeq(parts)) \in Nat
  BY <1>5, FS_CardinalityType
<1>7. ListedValues(objects) = FlattenSeq(parts)
  BY DEF ListedValues, parts
<1> QED
  BY <1>5, <1>6, <1>7 DEF parts

\* There are as many steps as there are values to look at: of each root once, and of
\* each object that is added.
LEMMA StepsSuffice ==
  ASSUME SchemaIsTyped, ObjectsAreTyped, NEW part \in Seq(DOMAIN graph)
  PROVE  LET steps == ListedValues(part \o SetToSeq(DOMAIN graph))
         IN /\ IsFiniteSet(ValuePlaces) /\ Len(steps) \in Nat /\ Len(ListedValues(part)) \in Nat
            /\ Len(ListedValues(part)) + Cardinality(ValuePlaces) <= Len(steps)
<1> DEFINE rest == SetToSeq(DOMAIN graph)
           all == part \o rest
           parts(objects) == [i \in DOMAIN objects |-> RelationValues(m, graph, objects[i])]
           A == InParts(parts(part), Len(part))
           B == InParts(parts(all), Len(all))
           C == B \ A
           h == [t \in C |-> <<all[t[1]], t[2]>>]
<1>1. rest \in Seq(DOMAIN graph) /\ ToSet(rest) = DOMAIN graph
  BY SetToSeqIn, SetToSeqAll DEF ObjectsAreTyped
<1> HIDE DEF rest
<1>2. all \in Seq(DOMAIN graph)
  BY <1>1, ConcatIn
<1>3. /\ Len(part) \in Nat /\ DOMAIN part = 1..Len(part) /\ Len(rest) \in Nat /\ DOMAIN rest = 1..Len(rest)
      /\ Len(all) = Len(part) + Len(rest) /\ DOMAIN all = 1..Len(all)
      /\ \A i \in 1..Len(part) : all[i] = part[i]
      /\ \A k \in 1..Len(rest) : all[Len(part) + k] = rest[k]
  BY <1>1
<1> HIDE DEF all
<1>4. IsFiniteSet(A) /\ Len(ListedValues(part)) = Cardinality(A) /\ Len(ListedValues(part)) \in Nat
  BY ListedLen
<1>5. IsFiniteSet(B) /\ Len(ListedValues(all)) = Cardinality(B) /\ Len(ListedValues(all)) \in Nat
  BY <1>2, ListedLen
<1>6. \A t : t \in A <=> \E i \in 1..Len(part) : \E j \in DOMAIN RelationValues(m, graph, part[i]) : t = <<i, j>>
  <2>1. \A i \in 1..Len(part) : parts(part)[i] = RelationValues(m, graph, part[i])
    BY <1>3
  <2> HIDE DEF parts
  <2> QED
    BY <2>1 DEF InParts
<1>7. \A t : t \in B <=> \E i \in 1..Len(all) : \E j \in DOMAIN RelationValues(m, graph, all[i]) : t = <<i, j>>
  <2>1. \A i \in 1..Len(all) : parts(all)[i] = RelationValues(m, graph, all[i])
    BY <1>3
  <2> HIDE DEF parts
  <2> QED
    BY <2>1 DEF InParts
<1> HIDE DEF A, B
<1>8. A \subseteq B
  <2> SUFFICES ASSUME NEW i \in 1..Len(part), NEW j \in DOMAIN RelationValues(m, graph, part[i])
               PROVE  <<i, j>> \in B
    BY <1>6
  <2>1. i \in 1..Len(all) /\ all[i] = part[i]
    BY <1>3
  <2> QED
    BY <1>7, <2>1
<1>9. IsFiniteSet(C) /\ Cardinality(C) = Cardinality(B) - Cardinality(A) /\ Cardinality(A) \in Nat /\ Cardinality(B) \in Nat
  <2>1. B \intersect A = A
    BY <1>8
  <2>2. IsFiniteSet(B \ A) /\ Cardinality(B \ A) = Cardinality(B) - Cardinality(B \intersect A)
    BY <1>5, FS_Difference
  <2>3. Cardinality(A) \in Nat /\ Cardinality(B) \in Nat
    BY <1>4, <1>5
  <2> QED
    BY <2>1, <2>2, <2>3
<1>10. h \in [C -> ValuePlaces]
  <2> SUFFICES ASSUME NEW t \in C PROVE <<all[t[1]], t[2]>> \in ValuePlaces
    BY Zenon
  <2>1. PICK i \in 1..Len(all) : \E j \in DOMAIN RelationValues(m, graph, all[i]) : t = <<i, j>>
    BY <1>7
  <2>2. PICK j \in DOMAIN RelationValues(m, graph, all[i]) : t = <<i, j>>
    BY <2>1
  <2>3. all[i] \in DOMAIN graph
    BY <1>2, <1>3
  <2> QED
    BY <2>2, <2>3 DEF ValuePlaces
<1>11. \A y \in ValuePlaces : \E t \in C : h[t] = y
  <2> TAKE y \in ValuePlaces
  <2>0. PICK o \in DOMAIN graph : \E j \in DOMAIN RelationValues(m, graph, o) : y = <<o, j>>
    BY DEF ValuePlaces
  <2>5. PICK j \in DOMAIN RelationValues(m, graph, o) : y = <<o, j>>
    BY <2>0
  <2>1. PICK k \in 1..Len(rest) : rest[k] = o
    BY <1>1, <1>3 DEF ToSet
  <2>2. Len(part) + k \in 1..Len(all) /\ all[Len(part) + k] = o /\ Len(part) + k \notin 1..Len(part)
    BY <1>3, <2>1
  <2>3. <<Len(part) + k, j>> \in B
    BY <1>7, <2>2
  <2>4. <<Len(part) + k, j>> \notin A
    BY <1>6, <2>2
  <2> QED
    BY <2>2, <2>3, <2>4, <2>5
<1> HIDE DEF C, h
<1>12. IsFiniteSet(ValuePlaces) /\ Cardinality(ValuePlaces) <= Cardinality(C)
  <2>1. h \in Surjection(C, ValuePlaces)
    BY <1>10, <1>11 DEF Surjection
  <2> QED
    BY <1>9, <2>1, FS_Surjection
<1>13. Cardinality(ValuePlaces) \in Nat /\ Cardinality(C) \in Nat
  BY <1>9, <1>12, FS_CardinalityType
<1> QED
  BY <1>4, <1>5, <1>9, <1>12, <1>13 DEF all, rest

\* No two objects in memory stand for one row.
OneEach ==
  \A o, p \in DOMAIN graph :
    m.kindOf[o] = m.kindOf[p] /\ graph[o].id = graph[p].id /\ graph[o].id # 0 => o = p

ObjectsIn(list) == {list[i].object : i \in DOMAIN list}
\* A subject may be what the mode says and nothing else, and one with an identifier may
\* be, or must be, that.
Restricted(s) ==
  /\ s.canBeUpdated => mode = "save"
  /\ s.canBeSoftRemoved => mode = "soft-remove"
  /\ s.canBeRecovered => mode = "recover"
Charged(s) ==
  /\ Restricted(s)
  /\ s.ids # <<>> => /\ mode = "remove" => s.mustBeRemoved
                     /\ mode = "soft-remove" => s.canBeSoftRemoved
                     /\ mode = "recover" => s.canBeRecovered

\* The values that are still to come, of objects that have no subject.
LeftPlaces(list) == {t \in ValuePlaces : t[1] \notin ObjectsIn(list)}

\* What cascades is there or among the values yet to be looked at, for which there are
\* enough steps.
CascadesFollowed(part, left, work) ==
  /\ CascadeHolds(0, work)
  /\ ToSet(part) \subseteq ObjectsIn(work.list)
  /\ \A s \in ToSet(work.list) : Charged(s)
  /\ \A o \in ObjectsIn(work.list) : \A v \in ValuesOf(o) :
       Cascades(v.relation, mode) => v.object \in ObjectsIn(work.list) \/ v \in ToSet(work.values)
  /\ work.values = <<>> \/ Len(work.values) + Cardinality(LeftPlaces(work.list)) <= left
CascadeCounts(given, work) == CascadesFollowed(given[1][1], given[2], work)
CountFold == INSTANCE FoldFacts WITH Op <- Cascade, Holds <- CascadeCounts

LEMMA AllowIsCharged ==
  ASSUME NEW s, Fresh(s), Charged(s), NEW r
  PROVE  Charged(Allow(s, r, mode)) /\ Allow(s, r, mode).object = s.object
<1> DEFINE t == Allow(s, r, mode)
<1>1. s = [f \in Fields |-> s[f]]
  BY DEF Fresh, Shaped
<1>2. t.object = s.object /\ t.ids = s.ids
  BY <1>1 DEF Fields, Allow
<1>3. t.mustBeRemoved = (s.mustBeRemoved \/ (mode = "remove" /\ "remove" \in r.cascade /\ s.ids # <<>>))
  BY <1>1 DEF Fields, Allow
<1>4. t.canBeSoftRemoved = (s.canBeSoftRemoved \/ (mode = "soft-remove" /\ mode \in r.cascade))
  BY <1>1 DEF Fields, Allow
<1>5. t.canBeRecovered = (s.canBeRecovered \/ (mode = "recover" /\ mode \in r.cascade))
  BY <1>1 DEF Fields, Allow
<1>9. t.canBeUpdated = (s.canBeUpdated \/ (mode = "save" /\ "update" \in r.cascade))
  BY <1>1 DEF Fields, Allow
<1> HIDE DEF t
<1>6. Charged(t)
  BY <1>2, <1>3, <1>4, <1>5, <1>9, Zenon DEF Charged, Restricted
<1> QED
  BY <1>2, <1>6 DEF t

LEMMA CascadedIsCharged ==
  ASSUME NEW s, Fresh(s), Restricted(s), NEW r, mode # "save", Cascades(r, mode)
  PROVE  Charged(Allow(s, r, mode)) /\ Allow(s, r, mode).object = s.object
<1> DEFINE t == Allow(s, r, mode)
<1>1. s = [f \in Fields |-> s[f]]
  BY DEF Fresh, Shaped
<1>2. t.object = s.object /\ t.ids = s.ids
  BY <1>1 DEF Fields, Allow
<1>3. t.mustBeRemoved = (s.mustBeRemoved \/ (mode = "remove" /\ "remove" \in r.cascade /\ s.ids # <<>>))
  BY <1>1 DEF Fields, Allow
<1>4. t.canBeSoftRemoved = (s.canBeSoftRemoved \/ (mode = "soft-remove" /\ mode \in r.cascade))
  BY <1>1 DEF Fields, Allow
<1>5. t.canBeRecovered = (s.canBeRecovered \/ (mode = "recover" /\ mode \in r.cascade))
  BY <1>1 DEF Fields, Allow
<1>9. t.canBeUpdated = (s.canBeUpdated \/ (mode = "save" /\ "update" \in r.cascade))
  BY <1>1 DEF Fields, Allow
<1> HIDE DEF t
<1>6. mode \in r.cascade
  BY DEF Cascades
<1>7. mode = "remove" => "remove" \in r.cascade
  BY <1>6
<1>8. Charged(t)
  BY <1>2, <1>3, <1>4, <1>5, <1>6, <1>7, <1>9, Zenon DEF Charged, Restricted
<1> QED
  BY <1>2, <1>8 DEF t

LEMMA RootIsCharged ==
  ASSUME ObjectsAreTyped, NEW o \in Operated
  PROVE  Charged(RootSubject(m, graph, mode, o)) /\ RootSubject(m, graph, mode, o).object = o
<1> DEFINE s == Subject(m.kindOf[o], o, IdsOf(graph, o))
           t == RootSubject(m, graph, mode, o)
<1>1. Fresh(s) /\ s.object = o
  BY NewIsFresh DEF Subject
<1>2. t = [s EXCEPT
     !.canBeInserted = mode = "save", !.canBeUpdated = mode = "save",
     !.mustBeRemoved = mode = "remove", !.canBeSoftRemoved = mode = "soft-remove",
     !.canBeRecovered = mode = "recover"]
  BY DEF RootSubject
<1> HIDE DEF s, t
<1>3. /\ t.object = s.object /\ t.mustBeRemoved = (mode = "remove") /\ t.canBeUpdated = (mode = "save")
      /\ t.canBeSoftRemoved = (mode = "soft-remove") /\ t.canBeRecovered = (mode = "recover")
  BY <1>1, <1>2 DEF Fresh, Shaped, Fields
<1>4. Charged(t)
  BY <1>3, Zenon DEF Charged, Restricted
<1> QED
  BY <1>1, <1>3, <1>4 DEF t

\* Who has a subject stands for the row that the value refers to.
LEMMA ThereIsIn ==
  ASSUME ObjectsAreTyped, OneEach, NEW list, AllFresh(list), NEW o \in DOMAIN graph, AlreadyThere(m, graph, list, o) # {}
  PROVE  o \in ObjectsIn(list)
<1>1. PICK i \in DOMAIN list : \/ list[i].object = o
                               \/ list[i].kind = m.kindOf[o] /\ graph[o].id # 0 /\ list[i].ids = <<graph[o].id>>
  BY DEF AlreadyThere
<1>2. CASE list[i].object = o
  BY <1>2 DEF ObjectsIn
<1>3. CASE list[i].kind = m.kindOf[o] /\ graph[o].id # 0 /\ list[i].ids = <<graph[o].id>>
  <2> DEFINE p == list[i].object
  <2>1. list[i] \in ToSet(list)
    BY DEF ToSet
  <2>2. Fresh(list[i])
    BY <2>1 DEF AllFresh
  <2>3. p \in DOMAIN graph /\ list[i].kind = m.kindOf[p] /\ list[i].ids = IdsOf(graph, p)
    BY <2>2, OperatedAreObjects DEF Fresh
  <2> HIDE DEF p
  <2>4. graph[p].id = graph[o].id
    BY <1>3, <2>3 DEF IdsOf
  <2>5. o = p
    BY <1>3, <2>3, <2>4 DEF OneEach
  <2> QED
    BY <2>5 DEF ObjectsIn, p
<1> QED
  BY <1>1, <1>2, <1>3

\* Adding a subject takes the values of its object from those to come.
LEMMA LeftAfter ==
  ASSUME SchemaIsTyped, ObjectsAreTyped, IsFiniteSet(ValuePlaces), NEW a, NEW b, NEW o \in DOMAIN graph,
         o \notin ObjectsIn(a), ObjectsIn(b) = ObjectsIn(a) \union {o}
  PROVE  /\ Cardinality(LeftPlaces(a)) \in Nat /\ Cardinality(LeftPlaces(b)) \in Nat
         /\ Len(RelationValues(m, graph, o)) \in Nat
         /\ Len(RelationValues(m, graph, o)) + Cardinality(LeftPlaces(b)) = Cardinality(LeftPlaces(a))
<1> DEFINE of == RelationValues(m, graph, o)
           own == {<<o, j>> : j \in DOMAIN of}
<1>1. Len(of) \in Nat /\ DOMAIN of = 1..Len(of)
  <2>1. of \in Seq(ValuesOf(o))
    BY RelationValuesIn
  <2> HIDE DEF of
  <2> QED
    BY <2>1
<1>2. \A t : t \in ValuePlaces /\ t[1] = o <=> t \in own
  <2>1. \A t : t \in ValuePlaces <=> \E p \in DOMAIN graph : \E j \in DOMAIN RelationValues(m, graph, p) : t = <<p, j>>
    BY DEF ValuePlaces
  <2>2. \A t : t \in own <=> \E j \in DOMAIN RelationValues(m, graph, o) : t = <<o, j>>
    OBVIOUS
  <2> HIDE DEF own, of
  <2>3. \A p, j : <<p, j>>[1] = p
    OBVIOUS
  <2> QED
    BY <2>1, <2>2, <2>3
<1> HIDE DEF of
<1>3. IsFiniteSet(own) /\ Cardinality(own) = Len(of)
  <2> DEFINE h == [j \in 1..Len(of) |-> <<o, j>>]
  <2>1. h \in [1..Len(of) -> own] /\ \A y \in own : \E j \in 1..Len(of) : h[j] = y
    BY <1>1
  <2>2. \A x, y \in 1..Len(of) : h[x] = h[y] => x = y
    OBVIOUS
  <2>3. h \in Bijection(1..Len(of), own)
    <3> HIDE DEF h, own
    <3> QED
      BY <2>1, <2>2 DEF Bijection, Injection, Surjection, IsInjective
  <2>4. ExistsBijection(1..Len(of), own)
    BY <2>3 DEF ExistsBijection
  <2> HIDE DEF h, own
  <2> QED
    BY <1>1, <2>4, FS_NatBijection, FS_CountingElements
<1> HIDE DEF own
<1>4. LeftPlaces(a) = LeftPlaces(b) \union own /\ LeftPlaces(b) \intersect own = {}
  BY <1>2 DEF LeftPlaces
<1>5. IsFiniteSet(LeftPlaces(b)) /\ IsFiniteSet(LeftPlaces(a))
  <2>1. LeftPlaces(a) \in SUBSET ValuePlaces /\ LeftPlaces(b) \in SUBSET ValuePlaces
    BY DEF LeftPlaces
  <2> QED
    BY <2>1, FS_Subset
<1>6. Cardinality(LeftPlaces(b)) \in Nat /\ Cardinality(LeftPlaces(a)) \in Nat
  BY <1>5, FS_CardinalityType
<1>7. Cardinality(LeftPlaces(b) \union own) = Cardinality(LeftPlaces(b)) + Cardinality(own) - Cardinality(LeftPlaces(b) \intersect own)
  BY <1>3, <1>5, FS_Union
<1>8. Cardinality(LeftPlaces(b) \intersect own) = 0
  BY <1>4, FS_EmptySet
<1>9. Cardinality(LeftPlaces(a)) = Cardinality(LeftPlaces(b)) + Len(of)
  BY <1>1, <1>3, <1>4, <1>6, <1>7, <1>8
<1> QED
  BY <1>1, <1>6, <1>9 DEF of

\* A step of the cascades follows them.
LEMMA CascadeFollows ==
  ASSUME SchemaIsTyped, ObjectsAreTyped, IsFiniteSet(ValuePlaces), OneEach, mode # "save",
         NEW part, NEW k \in Nat, NEW work, CascadesFollowed(part, k + 1, work), NEW step
  PROVE  CascadesFollowed(part, k, Cascade(work, step))
<1> DEFINE v == Head(work.values)
           rest == [work EXCEPT !.values = Tail(@)]
           there == AlreadyThere(work.m, work.graph, work.list, v.object)
           new == Subject(work.m.kindOf[v.object], v.object, IdsOf(work.graph, v.object))
           next == Cascade(work, step)
<1>1. /\ work = [f \in {"m", "graph", "mode", "values", "list"} |-> work[f]]
      /\ work.m = m /\ work.graph = graph /\ work.mode = mode
      /\ work.values \in Seq(Reachable) /\ AllFresh(work.list)
  BY DEF CascadesFollowed, CascadeHolds
<1>2. /\ ToSet(part) \subseteq ObjectsIn(work.list)
      /\ \A s \in ToSet(work.list) : Charged(s)
      /\ \A o \in ObjectsIn(work.list) : \A w \in ValuesOf(o) :
           Cascades(w.relation, mode) => w.object \in ObjectsIn(work.list) \/ w \in ToSet(work.values)
      /\ work.values = <<>> \/ Len(work.values) + Cardinality(LeftPlaces(work.list)) <= k + 1
  BY DEF CascadesFollowed
<1>3. CascadeHolds(0, next)
  BY CascadeKeeps DEF CascadesFollowed
<1>4. CASE work.values = <<>>
  <2>1. next = work
    BY <1>4 DEF Cascade
  <2> HIDE DEF next
  <2>2. CascadesFollowed(part, k, work)
    BY <1>4 DEF CascadesFollowed
  <2> QED
    BY <2>1, <2>2 DEF next
<1>5. ASSUME work.values # <<>>
      PROVE  /\ v \in Reachable /\ Tail(work.values) \in Seq(Reachable)
             /\ Len(Tail(work.values)) \in Nat /\ Len(work.values) = Len(Tail(work.values)) + 1
             /\ \A w \in ToSet(work.values) : w = v \/ w \in ToSet(Tail(work.values))
  <2>1. v \in Reachable /\ Tail(work.values) \in Seq(Reachable) /\ Len(work.values) \in Nat /\ Len(work.values) # 0
        /\ DOMAIN work.values = 1..Len(work.values)
    BY <1>1, <1>5
  <2>2. Len(Tail(work.values)) = Len(work.values) - 1 /\ DOMAIN Tail(work.values) = 1..(Len(work.values) - 1)
    BY <1>1, <1>5
  <2>3. ASSUME NEW i \in 1..Len(work.values), i # 1
        PROVE  work.values[i] \in ToSet(Tail(work.values))
    <3>1. i - 1 \in 1..(Len(work.values) - 1) /\ (i - 1) + 1 = i
      BY <2>1, <2>3
    <3>2. Tail(work.values)[i - 1] = work.values[(i - 1) + 1]
      BY <1>1, <1>5, <2>2, <3>1
    <3> QED
      BY <2>2, <3>1, <3>2 DEF ToSet
  <2>4. work.values[1] = v
    BY <1>1, <1>5
  <2>5. \A w \in ToSet(work.values) : w = v \/ w \in ToSet(Tail(work.values))
    <3> HIDE DEF v
    <3> QED
      BY <2>1, <2>3, <2>4 DEF ToSet
  <2> QED
    BY <2>1, <2>2, <2>5
<1>6. /\ rest.m = m /\ rest.graph = graph /\ rest.mode = mode
      /\ rest.values = Tail(work.values) /\ rest.list = work.list
      /\ rest = [f \in {"m", "graph", "mode", "values", "list"} |-> rest[f]]
  BY <1>1
<1>7. \A x : Cardinality(LeftPlaces(x)) \in Nat
  <2> TAKE x
  <2>1. LeftPlaces(x) \in SUBSET ValuePlaces
    BY DEF LeftPlaces
  <2> QED
    BY <2>1, FS_Subset, FS_CardinalityType
<1>8. CASE work.values # <<>> /\ ~Cascades(v.relation, work.mode)
  <2>1. next = rest
    BY <1>8 DEF Cascade
  <2>2. \A o \in ObjectsIn(work.list) : \A w \in ValuesOf(o) :
          Cascades(w.relation, mode) => w.object \in ObjectsIn(work.list) \/ w \in ToSet(Tail(work.values))
    BY <1>1, <1>2, <1>5, <1>8
  <2>3. Len(Tail(work.values)) + Cardinality(LeftPlaces(work.list)) <= k
    BY <1>2, <1>5, <1>7, <1>8
  <2> HIDE DEF next, rest, v
  <2>4. CascadesFollowed(part, k, rest)
    BY <1>2, <1>3, <1>6, <2>1, <2>2, <2>3 DEF CascadesFollowed
  <2> QED
    BY <2>1, <2>4 DEF next
<1>9. CASE work.values # <<>> /\ Cascades(v.relation, work.mode) /\ there # {}
  <2>1. next = [rest EXCEPT !.list[Min(there)] = Allow(@, v.relation, work.mode)]
    BY <1>9 DEF Cascade
  <2>2. there \in SUBSET DOMAIN work.list
    BY DEF AlreadyThere
  <2>3. v.object \in DOMAIN graph
    <3>1. v.object \in Operated
      <4> HIDE DEF v
      <4> QED
        BY <1>1, <1>5, <1>9, OperatedCloses
    <3> QED
      BY <3>1, OperatedAreObjects
  <2>4. v.object \in ObjectsIn(work.list)
    <3>1. AlreadyThere(m, graph, work.list, v.object) # {}
      BY <1>1, <1>9
    <3> HIDE DEF v, there
    <3> QED
      BY <1>1, <2>3, <3>1, ThereIsIn
  <2> HIDE DEF v, rest, there
  <2>5. work.list \in Seq(ToSet(work.list)) /\ \A s \in ToSet(work.list) : Fresh(s)
    BY <1>1 DEF AllFresh
  <2>6. DOMAIN work.list = 1..Len(work.list) /\ Len(work.list) \in Nat
    BY <2>5
  <2>7. Min(there) \in there
    BY <1>9, <2>2, <2>6, MinIn
  <2>8. Min(there) \in DOMAIN work.list /\ work.list[Min(there)] \in ToSet(work.list)
    BY <2>2, <2>7 DEF ToSet
  <2> DEFINE now == Allow(work.list[Min(there)], v.relation, mode)
             list == [work.list EXCEPT ![Min(there)] = now]
  <2>9. Charged(now) /\ now.object = work.list[Min(there)].object
    BY <1>2, <2>5, <2>8, AllowIsCharged
  <2> HIDE DEF now
  <2>10. DOMAIN list = DOMAIN work.list /\ \A i \in DOMAIN list : list[i] = IF i = Min(there) THEN now ELSE work.list[i]
    BY <2>8
  <2>11. next = [rest EXCEPT !.list = list]
    <3>1. [rest EXCEPT !.list[Min(there)] = Allow(@, v.relation, work.mode)] = [rest EXCEPT !.list = list]
      BY <1>1, <1>6 DEF now
    <3> QED
      BY <2>1, <3>1
  <2> HIDE DEF list, next
  <2>12. next.list = list /\ next.values = Tail(work.values)
    BY <1>6, <2>11
  <2>13. ObjectsIn(list) = ObjectsIn(work.list)
    <3>1. \A i \in DOMAIN list : list[i].object = work.list[i].object
      BY <2>9, <2>10
    <3> QED
      BY <2>10, <3>1 DEF ObjectsIn
  <2>14. \A s \in ToSet(list) : Charged(s)
    <3> SUFFICES ASSUME NEW i \in DOMAIN list PROVE Charged(list[i])
      BY DEF ToSet
    <3>1. CASE i = Min(there)
      BY <2>9, <2>10, <3>1
    <3>2. CASE i # Min(there)
      <4>1. list[i] = work.list[i] /\ work.list[i] \in ToSet(work.list)
        BY <2>10, <3>2 DEF ToSet
      <4> QED
        BY <1>2, <4>1
    <3> QED
      BY <3>1, <3>2
  <2>15. \A o \in ObjectsIn(list) : \A w \in ValuesOf(o) :
           Cascades(w.relation, mode) => w.object \in ObjectsIn(list) \/ w \in ToSet(Tail(work.values))
    BY <1>2, <1>5, <1>9, <2>4, <2>13
  <2>16. Len(Tail(work.values)) + Cardinality(LeftPlaces(list)) <= k
    <3>1. LeftPlaces(list) = LeftPlaces(work.list)
      BY <2>13 DEF LeftPlaces
    <3> QED
      BY <1>2, <1>5, <1>7, <1>9, <3>1
  <2> HIDE DEF rest
  <2>17. CascadesFollowed(part, k, next)
    BY <1>2, <1>3, <2>12, <2>13, <2>14, <2>15, <2>16 DEF CascadesFollowed
  <2> QED
    BY <2>17 DEF next
<1>10. CASE work.values # <<>> /\ Cascades(v.relation, work.mode) /\ there = {}
  <2>1. next = [rest EXCEPT !.list = Append(@, Allow(new, v.relation, work.mode)),
                       !.values = RelationValues(work.m, work.graph, v.object) \o @]
    BY <1>10 DEF Cascade
  <2>2. v.object \in Operated /\ v.object \in DOMAIN graph
    <3> HIDE DEF v
    <3> QED
      BY <1>1, <1>5, <1>10, OperatedCloses, OperatedAreObjects
  <2>3. Fresh(new) /\ new.object = v.object /\ Restricted(new)
    <3>1. new = Subject(m.kindOf[v.object], v.object, IdsOf(graph, v.object))
      BY <1>1
    <3> HIDE DEF new, v
    <3> QED
      BY <2>2, <3>1, NewIsFresh DEF Subject, Restricted
  <2>4. v.object \notin ObjectsIn(work.list)
    BY <1>10 DEF AlreadyThere, ObjectsIn
  <2> HIDE DEF v, rest, there, new
  <2> DEFINE now == Allow(new, v.relation, mode)
             list == Append(work.list, now)
             of == RelationValues(m, graph, v.object)
             values == of \o Tail(work.values)
  <2>5. Charged(now) /\ now.object = v.object
    BY <1>1, <1>10, <2>3, CascadedIsCharged
  <2> HIDE DEF now
  <2>6. next = [rest EXCEPT !.list = list, !.values = values]
    BY <1>1, <1>6, <2>1 DEF now
  <2>7. of \in Seq(ValuesOf(v.object))
    BY <2>2, RelationValuesIn
  <2> HIDE DEF of
  <2>8. Len(of) \in Nat /\ Len(values) = Len(of) + Len(Tail(work.values)) /\ ToSet(values) = ToSet(of) \union ToSet(Tail(work.values))
    <3>1. Len(of) \in Nat /\ Len(values) = Len(of) + Len(Tail(work.values))
      BY <1>5, <1>10, <2>7
    <3>2. ToSet(values) = ToSet(of) \union ToSet(Tail(work.values))
      <4> DEFINE tail == Tail(work.values)
      <4>1. tail \in Seq(Reachable)
        BY <1>5, <1>10
      <4> HIDE DEF tail
      <4>2. ToSet(of \o tail) = ToSet(of) \union ToSet(tail)
        BY <2>7, <4>1, ConcatAll
      <4> QED
        BY <4>2 DEF tail
    <3> QED
      BY <3>1, <3>2
  <2>9. work.list \in Seq(ToSet(work.list)) /\ Len(work.list) \in Nat /\ DOMAIN work.list = 1..Len(work.list)
    BY <1>1 DEF AllFresh
  <2>10. /\ DOMAIN list = 1..(Len(work.list) + 1) /\ list[Len(work.list) + 1] = now
         /\ \A i \in 1..Len(work.list) : list[i] = work.list[i]
    BY <2>9
  <2> HIDE DEF list, values, next
  <2>11. next.list = list /\ next.values = values
    BY <1>6, <2>6
  <2>12. \A i : i \in 1..(Len(work.list) + 1) <=> i \in 1..Len(work.list) \/ i = Len(work.list) + 1
    BY <2>9
  <2>13. ObjectsIn(list) = ObjectsIn(work.list) \union {v.object}
    BY <2>5, <2>9, <2>10, <2>12 DEF ObjectsIn
  <2>14. \A s \in ToSet(list) : Charged(s)
    <3> SUFFICES ASSUME NEW i \in DOMAIN list PROVE Charged(list[i])
      BY DEF ToSet
    <3>1. CASE i = Len(work.list) + 1
      BY <2>5, <2>10, <3>1
    <3>2. CASE i \in 1..Len(work.list)
      <4>1. list[i] = work.list[i] /\ work.list[i] \in ToSet(work.list)
        BY <2>9, <2>10, <3>2 DEF ToSet
      <4> QED
        BY <1>2, <4>1
    <3> QED
      BY <2>10, <2>12, <3>1, <3>2
  <2>15. ASSUME NEW o \in ObjectsIn(list), NEW w \in ValuesOf(o), Cascades(w.relation, mode)
         PROVE  w.object \in ObjectsIn(list) \/ w \in ToSet(values)
    <3>1. CASE o \in ObjectsIn(work.list)
      BY <1>2, <1>5, <1>10, <2>8, <2>13, <2>15, <3>1
    <3>2. CASE o = v.object
      <4>1. w \in ToSet(of)
        BY <2>2, <2>15, <3>2, RelationValuesAll DEF of
      <4> QED
        BY <2>8, <4>1
    <3> QED
      BY <2>13, <3>1, <3>2
  <2>16. Len(values) + Cardinality(LeftPlaces(list)) <= k
    <3>1. /\ Cardinality(LeftPlaces(work.list)) \in Nat /\ Cardinality(LeftPlaces(list)) \in Nat
          /\ Len(of) + Cardinality(LeftPlaces(list)) = Cardinality(LeftPlaces(work.list))
      BY <2>2, <2>4, <2>13, LeftAfter DEF of
    <3>2. Len(work.values) + Cardinality(LeftPlaces(work.list)) <= k + 1
      BY <1>2, <1>10
    <3> QED
      BY <1>5, <1>10, <2>8, <3>1, <3>2
  <2>17. CascadesFollowed(part, k, next)
    BY <1>2, <1>3, <2>11, <2>13, <2>14, <2>15, <2>16 DEF CascadesFollowed
  <2> QED
    BY <2>17 DEF next
<1> QED
  BY <1>4, <1>8, <1>9, <1>10

\* What the subjects of a part are in the end: those of its objects and of all that
\* cascades from them, each of which may be or must be what the mode says.
Followed(part, list) ==
  /\ AllFresh(list) /\ ToSet(part) \subseteq ObjectsIn(list)
  /\ \A s \in ToSet(list) : Charged(s)
  /\ Closed(ObjectsIn(list))

LEMMA NoneLeft ==
  ASSUME IsFiniteSet(ValuePlaces), NEW part, NEW work, CascadesFollowed(part, 0, work)
  PROVE  work.values = <<>>
<1>1. work.values \in Seq(Reachable)
  BY DEF CascadesFollowed, CascadeHolds
<1>2. Cardinality(LeftPlaces(work.list)) \in Nat
  <2>1. LeftPlaces(work.list) \in SUBSET ValuePlaces
    BY DEF LeftPlaces
  <2> QED
    BY <2>1, FS_Subset, FS_CardinalityType
<1>3. work.values = <<>> \/ Len(work.values) + Cardinality(LeftPlaces(work.list)) <= 0
  BY DEF CascadesFollowed
<1>4. Len(work.values) \in Nat /\ (Len(work.values) = 0 => work.values = <<>>)
  BY <1>1
<1> QED
  BY <1>2, <1>3, <1>4

LEMMA BuildCascadesFollows ==
  ASSUME SchemaIsTyped, ObjectsAreTyped, OneEach, mode # "save", NEW part, part \in Seq(Operated)
  PROVE  Followed(part, BuildCascades(m, graph, mode, part))
<1> DEFINE values(objects) == FlattenSeq([i \in DOMAIN objects |-> RelationValues(m, graph, objects[i])])
           list == [i \in DOMAIN part |-> RootSubject(m, graph, mode, part[i])]
           begin == [m |-> m, graph |-> graph, mode |-> mode, values |-> values(part), list |-> list]
           steps == values(part \o SetToSeq(DOMAIN graph))
           end == CountFold!Fold(begin, steps, Len(steps))
<1>1. part \in Seq(DOMAIN graph) /\ ToSet(part) \subseteq Operated
  BY OperatedAreObjects, WiderList, SeqOfItsOwn
<1>2. Len(part) \in Nat /\ DOMAIN part = 1..Len(part) /\ \A i \in 1..Len(part) : part[i] \in Operated
  BY ListFacts
<1>3. values(part) \in Seq(Reachable)
  <2>1. \A o \in ToSet(part) : ValuesOf(o) \subseteq Reachable
    BY <1>1, ValuesAreReachable
  <2> QED
    BY <1>1, <2>1, ObjectValuesIn
<1>4. /\ list \in Seq(ToSet(list)) /\ AllFresh(list) /\ list \o <<>> = list
      /\ DOMAIN list = 1..Len(part) /\ \A i \in 1..Len(part) : Charged(list[i]) /\ list[i].object = part[i]
  <2>1. \A i \in 1..Len(part) : Fresh(list[i])
    BY <1>2, RootIsFresh
  <2>2. list \in Seq({list[i] : i \in 1..Len(part)})
    BY <1>2
  <2>5. DOMAIN list = 1..Len(part) /\ \A i \in 1..Len(part) : Charged(list[i]) /\ list[i].object = part[i]
    BY <1>2, RootIsCharged
  <2> HIDE DEF list
  <2>3. AllFresh(list)
    BY <2>1, <2>2, AllFreshFrom
  <2>4. list \o <<>> = list
    BY <2>2, EmptyConcat
  <2> QED
    BY <2>3, <2>4, <2>5 DEF AllFresh
<1>5. /\ IsFiniteSet(ValuePlaces) /\ Len(steps) \in Nat /\ Len(values(part)) \in Nat
      /\ Len(values(part)) + Cardinality(ValuePlaces) <= Len(steps)
  <2>1. LET all == ListedValues(part \o SetToSeq(DOMAIN graph))
        IN /\ IsFiniteSet(ValuePlaces) /\ Len(all) \in Nat /\ Len(ListedValues(part)) \in Nat
           /\ Len(ListedValues(part)) + Cardinality(ValuePlaces) <= Len(all)
    BY <1>1, StepsSuffice
  <2> QED
    BY <2>1 DEF ListedValues
<1>6. ObjectsIn(list) = ToSet(part)
  <2> HIDE DEF list
  <2> QED
    BY <1>2, <1>4 DEF ObjectsIn, ToSet
<1>7. CascadesFollowed(part, Len(steps), begin)
  <2>1. CascadeHolds(0, begin)
    <3> HIDE DEF list, values
    <3> QED
      BY <1>3, <1>4 DEF CascadeHolds
  <2>2. ASSUME NEW o \in ToSet(part), NEW v \in ValuesOf(o)
        PROVE  v \in ToSet(values(part))
    <3> DEFINE S == UNION {ValuesOf(p) : p \in DOMAIN graph}
               parts == [i \in DOMAIN part |-> RelationValues(m, graph, part[i])]
    <3>1. \A i \in 1..Len(part) : parts[i] \in Seq(S)
      <4> TAKE i \in 1..Len(part)
      <4>1. part[i] \in DOMAIN graph
        BY <1>1, <1>2
      <4>2. RelationValues(m, graph, part[i]) \in Seq(ValuesOf(part[i])) /\ ValuesOf(part[i]) \subseteq S
        BY <4>1, RelationValuesIn
      <4>3. parts[i] = RelationValues(m, graph, part[i])
        BY <1>2
      <4> HIDE DEF S, parts
      <4> QED
        BY <4>2, <4>3, WiderList
    <3>2. PICK i \in 1..Len(part) : part[i] = o
      BY <1>2 DEF ToSet
    <3>3. v \in ToSet(parts[i])
      <4>1. o \in DOMAIN graph
        BY <1>1, OperatedAreObjects
      <4>2. v \in ToSet(RelationValues(m, graph, o))
        BY <4>1, <2>2, RelationValuesAll
      <4> QED
        BY <1>2, <3>2, <4>2
    <3>4. DOMAIN parts = 1..Len(part) /\ parts = [k \in 1..Len(part) |-> parts[k]]
      BY <1>2
    <3>5. values(part) = FlattenSeq(parts)
      OBVIOUS
    <3> HIDE DEF parts, S, values
    <3>6. parts \in Seq(Seq(S))
      BY <1>2, <3>1, <3>4, IndexedIn
    <3>7. PICK j \in DOMAIN parts[i] : v = parts[i][j]
      BY <3>3 DEF ToSet
    <3>8. parts[i][j] \in ToSet(FlattenSeq(parts))
      BY <3>2, <3>4, <3>6, FlattenAll
    <3> QED
      BY <3>5, <3>7, <3>8
  <2>3. LeftPlaces(list) \in SUBSET ValuePlaces /\ Cardinality(LeftPlaces(list)) <= Cardinality(ValuePlaces)
        /\ Cardinality(LeftPlaces(list)) \in Nat /\ Cardinality(ValuePlaces) \in Nat
    <3> HIDE DEF list
    <3>1. LeftPlaces(list) \in SUBSET ValuePlaces
      BY DEF LeftPlaces
    <3> QED
      BY <1>5, <3>1, FS_Subset, FS_CardinalityType
  <2>4. begin.list = list /\ begin.values = values(part)
    OBVIOUS
  <2> HIDE DEF list, values, begin, steps
  <2>5. Len(begin.values) + Cardinality(LeftPlaces(begin.list)) <= Len(steps)
    BY <1>5, <2>3, <2>4
  <2>6. \A s \in ToSet(list) : Charged(s)
    BY <1>4 DEF ToSet
  <2>7. \A o \in ObjectsIn(list) : \A v \in ValuesOf(o) : v \in ToSet(values(part))
    BY <1>6, <2>2
  <2> QED
    BY <1>6, <2>1, <2>4, <2>5, <2>6, <2>7 DEF CascadesFollowed
<1> HIDE DEF begin, steps
<1>8. ASSUME NEW k \in Nat, NEW i \in 1..Len(steps), NEW a, CascadeCounts(<<<<part>>, k + 1>>, a)
      PROVE  CascadeCounts(<<<<part>>, k>>, Cascade(a, steps[i]))
  <2>1. CascadesFollowed(part, k + 1, a)
    BY <1>8 DEF CascadeCounts
  <2>2. CascadesFollowed(part, k, Cascade(a, steps[i]))
    BY <1>5, <2>1, CascadeFollows
  <2> QED
    BY <2>2 DEF CascadeCounts
<1>9. CascadeCounts(<<<<part>>, Len(steps)>>, begin)
  BY <1>7 DEF CascadeCounts
<1>10. CascadeCounts(<<<<part>>, 0>>, CountFold!Fold(begin, steps, Len(steps)))
  <2>1. CountFold!HaveLeast
    BY LeastExists DEF CountFold!HaveLeast
  <2> QED
    BY <1>5, <1>8, <1>9, <2>1, CountFold!FoldCounts
<1>11. CascadesFollowed(part, 0, end)
  BY <1>10 DEF CascadeCounts
<1>12. DOMAIN steps = 1..Len(steps)
  <2>1. part \o SetToSeq(DOMAIN graph) \in Seq(DOMAIN graph)
    BY <1>1, ConcatIn, SetToSeqIn DEF ObjectsAreTyped
  <2> DEFINE all == part \o SetToSeq(DOMAIN graph)
             S == UNION {ValuesOf(o) : o \in DOMAIN graph}
  <2>2. \A o \in ToSet(all) : ValuesOf(o) \subseteq S
    BY <2>1, SeqOfItsOwn
  <2>3. steps = values(all)
    BY DEF steps
  <2> HIDE DEF all, S
  <2>4. FlattenSeq([i \in DOMAIN all |-> RelationValues(m, graph, all[i])]) \in Seq(S)
    BY <2>1, <2>2, ObjectValuesIn DEF all
  <2>5. steps \in Seq(S)
    BY <2>3, <2>4
  <2> QED
    BY <2>5
<1>13. FoldLeft(Cascade, begin, steps) = end
  BY <1>5, <1>12 DEF FoldLeft, MapThenFoldSet, Max, CountFold!Fold, CountFold!Folded, CountFold!Greatest
<1>14. BuildCascades(m, graph, mode, part) = FoldLeft(Cascade, begin, steps).list
  BY <1>4 DEF BuildCascades, Each, begin, steps
<1> HIDE DEF end, list
<1>15. end.values = <<>>
  BY <1>5, <1>11, NoneLeft
<1>16. \A o \in ObjectsIn(end.list) : \A v \in ValuesOf(o) : Cascades(v.relation, mode) => v.object \in ObjectsIn(end.list)
  BY <1>11, <1>15, NothingIn DEF CascadesFollowed
<1>17. AllFresh(end.list) /\ ObjectsIn(end.list) \subseteq Operated
  <2>1. AllFresh(end.list)
    BY <1>11 DEF CascadesFollowed, CascadeHolds
  <2>2. \A i \in DOMAIN end.list : Fresh(end.list[i])
    BY <2>1 DEF AllFresh, ToSet
  <2> QED
    BY <2>1, <2>2 DEF ObjectsIn, Fresh
<1>18. Closed(ObjectsIn(end.list))
  <2> SUFFICES ASSUME NEW o \in ObjectsIn(end.list), NEW r \in Relations(m, m.kindOf[o], AllTypes), Cascades(r, mode),
                      NEW p \in ToSet(graph[o].rel[r.name].of)
               PROVE  p \in ObjectsIn(end.list)
    BY DEF Closed
  <2>1. o \in DOMAIN graph
    BY <1>17, OperatedAreObjects
  <2>2. p \in DOMAIN graph
    BY <2>1, ObjectFacts
  <2>3. [relation |-> r, object |-> p] \in ValuesOf(o)
    BY <2>2 DEF ValuesOf
  <2> QED
    BY <1>16, <2>3
<1>19. Followed(part, end.list)
  BY <1>11, <1>17, <1>18 DEF Followed, CascadesFollowed
<1> QED
  BY <1>13, <1>14, <1>19

(***************************************************************************)
(* What a remove's executor does to the subjects that cascade.             *)
(***************************************************************************)
\* A subject as it was, but for its row and its changes.
Alike(s, t) ==
  /\ t.kind = s.kind /\ t.object = s.object /\ t.ids = s.ids /\ t.inserted = s.inserted
  /\ t.canBeInserted = s.canBeInserted /\ t.canBeUpdated = s.canBeUpdated
  /\ t.mustBeRemoved = s.mustBeRemoved
  /\ t.canBeSoftRemoved = s.canBeSoftRemoved /\ t.canBeRecovered = s.canBeRecovered
AllAlike(a, b) == DOMAIN b = DOMAIN a /\ \A i \in DOMAIN a : Alike(a[i], b[i])

LEMMA LoadIsAlike ==
  ASSUME SchemaIsTyped, ObjectsAreTyped, RowsAreTyped(db), NEW list, AllFresh(list)
  PROVE  AllAlike(list, Load(m, graph, db, mode, list))
<1> DEFINE wanted(kind) ==
             {r \in Relations(m, kind, AllTypes) :
                IF mode = "remove" THEN r.type \in ManyToManyTypes
                ELSE \E i \in DOMAIN list : list[i].kind = kind /\ graph[list[i].object].rel[r.name].set}
           entity(s) ==
             [value |-> Row(db, s.kind, s.ids[1]).value,
              related |-> [n \in {r.name : r \in wanted(s.kind)} |->
                             RelatedIds(m, db, Relation(m, n), Row(db, s.kind, s.ids[1]).id)]]
           before(s) == IF Stored(db, s.kind, s.ids[1]) THEN <<entity(s)>> ELSE <<>>
           load(s) == IF s.ids = <<>> THEN s ELSE [s EXCEPT !.loaded = TRUE, !.before = before(s)]
           loaded == [i \in DOMAIN list |-> load(list[i])]
<1>1. list \in Seq(ToSet(list)) /\ \A s \in ToSet(list) : Fresh(s)
  BY DEF AllFresh
<1>2. Len(list) \in Nat /\ DOMAIN list = 1..Len(list) /\ \A i \in 1..Len(list) : list[i] \in ToSet(list)
  BY <1>1, ListFacts
<1>3. ASSUME NEW i \in 1..Len(list)
      PROVE  Alike(list[i], load(list[i]))
  <2> DEFINE s == list[i]
  <2>1. s = [f \in Fields |-> s[f]]
    BY <1>1, <1>2 DEF Fresh, Shaped
  <2> HIDE DEF s, before
  <2>2. Alike(s, load(s))
    BY <2>1 DEF Alike, Fields
  <2> QED
    BY <2>2 DEF s
<1>4. Load(m, graph, db, mode, list) = loaded \o <<>>
  BY DEF Load, Each
<1> HIDE DEF load
<1>5. loaded \in Seq({load(list[i]) : i \in 1..Len(list)})
  BY <1>2
<1>6. DOMAIN loaded = 1..Len(list) /\ \A i \in 1..Len(list) : loaded[i] = load(list[i])
  BY <1>2
<1> HIDE DEF loaded
<1>7. Load(m, graph, db, mode, list) = loaded
  BY <1>4, <1>5, EmptyConcat
<1> QED
  BY <1>2, <1>3, <1>6, <1>7 DEF AllAlike

\* The columns and the relations change only the changes.
LEMMA DiffIsAlike ==
  ASSUME NEW memory, NEW list, NEW s, Shaped(s)
  PROVE  LET t == DiffRelations(m, memory, list, DiffColumns(memory, s))
         IN Alike(s, t) /\ t.loaded = s.loaded /\ t.before = s.before
<1> DEFINE t == DiffColumns(memory, s)
           u == DiffRelations(m, memory, list, t)
<1>1. s = [f \in Fields |-> s[f]]
  BY DEF Shaped
<1>2. PICK c : t = [s EXCEPT !.changes = c]
  BY DEF DiffColumns
<1>3. t = [f \in Fields |-> t[f]] /\ Alike(s, t) /\ t.loaded = s.loaded /\ t.before = s.before
  <2> HIDE DEF t
  <2> QED
    BY <1>1, <1>2 DEF Fields, Alike
<1> HIDE DEF t
<1>4. \E e : u = [t EXCEPT !.changes = e]
  BY DEF DiffRelations
<1>5. PICK e : u = [t EXCEPT !.changes = e]
  BY <1>4
<1> HIDE DEF u
<1>6. Alike(t, u) /\ u.loaded = t.loaded /\ u.before = t.before
  BY <1>3, <1>5 DEF Fields, Alike
<1> QED
  BY <1>3, <1>6 DEF Alike, t, u

LEMMA ComputedIsAlike ==
  ASSUME NEW memory, NEW list, list \in Seq(ToSet(list)), \A s \in ToSet(list) : Shaped(s)
  PROVE  AllAlike(list, ComputeChanges(m, memory, list))
<1> DEFINE changed(s) == IF s.object = "" THEN s ELSE DiffRelations(m, memory, list, DiffColumns(memory, s))
           after == [i \in DOMAIN list |-> changed(list[i])]
<1>1. Len(list) \in Nat /\ DOMAIN list = 1..Len(list) /\ \A i \in 1..Len(list) : list[i] \in ToSet(list)
  BY ListFacts
<1>2. ASSUME NEW i \in 1..Len(list)
      PROVE  Alike(list[i], changed(list[i]))
  <2> DEFINE s == list[i]
  <2>1. Shaped(s)
    BY <1>1
  <2>2. CASE s.object = ""
    <3>1. changed(s) = s
      BY <2>2
    <3> HIDE DEF changed
    <3> QED
      BY <3>1 DEF Alike
  <2>3. CASE s.object # ""
    BY <2>1, <2>3, DiffIsAlike
  <2> QED
    BY <2>2, <2>3
<1>3. ComputeChanges(m, memory, list) = after \o <<>>
  BY DEF ComputeChanges, Each
<1> HIDE DEF changed
<1>4. after \in Seq({changed(list[i]) : i \in 1..Len(list)})
  BY <1>1
<1>5. DOMAIN after = 1..Len(list) /\ \A i \in 1..Len(list) : after[i] = changed(list[i])
  BY <1>1
<1> HIDE DEF after
<1>6. ComputeChanges(m, memory, list) = after
  BY <1>3, <1>4, EmptyConcat
<1> QED
  BY <1>1, <1>2, <1>5, <1>6 DEF AllAlike

\* What a remove does with a subject: it goes, with nothing else being possible.
OnlyRemoved(s) ==
  ~s.canBeInserted /\ ~s.canBeUpdated /\ ~s.canBeSoftRemoved /\ ~s.canBeRecovered /\ ~s.inserted

\* Links that go with a removed row are added, after the subjects there are.
LEMMA UnlinkAllAdds ==
  ASSUME SchemaIsTyped, NEW list, Good(list)
  PROVE  /\ UnlinkAll(m, list) \in Seq(ToSet(UnlinkAll(m, list)))
         /\ DOMAIN list \subseteq DOMAIN UnlinkAll(m, list)
         /\ \A i \in DOMAIN list : UnlinkAll(m, list)[i] = list[i]
         /\ \A s \in ToSet(UnlinkAll(m, list)) : s \in ToSet(list) \/ (s.object = "" /\ OnlyRemoved(s))
<1> DEFINE unlinked(s, r) == SetToSeq({Unlinked(r, s.ids[1], id) : id \in Before(s, r)})
           of(s) == IF s.mustBeRemoved /\ Found(s) THEN RelationsOf(m, s.kind, ManyToManyTypes) ELSE <<>>
           part(i) == FlattenSeq([j \in DOMAIN of(list[i]) |-> unlinked(list[i], of(list[i])[j])])
           parts == [i \in DOMAIN list |-> part(i)]
           S == UNION {{Unlinked(x[2], list[x[1]].ids[1], id) : id \in Before(list[x[1]], x[2])} :
                         x \in (DOMAIN list) \X ToSet(m.relations)}
<1>1. list \in Seq(ToSet(list)) /\ Len(list) \in Nat /\ DOMAIN list = 1..Len(list) /\ \A i \in DOMAIN list : GoodOne(list[i])
  BY GoodFacts
<1>2. UnlinkAll(m, list) = list \o FlattenSeq(parts)
  BY DEF UnlinkAll
<1>3. ASSUME NEW i \in 1..Len(list)
      PROVE  part(i) \in Seq(S)
  <2> DEFINE s == list[i]
             relations == of(s)
             inner == [j \in DOMAIN relations |-> unlinked(s, relations[j])]
  <2>1. GoodOne(s)
    BY <1>1
  <2>2. relations \in Seq(Relations(m, s.kind, ManyToManyTypes))
    <3> HIDE DEF s
    <3>1. CASE of(s) = <<>>
      <4> HIDE DEF of
      <4> QED
        BY <3>1, NothingIn
    <3>2. CASE of(s) # <<>>
      BY <3>2, RelationsOfIn
    <3> QED
      BY <3>1, <3>2
  <2>3. part(i) = FlattenSeq(inner)
    OBVIOUS
  <2> HIDE DEF relations, part
  <2>4. /\ Len(relations) \in Nat /\ DOMAIN relations = 1..Len(relations)
        /\ \A j \in 1..Len(relations) : relations[j] \in Relations(m, s.kind, ManyToManyTypes)
    <3> HIDE DEF s
    <3> QED
      BY <2>2, ListFacts
  <2>5. ASSUME NEW j \in 1..Len(relations)
        PROVE  unlinked(s, relations[j]) \in Seq(S)
    <3> DEFINE r == relations[j]
               stored == Before(s, r)
               own == s.ids[1]
               f == [id \in stored |-> Unlinked(r, own, id)]
               U == {f[x] : x \in stored}
    <3>1. r \in ToSet(m.relations)
      BY <2>4 DEF Relations
    <3>2. IsFiniteSet(stored)
      <4> HIDE DEF s, r
      <4> QED
        BY <2>1, <3>1 DEF GoodOne, BeforeIsTrue
    <3>3. unlinked(s, relations[j]) = SetToSeq(U)
      <4>1. {Unlinked(r, s.ids[1], id) : id \in Before(s, r)} = U
        OBVIOUS
      <4> HIDE DEF U
      <4> QED
        BY <4>1
    <3>4. \A x \in stored : f[x] \in S
      <4> TAKE x \in stored
      <4>1. f[x] = Unlinked(r, list[i].ids[1], x) /\ <<i, r>> \in (DOMAIN list) \X ToSet(m.relations)
        BY <1>1, <3>1
      <4>2. x \in Before(list[i], r)
        OBVIOUS
      <4>3. <<i, r>>[1] = i /\ <<i, r>>[2] = r
        OBVIOUS
      <4>4. f[x] \in {Unlinked(<<i, r>>[2], list[<<i, r>>[1]].ids[1], id) : id \in Before(list[<<i, r>>[1]], <<i, r>>[2])}
        BY <4>1, <4>2, <4>3
      <4> HIDE DEF f, r
      <4> QED
        BY <4>1, <4>4
    <3>5. U \subseteq S
      <4> HIDE DEF S, f, stored
      <4> QED
        BY <3>4
    <3>6. IsFiniteSet(U)
      <4>1. DOMAIN f = stored /\ f = [x \in stored |-> f[x]]
        OBVIOUS
      <4> HIDE DEF f, stored
      <4> QED
        BY <3>2, <4>1, ImageFinite
    <3> HIDE DEF U, S, unlinked, s, r
    <3>7. SetToSeq(U) \in Seq(U)
      BY <3>6, SetToSeqIn
    <3> QED
      BY <3>3, <3>5, <3>7, WiderList
  <2> HIDE DEF unlinked, S, s
  <2>6. DOMAIN inner = 1..Len(relations) /\ inner = [j \in 1..Len(relations) |-> inner[j]]
        /\ \A j \in 1..Len(relations) : inner[j] \in Seq(S)
    BY <2>4, <2>5
  <2> HIDE DEF inner
  <2>7. inner \in Seq(Seq(S))
    BY <2>4, <2>6, IndexedIn
  <2> QED
    BY <2>3, <2>7, FlattenIn
<1>4. \A x \in S : x.object = "" /\ OnlyRemoved(x)
  <2>0. \A x \in S : \E r, a, b : x = Unlinked(r, a, b)
    <3> TAKE x \in S
    <3>1. PICK y \in (DOMAIN list) \X ToSet(m.relations) :
                 x \in {Unlinked(y[2], list[y[1]].ids[1], id) : id \in Before(list[y[1]], y[2])}
      OBVIOUS
    <3>2. PICK id \in Before(list[y[1]], y[2]) : x = Unlinked(y[2], list[y[1]].ids[1], id)
      BY <3>1
    <3> QED
      BY <3>2
  <2> HIDE DEF S
  <2> TAKE x \in S
  <2>1. PICK r, a, b : x = Unlinked(r, a, b)
    BY <2>0
  <2> DEFINE p == Pair(r, a, b)
  <2>2. x = [Subject(r.table, "", p) EXCEPT !.mustBeRemoved = TRUE]
    BY <2>1 DEF Unlinked, Junction
  <2> HIDE DEF p
  <2> QED
    BY <2>2 DEF OnlyRemoved, Subject
<1> HIDE DEF part, S
<1>5. DOMAIN parts = 1..Len(list) /\ parts = [i \in 1..Len(list) |-> parts[i]] /\ \A i \in 1..Len(list) : parts[i] \in Seq(S)
  BY <1>1, <1>3
<1> HIDE DEF parts
<1> DEFINE links == FlattenSeq(parts)
<1>6. links \in Seq(S)
  <2>1. parts \in Seq(Seq(S))
    BY <1>1, <1>5, IndexedIn
  <2> QED
    BY <2>1, FlattenIn
<1>7. UnlinkAll(m, list) = list \o links
  BY <1>2
<1> HIDE DEF links
<1>8. ToSet(list \o links) = ToSet(list) \union ToSet(links) /\ ToSet(links) \subseteq S
  BY <1>1, <1>6, ConcatAll, SeqOfItsOwn
<1>9. DOMAIN (list \o links) = 1..(Len(list) + Len(links)) /\ Len(links) \in Nat /\ \A i \in 1..Len(list) : (list \o links)[i] = list[i]
  BY <1>1, <1>6
<1>10. list \o links \in Seq(ToSet(list) \union S)
  <2>1. list \in Seq(ToSet(list) \union S) /\ links \in Seq(ToSet(list) \union S)
    BY <1>1, <1>6, WiderList
  <2> QED
    BY <2>1, ConcatIn
<1>11. list \o links \in Seq(ToSet(list \o links))
  BY <1>10, SeqOfItsOwn
<1>12. DOMAIN list \subseteq DOMAIN (list \o links)
  BY <1>1, <1>9
<1>13. \A s \in ToSet(list \o links) : s \in ToSet(list) \/ (s.object = "" /\ OnlyRemoved(s))
  BY <1>4, <1>8
<1> QED
  BY <1>1, <1>7, <1>9, <1>11, <1>12, <1>13

\* A remove's subjects: of objects with their identifiers, or links.
Removal(s) ==
  /\ OnlyRemoved(s)
  /\ s.object # "" => s.kind = m.kindOf[s.object] /\ s.ids = IdsOf(graph, s.object)
RemovedIn(o, list) == \E i \in DOMAIN list : list[i].object = o /\ list[i].mustBeRemoved

\* An executor of a remove has a subject for each of some objects with an identifier:
\* of those of its part and of all that cascades from them.
LEMMA RemoveExecutor ==
  ASSUME SchemaIsTyped, ObjectsAreTyped, RowsAreTyped(db), OneEach, mode = "remove", NEW part \in Seq(Operated)
  PROVE  LET list == BuildExecutor(m, graph, db, mode, part)
         IN /\ list \in Seq(ToSet(list)) /\ \A s \in ToSet(list) : Removal(s)
            /\ \E objects \in SUBSET DOMAIN graph :
                 /\ ToSet(part) \subseteq objects /\ Closed(objects)
                 /\ \A o \in objects : graph[o].id # 0 => RemovedIn(o, list)
<1> DEFINE found == BuildCascades(m, graph, mode, part)
           loaded == Load(m, graph, db, mode, found)
           related == UnlinkAll(m, loaded)
           list == ComputeChanges(m, graph, related)
<1>1. BuildExecutor(m, graph, db, mode, part) = list
  BY DEF BuildExecutor
<1>2. Followed(part, found)
  BY BuildCascadesFollows
<1> HIDE DEF found
<1>3. Good(loaded) /\ AllAlike(found, loaded)
  BY <1>2, LoadIsGood, LoadIsAlike DEF Followed
<1> HIDE DEF loaded
<1>4. /\ related \in Seq(ToSet(related)) /\ DOMAIN loaded \subseteq DOMAIN related
      /\ \A i \in DOMAIN loaded : related[i] = loaded[i]
      /\ \A s \in ToSet(related) : s \in ToSet(loaded) \/ (s.object = "" /\ OnlyRemoved(s))
  BY <1>3, UnlinkAllAdds
<1>5. Good(related)
  BY <1>3, UnlinkAllIsGood
<1> HIDE DEF related
<1>6. AllLawful(graph, graph, db, related) /\ \A s \in ToSet(related) : Shaped(s)
  BY <1>5 DEF Good, GoodOne, AllLawful, Lawful
<1>7. AllAlike(related, list) /\ AllLawful(graph, graph, db, list)
  BY <1>4, <1>6, ComputedIsAlike, ComputedIsLawful
<1> HIDE DEF list
<1>8. ASSUME NEW i \in DOMAIN found
      PROVE  /\ found[i].object \in DOMAIN graph /\ OnlyRemoved(found[i])
             /\ found[i].kind = m.kindOf[found[i].object] /\ found[i].ids = IdsOf(graph, found[i].object)
             /\ found[i].ids # <<>> => found[i].mustBeRemoved
  <2>1. Fresh(found[i]) /\ Charged(found[i])
    BY <1>2 DEF Followed, AllFresh, ToSet
  <2>2. /\ found[i].object \in DOMAIN graph /\ found[i].kind = m.kindOf[found[i].object]
        /\ found[i].ids = IdsOf(graph, found[i].object)
    BY <2>1, OperatedAreObjects DEF Fresh
  <2>3. OnlyRemoved(found[i]) /\ (found[i].ids # <<>> => found[i].mustBeRemoved)
    <3>1. mode # "save" /\ mode # "soft-remove" /\ mode # "recover"
      OBVIOUS
    <3> QED
      BY <2>1, <3>1, Zenon DEF Fresh, Charged, Restricted, OnlyRemoved
  <2> QED
    BY <2>2, <2>3
<1>9. ASSUME NEW i \in DOMAIN found
      PROVE  i \in DOMAIN list /\ Alike(found[i], list[i])
  <2>1. i \in DOMAIN loaded /\ Alike(found[i], loaded[i])
    BY <1>3 DEF AllAlike
  <2>2. i \in DOMAIN related /\ related[i] = loaded[i]
    BY <1>4, <2>1
  <2>3. i \in DOMAIN list /\ Alike(related[i], list[i])
    BY <1>7, <2>2 DEF AllAlike
  <2> QED
    BY <2>1, <2>2, <2>3 DEF Alike
<1>10. ASSUME NEW j \in DOMAIN list
       PROVE  Removal(list[j])
  <2>1. j \in DOMAIN related /\ Alike(related[j], list[j])
    BY <1>7 DEF AllAlike
  <2>2. CASE related[j] \in ToSet(loaded)
    <3>1. PICK i \in DOMAIN loaded : related[j] = loaded[i]
      BY <2>2 DEF ToSet
    <3>2. i \in DOMAIN found /\ Alike(found[i], loaded[i])
      BY <1>3, <3>1 DEF AllAlike
    <3>3. Alike(found[i], list[j])
      BY <2>1, <3>1, <3>2 DEF Alike
    <3> QED
      BY <1>8, <3>2, <3>3 DEF Alike, Removal, OnlyRemoved
  <2>3. CASE related[j].object = "" /\ OnlyRemoved(related[j])
    BY <2>1, <2>3 DEF Alike, Removal, OnlyRemoved
  <2>4. related[j] \in ToSet(related)
    BY <2>1 DEF ToSet
  <2>5. related[j] \in ToSet(loaded) \/ (related[j].object = "" /\ OnlyRemoved(related[j]))
    BY <1>4, <2>4, Zenon
  <2> QED
    BY <2>2, <2>3, <2>5, Zenon
<1>11. ASSUME NEW o \in ObjectsIn(found), graph[o].id # 0
       PROVE  RemovedIn(o, list)
  <2>1. PICK i \in DOMAIN found : found[i].object = o
    BY DEF ObjectsIn
  <2>2. found[i].ids # <<>>
    <3>1. IdsOf(graph, o) = <<graph[o].id>> /\ <<graph[o].id>> # <<>>
      BY <1>11 DEF IdsOf
    <3>2. found[i].ids = IdsOf(graph, o)
      BY <1>8, <2>1
    <3> QED
      BY <3>1, <3>2
  <2>3. i \in DOMAIN list /\ list[i].object = o /\ list[i].mustBeRemoved
    BY <1>8, <1>9, <2>1, <2>2 DEF Alike
  <2> QED
    BY <2>3 DEF RemovedIn
<1>12. ObjectsIn(found) \in SUBSET DOMAIN graph
  BY <1>8 DEF ObjectsIn
<1>13. list \in Seq(ToSet(list)) /\ \A s \in ToSet(list) : Removal(s)
  <2>1. list \in Seq(ToSet(list))
    BY <1>7 DEF AllLawful
  <2> QED
    BY <1>10, <2>1 DEF ToSet
<1>14. ToSet(part) \subseteq ObjectsIn(found) /\ Closed(ObjectsIn(found))
  BY <1>2 DEF Followed
<1> QED
  BY <1>1, <1>11, <1>12, <1>13, <1>14

(***************************************************************************)
(* What a remove keeps: what it has yet to remove is in the groups to come.*)
(***************************************************************************)
StartRemoval(s) ==
  /\ OnlyRemoved(s)
  /\ s.object # "" => s.kind = m.kindOf[s.object] /\ s.ids = IdsOf(start.graph, s.object)
ToGo(s) == s.object # "" /\ s.mustBeRemoved
Gone(d, s) == ~Stored(d, s.kind, s.ids[1])
Pending(i) == \E g \in ToSet(todo) : i \in ToSet(g)

AllRemovals == \A p \in DOMAIN executors : \A i \in DOMAIN executors[p] : StartRemoval(executors[p][i])
\* Each object with an identifier that is taken in has its subject.
AllCovered ==
  \A o \in Operated : start.graph[o].id # 0 => \E p \in DOMAIN executors : RemovedIn(o, executors[p])
DoneWith(p) ==
  \A i \in DOMAIN executors[p] :
    ToGo(executors[p][i]) => Gone(db, executors[p][i]) /\ graph[executors[p][i].object].id = 0
Going ==
  /\ phase \in {"inserting", "updating", "soft-removing", "recovering"} => todo = <<>>
  /\ \A p \in DOMAIN executors : p < at => DoneWith(p)
  /\ \A i \in DOMAIN Subjects : ToGo(Subjects[i]) =>
       /\ phase = "removing" => Gone(db, Subjects[i]) \/ Pending(i)
       /\ phase \in {"soft-removing", "recovering"} => Gone(db, Subjects[i])
RInv ==
  /\ mode = "remove" /\ status \in {"idle", "running", "resolved", "rejected"}
  /\ status = "idle" => OneEach
  /\ status # "idle" => AllRemovals /\ AllCovered
  /\ status = "running" => Going
  /\ status = "resolved" => \A p \in DOMAIN executors : DoneWith(p)

\* Nothing to do is no groups.
LEMMA NoOnes ==
  ASSUME IInv, status = "running", NEW T, T = {}
  PROVE  Ones(Picked([i \in DOMAIN Subjects |-> i], T)) = <<>>
<1> DEFINE places == Picked([i \in DOMAIN Subjects |-> i], T)
<1>1. places \in Seq({})
  BY SubjectsFacts, NumbersIn
<1> HIDE DEF places
<1>2. Ones(places) \in Seq({g \in GroupsOf({}) : g # <<>>})
  BY <1>1, OnesIn
<1>3. {g \in GroupsOf({}) : g # <<>>} = {}
  <2> SUFFICES ASSUME NEW g \in Seq({}) PROVE g = <<>>
    BY DEF GroupsOf
  <2> QED
    BY NoneIn
<1>4. Ones(places) = <<>>
  BY <1>2, <1>3, NoneIn
<1> QED
  BY <1>4 DEF places

LEMMA NoBulks ==
  ASSUME IInv, status = "running", NEW T, T = {}, NEW groups,
         groups = GroupBulkSubjects(Sorted(Picked([i \in DOMAIN Subjects |-> i], T), "insert"))
  PROVE  FlattenSeq([g \in DOMAIN groups |-> Bulks(groups[g])]) = <<>>
<1> DEFINE places == Picked([i \in DOMAIN Subjects |-> i], T)
           sorted == Sorted(places, "insert")
           bulks == [g \in DOMAIN groups |-> Bulks(groups[g])]
<1>1. places \in Seq({}) /\ SchemaIsTyped
  BY SubjectsFacts, NumbersIn
<1> HIDE DEF places
<1>2. sorted \in Seq({})
  BY <1>1, SortedIn
<1>3. groups = GroupBulkSubjects(sorted)
  BY DEF places
<1> HIDE DEF sorted
<1>4. sorted = <<>>
  BY <1>2, NoneIn
<1>5. DOMAIN groups = {}
  <2> DEFINE kinds == [j \in DOMAIN sorted |-> Subjects[sorted[j]].kind]
  <2>1. DOMAIN sorted = {} /\ DOMAIN sorted = 1..0
    BY <1>4
  <2>2. DOMAIN kinds = 1..0 /\ kinds = [j \in 1..0 |-> kinds[j]] /\ \A j \in 1..0 : kinds[j] \in {}
    BY <2>1
  <2>3. DOMAIN groups = DOMAIN Distinct(kinds)
    BY <1>3 DEF GroupBulkSubjects
  <2> HIDE DEF kinds
  <2>4. kinds \in Seq({})
    BY <2>2, IndexedIn
  <2>5. Distinct(kinds) = <<>>
    BY <2>4, DistinctIn, NoneIn
  <2> QED
    BY <2>3, <2>5
<1>6. DOMAIN bulks = 1..0 /\ bulks = [g \in 1..0 |-> bulks[g]] /\ \A g \in 1..0 : bulks[g] \in Seq({})
  BY <1>5
<1> HIDE DEF bulks
<1>7. bulks \in Seq(Seq({}))
  BY <1>6, IndexedIn
<1>8. FlattenSeq(bulks) = <<>>
  BY <1>7, FlattenIn, NoneIn
<1> QED
  BY <1>8 DEF bulks

\* What does not change.
LEMMA SameSets ==
  ASSUME IInv, Static
  PROVE  /\ Operated' = Operated
         /\ \A s : StartRemoval(s)' <=> StartRemoval(s)
         /\ (executors' = executors /\ AllRemovals => AllRemovals')
         /\ (executors' = executors /\ AllCovered => AllCovered')
<1>1. Operated' = Operated
  BY StaticKeeps
<1>2. m' = m /\ start' = start
  BY DEF Static
<1>3. \A s : StartRemoval(s)' <=> StartRemoval(s)
  BY <1>2 DEF StartRemoval, OnlyRemoved, IdsOf
<1>4. executors' = executors /\ AllRemovals => AllRemovals'
  BY <1>3 DEF AllRemovals
<1>5. executors' = executors /\ AllCovered => AllCovered'
  BY <1>1, <1>2 DEF AllCovered, RemovedIn
<1> QED
  BY <1>1, <1>3, <1>4, <1>5

LEMMA RejectRemoves ==
  ASSUME IInv, RInv, status = "running", Reject
  PROVE  RInv'
<1>1. Static
  BY DEF Reject, Static
<1>2. executors' = executors /\ status' = "rejected" /\ mode' = mode
  BY DEF Reject
<1>3. AllRemovals' /\ AllCovered'
  BY <1>1, <1>2, SameSets DEF RInv
<1> QED
  BY <1>2, <1>3 DEF RInv

\* A phase that goes on with fewer rows: what is gone is gone.
LEMMA StillDone ==
  ASSUME m' = m, graph' = graph, executors' = executors, db'.rows \subseteq db.rows
  PROVE  /\ \A p : DoneWith(p) => DoneWith(p)'
         /\ \A s : Gone(db, s) => Gone(db', s)
<1>1. \A s : Gone(db, s) => Gone(db', s)
  BY DEF Gone, Stored
<1>2. \A p : DoneWith(p) => DoneWith(p)'
  BY <1>1 DEF DoneWith, ToGo, Gone, Stored
<1> QED
  BY <1>1, <1>2

LEMMA PlanRemovals ==
  ASSUME IInv, RInv, NEW p, NEW next, NEW groups, Plan(p, next, groups),
         next \in {"inserting", "updating", "soft-removing", "recovering"} => groups = <<>>,
         next \in {"soft-removing", "recovering"} =>
           \A i \in DOMAIN Subjects : ToGo(Subjects[i]) => Gone(db, Subjects[i]),
         next = "removing" =>
           \A i \in DOMAIN Subjects : ToGo(Subjects[i]) => \E g \in ToSet(groups) : i \in ToSet(g)
  PROVE  RInv'
<1>1. /\ status = "running" /\ status' = "running" /\ todo' = groups /\ phase' = next
      /\ m' = m /\ graph' = graph /\ db' = db /\ mode' = mode /\ executors' = executors /\ at' = at
      /\ Static
  BY DEF Plan, Running, Static
<1>2. AllRemovals' /\ AllCovered'
  BY <1>1, SameSets DEF RInv
<1>3. \A q : DoneWith(q) => DoneWith(q)'
  BY <1>1, StillDone
<1>4. Subjects' = Subjects
  BY <1>1 DEF Subjects
<1>5. Going'
  <2>1. (phase \in {"inserting", "updating", "soft-removing", "recovering"} => todo = <<>>)'
    BY <1>1
  <2>2. (\A q \in DOMAIN executors : q < at => DoneWith(q))'
    BY <1>1, <1>3 DEF RInv, Going
  <2>3. ASSUME NEW i \in DOMAIN Subjects, ToGo(Subjects[i])
        PROVE  /\ next = "removing" => \E g \in ToSet(groups) : i \in ToSet(g)
               /\ next \in {"soft-removing", "recovering"} => Gone(db, Subjects[i])
    BY <2>3
  <2>4. \A i : (\E g \in ToSet(groups) : i \in ToSet(g)) => Pending(i)'
    BY <1>1 DEF Pending
  <2>5. \A s : (Gone(db, s) <=> Gone(db, s)') /\ (ToGo(s) <=> ToGo(s)')
    BY <1>1 DEF Gone, Stored, ToGo
  <2>6. (\A i \in DOMAIN Subjects : ToGo(Subjects[i]) =>
           /\ phase = "removing" => Gone(db, Subjects[i]) \/ Pending(i)
           /\ phase \in {"soft-removing", "recovering"} => Gone(db, Subjects[i]))'
    BY <1>1, <1>4, <2>3, <2>4, <2>5
  <2> QED
    BY <2>1, <2>2, <2>6 DEF Going
<1> QED
  BY <1>1, <1>2, <1>5 DEF RInv

\* In a remove nothing is inserted, updated, soft-removed or recovered.
LEMMA NothingElse ==
  ASSUME IInv, RInv, status = "running"
  PROVE  /\ \A i \in DOMAIN Subjects : StartRemoval(Subjects[i])
         /\ {i \in DOMAIN Subjects : MustBeInserted(Subjects[i])} = {}
         /\ {i \in DOMAIN Subjects : MustBeUpdated(Subjects[i])} = {}
         /\ {i \in DOMAIN Subjects : MustBeSoftRemoved(Subjects[i])} = {}
         /\ {i \in DOMAIN Subjects : MustBeRecovered(Subjects[i])} = {}
<1>1. at \in DOMAIN executors /\ AllRemovals
  BY DEF IInv, SubjectsAreLawful, RInv
<1>2. \A i \in DOMAIN Subjects : StartRemoval(Subjects[i])
  BY <1>1 DEF AllRemovals, Subjects
<1>3. \A i \in DOMAIN Subjects : OnlyRemoved(Subjects[i])
  BY <1>2 DEF StartRemoval
<1> QED
  BY <1>2, <1>3 DEF OnlyRemoved, MustBeInserted, MustBeUpdated, MustBeSoftRemoved, MustBeRecovered

LEMMA PlanInsertsRemoves ==
  ASSUME IInv, RInv, PlanInserts
  PROVE  RInv'
<1> DEFINE T == {i \in DOMAIN Subjects : MustBeInserted(Subjects[i])}
           places == Picked([i \in DOMAIN Subjects |-> i], T)
           groups == GroupBulkSubjects(Sorted(places, "insert"))
           bulks == FlattenSeq([g \in DOMAIN groups |-> Bulks(groups[g])])
<1>1. (Running("insert") /\ Reject) \/ Plan("insert", "inserting", bulks)
  BY DEF PlanInserts, Places
<1>2. CASE Running("insert") /\ Reject
  BY <1>2, RejectRemoves DEF Running
<1>3. CASE Plan("insert", "inserting", bulks)
  <2>1. status = "running"
    BY <1>3 DEF Plan, Running
  <2>2. T = {}
    BY <2>1, NothingElse
  <2> HIDE DEF T
  <2>3. bulks = <<>>
    BY <2>1, <2>2, NoBulks
  <2> HIDE DEF bulks
  <2> QED
    BY <1>3, <2>3, PlanRemovals
<1> QED
  BY <1>1, <1>2, <1>3

LEMMA PlanUpdatesRemoves ==
  ASSUME IInv, RInv, PlanUpdates
  PROVE  RInv'
<1> DEFINE T == {i \in DOMAIN Subjects : MustBeUpdated(Subjects[i])}
           ones == Ones(Picked([i \in DOMAIN Subjects |-> i], T))
<1>1. Plan("inserting", "updating", ones)
  BY DEF PlanUpdates, Places
<1>2. status = "running"
  BY <1>1 DEF Plan, Running
<1>3. T = {}
  BY <1>2, NothingElse
<1> HIDE DEF T
<1>4. ones = <<>>
  BY <1>2, <1>3, NoOnes
<1> HIDE DEF ones
<1> QED
  BY <1>1, <1>4, PlanRemovals

LEMMA PlanRemovesRemoves ==
  ASSUME IInv, RInv, PlanRemoves
  PROVE  RInv'
<1> DEFINE T == {i \in DOMAIN Subjects : Subjects[i].mustBeRemoved}
           numbers == [i \in DOMAIN Subjects |-> i]
           places == Picked(numbers, T)
           groups == GroupBulkSubjects(Sorted(places, "delete"))
<1>1. (Running("updating") /\ Reject) \/ Plan("updating", "removing", groups)
  BY DEF PlanRemoves, Places
<1>2. CASE Running("updating") /\ Reject
  BY <1>2, RejectRemoves DEF Running
<1>3. CASE Plan("updating", "removing", groups)
  <2>1. status = "running"
    BY <1>3 DEF Plan, Running
  <2>2. /\ Subjects \in Seq(ToSet(Subjects)) /\ SchemaIsTyped
        /\ Len(Subjects) \in Nat /\ DOMAIN Subjects = 1..Len(Subjects)
    BY <2>1, SubjectsFacts
  <2>3. T \in SUBSET DOMAIN Subjects
    OBVIOUS
  <2>4. \A i \in DOMAIN Subjects : ToGo(Subjects[i]) => i \in T
    BY DEF ToGo
  <2> HIDE DEF T
  <2>5. places \in Seq(T)
    BY <2>2, <2>3, NumbersIn
  <2>6. \A i \in T : numbers[i] = i
    BY <2>3
  <2> HIDE DEF numbers
  <2>7. \A i \in T : i \in ToSet(places)
    BY <2>2, <2>3, <2>6, PickedAll
  <2> HIDE DEF places
  <2>8. Sorted(places, "delete") \in Seq(T) /\ \A i \in T : i \in ToSet(Sorted(places, "delete"))
    BY <2>2, <2>5, <2>7, SortedIn, SortedAll
  <2>9. \A i \in T : \E g \in ToSet(groups) : i \in ToSet(g)
    BY <2>8, BulkGroupsAll
  <2> HIDE DEF groups
  <2>10. \A i \in DOMAIN Subjects : ToGo(Subjects[i]) => \E g \in ToSet(groups) : i \in ToSet(g)
    BY <2>4, <2>9
  <2> QED
    BY <1>3, <2>10, PlanRemovals
<1> QED
  BY <1>1, <1>2, <1>3

LEMMA PlanSoftRemovesRemoves ==
  ASSUME IInv, RInv, PlanSoftRemoves
  PROVE  RInv'
<1> DEFINE T == {i \in DOMAIN Subjects : MustBeSoftRemoved(Subjects[i])}
           ones == Ones(Picked([i \in DOMAIN Subjects |-> i], T))
<1>1. Plan("removing", "soft-removing", ones) /\ todo = <<>>
  BY DEF PlanSoftRemoves, Places
<1>2. status = "running" /\ phase = "removing"
  BY <1>1 DEF Plan, Running
<1>3. T = {}
  BY <1>2, NothingElse
<1> HIDE DEF T
<1>4. ones = <<>>
  BY <1>2, <1>3, NoOnes
<1> HIDE DEF ones
<1>5. \A i : ~Pending(i)
  BY <1>1, NothingIn DEF Pending
<1>6. \A i \in DOMAIN Subjects : ToGo(Subjects[i]) => Gone(db, Subjects[i])
  BY <1>2, <1>5 DEF RInv, Going
<1> QED
  BY <1>1, <1>4, <1>6, PlanRemovals

LEMMA PlanRecoversRemoves ==
  ASSUME IInv, RInv, PlanRecovers
  PROVE  RInv'
<1> DEFINE T == {i \in DOMAIN Subjects : MustBeRecovered(Subjects[i])}
           ones == Ones(Picked([i \in DOMAIN Subjects |-> i], T))
<1>1. Plan("soft-removing", "recovering", ones)
  BY DEF PlanRecovers, Places
<1>2. status = "running" /\ phase = "soft-removing"
  BY <1>1 DEF Plan, Running
<1>3. T = {}
  BY <1>2, NothingElse
<1> HIDE DEF T
<1>4. ones = <<>>
  BY <1>2, <1>3, NoOnes
<1> HIDE DEF ones
<1>5. \A i \in DOMAIN Subjects : ToGo(Subjects[i]) => Gone(db, Subjects[i])
  BY <1>2 DEF RInv, Going
<1> QED
  BY <1>1, <1>4, <1>5, PlanRemovals

\* The phases that have nothing to do send nothing.
LEMMA NoOtherStatements ==
  ASSUME RInv
  PROVE  ~Insert /\ ~Update /\ ~SoftRemove /\ ~Recover
<1>1. status = "running" /\ phase \in {"inserting", "updating", "soft-removing", "recovering"} => todo = <<>>
  BY DEF RInv, Going
<1> QED
  BY <1>1 DEF Insert, Update, SoftRemove, Recover, Mark, Running

LEMMA BeforeEventsRemoves ==
  ASSUME IInv, RInv, BeforeEvents
  PROVE  RInv'
<1>1. /\ status = "running" /\ phase = "before" /\ phase' = "insert"
      /\ UNCHANGED <<m, db, saved, mode, roots, chunk, at, todo, status, calls, sent, start>>
  BY DEF BeforeEvents, Running
<1>2. UNCHANGED <<graph, executors>>
  <2>1. \A i \in DOMAIN Subjects : ~MustBeInserted(Subjects[i]) /\ ~MustBeUpdated(Subjects[i])
    BY <1>1, NothingElse DEF OnlyRemoved, StartRemoval, MustBeInserted, MustBeUpdated
  <2> QED
    BY <2>1 DEF BeforeEvents
<1>3. Static
  BY <1>1, <1>2 DEF Static
<1>4. AllRemovals' /\ AllCovered'
  BY <1>1, <1>2, <1>3, SameSets DEF RInv
<1>5. \A p : DoneWith(p) => DoneWith(p)'
  BY <1>1, <1>2, StillDone
<1>6. Going'
  BY <1>1, <1>2, <1>5 DEF RInv, Going
<1> QED
  BY <1>1, <1>4, <1>6 DEF RInv

LEMMA HeadOrTail ==
  ASSUME NEW S, NEW t \in Seq(S), t # <<>>
  PROVE  \A x \in ToSet(t) : x = Head(t) \/ x \in ToSet(Tail(t))
<1> SUFFICES ASSUME NEW i \in 1..Len(t) PROVE t[i] = Head(t) \/ t[i] \in ToSet(Tail(t))
  BY ListFacts DEF ToSet
<1>1. Len(t) \in Nat /\ Head(t) = t[1]
  OBVIOUS
<1>2. CASE i = 1
  BY <1>1, <1>2
<1>3. CASE i # 1
  <2>1. i - 1 \in 1..Len(Tail(t)) /\ Tail(t)[i - 1] = t[i]
    BY <1>1, <1>3
  <2>2. DOMAIN Tail(t) = 1..Len(Tail(t))
    BY <1>1
  <2> QED
    BY <2>1, <2>2 DEF ToSet
<1> QED
  BY <1>2, <1>3

\* A statement removes the rows of its group, and no row comes back.
LEMMA RemoveRowsRemoves ==
  ASSUME IInv, RInv, RemoveRows
  PROVE  RInv'
<1> DEFINE group == Head(todo)
           kind == Subjects[group[1]].kind
           ids == {Subjects[i].ids : i \in ToSet(group)}
           junction == \E r \in ToSet(m.relations) : r.type = "manyToMany" /\ r.table = kind
           kept == {l \in db.links : l.table # kind \/ <<l.owner, l.inverse>> \notin ids}
           firsts == {id[1] : id \in ids}
           without == WithoutRows(db, kind, firsts)
           after == IF junction THEN [db EXCEPT !.links = kept] ELSE without
<1>1. status = "running" /\ phase = "removing" /\ todo # <<>>
  BY DEF RemoveRows, Running
<1>2. Reject \/ Sent(after, Subjects, TRUE)
  BY DEF RemoveRows
<1>3. CASE Reject
  BY <1>1, <1>3, RejectRemoves
<1>4. CASE Sent(after, Subjects, TRUE)
  <2>1. RowsAreTyped(db) /\ executors \in Seq(ToSet(executors)) /\ at \in DOMAIN executors
        /\ todo \in Seq(ToSet(todo)) /\ \A g \in ToSet(todo) : Group(Subjects, phase, g)
    BY <1>1 DEF IInv, Typed, SubjectsAreLawful, GroupsAreReady
  <2>2. Group(Subjects, "removing", group)
    BY <1>1, <2>1, TailIn
  <2>3. /\ group \in Seq(DOMAIN Subjects)
        /\ \A i, j \in ToSet(group) : Subjects[i].kind = Subjects[j].kind
        /\ \A i \in ToSet(group) : Subjects[i].mustBeRemoved /\ Subjects[i].ids # <<>>
    BY <2>2 DEF Group, Ready
  <2>4. \A i \in ToSet(group) : Subjects[i].kind = kind
    <3> TAKE i \in ToSet(group)
    <3>1. group # <<>>
      BY <2>3 DEF ToSet
    <3>2. group[1] \in ToSet(group)
      BY <2>3, <3>1, FirstIn
    <3> QED
      BY <2>3, <3>2
  <2>5. With(Subjects) = executors
    BY <2>1 DEF With, Subjects
  <2>6. /\ db' = after /\ executors' = executors /\ todo' = Tail(todo)
        /\ UNCHANGED <<m, graph, saved, mode, roots, chunk, at, phase, status, calls, start>>
    BY <1>4, <2>5 DEF Sent
  <2>7. after.rows \subseteq db.rows
    <3>1. [db EXCEPT !.links = kept] = [rows |-> db.rows, links |-> kept]
      BY <2>1, WithLinks
    <3>2. without.rows \subseteq db.rows
      BY DEF WithoutRows
    <3> HIDE DEF kept, without
    <3> QED
      BY <3>1, <3>2
  <2>8. ASSUME NEW i \in DOMAIN Subjects, i \in ToSet(group), ToGo(Subjects[i])
        PROVE  Gone(after, Subjects[i])
    <3>1. Subjects[i].kind = kind /\ Subjects[i].ids \in ids
      BY <2>4, <2>8
    <3>2. ~junction
      <4>1. Lawful(graph, start.graph, start.db, Subjects[i]) /\ Subjects[i].object # ""
        BY <1>1, <2>8, SubjectsFacts DEF ToGo
      <4>2. Subjects[i].object \in Operated /\ Subjects[i].kind = m.kindOf[Subjects[i].object]
        BY <4>1 DEF Lawful, Own, Link, Bare
      <4>3. m.kindOf[Subjects[i].object] \notin Tables
        BY <4>2, OperatedAreObjects, ObjectFacts DEF IInv, Typed
      <4>4. kind \notin Tables
        BY <3>1, <4>2, <4>3
      <4> QED
        BY <4>4 DEF Tables, ManyToManyTypes
    <3>3. Subjects[i].ids[1] \in firsts
      BY <3>1
    <3>4. \A row \in without.rows : ~(row.kind = kind /\ row.id \in firsts)
      BY DEF WithoutRows
    <3>5. after = without
      BY <3>2
    <3> HIDE DEF after, without, firsts, kind
    <3> QED
      BY <3>1, <3>3, <3>4, <3>5 DEF Gone, Stored
  <2> HIDE DEF after
  <2>9. \A p : DoneWith(p) => DoneWith(p)'
    BY <2>6, <2>7, StillDone
  <2>10. \A s : Gone(db, s) => Gone(db', s)
    BY <2>6, <2>7, StillDone
  <2>11. Static
    BY <2>6 DEF Static
  <2>12. AllRemovals' /\ AllCovered'
    BY <2>6, <2>11, SameSets, <1>1 DEF RInv
  <2>13. Subjects' = Subjects
    BY <2>6 DEF Subjects
  <2>14. \A g \in ToSet(todo) : g = group \/ g \in ToSet(Tail(todo))
    BY <1>1, <2>1, HeadOrTail
  <2>15. ASSUME NEW i \in DOMAIN Subjects, ToGo(Subjects[i])
         PROVE  Gone(db', Subjects[i]) \/ Pending(i)'
    <3>1. Gone(db, Subjects[i]) \/ Pending(i)
      BY <1>1, <2>15 DEF RInv, Going
    <3>2. CASE Gone(db, Subjects[i])
      BY <2>10, <3>2
    <3>3. CASE Pending(i)
      <4>1. PICK g \in ToSet(todo) : i \in ToSet(g)
        BY <3>3 DEF Pending
      <4>2. CASE g = group
        BY <2>6, <2>8, <2>15, <4>1, <4>2
      <4>3. CASE g \in ToSet(Tail(todo))
        <5>1. g \in ToSet(todo')
          BY <2>6, <4>3
        <5>2. Pending(i)'
          BY <4>1, <5>1 DEF Pending, ToSet
        <5> QED
          BY <5>2
      <4> QED
        BY <2>14, <4>2, <4>3
    <3> QED
      BY <3>1, <3>2, <3>3
  <2>16. Going'
    <3>1. (phase \in {"inserting", "updating", "soft-removing", "recovering"} => todo = <<>>)'
      BY <1>1, <2>6
    <3>2. (\A q \in DOMAIN executors : q < at => DoneWith(q))'
      BY <1>1, <2>6, <2>9 DEF RInv, Going
    <3>3. \A s : (ToGo(s) <=> ToGo(s)') /\ (Gone(db', s) <=> Gone(db, s)')
      BY <2>6 DEF ToGo, Gone, Stored
    <3>4. (\A i \in DOMAIN Subjects : ToGo(Subjects[i]) =>
             /\ phase = "removing" => Gone(db, Subjects[i]) \/ Pending(i)
             /\ phase \in {"soft-removing", "recovering"} => Gone(db, Subjects[i]))'
      BY <1>1, <2>6, <2>13, <2>15, <3>3
    <3> QED
      BY <3>1, <3>2, <3>4 DEF Going
  <2> QED
    BY <1>1, <2>6, <2>12, <2>16 DEF RInv
<1> QED
  BY <1>2, <1>3, <1>4

\* An object that is removed, or has no identifier, has none once its executor is done.
LEMMA NewAgain ==
  ASSUME IInv, RInv, status = "running", NEW o \in DOMAIN graph,
         graph[o].id = 0 \/ \E i \in DOMAIN Subjects : ToGo(Subjects[i]) /\ Subjects[i].object = o
  PROVE  Assigned(o) = 0
<1> DEFINE of == {i \in SubjectsOf(Subjects, o) : Subjects[i].inserted \/ Subjects[i].mustBeRemoved}
<1>1. Assigned(o) = IF of = {} THEN graph[o].id ELSE IF Subjects[Min(of)].mustBeRemoved THEN 0 ELSE Subjects[Min(of)].ids[1]
  BY DEF Assigned
<1>2. Len(Subjects) \in Nat /\ DOMAIN Subjects = 1..Len(Subjects) /\ \A i \in DOMAIN Subjects : StartRemoval(Subjects[i])
  BY SubjectsFacts, NothingElse
<1>3. \A i \in of : i \in DOMAIN Subjects /\ (Subjects[i].inserted \/ Subjects[i].mustBeRemoved)
  BY DEF SubjectsOf
<1>4. \A i \in DOMAIN Subjects : ~Subjects[i].inserted
  BY <1>2 DEF StartRemoval, OnlyRemoved
<1>5. (\E i \in DOMAIN Subjects : ToGo(Subjects[i]) /\ Subjects[i].object = o) => of # {}
  BY DEF ToGo, SubjectsOf
<1> HIDE DEF of
<1>6. CASE of = {}
  BY <1>1, <1>5, <1>6
<1>7. CASE of # {}
  <2>1. of \in SUBSET Nat
    BY <1>2, <1>3
  <2>2. Min(of) \in of
    BY <1>7, <2>1, MinIn
  <2>3. Subjects[Min(of)].inserted \/ Subjects[Min(of)].mustBeRemoved
    BY <1>3, <2>2
  <2>4. ~Subjects[Min(of)].inserted
    BY <1>3, <1>4, <2>2
  <2>5. Subjects[Min(of)].mustBeRemoved
    BY <2>3, <2>4, Zenon
  <2> QED
    BY <1>1, <1>7, <2>5
<1> QED
  BY <1>6, <1>7

LEMMA FinishRemoves ==
  ASSUME IInv, RInv, Finish
  PROVE  RInv'
<1>1. /\ UNCHANGED <<m, db, saved, mode, roots, chunk, executors, todo, calls, sent, start>>
      /\ status = "running" /\ phase = "recovering" /\ todo = <<>>
      /\ graph' = [o \in DOMAIN graph |-> [graph[o] EXCEPT !.id = Assigned(o)]]
  BY DEF Finish, Running, Assigned
<1>2. \/ at < Len(executors) /\ at' = at + 1 /\ phase' = "before" /\ status' = status
      \/ ~(at < Len(executors)) /\ status' = "resolved" /\ at' = at /\ phase' = phase
  BY DEF Finish
<1>3. /\ ObjectsAreTyped /\ executors \in Seq(ToSet(executors)) /\ at \in DOMAIN executors
      /\ \A p \in DOMAIN executors : AllLawful(graph, start.graph, start.db, executors[p])
      /\ Len(executors) \in Nat /\ DOMAIN executors = 1..Len(executors)
  BY <1>1, ListFacts DEF IInv, Typed, SubjectsAreLawful
<1>4. \A o \in DOMAIN graph : graph'[o].rel = graph[o].rel /\ graph'[o].id = Assigned(o)
  <2>1. \A o \in DOMAIN graph : graph'[o] = [graph[o] EXCEPT !.id = Assigned(o)]
    BY <1>1
  <2>2. \A o \in DOMAIN graph : graph[o] = [id |-> graph[o].id, value |-> graph[o].value, rel |-> graph[o].rel]
    BY <1>3 DEF ObjectsAreTyped
  <2>3. ASSUME NEW o \in DOMAIN graph
        PROVE  graph'[o].rel = graph[o].rel /\ graph'[o].id = Assigned(o)
    <3>1. graph[o] = [id |-> graph[o].id, value |-> graph[o].value, rel |-> graph[o].rel]
          /\ graph'[o] = [graph[o] EXCEPT !.id = Assigned(o)]
      BY <2>1, <2>2
    <3> QED
      BY <3>1
  <2> QED
    BY <2>3
<1>5. Operated' = Operated
  BY <1>1, <1>4, SameOperated
<1>6. AllRemovals' /\ AllCovered'
  <2>1. m' = m /\ start' = start /\ executors' = executors
    BY <1>1
  <2>2. \A s : StartRemoval(s)' <=> StartRemoval(s)
    BY <2>1 DEF StartRemoval, OnlyRemoved, IdsOf
  <2>3. AllRemovals /\ AllCovered
    BY <1>1 DEF RInv
  <2>4. AllRemovals'
    BY <2>1, <2>2, <2>3 DEF AllRemovals
  <2>5. AllCovered'
    BY <1>5, <2>1, <2>3 DEF AllCovered, RemovedIn
  <2> QED
    BY <2>4, <2>5
<1>7. ASSUME NEW p \in DOMAIN executors, p <= at
      PROVE  DoneWith(p)'
  <2>1. ASSUME NEW i \in DOMAIN executors[p], ToGo(executors[p][i])
        PROVE  Gone(db, executors[p][i]) /\ graph'[executors[p][i].object].id = 0
    <3>1. executors[p][i].object \in DOMAIN graph
      <4>1. AllLawful(graph, start.graph, start.db, executors[p])
        BY <1>3
      <4>2. executors[p][i] \in ToSet(executors[p])
        BY DEF ToSet
      <4>3. Lawful(graph, start.graph, start.db, executors[p][i]) /\ executors[p][i].object # ""
        BY <2>1, <4>1, <4>2 DEF AllLawful, ToGo
      <4> QED
        BY <4>3, OperatedAreObjects DEF Lawful, Own, Link, Bare
    <3>2. CASE p = at
      <4>1. executors[p] = Subjects
        BY <3>2 DEF Subjects
      <4>2. Gone(db, executors[p][i])
        BY <1>1, <2>1, <4>1 DEF RInv, Going
      <4>3. Assigned(executors[p][i].object) = 0
        BY <1>1, <2>1, <3>1, <4>1, NewAgain
      <4> QED
        BY <1>4, <3>1, <4>2, <4>3
    <3>3. CASE p # at
      <4>1. DoneWith(p)
        BY <1>1, <1>3, <1>7, <3>3 DEF RInv, Going
      <4>2. Gone(db, executors[p][i]) /\ graph[executors[p][i].object].id = 0
        BY <2>1, <4>1 DEF DoneWith
      <4>3. Assigned(executors[p][i].object) = 0
        BY <1>1, <3>1, <4>2, NewAgain
      <4> QED
        BY <1>4, <3>1, <4>2, <4>3
    <3> QED
      BY <3>2, <3>3
  <2> QED
    BY <1>1, <2>1 DEF DoneWith, ToGo, Gone, Stored
<1>8. CASE at < Len(executors) /\ at' = at + 1 /\ phase' = "before" /\ status' = status
  <2>1. (\A p \in DOMAIN executors : p < at => DoneWith(p))'
    <3> SUFFICES ASSUME NEW p \in DOMAIN executors, p < at + 1 PROVE DoneWith(p)'
      BY <1>1, <1>8
    <3> QED
      BY <1>3, <1>7
  <2>2. Going'
    BY <1>1, <1>8, <2>1 DEF Going
  <2> QED
    BY <1>1, <1>6, <1>8, <2>2 DEF RInv
<1>9. CASE ~(at < Len(executors)) /\ status' = "resolved" /\ at' = at /\ phase' = phase
  <2>1. (\A p \in DOMAIN executors : DoneWith(p))'
    <3> SUFFICES ASSUME NEW p \in DOMAIN executors PROVE DoneWith(p)'
      BY <1>1
    <3> QED
      BY <1>3, <1>7, <1>9
  <2> QED
    BY <1>1, <1>6, <1>9, <2>1 DEF RInv
<1> QED
  BY <1>2, <1>8, <1>9

LEMMA RemovalStarts ==
  ASSUME m' = m, start'.graph = graph
  PROVE  \A s : Removal(s) => StartRemoval(s)'
BY DEF StartRemoval, Removal, OnlyRemoved, IdsOf

LEMMA CallRemoves ==
  ASSUME IInv, RInv, Call
  PROVE  RInv'
<1> DEFINE Op(part) == BuildExecutor(m, graph, db, mode, part)
           parts == Chunks(roots, chunk)
           each == [p \in DOMAIN parts |-> Op(parts[p])]
           built == Each(parts, Op)
           busy == {p \in DOMAIN built : \E i \in DOMAIN built[p] : Executable(built[p][i])}
<1>1. /\ executors' = Picked(built, busy)
      /\ status' = IF busy = {} THEN "resolved" ELSE "running"
      /\ start' = [graph |-> graph, db |-> db]
      /\ at' = 1 /\ phase' = "before" /\ todo' = <<>>
      /\ m' = m /\ graph' = graph /\ db' = db /\ mode' = mode /\ roots' = roots /\ chunk' = chunk
  BY DEF Call
<1>2. mode = "remove" /\ status = "idle" /\ OneEach
  BY DEF RInv, Call
<1>3. SchemaIsTyped /\ ObjectsAreTyped /\ RowsAreTyped(db) /\ roots \in Seq(DOMAIN graph) /\ chunk \in Nat
  BY DEF IInv, Typed
<1>4. Operated' = Operated
  BY <1>1, SameOperated
<1>5. roots \in Seq(Operated)
  BY <1>3, RootsAreOperated, SeqOfItsOwn, WiderList
<1>6. /\ \A p \in DOMAIN parts : parts[p] \in Seq(Operated)
      /\ \E n \in Nat : DOMAIN parts = 1..n
  BY <1>3, <1>5, ChunksIn
<1>7. \A x \in ToSet(roots) : \E p \in DOMAIN parts : x \in ToSet(parts[p])
  BY <1>3, ChunksAll
<1>8. built = each \o <<>>
  BY DEF Each
<1>9. PICK n \in Nat : DOMAIN parts = 1..n
  BY <1>6
<1> HIDE DEF parts
<1>10. ASSUME NEW p \in DOMAIN parts
       PROVE  LET list == Op(parts[p])
              IN /\ list \in Seq(ToSet(list)) /\ \A s \in ToSet(list) : Removal(s)
                 /\ \E objects \in SUBSET DOMAIN graph :
                      /\ ToSet(parts[p]) \subseteq objects /\ Closed(objects)
                      /\ \A o \in objects : graph[o].id # 0 => RemovedIn(o, list)
  BY <1>2, <1>3, <1>6, RemoveExecutor
<1> HIDE DEF Op
<1> DEFINE L == {Op(parts[p]) : p \in 1..n}
<1>11. DOMAIN built = 1..n /\ Len(built) = n /\ (\A p \in 1..n : built[p] = Op(parts[p])) /\ built \in Seq(L)
  <2>1. DOMAIN each = 1..n /\ each = [p \in 1..n |-> each[p]] /\ \A p \in 1..n : each[p] \in L /\ each[p] = Op(parts[p])
    BY <1>9
  <2> HIDE DEF each, L
  <2>2. each \in Seq(L) /\ Len(each) = n
    BY <2>1, IndexedIn
  <2>3. built = each
    <3> HIDE DEF built
    <3> QED
      BY <1>8, <2>2, EmptyConcat
  <2> HIDE DEF built
  <2> QED
    BY <2>1, <2>2, <2>3
<1> HIDE DEF L
<1> HIDE DEF built, each
<1>12. busy \in SUBSET DOMAIN built /\ busy \in SUBSET (1..n)
  BY <1>11
<1>13. \A p \in 1..n : \A o : RemovedIn(o, built[p]) => p \in busy
  BY <1>11 DEF RemovedIn, Executable
<1> HIDE DEF busy
<1>14. /\ Len(executors') = Cardinality(busy) /\ DOMAIN executors' = 1..Len(executors')
       /\ \A q \in DOMAIN executors' : executors'[q] \in L
  <2>1. executors' \in Seq(L)
    BY <1>1, <1>11, <1>12, PickedIn
  <2>2. Len(executors') = Cardinality(busy)
    BY <1>1, <1>12, PickedFrom
  <2> QED
    BY <2>1, <2>2, ListFacts
<1>15. AllRemovals'
  <2>1. ASSUME NEW q \in DOMAIN executors', NEW i \in DOMAIN executors'[q]
        PROVE  Removal(executors'[q][i])
    <3>1. PICK p \in 1..n : executors'[q] = Op(parts[p])
      BY <1>14 DEF L
    <3>2. \A s \in ToSet(Op(parts[p])) : Removal(s)
      BY <1>9, <1>10
    <3> QED
      BY <3>1, <3>2 DEF ToSet
  <2>2. \A s : Removal(s) => StartRemoval(s)'
    BY <1>1, RemovalStarts
  <2> QED
    BY <2>1, <2>2 DEF AllRemovals
<1>16. \A o \in Operated : graph[o].id # 0 => \E p \in 1..n : RemovedIn(o, built[p])
  <2> DEFINE Took(p, objects) ==
               /\ objects \in SUBSET DOMAIN graph /\ ToSet(parts[p]) \subseteq objects /\ Closed(objects)
               /\ \A o \in objects : graph[o].id # 0 => RemovedIn(o, built[p])
             took(p) == CHOOSE objects : Took(p, objects)
             all == UNION {took(p) : p \in 1..n}
  <2>1. \A p \in 1..n : Took(p, took(p))
    <3> TAKE p \in 1..n
    <3>1. \E objects : Took(p, objects)
      BY <1>9, <1>10, <1>11
    <3> HIDE DEF Took
    <3> QED
      BY <3>1
  <2> HIDE DEF took
  <2>2. ToSet(roots) \subseteq all
    BY <1>7, <1>9, <2>1
  <2>3. all \in SUBSET DOMAIN graph
    BY <2>1
  <2>4. Closed(all)
    BY <2>1 DEF Closed
  <2>5. \A o \in Operated : o \in all
    <3> HIDE DEF all
    <3> QED
      BY <2>2, <2>3, <2>4 DEF Operated
  <2> QED
    BY <2>1, <2>5
<1>17. AllCovered'
  <2>1. ASSUME NEW o \in Operated, graph[o].id # 0
        PROVE  \E q \in DOMAIN executors' : RemovedIn(o, executors'[q])
    <3>1. PICK p \in 1..n : RemovedIn(o, built[p])
      BY <1>16, <2>1
    <3>2. built[p] \in ToSet(executors')
      BY <1>1, <1>12, <1>13, <3>1, PickedAll
    <3>3. PICK q \in DOMAIN executors' : executors'[q] = built[p]
      BY <3>2 DEF ToSet
    <3> QED
      BY <3>1, <3>3
  <2>2. start'.graph = graph
    BY <1>1
  <2> QED
    BY <1>4, <2>1, <2>2 DEF AllCovered, RemovedIn
<1>18. status' = "running" => Going'
  <2>1. (\A p \in DOMAIN executors : p < at => DoneWith(p))'
    BY <1>1, <1>14
  <2> QED
    BY <1>1, <2>1 DEF Going
<1>19. status' = "resolved" => DOMAIN executors' = {}
  <2>1. status' = "resolved" => busy = {}
    BY <1>1
  <2>2. Cardinality({}) = 0
    BY FS_EmptySet
  <2>3. status' = "resolved" => Len(executors') = 0
    BY <1>14, <2>1, <2>2
  <2>4. DOMAIN executors' = 1..Len(executors')
    BY <1>14
  <2> QED
    BY <2>3, <2>4
<1> QED
  BY <1>1, <1>2, <1>15, <1>17, <1>18, <1>19 DEF RInv

LEMMA StutterRemoves ==
  ASSUME IInv, RInv, UNCHANGED vars
  PROVE  RInv'
<1>1. UNCHANGED <<m, graph, db, saved, mode, roots, chunk, executors, at, phase, todo, status, start>>
  BY DEF vars
<1>2. Static
  BY <1>1 DEF Static
<1>3. status # "idle" => AllRemovals' /\ AllCovered'
  BY <1>1, <1>2, SameSets DEF RInv
<1>4. \A p : DoneWith(p) => DoneWith(p)'
  BY <1>1, StillDone
<1>5. Subjects' = Subjects /\ (\A i : Pending(i) => Pending(i)') /\ (\A s : (ToGo(s)' <=> ToGo(s)) /\ (Gone(db, s)' <=> Gone(db, s)))
  BY <1>1 DEF Subjects, Pending, ToSet, ToGo, Gone, Stored
<1>6. status = "running" => Going'
  BY <1>1, <1>4, <1>5 DEF RInv, Going
<1>7. OneEach => OneEach'
  BY <1>1 DEF OneEach
<1> QED
  BY <1>1, <1>3, <1>4, <1>6, <1>7 DEF RInv

\* In a remove every step takes away what it is to, and keeps what is gone gone.
LEMMA StepRemoves ==
  ASSUME IInv, RInv, [Next]_vars
  PROVE  RInv'
<1>1. CASE Call
  BY <1>1, CallRemoves
<1>2. CASE BeforeEvents
  BY <1>2, BeforeEventsRemoves
<1>3. CASE PlanInserts
  BY <1>3, PlanInsertsRemoves
<1>4. CASE PlanUpdates
  BY <1>4, PlanUpdatesRemoves
<1>5. CASE PlanRemoves
  BY <1>5, PlanRemovesRemoves
<1>6. CASE RemoveRows
  BY <1>6, RemoveRowsRemoves
<1>7. CASE PlanSoftRemoves
  BY <1>7, PlanSoftRemovesRemoves
<1>8. CASE PlanRecovers
  BY <1>8, PlanRecoversRemoves
<1>9. CASE Insert \/ Update \/ SoftRemove \/ Recover
  BY <1>9, NoOtherStatements
<1>10. CASE Finish
  BY <1>10, FinishRemoves
<1>11. CASE UNCHANGED vars
  BY <1>11, StutterRemoves
<1> QED
  BY <1>1, <1>2, <1>3, <1>4, <1>5, <1>6, <1>7, <1>8, <1>9, <1>10, <1>11 DEF Next

LEMMA AllAreGone ==
  ASSUME IInv, RInv
  PROVE  RemovedIsGone
<1> SUFFICES ASSUME status = "resolved", NEW o \in Operated, start.graph[o].id # 0
             PROVE  ~Stored(db, m.kindOf[o], start.graph[o].id) /\ graph[o].id = 0
  BY DEF RInv, RemovedIsGone
<1>1. AllRemovals /\ AllCovered /\ \A p \in DOMAIN executors : DoneWith(p)
  BY DEF RInv
<1>2. PICK p \in DOMAIN executors : RemovedIn(o, executors[p])
  BY <1>1 DEF AllCovered
<1>3. PICK i \in DOMAIN executors[p] : executors[p][i].object = o /\ executors[p][i].mustBeRemoved
  BY <1>2 DEF RemovedIn
<1>4. o # ""
  BY OperatedAreObjects, ObjectFacts DEF IInv, Typed
<1>5. ToGo(executors[p][i])
  BY <1>3, <1>4 DEF ToGo
<1>6. Gone(db, executors[p][i]) /\ graph[o].id = 0
  BY <1>1, <1>3, <1>5 DEF DoneWith
<1>7. executors[p][i].kind = m.kindOf[o] /\ executors[p][i].ids = IdsOf(start.graph, o)
  BY <1>1, <1>3, <1>4 DEF AllRemovals, StartRemoval
<1>8. executors[p][i].ids[1] = start.graph[o].id
  BY <1>7 DEF IdsOf
<1> QED
  BY <1>6, <1>7, <1>8 DEF Gone

\* A remove that resolved has removed the row of every object that it was called with
\* or that cascades from one and has an identifier, and those objects are new again:
\* whatever the relations, the rows, the chunks and the order of the statements. No
\* two of the objects stand for one row: of two that do, only the subject that is
\* found first for the row is made, and the other object keeps its identifier.
THEOREM RemovedIsGoneHolds ==
  Spec /\ mode = "remove" /\ OneEach => []RemovedIsGone
<1>1. Init /\ mode = "remove" /\ OneEach => RInv
  BY DEF Init, Idle, RInv
<1>2. IInv /\ RInv /\ [Next]_vars => RInv'
  BY StepRemoves
<1>3. IInv /\ RInv => RemovedIsGone
  BY AllAreGone
<1> QED
  BY IInvHolds, <1>1, <1>2, <1>3, PTL DEF Spec
===============================================================================
