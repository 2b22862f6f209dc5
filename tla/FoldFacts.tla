------------------------------- MODULE FoldFacts -------------------------------
(***************************************************************************)
(* What a fold over a list keeps, for any step Op and any predicate Holds. *)
(* A proof about a fold instantiates this module with its own two.         *)
(***************************************************************************)
EXTENDS Integers

CONSTANTS Op(_, _), Holds(_, _)

\* The greatest of a set, as FiniteSetsExt has it.
Greatest(S) == CHOOSE x \in S : \A y \in S : x >= y

\* Every nonempty set of naturals has a smallest member.
HaveLeast == \A T \in SUBSET Nat : T # {} => \E m \in T : \A n \in T : m <= n

LEMMA MaxAtEnd ==
  ASSUME NEW k \in Nat, NEW S \in SUBSET (1..(k + 1)), k + 1 \in S
  PROVE  Greatest(S) = k + 1
<1>1. \A y \in S : k + 1 >= y
  OBVIOUS
<1>2. Greatest(S) \in S /\ \A y \in S : Greatest(S) >= y
  BY <1>1 DEF Greatest
<1>3. Greatest(S) >= k + 1
  BY <1>2
<1>4. k + 1 >= Greatest(S) /\ Greatest(S) \in 1..(k + 1)
  BY <1>1, <1>2
<1>5. \A x \in 1..(k + 1) : x >= k + 1 => x = k + 1
  OBVIOUS
<1> QED
  BY <1>3, <1>4, <1>5

LEMMA WithoutLast ==
  ASSUME NEW k \in Nat
  PROVE  (1..(k + 1)) \ {k + 1} = 1..k
<1>1. \A i \in 1..(k + 1) : i # k + 1 => i \in 1..k
  OBVIOUS
<1>2. \A i \in 1..k : i \in 1..(k + 1) /\ i # k + 1
  OBVIOUS
<1> QED
  BY <1>1, <1>2

\* What the fold is computed from: a value for every set of the first k places.
Folded(f, base, s, k) ==
  f = [S \in SUBSET (1..k) |-> IF S = {} THEN base ELSE Op(f[S \ {Greatest(S)}], s[Greatest(S)])]

LEMMA FoldedNone ==
  ASSUME NEW base, NEW s
  PROVE  \E f : Folded(f, base, s, 0)
<1> DEFINE f == [S \in SUBSET (1..0) |-> base]
<1>1. \A S \in SUBSET (1..0) : S = {}
  OBVIOUS
<1>2. f = [S \in SUBSET (1..0) |-> IF S = {} THEN base ELSE Op(f[S \ {Greatest(S)}], s[Greatest(S)])]
  BY <1>1
<1> QED
  BY <1>2 DEF Folded

LEMMA FoldedOneMore ==
  ASSUME NEW base, NEW s, NEW k \in Nat, \E f : Folded(f, base, s, k)
  PROVE  \E f : Folded(f, base, s, k + 1)
<1>1. PICK f : Folded(f, base, s, k)
  OBVIOUS
<1> DEFINE g == [S \in SUBSET (1..(k + 1)) |->
                  IF k + 1 \in S THEN Op(f[S \ {k + 1}], s[k + 1]) ELSE f[S]]
           next(S) == IF S = {} THEN base ELSE Op(g[S \ {Greatest(S)}], s[Greatest(S)])
<1>2. ASSUME NEW S \in SUBSET (1..(k + 1))
      PROVE  g[S] = next(S)
  <2>1. CASE k + 1 \in S
    <3>1. Greatest(S) = k + 1
      BY <2>1, MaxAtEnd
    <3>2. S \ {k + 1} \in SUBSET (1..(k + 1)) /\ k + 1 \notin S \ {k + 1}
      OBVIOUS
    <3>3. g[S \ {k + 1}] = f[S \ {k + 1}]
      BY <3>2
    <3>4. g[S] = Op(f[S \ {k + 1}], s[k + 1])
      BY <2>1
    <3> QED
      BY <3>1, <3>3, <3>4, <2>1
  <2>2. CASE k + 1 \notin S
    <3>1. S \in SUBSET (1..k)
      BY <2>2
    <3>2. S \ {Greatest(S)} \in SUBSET (1..(k + 1)) /\ k + 1 \notin S \ {Greatest(S)}
      BY <2>2
    <3>3. g[S \ {Greatest(S)}] = f[S \ {Greatest(S)}]
      BY <3>2
    <3>4. f[S] = IF S = {} THEN base ELSE Op(f[S \ {Greatest(S)}], s[Greatest(S)])
      BY <1>1, <3>1 DEF Folded
    <3>5. g[S] = f[S]
      BY <2>2
    <3> QED
      BY <3>3, <3>4, <3>5
  <2> QED
    BY <2>1, <2>2
<1>3. g = [S \in SUBSET (1..(k + 1)) |-> next(S)]
  <2> SUFFICES [S \in SUBSET (1..(k + 1)) |-> g[S]] = [S \in SUBSET (1..(k + 1)) |-> next(S)]
    OBVIOUS
  <2> HIDE DEF g, next
  <2> QED
    BY <1>2
<1> QED
  BY <1>3 DEF Folded

LEMMA FoldedExists ==
  ASSUME HaveLeast, NEW base, NEW s, NEW n \in Nat
  PROVE  \E f : Folded(f, base, s, n)
<1> DEFINE T == {k \in Nat : ~\E f : Folded(f, base, s, k)}
<1>1. SUFFICES T = {}
  OBVIOUS
<1>2. SUFFICES ASSUME T # {} PROVE FALSE
  OBVIOUS
<1>3. PICK m \in T : \A k \in T : m <= k
  <2>1. T \in SUBSET Nat
    OBVIOUS
  <2> HIDE DEF T
  <2> QED
    BY <1>2, <2>1 DEF HaveLeast
<1>4. m # 0
  BY <1>3, FoldedNone
<1>5. m - 1 \in Nat /\ m - 1 \notin T /\ (m - 1) + 1 = m
  BY <1>3, <1>4
<1>6. \E f : Folded(f, base, s, m - 1)
  BY <1>5
<1>7. \E f : Folded(f, base, s, (m - 1) + 1)
  BY <1>5, <1>6, FoldedOneMore
<1> QED
  BY <1>3, <1>5, <1>7

\* The fold of the first n elements, as FoldLeft works it out.
Fold(base, s, n) == (CHOOSE f : Folded(f, base, s, n))[1..n]

\* What holds at first and is kept by a step with each element holds in the end.
LEMMA FoldKeeps ==
  ASSUME HaveLeast, NEW given, NEW base, NEW n \in Nat, NEW s,
         Holds(given, base), \A i \in 1..n : \A a : Holds(given, a) => Holds(given, Op(a, s[i]))
  PROVE  Holds(given, Fold(base, s, n))
<1>1. PICK f : Folded(f, base, s, n) /\ Fold(base, s, n) = f[1..n]
  BY FoldedExists DEF Fold
<1> DEFINE T == {k \in Nat : k <= n /\ ~Holds(given, f[1..k])}
<1>2. SUFFICES ASSUME T # {} PROVE FALSE
  BY <1>1
<1>3. PICK m \in T : \A k \in T : m <= k
  <2>1. T \in SUBSET Nat
    OBVIOUS
  <2> HIDE DEF T
  <2> QED
    BY <1>2, <2>1 DEF HaveLeast
<1>4. CASE m = 0
  <2>1. 1..m = {} /\ {} \in SUBSET (1..n)
    BY <1>4
  <2>2. f[{}] = base
    BY <1>1, <2>1 DEF Folded
  <2> QED
    BY <1>3, <2>1, <2>2
<1>5. CASE m # 0
  <2>1. m - 1 \in Nat /\ m - 1 \notin T /\ m \in 1..n /\ (m - 1) + 1 = m
    BY <1>3, <1>5
  <2>2. Holds(given, f[1..(m - 1)])
    BY <2>1
  <2>3. 1..m \in SUBSET (1..n) /\ 1..m # {} /\ m \in 1..m
    <3>1. m \in Nat /\ 1 <= m /\ m <= n
      BY <2>1
    <3> QED
      BY <3>1
  <2>4. Greatest(1..m) = m
    BY <2>1, <2>3, MaxAtEnd
  <2>5. (1..m) \ {m} = 1..(m - 1)
    BY <2>1, WithoutLast
  <2>6. f[1..m] = Op(f[(1..m) \ {Greatest(1..m)}], s[Greatest(1..m)])
    BY <1>1, <2>3 DEF Folded
  <2>7. f[1..m] = Op(f[1..(m - 1)], s[m])
    BY <2>4, <2>5, <2>6
  <2>8. Holds(given, f[1..m])
    BY <2>1, <2>2, <2>7
  <2> QED
    BY <1>3, <2>8
<1> QED
  BY <1>4, <1>5

\* So does what counts the steps that are left, too.
LEMMA FoldCounts ==
  ASSUME HaveLeast, NEW given, NEW base, NEW n \in Nat, NEW s, Holds(<<given, n>>, base),
         \A k \in Nat : \A i \in 1..n : \A a : Holds(<<given, k + 1>>, a) => Holds(<<given, k>>, Op(a, s[i]))
  PROVE  Holds(<<given, 0>>, Fold(base, s, n))
<1>1. PICK f : Folded(f, base, s, n) /\ Fold(base, s, n) = f[1..n]
  BY FoldedExists DEF Fold
<1> DEFINE T == {k \in Nat : k <= n /\ ~Holds(<<given, n - k>>, f[1..k])}
<1>2. SUFFICES ASSUME T # {} PROVE FALSE
  <2>1. n \notin T /\ n - n = 0
    BY <1>2
  <2>2. Holds(<<given, n - n>>, f[1..n])
    BY <2>1
  <2> QED
    BY <1>1, <2>1, <2>2
<1>3. PICK m \in T : \A k \in T : m <= k
  <2>1. T \in SUBSET Nat
    OBVIOUS
  <2> HIDE DEF T
  <2> QED
    BY <1>2, <2>1 DEF HaveLeast
<1>4. CASE m = 0
  <2>1. 1..m = {} /\ {} \in SUBSET (1..n) /\ n - m = n
    BY <1>4
  <2>2. f[{}] = base
    BY <1>1, <2>1 DEF Folded
  <2> QED
    BY <1>3, <2>1, <2>2
<1>5. CASE m # 0
  <2>1. m - 1 \in Nat /\ m - 1 \notin T /\ m \in 1..n /\ (m - 1) + 1 = m /\ n - m \in Nat /\ n - (m - 1) = (n - m) + 1
    BY <1>3, <1>5
  <2>2. Holds(<<given, (n - m) + 1>>, f[1..(m - 1)])
    BY <2>1
  <2>3. 1..m \in SUBSET (1..n) /\ 1..m # {} /\ m \in 1..m
    <3>1. m \in Nat /\ 1 <= m /\ m <= n
      BY <2>1
    <3>2. \A k \in 1..m : k \in 1..n
      BY <3>1
    <3>3. m \in 1..m
      BY <3>1
    <3> HIDE DEF T
    <3>4. 1..m # {}
      BY <3>3
    <3>5. 1..m \in SUBSET (1..n)
      BY <3>2
    <3> QED
      BY <3>3, <3>4, <3>5
  <2>4. Greatest(1..m) = m
    BY <2>1, <2>3, MaxAtEnd
  <2>5. (1..m) \ {m} = 1..(m - 1)
    BY <2>1, WithoutLast
  <2>6. f[1..m] = Op(f[(1..m) \ {Greatest(1..m)}], s[Greatest(1..m)])
    BY <1>1, <2>3 DEF Folded
  <2>7. f[1..m] = Op(f[1..(m - 1)], s[m])
    BY <2>4, <2>5, <2>6
  <2>8. Holds(<<given, n - m>>, f[1..m])
    BY <2>1, <2>2, <2>7
  <2> QED
    BY <1>3, <2>8
<1> QED
  BY <1>4, <1>5
===============================================================================
