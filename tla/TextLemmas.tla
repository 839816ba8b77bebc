----------------------------- MODULE TextLemmas -----------------------------
(***************************************************************************)
(* Facts about positions in texts and parts of them, for the modules that  *)
(* read texts: the tag list, urls and responses.                           *)
(***************************************************************************)
EXTENDS Integers, SequencesExt, FiniteSetTheorems, WellFoundedInduction, TLAPS

\* A nonempty set of numbers has a least one.
LEMMA LeastIs ==
  ASSUME NEW S \in SUBSET Nat, S # {}
  PROVE  Min(S) \in S /\ \A y \in S : Min(S) <= y
<1>1. PICK x \in S : \A y \in S : ~(<<y, x>> \in OpToRel(<, Nat))
  BY WFMin, NatLessThanWellFounded, Zenon
<1>2. \A y \in S : ~(y < x)
  BY <1>1, Zenon DEF OpToRel
<1>3. \A y \in S : x <= y
  BY <1>2
<1>4. QED
  BY <1>3, Zenon DEF Min

\* A nonempty set of positions has a last one.
LEMMA GreatestIs ==
  ASSUME NEW n \in Nat, NEW S \in SUBSET (0 .. n), S # {}
  PROVE  Max(S) \in S /\ \A y \in S : y <= Max(S)
<1> DEFINE T == {n - y : y \in S}
<1>1. T \in SUBSET Nat /\ T # {}
  <2>1. \A y \in S : n - y \in Nat
    OBVIOUS
  <2>2. QED
    BY <2>1
<1>2. Min(T) \in T /\ \A y \in T : Min(T) <= y
  BY <1>1, LeastIs
<1>3. PICK x \in S : Min(T) = n - x
  BY <1>2
<1>4. \A y \in S : x >= y
  BY <1>2, <1>3
<1>5. QED
  BY <1>4, Zenon DEF Max

\* Induction over the positions of a text, with the set of those where it holds.
LEMMA AllPositions ==
  ASSUME NEW N \in Nat, NEW S, N >= 1 => 1 \in S,
         \A n \in 1 .. N - 1 : n \in S => n + 1 \in S
  PROVE  \A n \in 1 .. N : n \in S
<1> SUFFICES ASSUME (1 .. N) \ S # {} PROVE FALSE
  OBVIOUS
<1> DEFINE Bad == (1 .. N) \ S
<1>1. PICK m \in Bad : \A k \in Bad : m <= k
  <2>1. Bad \in SUBSET Nat /\ Bad # {}
    OBVIOUS
  <2> HIDE DEF Bad
  <2>2. Min(Bad) \in Bad /\ \A k \in Bad : Min(Bad) <= k
    BY <2>1, LeastIs
  <2>3. QED
    BY <2>2
<1>2. m \in 1 .. N /\ m # 1 /\ m - 1 \notin Bad
  BY <1>1
<1>3. m - 1 \in 1 .. N - 1 /\ (m - 1) + 1 = m
  BY <1>2
<1>4. QED
  BY <1>2, <1>3

\* Two positions are two.
LEMMA TwoPositions ==
  ASSUME NEW n \in Nat, NEW S \in SUBSET (1 .. n)
  PROVE  Cardinality(S) = 2 <=> \E a, b \in S : a < b /\ S = {a, b}
<1>1. IsFiniteSet(S)
  <2>1. IsFiniteSet(1 .. n)
    BY FS_Interval
  <2>2. QED
    BY <2>1, FS_Subset
<1>2. ASSUME NEW a \in S, NEW b \in S, a < b, S = {a, b} PROVE Cardinality(S) = 2
  <2>1. IsFiniteSet({a}) /\ Cardinality({a}) = 1
    BY FS_Singleton
  <2>2. Cardinality({a} \cup {b}) = 2
    BY <1>2, <2>1, FS_AddElement
  <2>3. {a} \cup {b} = S
    BY <1>2
  <2>4. QED
    BY <2>2, <2>3
<1>3. ASSUME Cardinality(S) = 2 PROVE \E a, b \in S : a < b /\ S = {a, b}
  <2>1. S # {}
    BY <1>1, <1>3, FS_EmptySet
  <2>2. PICK x \in S : TRUE
    BY <2>1
  <2>3. IsFiniteSet(S \ {x}) /\ Cardinality(S \ {x}) = 1
    BY <1>1, <1>3, FS_RemoveElement
  <2>4. PICK y : S \ {x} = {y}
    BY <2>3, FS_Singleton
  <2>5. S = {x, y} /\ x # y /\ y \in S
    BY <2>2, <2>4
  <2>6. x < y \/ y < x
    BY <2>5
  <2>7. QED
    BY <2>5, <2>6
<1>4. QED
  BY <1>2, <1>3

-----------------------------------------------------------------------------
\* What a part of a text consists of, and a part of a part of it.
LEMMA PartIs ==
  ASSUME NEW A, NEW s \in Seq(A), NEW m \in Nat, m >= 1, NEW n \in 0 .. Len(s)
  PROVE  /\ SubSeq(s, m, n) \in Seq(A)
         /\ Len(SubSeq(s, m, n)) = IF m <= n THEN n - m + 1 ELSE 0
         /\ \A i \in 1 .. Len(SubSeq(s, m, n)) : SubSeq(s, m, n)[i] = s[m + i - 1]
  OBVIOUS

LEMMA MoreSymbols ==
  ASSUME NEW A, NEW B, A \subseteq B, NEW s \in Seq(A)
  PROVE  s \in Seq(B)
  OBVIOUS

LEMMA ItsSymbols ==
  ASSUME NEW A, NEW s \in Seq(A), NEW i \in 1 .. Len(s)
  PROVE  s[i] \in A
  OBVIOUS

LEMMA OneSymbol ==
  ASSUME NEW A, NEW x \in A
  PROVE  <<x>> \in Seq(A) /\ Len(<<x>>) = 1
  OBVIOUS

LEMMA EqualTexts ==
  ASSUME NEW A, NEW s \in Seq(A), NEW t \in Seq(A), Len(s) = Len(t),
         \A i \in 1 .. Len(s) : s[i] = t[i]
  PROVE  s = t
  OBVIOUS

\* A text of two texts, and where it holds a text that one of them holds.
LEMMA JoinIs ==
  ASSUME NEW A, NEW x \in Seq(A), NEW y \in Seq(A)
  PROVE  /\ x \o y \in Seq(A) /\ Len(x \o y) = Len(x) + Len(y)
         /\ \A i \in 1 .. Len(x) : (x \o y)[i] = x[i]
         /\ \A i \in 1 .. Len(y) : (x \o y)[Len(x) + i] = y[i]
  OBVIOUS

LEMMA JoinAround ==
  ASSUME NEW A, NEW x \in Seq(A), NEW c \in A, NEW y \in Seq(A)
  PROVE  /\ x \o <<c>> \o y \in Seq(A) /\ Len(x \o <<c>> \o y) = Len(x) + 1 + Len(y)
         /\ \A i \in 1 .. Len(x) : (x \o <<c>> \o y)[i] = x[i]
         /\ (x \o <<c>> \o y)[Len(x) + 1] = c
         /\ \A i \in 1 .. Len(y) : (x \o <<c>> \o y)[Len(x) + 1 + i] = y[i]
  OBVIOUS

\* s holds x after its first k symbols.
Holds(s, k, x) == k + Len(x) <= Len(s) /\ \A i \in 1 .. Len(x) : s[k + i] = x[i]

LEMMA HeldBefore ==
  ASSUME NEW A, NEW x \in Seq(A), NEW y \in Seq(A), NEW z \in Seq(A), NEW k \in Nat,
         Holds(x, k, z)
  PROVE  Holds(x \o y, k, z)
<1> DEFINE u == x \o y
<1>1. /\ Len(u) = Len(x) + Len(y) /\ Len(x) \in Nat /\ Len(y) \in Nat /\ Len(z) \in Nat
      /\ \A i \in 1 .. Len(x) : u[i] = x[i]
  BY JoinIs
<1> HIDE DEF u
<1>2. k + Len(z) <= Len(x) /\ \A i \in 1 .. Len(z) : x[k + i] = z[i]
  BY DEF Holds
<1>3. \A i \in 1 .. Len(z) : k + i \in 1 .. Len(x)
  BY <1>1, <1>2
<1>4. Holds(u, k, z)
  BY <1>1, <1>2, <1>3 DEF Holds
<1>5. QED
  BY <1>4 DEF u

LEMMA HeldLast ==
  ASSUME NEW A, NEW x \in Seq(A), NEW y \in Seq(A)
  PROVE  Holds(x \o y, Len(x), y)
  BY JoinIs DEF Holds

LEMMA PartHeld ==
  ASSUME NEW A, NEW s \in Seq(A), NEW x \in Seq(A), NEW k \in Nat, Holds(s, k, x)
  PROVE  SubSeq(s, k + 1, k + Len(x)) = x
<1> DEFINE u == SubSeq(s, k + 1, k + Len(x))
           n == k + Len(x)
<1>1. /\ Len(x) \in Nat /\ n \in 0 .. Len(s) /\ k + 1 \in Nat /\ k + 1 >= 1
      /\ \A i \in 1 .. Len(x) : s[k + i] = x[i]
  BY DEF Holds
<1>2. /\ u \in Seq(A) /\ Len(u) = IF k + 1 <= n THEN n - (k + 1) + 1 ELSE 0
      /\ \A i \in 1 .. Len(u) : u[i] = s[(k + 1) + i - 1]
  BY <1>1, PartIs
<1> HIDE DEF u
<1>3. Len(u) = Len(x)
  BY <1>1, <1>2
<1>4. \A i \in 1 .. Len(u) : u[i] = x[i]
  <2> SUFFICES ASSUME NEW i \in 1 .. Len(u) PROVE u[i] = x[i]
    OBVIOUS
  <2>1. (k + 1) + i - 1 = k + i /\ i \in 1 .. Len(x)
    BY <1>3
  <2>2. QED
    BY <1>1, <1>2, <2>1
<1>5. u = x
  BY <1>2, <1>3, <1>4, EqualTexts
<1>6. QED
  BY <1>5 DEF u

LEMMA PartOfPart ==
  ASSUME NEW A, NEW s \in Seq(A), NEW m \in Nat, m >= 1, NEW n \in 0 .. Len(s), m - 1 <= n,
         NEW i \in Nat, i >= 1, NEW j \in 0 .. n - m + 1
  PROVE  SubSeq(SubSeq(s, m, n), i, j) = SubSeq(s, m + i - 1, m + j - 1)
<1> DEFINE t == SubSeq(s, m, n)
           u == SubSeq(t, i, j)
           v == SubSeq(s, m + i - 1, m + j - 1)
<1>1. t \in Seq(A) /\ Len(t) = n - m + 1 /\ \A k \in 1 .. Len(t) : t[k] = s[m + k - 1]
  BY PartIs
<1>2. /\ u \in Seq(A) /\ Len(u) = IF i <= j THEN j - i + 1 ELSE 0
      /\ \A k \in 1 .. Len(u) : u[k] = t[i + k - 1]
  <2>1. j \in 0 .. Len(t)
    BY <1>1
  <2> HIDE DEF t
  <2>2. QED
    BY <1>1, <2>1, PartIs
<1>3. /\ v \in Seq(A) /\ Len(v) = IF i <= j THEN j - i + 1 ELSE 0
      /\ \A k \in 1 .. Len(v) : v[k] = s[m + i - 1 + k - 1]
  <2> DEFINE x == m + i - 1
             y == m + j - 1
  <2>1. /\ x \in Nat /\ x >= 1 /\ y \in 0 .. Len(s)
        /\ x <= y <=> i <= j
        /\ y - x + 1 = j - i + 1
    OBVIOUS
  <2> HIDE DEF x, y
  <2>2. /\ SubSeq(s, x, y) \in Seq(A)
        /\ Len(SubSeq(s, x, y)) = IF x <= y THEN y - x + 1 ELSE 0
        /\ \A k \in 1 .. Len(SubSeq(s, x, y)) : SubSeq(s, x, y)[k] = s[x + k - 1]
    BY <2>1, PartIs
  <2>3. QED
    BY <2>1, <2>2, Zenon DEF x, y
<1> HIDE DEF t, u, v
<1>4. ASSUME NEW k \in 1 .. Len(u) PROVE u[k] = v[k]
  <2>1. k \in 1 .. Len(v) /\ i + k - 1 \in 1 .. Len(t)
    BY <1>1, <1>2, <1>3
  <2>2. u[k] = t[i + k - 1] /\ v[k] = s[m + i - 1 + k - 1]
    BY <1>2, <1>3, <2>1
  <2>3. t[i + k - 1] = s[m + (i + k - 1) - 1]
    BY <1>1, <2>1
  <2>4. m + (i + k - 1) - 1 = m + i - 1 + k - 1
    BY <2>1
  <2>5. QED
    BY <2>2, <2>3, <2>4
<1>5. u = v
  BY <1>2, <1>3, <1>4, EqualTexts
<1>6. QED
  BY <1>5 DEF t, u, v

-----------------------------------------------------------------------------
(* What FlattenSeq makes of a sequence of pieces.                           *)

\* The concatenations of the first pieces: they exist, by the least number of
\* pieces for which they would not.
Joins(f, q, n) == f = [i \in 1 .. n |-> IF i = 1 THEN q[i] ELSE f[i - 1] \o q[i]]

LEMMA OneMoreJoin ==
  ASSUME NEW q, NEW m \in Nat, m > 1, NEW f, Joins(f, q, m - 1)
  PROVE  \E g : Joins(g, q, m)
<1> DEFINE g == [i \in 1 .. m |-> IF i = m THEN f[m - 1] \o q[m] ELSE f[i]]
<1>1. \A i \in 1 .. m : g[i] = IF i = 1 THEN q[i] ELSE g[i - 1] \o q[i]
  <2> SUFFICES ASSUME NEW i \in 1 .. m PROVE g[i] = IF i = 1 THEN q[i] ELSE g[i - 1] \o q[i]
    OBVIOUS
  <2>1. CASE i = m
    <3>1. i # 1 /\ m - 1 \in 1 .. m /\ m - 1 # m
      BY <2>1
    <3>2. g[m - 1] = f[m - 1] /\ g[m] = f[m - 1] \o q[m]
      <4>1. \A k \in 1 .. m : g[k] = IF k = m THEN f[m - 1] \o q[m] ELSE f[k]
        BY Zenon
      <4>2. m \in 1 .. m
        OBVIOUS
      <4> HIDE DEF g
      <4>3. QED
        BY <3>1, <4>1, <4>2
    <3>3. QED
      BY <2>1, <3>1, <3>2
  <2>2. CASE i # m
    <3>1. i \in 1 .. m - 1 /\ g[i] = f[i]
      BY <2>2
    <3>2. f[i] = IF i = 1 THEN q[i] ELSE f[i - 1] \o q[i]
      BY <3>1, Zenon DEF Joins
    <3>3. i # 1 => g[i - 1] = f[i - 1]
      BY <2>2
    <3>4. QED
      BY <3>1, <3>2, <3>3
  <2>3. QED
    BY <2>1, <2>2
<1>2. g = [i \in 1 .. m |-> IF i = 1 THEN q[i] ELSE g[i - 1] \o q[i]]
  <2>1. \A i \in 1 .. m : g[i] = [j \in 1 .. m |-> IF j = 1 THEN q[j] ELSE g[j - 1] \o q[j]][i]
    BY <1>1
  <2> DEFINE h == [j \in 1 .. m |-> IF j = 1 THEN q[j] ELSE g[j - 1] \o q[j]]
  <2>2. g = [i \in 1 .. m |-> g[i]] /\ h = [i \in 1 .. m |-> h[i]]
    OBVIOUS
  <2> HIDE DEF g
  <2>3. QED
    BY <2>1, <2>2, Zenon
<1>3. Joins(g, q, m)
  BY <1>2 DEF Joins
<1>4. QED
  BY <1>3

LEMMA JoinsExist ==
  ASSUME NEW A, NEW q \in Seq(Seq(A)), q # <<>>
  PROVE  \E f : Joins(f, q, Len(q))
<1> DEFINE S == {n \in Nat : \E f : Joins(f, q, n)}
<1>1. Joins([i \in 1 .. 1 |-> q[1]], q, 1)
  BY DEF Joins
<1>2. 1 \in S
  BY <1>1
<1>3. ASSUME NEW n \in 1 .. Len(q) - 1, n \in S PROVE n + 1 \in S
  <2>1. n + 1 \in Nat /\ n + 1 > 1 /\ (n + 1) - 1 = n
    OBVIOUS
  <2>2. \E f : Joins(f, q, (n + 1) - 1)
    BY <1>3, <2>1
  <2>3. \E f : Joins(f, q, n + 1)
    BY <2>1, <2>2, OneMoreJoin
  <2>4. QED
    BY <2>1, <2>3
<1> HIDE DEF S
<1> DEFINE N == Len(q)
<1>4. N \in Nat /\ N >= 1
  OBVIOUS
<1>5. \A n \in 1 .. N - 1 : n \in S => n + 1 \in S
  BY <1>3
<1> HIDE DEF N
<1>6. \A n \in 1 .. N : n \in S
  BY <1>2, <1>4, <1>5, AllPositions
<1>7. QED
  BY <1>4, <1>6 DEF S, N

LEMMA FlattenJoins ==
  ASSUME NEW A, NEW q \in Seq(Seq(A)), q # <<>>
  PROVE  \E f : Joins(f, q, Len(q)) /\ FlattenSeq(q) = f[Len(q)]
<1>1. Len(q) # 0
  OBVIOUS
<1> DEFINE f == CHOOSE g : g = [i \in 1 .. Len(q) |-> IF i = 1 THEN q[i] ELSE g[i - 1] \o q[i]]
<1>2. FlattenSeq(q) = f[Len(q)]
  BY <1>1, Zenon DEF FlattenSeq
<1>3. \E g : Joins(g, q, Len(q))
  BY JoinsExist
<1>4. Joins(f, q, Len(q))
  BY <1>3, Zenon DEF Joins
<1>5. QED
  BY <1>2, <1>4

\* Of the first n pieces, t is made of these, the one of index i after offset o[i].
MadeOf(t, q, o, n) ==
  /\ Len(t) = o[n] + Len(q[n])
  /\ \A i \in 1 .. n : \A j \in 1 .. Len(q[i]) :
       o[i] + j \in 1 .. Len(t) /\ t[o[i] + j] = q[i][j]
  /\ \A k \in 1 .. Len(t) : \E i \in 1 .. n : \E j \in 1 .. Len(q[i]) : k = o[i] + j

LEMMA OneMorePiece ==
  ASSUME NEW A, NEW q \in Seq(Seq(A)), NEW n \in Nat, n >= 1, n + 1 <= Len(q),
         NEW o, \A i \in 1 .. n + 1 : o[i] \in Nat,
         NEW t \in Seq(A), MadeOf(t, q, o, n), o[n + 1] = Len(t)
  PROVE  t \o q[n + 1] \in Seq(A) /\ MadeOf(t \o q[n + 1], q, o, n + 1)
<1> DEFINE p == q[n + 1]
           u == t \o p
<1>1. p \in Seq(A)
  OBVIOUS
<1> HIDE DEF p
<1>2. /\ u \in Seq(A) /\ Len(u) = Len(t) + Len(p)
      /\ \A k \in 1 .. Len(t) : u[k] = t[k]
      /\ \A j \in 1 .. Len(p) : u[Len(t) + j] = p[j]
  BY <1>1
<1> HIDE DEF u
<1>3. ASSUME NEW i \in 1 .. n + 1, NEW j \in 1 .. Len(q[i])
      PROVE  o[i] + j \in 1 .. Len(u) /\ u[o[i] + j] = q[i][j]
  <2>1. CASE i = n + 1
    <3>1. q[i] = p /\ o[i] = Len(t) /\ j \in 1 .. Len(p)
      BY <2>1 DEF p
    <3>2. Len(t) + j \in 1 .. Len(u)
      <4>1. Len(t) \in Nat /\ Len(p) \in Nat
        BY <1>1
      <4>2. Len(u) = Len(t) + Len(p)
        BY <1>2, Zenon
      <4>3. QED
        BY <3>1, <4>1, <4>2
    <3>3. u[Len(t) + j] = p[j]
      BY <1>2, <3>1, Zenon
    <3>4. QED
      BY <3>1, <3>2, <3>3, Zenon
  <2>2. CASE i # n + 1
    <3>1. i \in 1 .. n
      BY <2>2
    <3>2. o[i] + j \in 1 .. Len(t) /\ t[o[i] + j] = q[i][j]
      BY <3>1 DEF MadeOf
    <3>3. o[i] + j \in 1 .. Len(u) /\ u[o[i] + j] = t[o[i] + j]
      <4> DEFINE k == o[i] + j
      <4>1. k \in 1 .. Len(t)
        BY <3>2
      <4> HIDE DEF k
      <4>2. k \in 1 .. Len(u) /\ u[k] = t[k]
        BY <1>1, <1>2, <4>1
      <4>3. QED
        BY <4>2 DEF k
    <3>4. QED
      BY <3>2, <3>3
  <2>3. QED
    BY <2>1, <2>2
<1>4. ASSUME NEW k \in 1 .. Len(u)
      PROVE  \E i \in 1 .. n + 1 : \E j \in 1 .. Len(q[i]) : k = o[i] + j
  <2>1. CASE k \in 1 .. Len(t)
    <3>1. PICK i \in 1 .. n : \E j \in 1 .. Len(q[i]) : k = o[i] + j
      BY <2>1 DEF MadeOf
    <3>2. i \in 1 .. n + 1
      OBVIOUS
    <3>3. QED
      BY <3>1, <3>2
  <2>2. CASE k \notin 1 .. Len(t)
    <3>1. k - Len(t) \in 1 .. Len(p) /\ k = o[n + 1] + (k - Len(t)) /\ n + 1 \in 1 .. n + 1
      BY <1>1, <1>2, <2>2
    <3>2. QED
      BY <3>1 DEF p
  <2>3. QED
    BY <2>1, <2>2
<1>5. Len(u) = o[n + 1] + Len(q[n + 1])
  BY <1>2 DEF p
<1>6. MadeOf(u, q, o, n + 1)
  BY <1>3, <1>4, <1>5 DEF MadeOf
<1>7. QED
  BY <1>2, <1>6 DEF u, p

\* Where each of the pieces is in the whole.
Offsets(o, q) ==
  /\ o \in [1 .. Len(q) + 1 -> Nat]
  /\ o[1] = 0
  /\ \A i \in 1 .. Len(q) : o[i + 1] = o[i] + Len(q[i])

LEMMA Flattened ==
  ASSUME NEW A, NEW q \in Seq(Seq(A)), q # <<>>
  PROVE  /\ FlattenSeq(q) \in Seq(A)
         /\ \E o : Offsets(o, q) /\ MadeOf(FlattenSeq(q), q, o, Len(q))
<1> DEFINE N == Len(q)
<1>1. PICK f : Joins(f, q, N) /\ FlattenSeq(q) = f[N]
  BY FlattenJoins
<1>2. N \in Nat /\ N >= 1 /\ \A i \in 1 .. N : q[i] \in Seq(A) /\ Len(q[i]) \in Nat
  OBVIOUS
<1>3. \A i \in 1 .. N : f[i] = IF i = 1 THEN q[i] ELSE f[i - 1] \o q[i]
  BY <1>1, Zenon DEF Joins
<1> DEFINE o == [i \in 1 .. N + 1 |-> IF i = 1 THEN 0 ELSE Len(f[i - 1])]
           Good(n) == /\ f[n] \in Seq(A)
                      /\ MadeOf(f[n], q, o, n)
<1> HIDE DEF N
<1>4. o[1] = 0 /\ \A i \in 1 .. N : o[i + 1] = Len(f[i])
  BY <1>2
<1>5. DOMAIN o = 1 .. N + 1 /\ o = [i \in 1 .. N + 1 |-> o[i]]
  OBVIOUS
<1> HIDE DEF o
<1>6. Good(1)
  <2>1. f[1] = q[1] /\ 1 \in 1 .. N
    BY <1>2, <1>3
  <2>2. MadeOf(q[1], q, o, 1)
    BY <1>2, <1>4 DEF MadeOf
  <2>3. QED
    BY <1>2, <2>1, <2>2
<1>7. ASSUME NEW n \in Nat, n >= 1, n + 1 <= N, \A k \in 1 .. n : Good(k)
      PROVE  Good(n + 1)
  <2>1. \A i \in 1 .. n + 1 : o[i] \in Nat
    <3> SUFFICES ASSUME NEW i \in 1 .. n + 1 PROVE o[i] \in Nat
      OBVIOUS
    <3>1. CASE i = 1
      BY <1>4, <3>1
    <3>2. CASE i # 1
      <4>1. i - 1 \in 1 .. n /\ i - 1 \in 1 .. N /\ (i - 1) + 1 = i
        BY <1>2, <1>7, <3>2
      <4>2. o[i] = Len(f[i - 1]) /\ f[i - 1] \in Seq(A)
        BY <1>4, <1>7, <4>1
      <4>3. QED
        BY <4>2
    <3>3. QED
      BY <3>1, <3>2
  <2>2. n \in 1 .. n /\ n \in 1 .. N /\ n + 1 \in 1 .. N /\ (n + 1) - 1 = n
    BY <1>2, <1>7
  <2>3. f[n] \in Seq(A) /\ MadeOf(f[n], q, o, n) /\ o[n + 1] = Len(f[n])
    BY <1>4, <1>7, <2>2
  <2>4. f[n + 1] = f[n] \o q[n + 1]
    <3>1. f[n + 1] = IF n + 1 = 1 THEN q[n + 1] ELSE f[(n + 1) - 1] \o q[n + 1]
      BY <1>3, <2>2, Zenon
    <3>2. n + 1 # 1
      BY <1>7
    <3>3. QED
      BY <2>2, <3>1, <3>2
  <2>5. f[n] \o q[n + 1] \in Seq(A) /\ MadeOf(f[n] \o q[n + 1], q, o, n + 1)
    BY <1>7, <2>1, <2>3, OneMorePiece DEF N
  <2>6. QED
    BY <2>4, <2>5
<1> HIDE DEF Good
<1>8. \A n \in 1 .. N : Good(n)
  <2> DEFINE S == {n \in 1 .. N : \A k \in 1 .. n : Good(k)}
  <2>1. 1 \in S
    BY <1>2, <1>6
  <2>2. ASSUME NEW n \in 1 .. N - 1, n \in S PROVE n + 1 \in S
    <3>1. n \in Nat /\ n >= 1 /\ n + 1 <= N /\ n + 1 \in 1 .. N /\ \A k \in 1 .. n : Good(k)
      BY <1>2, <2>2
    <3>2. Good(n + 1)
      BY <1>7, <3>1
    <3>3. \A k \in 1 .. n + 1 : k \in 1 .. n \/ k = n + 1
      BY <3>1
    <3>4. QED
      BY <3>1, <3>2, <3>3
  <2> HIDE DEF S
  <2>3. \A n \in 1 .. N : n \in S
    BY <1>2, <2>1, <2>2, AllPositions
  <2>4. \A n \in 1 .. N : n \in 1 .. n
    BY <1>2
  <2>5. QED
    BY <2>3, <2>4 DEF S
<1>9. FlattenSeq(q) \in Seq(A) /\ MadeOf(FlattenSeq(q), q, o, N)
  BY <1>1, <1>2, <1>8 DEF Good
<1>10. Offsets(o, q)
  <2>1. \A i \in 1 .. N : o[i + 1] \in Nat
    BY <1>4, <1>8 DEF Good
  <2>2. \A i \in 1 .. N + 1 : o[i] \in Nat
    <3> SUFFICES ASSUME NEW i \in 1 .. N + 1 PROVE o[i] \in Nat
      OBVIOUS
    <3>1. CASE i = 1
      BY <1>4, <3>1
    <3>2. CASE i # 1
      <4>1. i - 1 \in 1 .. N /\ (i - 1) + 1 = i
        BY <1>2, <3>2
      <4>2. QED
        BY <2>1, <4>1
    <3>3. QED
      BY <3>1, <3>2
  <2>3. o \in [1 .. N + 1 -> Nat]
    BY <1>5, <2>2
  <2>4. \A i \in 1 .. N : o[i + 1] = o[i] + Len(q[i])
    BY <1>4, <1>8 DEF Good, MadeOf
  <2>5. QED
    BY <1>4, <2>3, <2>4 DEF Offsets, N
<1>11. QED
  BY <1>9, <1>10 DEF N

LEMMA FlattenNothing == FlattenSeq(<<>>) = <<>>
  BY DEF FlattenSeq

\* Pieces of one symbol each.
LEMMA FlattenSymbols ==
  ASSUME NEW A, NEW s \in Seq(A)
  PROVE  FlattenSeq([i \in 1 .. Len(s) |-> <<s[i]>>]) = s
<1> DEFINE q == [i \in 1 .. Len(s) |-> <<s[i]>>]
           N == Len(s)
<1>1. CASE s = <<>>
  <2>1. q = <<>>
    BY <1>1
  <2>2. QED
    BY <1>1, <2>1, FlattenNothing
<1>2. CASE s # <<>>
  <2>1. /\ q \in Seq(Seq(A)) /\ Len(q) = N /\ N \in Nat /\ N >= 1
        /\ \A i \in 1 .. N : Len(q[i]) = 1 /\ q[i][1] = s[i]
    BY <1>2
  <2> HIDE DEF q, N
  <2>2. q # <<>>
    BY <2>1
  <2>3. PICK o : Offsets(o, q) /\ MadeOf(FlattenSeq(q), q, o, N)
    BY <2>1, <2>2, Flattened
  <2>4. FlattenSeq(q) \in Seq(A)
    BY <2>1, <2>2, Flattened
  <2> DEFINE S == {n \in 1 .. N : o[n] = n - 1}
  <2>5. \A n \in 1 .. N : n \in S
    <3>1. 1 \in S
      BY <2>1, <2>3 DEF Offsets
    <3>2. ASSUME NEW n \in 1 .. N - 1, n \in S PROVE n + 1 \in S
      <4>1. n \in 1 .. N /\ n + 1 \in 1 .. N /\ o[n] = n - 1
        BY <2>1, <3>2
      <4>2. o[n + 1] = o[n] + Len(q[n]) /\ Len(q[n]) = 1
        BY <2>1, <2>3, <4>1 DEF Offsets
      <4>3. o[n + 1] = (n + 1) - 1
        BY <4>1, <4>2
      <4>4. QED
        BY <4>1, <4>3
    <3> HIDE DEF S
    <3>3. QED
      BY <2>1, <3>1, <3>2, AllPositions
  <2>6. Len(FlattenSeq(q)) = N
    <3>1. N \in 1 .. N
      BY <2>1
    <3>2. o[N] = N - 1 /\ Len(q[N]) = 1
      BY <2>1, <2>5, <3>1
    <3>3. Len(FlattenSeq(q)) = o[N] + Len(q[N])
      BY <2>3 DEF MadeOf
    <3>4. QED
      BY <2>1, <3>2, <3>3
  <2>7. ASSUME NEW i \in 1 .. N PROVE FlattenSeq(q)[i] = s[i]
    <3>1. o[i] = i - 1 /\ 1 \in 1 .. Len(q[i])
      BY <2>1, <2>5
    <3>2. FlattenSeq(q)[o[i] + 1] = q[i][1]
      BY <2>3, <3>1 DEF MadeOf
    <3>3. o[i] + 1 = i
      BY <2>1, <3>1
    <3>4. QED
      BY <2>1, <3>2, <3>3
  <2>8. FlattenSeq(q) = s
    BY <2>4, <2>6, <2>7, EqualTexts DEF N
  <2>9. QED
    BY <2>8 DEF q
<1>3. QED
  BY <1>1, <1>2

\* Pieces of four symbols each.
MadeOfFours(t, q) ==
  /\ Len(t) = 4 * Len(q)
  /\ \A i \in 1 .. Len(q), j \in 1 .. 4 : t[4 * (i - 1) + j] = q[i][j]

LEMMA FlattenFours ==
  ASSUME NEW A, NEW q \in Seq(Seq(A)), \A i \in 1 .. Len(q) : Len(q[i]) = 4
  PROVE  FlattenSeq(q) \in Seq(A) /\ MadeOfFours(FlattenSeq(q), q)
<1> DEFINE N == Len(q)
<1>1. CASE q = <<>>
  <2>1. FlattenSeq(q) = <<>> /\ Len(q) = 0
    BY <1>1, FlattenNothing
  <2>2. QED
    BY <2>1 DEF MadeOfFours
<1>2. CASE q # <<>>
  <2>1. N \in Nat /\ N >= 1 /\ \A i \in 1 .. N : Len(q[i]) = 4
    BY <1>2
  <2>2. FlattenSeq(q) \in Seq(A)
    BY <1>2, Flattened
  <2>3. PICK o : Offsets(o, q) /\ MadeOf(FlattenSeq(q), q, o, N)
    BY <1>2, Flattened
  <2>4. o[1] = 0 /\ \A i \in 1 .. N : o[i + 1] = o[i] + Len(q[i])
    BY <2>3 DEF Offsets
  <2> HIDE DEF N
  <2> DEFINE S == {n \in 1 .. N : o[n] = 4 * (n - 1)}
  <2>5. \A n \in 1 .. N : n \in S
    <3>1. 1 \in S
      BY <2>1, <2>4
    <3>2. ASSUME NEW n \in 1 .. N - 1, n \in S PROVE n + 1 \in S
      <4>1. n \in 1 .. N /\ n + 1 \in 1 .. N /\ o[n] = 4 * (n - 1)
        BY <2>1, <3>2
      <4>2. o[n + 1] = o[n] + 4
        BY <2>1, <2>4, <4>1
      <4>3. o[n + 1] = 4 * ((n + 1) - 1)
        BY <4>1, <4>2
      <4>4. QED
        BY <4>1, <4>3
    <3> HIDE DEF S
    <3>3. QED
      BY <2>1, <3>1, <3>2, AllPositions
  <2>6. Len(FlattenSeq(q)) = 4 * N
    <3>1. N \in 1 .. N
      BY <2>1
    <3>2. o[N] = 4 * (N - 1) /\ Len(q[N]) = 4
      BY <2>1, <2>5, <3>1
    <3>3. Len(FlattenSeq(q)) = o[N] + Len(q[N])
      BY <2>3 DEF MadeOf
    <3>4. QED
      BY <2>1, <3>2, <3>3
  <2>7. ASSUME NEW i \in 1 .. N, NEW j \in 1 .. 4
        PROVE  FlattenSeq(q)[4 * (i - 1) + j] = q[i][j]
    <3>1. o[i] = 4 * (i - 1) /\ j \in 1 .. Len(q[i])
      BY <2>1, <2>5
    <3>2. FlattenSeq(q)[o[i] + j] = q[i][j]
      BY <2>3, <3>1 DEF MadeOf
    <3>3. QED
      BY <3>1, <3>2
  <2>8. QED
    BY <2>2, <2>6, <2>7 DEF N, MadeOfFours
<1>3. QED
  BY <1>1, <1>2

LEMMA FlattenTexts ==
  ASSUME NEW A, NEW q \in Seq(Seq(A)), q # <<>>
  PROVE  \E f : /\ FlattenSeq(q) = f[Len(q)]
                /\ f[1] = q[1]
                /\ \A i \in 1 .. Len(q) - 1 : f[i + 1] = f[i] \o q[i + 1]
                /\ \A i \in 1 .. Len(q) : f[i] \in Seq(A)
<1> DEFINE N == Len(q)
<1>1. PICK f : Joins(f, q, N) /\ FlattenSeq(q) = f[N]
  BY FlattenJoins
<1>2. N \in Nat /\ N >= 1 /\ \A i \in 1 .. N : q[i] \in Seq(A)
  OBVIOUS
<1> HIDE DEF N
<1>3. \A i \in 1 .. N : f[i] = IF i = 1 THEN q[i] ELSE f[i - 1] \o q[i]
  BY <1>1, Zenon DEF Joins
<1>4. f[1] = q[1]
  BY <1>2, <1>3
<1>5. ASSUME NEW i \in 1 .. N - 1 PROVE f[i + 1] = f[i] \o q[i + 1]
  <2>1. i + 1 \in 1 .. N /\ i + 1 # 1 /\ (i + 1) - 1 = i
    BY <1>2
  <2>2. f[i + 1] = IF i + 1 = 1 THEN q[i + 1] ELSE f[(i + 1) - 1] \o q[i + 1]
    BY <1>3, <2>1, Zenon
  <2>3. QED
    BY <2>1, <2>2
<1> DEFINE S == {n \in 1 .. N : f[n] \in Seq(A)}
<1>6. 1 \in S
  BY <1>2, <1>4
<1>7. ASSUME NEW n \in 1 .. N - 1, n \in S PROVE n + 1 \in S
  <2>1. n + 1 \in 1 .. N /\ f[n] \in Seq(A)
    BY <1>2, <1>7
  <2>2. q[n + 1] \in Seq(A)
    BY <1>2, <2>1
  <2>3. f[n + 1] = f[n] \o q[n + 1]
    BY <1>5
  <2>4. f[n + 1] \in Seq(A)
    BY <2>1, <2>2, <2>3
  <2>5. QED
    BY <2>1, <2>4
<1>8. \A n \in 1 .. N : f[n] \in Seq(A)
  <2> HIDE DEF S
  <2>1. \A n \in 1 .. N : n \in S
    BY <1>2, <1>6, <1>7, AllPositions
  <2>2. QED
    BY <2>1 DEF S
<1>9. QED
  BY <1>1, <1>4, <1>5, <1>8 DEF N

\* The first piece and the others.
LEMMA FlattenFirst ==
  ASSUME NEW A, NEW q \in Seq(Seq(A)), q # <<>>
  PROVE  FlattenSeq(q) = q[1] \o FlattenSeq(Tail(q))
<1> DEFINE r == Tail(q)
           N == Len(q)
<1>1. PICK f : /\ FlattenSeq(q) = f[N]
               /\ f[1] = q[1]
               /\ \A i \in 1 .. N - 1 : f[i + 1] = f[i] \o q[i + 1]
               /\ \A i \in 1 .. N : f[i] \in Seq(A)
  BY FlattenTexts, Zenon
<1>2. /\ N \in Nat /\ N >= 1 /\ \A i \in 1 .. N : q[i] \in Seq(A)
      /\ r \in Seq(Seq(A)) /\ Len(r) = N - 1 /\ \A i \in 1 .. N - 1 : r[i] = q[i + 1]
  OBVIOUS
<1> HIDE DEF r, N
<1>3. CASE N = 1
  <2>1. r = <<>>
    BY <1>2, <1>3
  <2>2. q[1] \o <<>> = q[1]
    BY <1>2
  <2>3. QED
    BY <1>1, <1>3, <2>1, <2>2, FlattenNothing DEF r
<1>4. CASE N > 1
  <2> DEFINE M == N - 1
  <2>1. r # <<>> /\ Len(r) = M
    BY <1>2, <1>4
  <2>2. PICK g : /\ FlattenSeq(r) = g[M]
                 /\ g[1] = r[1]
                 /\ \A i \in 1 .. M - 1 : g[i + 1] = g[i] \o r[i + 1]
                 /\ \A i \in 1 .. M : g[i] \in Seq(A)
    <3> HIDE DEF M
    <3>1. \E g : /\ FlattenSeq(r) = g[Len(r)]
                 /\ g[1] = r[1]
                 /\ \A i \in 1 .. Len(r) - 1 : g[i + 1] = g[i] \o r[i + 1]
                 /\ \A i \in 1 .. Len(r) : g[i] \in Seq(A)
      BY <1>2, <2>1, FlattenTexts
    <3>2. QED
      BY <2>1, <3>1
  <2> DEFINE S == {n \in 1 .. M : f[n + 1] = q[1] \o g[n]}
  <2>3. M \in Nat /\ M >= 1 /\ M + 1 = N
    BY <1>2, <1>4
  <2>4. 1 \in S
    <3>0. 1 \in 1 .. N - 1
      BY <1>2, <1>4
    <3>1. f[1 + 1] = f[1] \o q[1 + 1]
      BY <1>1, <3>0, Zenon
    <3>2. r[1] = q[1 + 1]
      BY <1>2, <3>0
    <3>3. f[1 + 1] = q[1] \o g[1]
      BY <1>1, <2>2, <3>1, <3>2
    <3>4. 1 \in 1 .. M
      BY <2>3
    <3>5. QED
      BY <3>3, <3>4, Zenon
  <2>5. ASSUME NEW n \in 1 .. M - 1, n \in S PROVE n + 1 \in S
    <3>1. n + 1 \in 1 .. N - 1 /\ n \in 1 .. M - 1 /\ n \in 1 .. M /\ n + 1 \in 1 .. M
      BY <2>3
    <3>2. f[(n + 1) + 1] = f[n + 1] \o q[(n + 1) + 1]
      BY <1>1, <3>1
    <3>3. r[n + 1] = q[(n + 1) + 1] /\ g[n + 1] = g[n] \o r[n + 1]
      BY <1>2, <2>2, <3>1
    <3>4. q[1] \in Seq(A) /\ g[n] \in Seq(A) /\ r[n + 1] \in Seq(A)
      <4>1. q[1] \in Seq(A)
        BY <1>2
      <4>2. g[n] \in Seq(A)
        BY <2>2, <3>1, Zenon
      <4>3. n + 1 \in 1 .. Len(r)
        BY <2>1, <3>1
      <4>4. QED
        BY <1>2, <4>1, <4>2, <4>3
    <3>5. f[(n + 1) + 1] = (q[1] \o g[n]) \o r[n + 1]
      BY <2>5, <3>2, <3>3
    <3>6. (q[1] \o g[n]) \o r[n + 1] = q[1] \o (g[n] \o r[n + 1])
      <4> DEFINE a == q[1]  b == g[n]  c == r[n + 1]
      <4>1. a \in Seq(A) /\ b \in Seq(A) /\ c \in Seq(A)
        BY <3>4
      <4> HIDE DEF a, b, c
      <4>2. (a \o b) \o c = a \o (b \o c)
        BY <4>1, SMTT(30)
      <4>3. QED
        BY <4>2 DEF a, b, c
    <3>7. QED
      BY <3>1, <3>3, <3>5, <3>6
  <2>6. \A n \in 1 .. M : n \in S
    <3> HIDE DEF S, M
    <3>1. QED
      BY <2>3, <2>4, <2>5, AllPositions
  <2>7. M \in 1 .. M
    BY <2>3
  <2>8. f[M + 1] = q[1] \o g[M]
    BY <2>6, <2>7
  <2>9. QED
    BY <1>1, <2>2, <2>3, <2>8 DEF r
<1>5. QED
  BY <1>2, <1>3, <1>4

\* Where a piece becomes one that two empty ones may follow, the whole stays as
\* it is.
LEMMA Regrouped ==
  ASSUME NEW A, NEW a \in Seq(Seq(A)), a # <<>>, NEW b \in Seq(Seq(A)),
         NEW o, o[1] = 0, o[Len(a) + 1] = Len(b),
         \A i \in 1 .. Len(a) :
           /\ o[i] \in Nat /\ o[i + 1] \in Nat /\ o[i + 1] <= Len(b)
           /\ b[o[i] + 1] = a[i]
           /\ \/ o[i + 1] = o[i] + 1
              \/ o[i + 1] = o[i] + 3 /\ b[o[i] + 2] = <<>> /\ b[o[i] + 3] = <<>>
  PROVE  FlattenSeq(a) = FlattenSeq(b)
<1> DEFINE N == Len(a)
           M == Len(b)
<1>1. PICK f : /\ FlattenSeq(a) = f[N]
               /\ f[1] = a[1]
               /\ \A i \in 1 .. N - 1 : f[i + 1] = f[i] \o a[i + 1]
               /\ \A i \in 1 .. N : f[i] \in Seq(A)
  BY FlattenTexts, Zenon
<1>2. N \in Nat /\ N >= 1 /\ M \in Nat
  OBVIOUS
<1>3. b # <<>>
  <2>1. 1 \in 1 .. N
    BY <1>2
  <2>2. o[1] \in Nat /\ o[1 + 1] <= M /\ (o[1 + 1] = o[1] + 1 \/ o[1 + 1] = o[1] + 3)
    BY <2>1
  <2>3. QED
    BY <1>2, <2>2
<1>4. PICK g : /\ FlattenSeq(b) = g[M]
               /\ g[1] = b[1]
               /\ \A i \in 1 .. M - 1 : g[i + 1] = g[i] \o b[i + 1]
               /\ \A i \in 1 .. M : g[i] \in Seq(A)
  BY <1>3, FlattenTexts, Zenon
<1>5. \A i \in 1 .. N :
        /\ o[i] \in Nat /\ o[i + 1] \in Nat /\ o[i + 1] <= M
        /\ b[o[i] + 1] = a[i]
        /\ \/ o[i + 1] = o[i] + 1
           \/ o[i + 1] = o[i] + 3 /\ b[o[i] + 2] = <<>> /\ b[o[i] + 3] = <<>>
  OBVIOUS
<1>6. o[1] = 0 /\ o[N + 1] = M
  OBVIOUS
<1> HIDE DEF N, M
\* Two empty pieces add nothing.
<1>7. ASSUME NEW i \in 1 .. N, g[o[i] + 1] = f[i] PROVE g[o[i + 1]] = f[i]
  <2>1. CASE o[i + 1] = o[i] + 1
    BY <1>7, <2>1
  <2>2. CASE o[i + 1] = o[i] + 3 /\ b[o[i] + 2] = <<>> /\ b[o[i] + 3] = <<>>
    <3> DEFINE k == o[i] + 1
    <3>0. o[i] \in Nat /\ o[i + 1] \in Nat /\ o[i + 1] <= M
      BY <1>5, Zenon
    <3>1. k \in 1 .. M - 1 /\ k + 1 \in 1 .. M - 1 /\ k + 1 = o[i] + 2 /\ (k + 1) + 1 = o[i] + 3
      <4> DEFINE x == o[i]
                 y == o[i + 1]
      <4>1. x \in Nat /\ y \in Nat /\ y <= M /\ y = x + 3
        BY <2>2, <3>0
      <4> HIDE DEF x, y
      <4>2. x + 1 \in 1 .. M - 1 /\ (x + 1) + 1 \in 1 .. M - 1
        BY <1>2, <4>1
      <4>3. (x + 1) + 1 = x + 2 /\ ((x + 1) + 1) + 1 = x + 3
        BY <4>1
      <4>4. QED
        BY <4>2, <4>3 DEF x
    <3> HIDE DEF k
    <3>2. g[k + 1] = g[k] \o b[k + 1] /\ g[(k + 1) + 1] = g[k + 1] \o b[(k + 1) + 1]
      BY <1>4, <3>1
    <3>3. \A t \in Seq(A) : t \o <<>> = t
      OBVIOUS
    <3>4. g[k] \in Seq(A) /\ g[k] = f[i]
      BY <1>1, <1>7 DEF k
    <3>5. g[k + 1] = f[i]
      BY <2>2, <3>1, <3>2, <3>3, <3>4
    <3>6. g[(k + 1) + 1] = f[i]
      BY <2>2, <3>1, <3>2, <3>3, <3>4, <3>5
    <3>7. QED
      BY <2>2, <3>1, <3>6
  <2>3. QED
    BY <1>5, <2>1, <2>2
<1> DEFINE S == {n \in 1 .. N : g[o[n + 1]] = f[n]}
<1>8. 1 \in S
  <2>1. 1 \in 1 .. N
    BY <1>2
  <2>2. b[o[1] + 1] = a[1]
    BY <1>5, <2>1, Zenon
  <2>3. g[o[1] + 1] = f[1]
    BY <1>1, <1>4, <1>6, <2>2
  <2>4. g[o[1 + 1]] = f[1]
    BY <1>7, <2>1, <2>3, Zenon
  <2>5. QED
    BY <2>1, <2>4, Zenon
<1>9. ASSUME NEW n \in 1 .. N - 1, n \in S PROVE n + 1 \in S
  <2> DEFINE m == n + 1
  <2>1. m \in 1 .. N
    BY <1>2
  <2>2. g[o[m]] = f[n] /\ f[m] = f[n] \o a[m]
    BY <1>1, <1>9
  <2>3. n \in 1 .. N
    BY <1>2
  <2>4. o[m] \in Nat /\ o[m] >= 1
    <3>1. o[n] \in Nat /\ o[m] \in Nat /\ (o[m] = o[n] + 1 \/ o[m] = o[n] + 3)
      BY <1>5, <2>3, Zenon
    <3>2. QED
      BY <3>1
  <2> HIDE DEF m
  <2>5. o[m] \in 1 .. M - 1 /\ b[o[m] + 1] = a[m]
    <3>1. /\ o[m + 1] \in Nat /\ o[m + 1] <= M /\ b[o[m] + 1] = a[m]
          /\ o[m + 1] = o[m] + 1 \/ o[m + 1] = o[m] + 3
      BY <1>5, <2>1, Zenon
    <3> DEFINE x == o[m]
               y == o[m + 1]
    <3>2. x \in Nat /\ x >= 1 /\ y \in Nat /\ y <= M /\ (y = x + 1 \/ y = x + 3)
      BY <2>4, <3>1
    <3> HIDE DEF x, y
    <3>3. x \in 1 .. M - 1
      BY <1>2, <3>2
    <3>4. QED
      BY <3>1, <3>3 DEF x
  <2>6. g[o[m] + 1] = g[o[m]] \o b[o[m] + 1]
    BY <1>4, <2>5
  <2>7. g[o[m] + 1] = f[m]
    BY <2>2, <2>5, <2>6
  <2>8. g[o[m + 1]] = f[m]
    BY <1>7, <2>1, <2>7, Zenon
  <2>9. m \in S
    BY <2>1, <2>8, Zenon
  <2>10. QED
    BY <2>9 DEF m
<1>10. N \in S
  <2> HIDE DEF S
  <2>1. \A n \in 1 .. N : n \in S
    BY <1>2, <1>8, <1>9, AllPositions
  <2>2. QED
    BY <1>2, <2>1
<1>11. QED
  BY <1>1, <1>4, <1>6, <1>10

\* The texts of the first pieces of a text, one piece after the other.
LEMMA OnePieceMore ==
  ASSUME NEW A, NEW q \in Seq(Seq(A)), NEW i \in 1 .. Len(q)
  PROVE  FlattenSeq(SubSeq(q, 1, i)) = FlattenSeq(SubSeq(q, 1, i - 1)) \o q[i]
<1> DEFINE u == SubSeq(q, 1, i)
           v == SubSeq(q, 1, i - 1)
<1>1. /\ u \in Seq(Seq(A)) /\ Len(u) = i
      /\ \A j \in 1 .. i : u[j] = q[j]
      /\ q[i] \in Seq(A) /\ i \in Nat /\ i >= 1
  OBVIOUS
<1>2. /\ v \in Seq(Seq(A)) /\ Len(v) = i - 1
      /\ \A j \in 1 .. i - 1 : v[j] = q[j]
  OBVIOUS
<1> HIDE DEF u, v
<1>3. u # <<>>
  BY <1>1
<1>4. PICK f : /\ FlattenSeq(u) = f[Len(u)]
               /\ f[1] = u[1]
               /\ \A j \in 1 .. Len(u) - 1 : f[j + 1] = f[j] \o u[j + 1]
               /\ \A j \in 1 .. Len(u) : f[j] \in Seq(A)
  BY <1>1, <1>3, FlattenTexts, Zenon
<1>5. CASE i = 1
  <2>1. v = <<>>
    BY <1>2, <1>5
  <2>2. FlattenSeq(v) = <<>>
    BY <2>1, FlattenNothing
  <2>3. FlattenSeq(u) = q[i]
    BY <1>1, <1>4, <1>5
  <2>4. <<>> \o q[i] = q[i]
    BY <1>1
  <2>5. QED
    BY <2>2, <2>3, <2>4 DEF u, v
<1>6. CASE i > 1
  <2>1. v # <<>>
    BY <1>2, <1>6
  <2>2. PICK g : /\ FlattenSeq(v) = g[Len(v)]
                 /\ g[1] = v[1]
                 /\ \A j \in 1 .. Len(v) - 1 : g[j + 1] = g[j] \o v[j + 1]
                 /\ \A j \in 1 .. Len(v) : g[j] \in Seq(A)
    BY <1>2, <2>1, FlattenTexts, Zenon
  <2> DEFINE S == {j \in Nat : f[j] = g[j]}
  <2>3. 1 \in S
    <3>1. 1 \in 1 .. i /\ 1 \in 1 .. i - 1
      BY <1>1, <1>6
    <3>2. u[1] = v[1]
      <4>1. u[1] = q[1]
        BY <1>1, <3>1, Zenon
      <4>2. v[1] = q[1]
        BY <1>2, <3>1, Zenon
      <4>3. QED
        BY <4>1, <4>2
    <3>3. QED
      BY <1>4, <2>2, <3>2
  <2>4. ASSUME NEW j \in 1 .. (i - 1) - 1, j \in S PROVE j + 1 \in S
    <3>1. /\ j \in 1 .. Len(u) - 1 /\ j \in 1 .. Len(v) - 1
          /\ j + 1 \in 1 .. i /\ j + 1 \in 1 .. i - 1 /\ j + 1 \in Nat
      <4>1. /\ j \in 1 .. i - 1 /\ j \in 1 .. (i - 1) - 1
            /\ j + 1 \in 1 .. i /\ j + 1 \in 1 .. i - 1 /\ j + 1 \in Nat
        BY <1>6
      <4>2. Len(u) = i /\ Len(v) = i - 1
        BY <1>1, <1>2
      <4>3. QED
        BY <4>1, <4>2
    <3>2. f[j + 1] = f[j] \o u[j + 1] /\ g[j + 1] = g[j] \o v[j + 1]
      BY <1>4, <2>2, <3>1
    <3>3. u[j + 1] = v[j + 1] /\ f[j] = g[j]
      BY <1>1, <1>2, <2>4, <3>1
    <3>4. QED
      BY <3>1, <3>2, <3>3
  <2> HIDE DEF S
  <2>5. i - 1 \in S
    <3>1. i - 1 \in Nat /\ i - 1 \in 1 .. i - 1
      BY <1>1, <1>6
    <3>2. \A j \in 1 .. i - 1 : j \in S
      BY <2>3, <2>4, <3>1, AllPositions
    <3>3. QED
      BY <3>1, <3>2
  <2>6. FlattenSeq(v) = f[i - 1]
    BY <1>2, <2>2, <2>5 DEF S
  <2>7. FlattenSeq(u) = f[i - 1] \o q[i]
    <3>1. i - 1 \in 1 .. Len(u) - 1 /\ (i - 1) + 1 = i /\ i \in 1 .. i
      BY <1>1, <1>6
    <3>2. f[(i - 1) + 1] = f[i - 1] \o u[(i - 1) + 1]
      BY <1>4, <3>1
    <3>3. QED
      BY <1>1, <1>4, <3>1, <3>2
  <2>8. QED
    BY <2>6, <2>7 DEF u, v
<1>7. i = 1 \/ i > 1
  OBVIOUS
<1>8. QED
  BY <1>5, <1>6, <1>7

(* Pieces make a text.                                                      *)
LEMMA FlattenType ==
  ASSUME NEW A, NEW q \in Seq(Seq(A))
  PROVE  FlattenSeq(q) \in Seq(A)
<1>1. CASE q = <<>>
  <2>1. FlattenSeq(q) = <<>>
    BY <1>1, FlattenNothing
  <2>2. QED
    BY <2>1
<1>2. CASE q # <<>>
  BY <1>2, Flattened
<1>3. QED
  BY <1>1, <1>2

\* Where in a text its pieces are.
LEMMA PiecePlaces ==
  ASSUME NEW A, NEW q \in Seq(Seq(A)), NEW i \in 1 .. Len(q)
  PROVE  /\ Len(FlattenSeq(SubSeq(q, 1, i))) = Len(FlattenSeq(SubSeq(q, 1, i - 1))) + Len(q[i])
         /\ Holds(FlattenSeq(q), Len(FlattenSeq(SubSeq(q, 1, i - 1))), q[i])
<1> DEFINE P(j) == FlattenSeq(SubSeq(q, 1, j))
           N == Len(q)
           k == Len(P(i - 1))
<1>1. \A j \in 0 .. N : P(j) \in Seq(A)
  <2>1. \A j \in 0 .. N : SubSeq(q, 1, j) \in Seq(Seq(A))
    OBVIOUS
  <2>2. QED
    BY <2>1, FlattenType
<1>2. \A j \in 1 .. N : P(j) = P(j - 1) \o q[j]
  BY OnePieceMore
<1>3. \A j \in 1 .. N : q[j] \in Seq(A)
  OBVIOUS
<1>4. P(N) = FlattenSeq(q)
  <2>1. SubSeq(q, 1, Len(q)) = q
    OBVIOUS
  <2>2. QED
    BY <2>1
<1>5. N \in Nat /\ i \in 1 .. N /\ i \in Nat /\ i >= 1 /\ i <= N
  OBVIOUS
<1> HIDE DEF P, N
<1>6. i - 1 \in 0 .. N /\ \A j \in 1 .. N : j - 1 \in 0 .. N /\ j \in 0 .. N
  BY <1>5
<1>7. k \in Nat
  BY <1>1, <1>6
<1>8. Len(P(i)) = k + Len(q[i])
  <2>1. P(i - 1) \in Seq(A) /\ q[i] \in Seq(A)
    BY <1>1, <1>3, <1>5, <1>6
  <2>2. Len(P(i - 1) \o q[i]) = Len(P(i - 1)) + Len(q[i])
    BY <2>1, JoinIs
  <2>3. QED
    BY <1>2, <1>5, <2>2
<1>9. Holds(P(i), k, q[i])
  <2>1. P(i - 1) \in Seq(A) /\ q[i] \in Seq(A)
    BY <1>1, <1>3, <1>5, <1>6
  <2>2. Holds(P(i - 1) \o q[i], Len(P(i - 1)), q[i])
    BY <2>1, HeldLast
  <2>3. QED
    BY <1>2, <1>5, <2>2
<1> DEFINE S == {j \in Nat : j >= i => Holds(P(j), k, q[i])}
<1> HIDE DEF k
<1>10. N >= 1 => 1 \in S
  <2>1. 1 >= i => i = 1
    BY <1>5
  <2>2. QED
    BY <1>9, <2>1
<1>11. ASSUME NEW j \in 1 .. N - 1, j \in S PROVE j + 1 \in S
  <2>1. /\ j + 1 \in 1 .. N /\ (j + 1) - 1 = j /\ j \in 0 .. N /\ j + 1 \in Nat
        /\ (j + 1 >= i => j >= i \/ j + 1 = i)
    BY <1>5
  <2>2. CASE j >= i
    <3>1. Holds(P(j), k, q[i])
      BY <1>11, <2>2
    <3>2. P(j) \in Seq(A) /\ q[j + 1] \in Seq(A) /\ q[i] \in Seq(A)
      BY <1>1, <1>3, <1>5, <2>1
    <3>3. Holds(P(j) \o q[j + 1], k, q[i])
      BY <1>7, <3>1, <3>2, HeldBefore
    <3>4. P(j + 1) = P(j) \o q[j + 1]
      <4>1. P(j + 1) = P((j + 1) - 1) \o q[j + 1]
        BY <1>2, <2>1
      <4>2. QED
        BY <2>1, <4>1
    <3>5. QED
      BY <2>1, <3>3, <3>4
  <2>3. CASE j + 1 = i
    BY <1>9, <2>1, <2>3
  <2>4. CASE ~(j + 1 >= i)
    BY <2>1, <2>4
  <2>5. QED
    BY <2>1, <2>2, <2>3, <2>4
<1> HIDE DEF S
<1>12. N \in S
  <2>1. \A j \in 1 .. N : j \in S
    BY <1>5, <1>10, <1>11, AllPositions
  <2>2. N \in 1 .. N
    BY <1>5
  <2>3. QED
    BY <2>1, <2>2
<1>13. Holds(P(N), k, q[i])
  BY <1>5, <1>12 DEF S
<1>14. QED
  BY <1>4, <1>8, <1>13 DEF k, P
=============================================================================
