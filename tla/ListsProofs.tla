---------------------------- MODULE ListsProofs ----------------------------
(***************************************************************************)
(* ListsInv is an invariant, and with it what a walk misses, repeats and   *)
(* is told in total; and answers to writes tell their outcome.             *)
(*                                                                         *)
(* The lemmas are about counting: an order puts n rows on 0..n-1; a row    *)
(* that shares its createdAt with no other has one place in every order,   *)
(* the number of rows before it, and one row more or less moves it by one  *)
(* at most.                                                                *)
(***************************************************************************)
EXTENDS ListsProperties, FiniteSetTheorems, TLAPS

(***************************************************************************)
(* Positions in a finite set L under the times c.                          *)
(***************************************************************************)
Before(c, L, i) == {j \in L : c[j] > c[i]}
Pos(c, L, i) == Cardinality(Before(c, L, i))
Numbers(c, L) == IsFiniteSet(L) /\ c \in [Ids -> Nat] /\ L \subseteq Ids
Apart(c, A) == \A i, j \in A : c[i] = c[j] => i = j

\* A position is a number, and a row of the set has one below the size of the set.
LEMMA PosType ==
    ASSUME NEW c, NEW L, Numbers(c, L), NEW i
    PROVE  /\ IsFiniteSet(Before(c, L, i)) /\ Pos(c, L, i) \in Nat
           /\ i \in L => Pos(c, L, i) < Cardinality(L)
<1>1. IsFiniteSet(Before(c, L, i)) /\ Before(c, L, i) \in SUBSET L
  BY FS_Subset DEF Before, Numbers
<1>2. Cardinality(L) \in Nat /\ Pos(c, L, i) \in Nat
  BY <1>1, FS_CardinalityType DEF Pos, Numbers
<1>3. ASSUME i \in L PROVE Pos(c, L, i) < Cardinality(L)
  <2>1. Before(c, L, i) # L
    BY <1>3 DEF Before, Numbers
  <2>. QED BY <1>1, <1>2, <2>1, FS_Subset DEF Pos, Numbers
<1>. QED BY <1>1, <1>2, <1>3

\* No two rows of different times have the same position.
LEMMA PosApart ==
    ASSUME NEW c, NEW L, Numbers(c, L), NEW i \in L, NEW j \in L, c[i] = c[j] => i = j,
           Pos(c, L, i) = Pos(c, L, j)
    PROVE  i = j
<1>1. ASSUME NEW x \in L, NEW y \in L, c[x] < c[y] PROVE Pos(c, L, x) # Pos(c, L, y)
  <2>1. c[x] \in Nat /\ c[y] \in Nat /\ \A z \in L : c[z] \in Nat
    BY DEF Numbers
  <2>2. Before(c, L, y) \in SUBSET Before(c, L, x)
    BY <1>1, <2>1 DEF Before
  <2>3. y \in Before(c, L, x) /\ y \notin Before(c, L, y)
    BY <1>1, <2>1 DEF Before
  <2>. QED BY <2>2, <2>3, FS_Subset, PosType DEF Pos
<1>2. c[i] \in Nat /\ c[j] \in Nat
  BY DEF Numbers
<1>. QED BY <1>1, <1>2

\* Of rows whose times tell them apart, at most one has a given position.
LEMMA OneAtPosition ==
    ASSUME NEW c, NEW L, Numbers(c, L), NEW n, NEW A, A \subseteq {i \in L : Pos(c, L, i) = n}, Apart(c, A)
    PROVE  IsFiniteSet(A) /\ Cardinality(A) <= 1 /\ Cardinality(A) \in Nat
<1>1. CASE A = {}
  BY <1>1, FS_EmptySet
<1>2. CASE A # {}
  <2>1. PICK x \in A : TRUE
    BY <1>2
  <2>2. A = {x}
    BY <2>1, PosApart DEF Apart
  <2>3. IsFiniteSet({x}) /\ Cardinality({x}) = 1
    BY FS_Singleton
  <2>. QED BY <2>2, <2>3
<1>. QED BY <1>1, <1>2

\* One row more moves the others back by one place at most.
LEMMA PosOfMore ==
    ASSUME NEW c, NEW L, Numbers(c, L), NEW i \in Ids \ L, NEW j
    PROVE  Pos(c, L \cup {i}, j) \in {Pos(c, L, j), Pos(c, L, j) + 1}
<1>1. Before(c, L \cup {i}, j) = Before(c, L, j) \/ Before(c, L \cup {i}, j) = Before(c, L, j) \cup {i}
  BY DEF Before
<1>2. i \notin Before(c, L, j)
  BY DEF Before
<1>. QED BY <1>1, <1>2, FS_AddElement, PosType DEF Pos

\* One row less moves the others forward by one place at most.
LEMMA PosOfFewer ==
    ASSUME NEW c, NEW L, Numbers(c, L), NEW i \in L, NEW j
    PROVE  Pos(c, L, j) \in {Pos(c, L \ {i}, j), Pos(c, L \ {i}, j) + 1}
<1>. DEFINE M == L \ {i}
<1>1. M \cup {i} = L /\ i \notin M /\ i \in Ids /\ Numbers(c, M)
  BY FS_RemoveElement DEF Numbers
<1>. HIDE DEF M
<1>2. Pos(c, M \cup {i}, j) \in {Pos(c, M, j), Pos(c, M, j) + 1}
  BY <1>1, PosOfMore
<1>. QED BY <1>1, <1>2 DEF M

Slice(L, o, a, b) == {i \in L : o[i] \in a..b}

\* The rows between two places of an order are as many as the places.
LEMMA Between ==
    ASSUME NEW L, IsFiniteSet(L), NEW o \in Injection(L, 0..(Cardinality(L) - 1)),
           NEW a \in Nat, NEW b \in Int, b < Cardinality(L)
    PROVE  /\ IsFiniteSet(Slice(L, o, a, b))
           /\ Cardinality(Slice(L, o, a, b)) = IF a > b THEN 0 ELSE b - a + 1
<1>. DEFINE n == Cardinality(L)
            P == {i \in L : o[i] \in a..b}
            g == [i \in P |-> o[i]]
<1>1. n \in Nat /\ IsFiniteSet(P)
  BY FS_CardinalityType, FS_Subset
<1>2. IsFiniteSet(0..(n-1)) /\ Cardinality(0..(n-1)) = n
  <2>1. 0 \in Int /\ n - 1 \in Int
    BY <1>1
  <2>. HIDE DEF n
  <2>2. IsFiniteSet(0..(n-1)) /\ Cardinality(0..(n-1)) = IF 0 > n-1 THEN 0 ELSE (n-1)-0+1
    BY <2>1, FS_Interval
  <2>. QED BY <1>1, <2>2
<1>3. o \in Surjection(L, 0..(n-1))
  BY <1>2, FS_Injection
<1>4. /\ \A k \in 0..(n-1) : \E i \in L : o[i] = k
      /\ \A i, j \in L : o[i] = o[j] => i = j
  BY <1>3 DEF Surjection, Injection, IsInjective
<1>5. g \in Bijection(P, a..b)
  <2>1. g \in [P -> a..b]
    OBVIOUS
  <2>2. \A k \in a..b : \E i \in P : g[i] = k
    <3>. SUFFICES ASSUME NEW k \in a..b PROVE \E i \in P : g[i] = k
      OBVIOUS
    <3>1. k \in 0..(n-1)
      BY <1>1
    <3>2. PICK i \in L : o[i] = k
      BY <1>4, <3>1
    <3>. QED BY <3>2
  <2>3. \A i, j \in P : g[i] = g[j] => i = j
    BY <1>4
  <2>. QED BY <2>1, <2>2, <2>3 DEF Bijection, Injection, Surjection, IsInjective
<1>6. Cardinality(a..b) = Cardinality(P)
  BY <1>1, <1>5, FS_Bijection DEF ExistsBijection
<1>7. Cardinality(a..b) = IF a > b THEN 0 ELSE b - a + 1
  BY FS_Interval
<1>. HIDE DEF P
<1>8. IsFiniteSet(P) /\ Cardinality(P) = IF a > b THEN 0 ELSE b - a + 1
  BY <1>1, <1>6, <1>7
<1>. QED BY <1>8 DEF P, Slice

\* A row that shares its time with no other has the same place in every order.
LEMMA PlaceIsPosition ==
    ASSUME NEW c, NEW L, Numbers(c, L), NEW o \in Orders(L, c), NEW i \in L, \A j \in L : c[j] = c[i] => j = i
    PROVE  o[i] = Pos(c, L, i)
<1>. DEFINE n == Cardinality(L)
<1>1. /\ o \in Injection(L, 0..(n-1)) /\ \A j \in L : o[j] \in 0..(n-1)
      /\ \A x, y \in L : c[x] > c[y] => o[x] < o[y]
  BY DEF Orders, Injection
<1>2. n \in Nat /\ IsFiniteSet(L) /\ \A j \in L : c[j] \in Nat
  BY FS_CardinalityType DEF Numbers
<1>3. o[i] \in Nat /\ o[i] - 1 \in Int /\ o[i] - 1 < n
  BY <1>1, <1>2
<1>4. Before(c, L, i) = Slice(L, o, 0, o[i] - 1)
  <2>1. ASSUME NEW j \in L PROVE c[j] > c[i] <=> o[j] \in 0..(o[i] - 1)
    <3>1. CASE c[j] > c[i]
      BY <1>1, <1>2, <1>3, <3>1
    <3>2. CASE ~(c[j] > c[i])
      <4>1. j = i \/ c[i] > c[j]
        BY <1>2, <3>2
      <4>. QED BY <1>1, <1>2, <1>3, <3>2, <4>1
    <3>. QED BY <3>1, <3>2
  <2>. QED BY <2>1 DEF Before, Slice
<1>5. Cardinality(Slice(L, o, 0, o[i] - 1)) = IF 0 > o[i] - 1 THEN 0 ELSE (o[i] - 1) - 0 + 1
  <2>. DEFINE b == o[i] - 1
  <2>1. b \in Int /\ b < Cardinality(L)
    BY <1>3
  <2>. HIDE DEF b, n
  <2>2. Cardinality(Slice(L, o, 0, b)) = IF 0 > b THEN 0 ELSE b - 0 + 1
    BY <1>1, <1>2, <2>1, Between DEF n
  <2>. QED BY <2>2 DEF b
<1>. QED BY <1>3, <1>4, <1>5 DEF Pos

(***************************************************************************)
(* What one row more or less does to the sets the invariant counts: rows   *)
(* of A that a walk has missed below n, and rows of A it has shown from n  *)
(* on.                                                                     *)
(***************************************************************************)
MissedOf(c, A, L, w, s, n) == {i \in w \ s : i \in A /\ Pos(c, L, i) < n}
AheadOf(c, A, L, s, n) == {i \in s \cap L : i \in A /\ Pos(c, L, i) >= n}

\* A set within another and at most one element more.
LEMMA PlusOne ==
    ASSUME NEW A, IsFiniteSet(A), NEW B, IsFiniteSet(B), Cardinality(B) <= 1, NEW C, C \subseteq A \cup B
    PROVE  /\ IsFiniteSet(C) /\ Cardinality(C) \in Nat /\ Cardinality(A) \in Nat
           /\ Cardinality(C) <= Cardinality(A) + 1
<1>1. /\ IsFiniteSet(A \cup B) /\ IsFiniteSet(A \cap B)
      /\ Cardinality(A \cup B) = Cardinality(A) + Cardinality(B) - Cardinality(A \cap B)
  BY FS_Union, FS_Intersection
<1>2. /\ IsFiniteSet(C) /\ Cardinality(C) <= Cardinality(A \cup B)
      /\ Cardinality(A) \in Nat /\ Cardinality(B) \in Nat /\ Cardinality(C) \in Nat /\ Cardinality(A \cap B) \in Nat
  BY <1>1, FS_Subset, FS_CardinalityType
<1>. QED BY <1>1, <1>2

\* A row more, before or after them, makes no other row a missed one.
LEMMA MissedOfMore ==
    ASSUME NEW c, NEW L, Numbers(c, L), NEW A, NEW i \in Ids \ L, NEW w, w \subseteq L, NEW s, NEW n \in Nat
    PROVE  /\ Cardinality(MissedOf(c, A, L \cup {i}, w, s, n)) <= Cardinality(MissedOf(c, A, L, w, s, n))
           /\ Cardinality(MissedOf(c, A, L \cup {i}, w, s, n)) \in Nat
           /\ Cardinality(MissedOf(c, A, L, w, s, n)) \in Nat
<1>1. IsFiniteSet(MissedOf(c, A, L, w, s, n))
  BY FS_Subset DEF MissedOf, Numbers
<1>2. MissedOf(c, A, L \cup {i}, w, s, n) \in SUBSET MissedOf(c, A, L, w, s, n)
  BY PosOfMore, PosType DEF MissedOf
<1>. QED BY <1>1, <1>2, FS_Subset, FS_CardinalityType

\* A row less pulls at most one row below n.
LEMMA MissedOfFewer ==
    ASSUME NEW c, NEW L, Numbers(c, L), NEW A, Apart(c, L \cap A), NEW i \in L, NEW w, w \subseteq L, NEW s, NEW n \in Nat
    PROVE  /\ Cardinality(MissedOf(c, A, L \ {i}, w \ {i}, s, n)) <= Cardinality(MissedOf(c, A, L, w, s, n)) + 1
           /\ Cardinality(MissedOf(c, A, L \ {i}, w \ {i}, s, n)) \in Nat
           /\ Cardinality(MissedOf(c, A, L, w, s, n)) \in Nat
<1>. DEFINE B == {j \in L \cap A : Pos(c, L, j) = n}
<1>1. IsFiniteSet(MissedOf(c, A, L, w, s, n))
  BY FS_Subset DEF MissedOf, Numbers
<1>2. IsFiniteSet(B) /\ Cardinality(B) <= 1
  BY OneAtPosition DEF Apart
<1>3. Numbers(c, L \ {i})
  BY FS_RemoveElement DEF Numbers
<1>4. MissedOf(c, A, L \ {i}, w \ {i}, s, n) \subseteq MissedOf(c, A, L, w, s, n) \cup B
  BY <1>3, PosOfFewer, PosType DEF MissedOf
<1>. HIDE DEF B
<1>. QED BY <1>1, <1>2, <1>4, PlusOne

\* A row more, which was not shown, pushes at most one row behind n.
LEMMA AheadOfMore ==
    ASSUME NEW c, NEW L, Numbers(c, L), NEW A, Apart(c, L \cap A), NEW i \in Ids \ L, NEW s, i \notin s, NEW n \in Nat
    PROVE  /\ Cardinality(AheadOf(c, A, L \cup {i}, s, n)) <= Cardinality(AheadOf(c, A, L, s, n)) + 1
           /\ Cardinality(AheadOf(c, A, L \cup {i}, s, n)) \in Nat
           /\ Cardinality(AheadOf(c, A, L, s, n)) \in Nat
<1>. DEFINE B == {j \in L \cap A : Pos(c, L, j) = n - 1}
<1>1. IsFiniteSet(AheadOf(c, A, L, s, n))
  BY FS_Subset DEF AheadOf, Numbers
<1>2. IsFiniteSet(B) /\ Cardinality(B) <= 1
  BY OneAtPosition DEF Apart
<1>3. AheadOf(c, A, L \cup {i}, s, n) \subseteq AheadOf(c, A, L, s, n) \cup B
  BY PosOfMore, PosType DEF AheadOf
<1>. HIDE DEF B
<1>. QED BY <1>1, <1>2, <1>3, PlusOne

\* A row less pushes none.
LEMMA AheadOfFewer ==
    ASSUME NEW c, NEW L, Numbers(c, L), NEW A, NEW i \in L, NEW s, NEW n \in Nat
    PROVE  /\ Cardinality(AheadOf(c, A, L \ {i}, s, n)) <= Cardinality(AheadOf(c, A, L, s, n))
           /\ Cardinality(AheadOf(c, A, L \ {i}, s, n)) \in Nat
           /\ Cardinality(AheadOf(c, A, L, s, n)) \in Nat
<1>1. IsFiniteSet(AheadOf(c, A, L, s, n))
  BY FS_Subset DEF AheadOf, Numbers
<1>2. Numbers(c, L \ {i})
  BY FS_RemoveElement DEF Numbers
<1>3. AheadOf(c, A, L \ {i}, s, n) \in SUBSET AheadOf(c, A, L, s, n)
  BY <1>2, PosOfFewer, PosType DEF AheadOf
<1>. QED BY <1>1, <1>3, FS_Subset, FS_CardinalityType

\* Positions look only at the times of the rows they count.
LEMMA PosSame ==
    ASSUME NEW c, NEW d, NEW L, NEW i, d[i] = c[i], \A j \in L : d[j] = c[j]
    PROVE  Pos(d, L, i) = Pos(c, L, i)
BY DEF Pos, Before

(***************************************************************************)
(* The operators of the model in these terms.                              *)
(***************************************************************************)
\* What a page of a list holds: as many rows as are due.
LEMMA PageHolds ==
    ASSUME NEW L, IsFiniteSet(L), NEW stamp, NEW page \in Nat \ {0}, NEW limit \in Nat \ {0},
           NEW items \in Pages(L, stamp, page, limit)
    PROVE  /\ Skip(page, limit) \in Nat /\ items \subseteq L /\ IsFiniteSet(items)
           /\ Cardinality(items) =
                IF Cardinality(L) <= Skip(page, limit) THEN 0
                ELSE IF Cardinality(L) <= Skip(page, limit) + limit THEN Cardinality(L) - Skip(page, limit)
                ELSE limit
<1>. DEFINE a == Skip(page, limit)
            n == Cardinality(L)
            b == IF n <= a + limit THEN n - 1 ELSE a + limit - 1
<1>1. a \in Nat
  BY DEF Skip
<1>2. n \in Nat
  BY FS_CardinalityType
<1>3. PICK o \in Orders(L, stamp) : items = Page(o, page, limit)
  BY DEF Pages
<1>4. /\ o \in Injection(L, 0..(n-1)) /\ DOMAIN o = L /\ \A i \in L : o[i] \in 0..(n-1)
  BY DEF Orders, Injection
<1>5. items = {i \in L : o[i] \in a..(a + limit - 1)}
  BY <1>3, <1>4 DEF Page
<1>. HIDE DEF a, n
<1>6. b \in Int /\ b < n
  BY <1>1, <1>2
<1>7. items = Slice(L, o, a, b)
  BY <1>1, <1>2, <1>4, <1>5 DEF Slice
<1>8. IsFiniteSet(items) /\ Cardinality(items) = IF a > b THEN 0 ELSE b - a + 1
  <2>. HIDE DEF b
  <2>. QED BY <1>1, <1>4, <1>6, <1>7, Between DEF n
<1>9. Cardinality(items) = IF n <= a THEN 0 ELSE IF n <= a + limit THEN n - a ELSE limit
  BY <1>1, <1>2, <1>8
<1>. QED BY <1>1, <1>5, <1>8, <1>9 DEF a, n

\* Of the rows whose time is their own, a page holds those whose position is on it.
LEMMA OnPage ==
    ASSUME NEW L, NEW stamp, Numbers(stamp, L), NEW page, NEW limit, NEW items \in Pages(L, stamp, page, limit),
           NEW i \in L, \A j \in L : stamp[j] = stamp[i] => j = i
    PROVE  i \in items <=> Pos(stamp, L, i) \in Skip(page, limit)..(Skip(page, limit) + limit - 1)
<1>1. PICK o \in Orders(L, stamp) : items = Page(o, page, limit)
  BY DEF Pages
<1>2. DOMAIN o = L
  BY DEF Orders, Injection
<1>3. o[i] = Pos(stamp, L, i)
  BY PlaceIsPosition
<1>. QED BY <1>1, <1>2, <1>3 DEF Page

(***************************************************************************)
(* The inductive invariant, and the part of it that is about the walk.     *)
(***************************************************************************)
WalkInv ==
    /\ WalkFits /\ CountFits
    /\ WalksMissOnlyForRemovals /\ WalksRepeatOnlyForCreations /\ TotalsFitTheirPage
LInv == LTypeOK /\ RowsFit /\ RemovedByOne /\ WalkInv

Lones == {i \in Ids : Alone(i)}

\* The rows a list shows have times, which tell those apart that are alone.
LEMMA LiveNumbered ==
    ASSUME LTypeOK, RowsFit
    PROVE  /\ Numbers(createdAt, Live) /\ Numbers(createdAt, Kept)
           /\ Apart(createdAt, Live \cap Lones)
           /\ \A i \in Live : Alone(i) => \A j \in Live : createdAt[j] = createdAt[i] => j = i
           /\ list \notin Soft => Kept = Live
<1>1. IsFiniteSet(Live) /\ IsFiniteSet(Kept)
  BY ListsConstants, FS_Subset DEF Live, Kept
<1>2. Live \subseteq Created /\ Kept \subseteq Created
  BY DEF Live, Kept, Stored, RowsFit
<1>3. \A i \in Live : Alone(i) => \A j \in Live : createdAt[j] = createdAt[i] => j = i
  BY <1>2 DEF Alone
<1>. QED BY <1>1, <1>2, <1>3
         DEF Numbers, Apart, Lones, Live, Kept, Stored, LTypeOK, RowsFit

\* The sets of the invariant in the terms of the lemmas.
Terms ==
    /\ Missed = MissedOf(createdAt, Lones, Live, walk.watched, walk.seen, Fetched)
    /\ Ahead = AheadOf(createdAt, Lones, Live, walk.seen, Fetched)

\* The two say the same, of rows that the walk may have watched.
LEMMA WalkTerms == walk.watched \subseteq Ids => Terms
<1>1. \A i : Position(Live, i) = Pos(createdAt, Live, i)
  BY DEF Position, Pos, Before
<1>2. Live \subseteq Ids
  BY DEF Live
<1>. QED BY <1>1, <1>2 DEF Terms, Missed, MissedOf, Ahead, AheadOf, Overlooked, Lones

\* What is fetched is a number.
LEMMA FetchedType ==
    ASSUME LTypeOK PROVE Fetched \in Nat /\ Skip(walk.page, walk.limit) \in Nat
                         /\ walk.limit \in Nat \ {0} /\ walk.page \in Nat \ {0}
<1>1. walk.limit \in Nat \ {0} /\ walk.page \in Nat \ {0}
  BY DEF LTypeOK, Walk
<1>2. (walk.page - 1) * walk.limit \in Nat
  BY <1>1
<1>. QED BY <1>1, <1>2 DEF Fetched, Skip

\* Where the times stay, so do the rows that are alone.
LEMMA AloneSame ==
    ASSUME UNCHANGED createdAt
    PROVE  Created' = Created /\ Lones' = Lones /\ \A i : Alone(i)' = Alone(i)
BY DEF Alone, Created, Lones

\* The sets a walk is judged by are finite.
Sizes ==
    /\ IsFiniteSet(Overlooked) /\ Cardinality(Overlooked) \in Nat
    /\ IsFiniteSet(Missed) /\ Cardinality(Missed) \in Nat
    /\ IsFiniteSet(Ahead) /\ Cardinality(Ahead) \in Nat
    /\ IsFiniteSet(walk.seen) /\ IsFiniteSet(walk.items) /\ Cardinality(walk.items) \in Nat
    /\ walk.removed \in Nat /\ walk.inserted \in Nat /\ walk.repeats \in Nat /\ walk.skew \in Nat
LEMMA Finite == walk \in Walk => Sizes
<1>. SUFFICES ASSUME walk \in Walk PROVE Sizes
  OBVIOUS
<1>1. /\ Overlooked \in SUBSET Ids /\ Missed \in SUBSET Ids /\ Ahead \in SUBSET Ids
      /\ walk.seen \in SUBSET Ids /\ walk.items \in SUBSET Ids
  BY DEF Overlooked, Missed, Ahead, Walk, Live
<1>. QED BY <1>1, ListsConstants, FS_Subset, FS_CardinalityType DEF Walk, Sizes

\* And so they are after a step.
LEMMA FiniteNext == walk' \in Walk => Sizes'
<1>1. (walk \in Walk)' => Sizes'
  BY Finite, PTL
<1>. QED BY <1>1

\* A step that leaves the walk and the rows a list shows; of these, fewer may be alone.
LEMMA Still ==
    ASSUME LInv, Live' = Live, UNCHANGED <<walk, list>>, \A i \in Live : createdAt'[i] = createdAt[i],
           \A i \in Ids : Alone(i)' => Alone(i)
    PROVE  WalkInv'
<1>1. Fetched' = Fetched /\ Walking' = Walking /\ \A n : Due(n)' = Due(n)
  BY DEF Fetched, Walking, Due, Skip
<1>2. \A i \in Live : Position(Live, i)' = Position(Live, i)
  <2>1. SUFFICES ASSUME NEW i \in Live PROVE Position(Live, i)' = Position(Live, i)
    OBVIOUS
  <2>2. Position(Live, i) = Pos(createdAt, Live, i) /\ Position(Live, i)' = Pos(createdAt', Live, i)
    BY DEF Position, Pos, Before
  <2>. QED BY <2>2, PosSame
<1>3. walk \in Walk /\ LTypeOK
  BY DEF LInv, LTypeOK
<1>4. Overlooked' \in SUBSET Overlooked
  BY <1>3 DEF Overlooked, Walk
<1>5. Walking => Missed' \in SUBSET Missed
  <2>. SUFFICES ASSUME Walking PROVE Missed' \in SUBSET Missed
    OBVIOUS
  <2>1. walk.watched \subseteq Live
    BY DEF LInv, WalkInv, WalkFits
  <2>. QED BY <1>1, <1>2, <1>4, <2>1 DEF Missed, Overlooked
<1>6. Ahead' \in SUBSET Ahead
  BY <1>1, <1>2 DEF Ahead, Live
<1>7. /\ Cardinality(Overlooked') <= Cardinality(Overlooked) /\ Cardinality(Overlooked') \in Nat
      /\ Walking => Cardinality(Missed') <= Cardinality(Missed) /\ Cardinality(Missed') \in Nat
      /\ Cardinality(Ahead') <= Cardinality(Ahead) /\ Cardinality(Ahead') \in Nat
  BY <1>3, <1>4, <1>5, <1>6, Finite, FS_Subset, FS_CardinalityType DEF Sizes
<1>8. WalkFits' /\ CountFits'
  BY <1>1, <1>3, <1>7, Finite DEF Sizes, LInv, WalkInv, WalkFits, CountFits, Skip
<1>9. WalksMissOnlyForRemovals' /\ WalksRepeatOnlyForCreations' /\ TotalsFitTheirPage'
  BY <1>1, <1>3, <1>7, Finite DEF Sizes, LInv, WalkInv, WalksMissOnlyForRemovals, WalksRepeatOnlyForCreations,
              TotalsFitTheirPage
<1>. QED BY <1>8, <1>9 DEF WalkInv

\* One row more makes a page longer by one row at most, and never shorter.
LEMMA DueOfMore ==
    ASSUME LTypeOK, NEW n \in Nat
    PROVE  Due(n) \in Nat /\ Due(n + 1) \in {Due(n), Due(n) + 1}
BY FetchedType DEF Due

\* What a write records in the walk, by field.
LEMMA NotedFields ==
    ASSUME LTypeOK, Walking, NEW a \in Nat, NEW b \in Nat, Noted(a, b)
    PROVE  /\ walk'.pc = walk.pc /\ walk'.page = walk.page /\ walk'.limit = walk.limit
           /\ walk'.items = walk.items /\ walk'.total = walk.total /\ walk'.seen = walk.seen
           /\ walk'.repeats = walk.repeats /\ walk'.watched = walk.watched \cap Live'
           /\ walk'.inserted = walk.inserted + a /\ walk'.removed = walk.removed + b
           /\ walk'.skew = IF walk.pc = "count" THEN walk.skew + a + b ELSE walk.skew
           /\ walk' \in Walk
<1>1. walk \in Walk
  BY DEF LTypeOK
<1>2. walk' = [walk EXCEPT !.watched = @ \cap Live', !.inserted = @ + a, !.removed = @ + b,
                           !.skew = IF walk.pc = "count" THEN @ + a + b ELSE @]
  BY DEF Noted, Live
<1>3. /\ walk'.pc = walk.pc /\ walk'.page = walk.page /\ walk'.limit = walk.limit
      /\ walk'.items = walk.items /\ walk'.total = walk.total /\ walk'.seen = walk.seen
      /\ walk'.repeats = walk.repeats /\ walk'.watched = walk.watched \cap Live'
      /\ walk'.inserted = walk.inserted + a /\ walk'.removed = walk.removed + b
      /\ walk'.skew = IF walk.pc = "count" THEN walk.skew + a + b ELSE walk.skew
  BY <1>1, <1>2 DEF Walk
<1>4. walk' \in Walk
  <2>1. walk.watched \cap Live' \in SUBSET Ids
    BY <1>1 DEF Walk
  <2>2. /\ walk.inserted + a \in Nat /\ walk.removed + b \in Nat
        /\ (IF walk.pc = "count" THEN walk.skew + a + b ELSE walk.skew) \in Nat
    BY <1>1 DEF Walk
  <2>. QED BY <1>1, <1>2, <2>1, <2>2 DEF Walk
<1>. QED BY <1>3, <1>4

\* Nothing the invariant says is about a walk that has not begun, is over or has failed, but
\* what the walk itself records.
LEMMA NotWalking ==
    ASSUME LInv, ~Walking, UNCHANGED <<walk, list, createdAt>>
    PROVE  WalkInv'
<1>1. ~Walking' /\ walk.pc \notin {"find", "count", "shown"} /\ \A n : Due(n)' = Due(n)
  BY DEF Walking, Due, Skip
<1>2. Overlooked' = Overlooked
  BY AloneSame DEF Overlooked
<1>. QED BY <1>1, <1>2 DEF LInv, WalkInv, WalkFits, CountFits,
            WalksMissOnlyForRemovals, WalksRepeatOnlyForCreations, TotalsFitTheirPage

\* A row appears: it misses no other, pushes one over the border at most, and is counted.
LEMMA Grow ==
    ASSUME LInv, NEW i \in Ids \ Live, i \notin walk.seen, Live' = Live \cup {i}, Noted(1, 0),
           UNCHANGED <<createdAt, list>>
    PROVE  WalkInv'
<1>1. CASE ~Walking
  BY <1>1, NotWalking DEF Noted
<1>2. CASE Walking
  <2>. USE <1>2
  <2>1. /\ walk'.pc = walk.pc /\ walk'.page = walk.page /\ walk'.limit = walk.limit
        /\ walk'.items = walk.items /\ walk'.total = walk.total /\ walk'.seen = walk.seen
        /\ walk'.repeats = walk.repeats /\ walk'.watched = walk.watched
        /\ walk'.inserted = walk.inserted + 1 /\ walk'.removed = walk.removed
        /\ walk'.skew = IF walk.pc = "count" THEN walk.skew + 1 ELSE walk.skew
        /\ walk' \in Walk
    <3>1. walk.watched \subseteq Live /\ walk \in Walk
      BY DEF LInv, WalkInv, WalkFits, LTypeOK
    <3>2. walk.removed \in Nat /\ walk.inserted \in Nat /\ walk.skew \in Nat
      BY <3>1 DEF Walk
    <3>3. /\ walk'.pc = walk.pc /\ walk'.page = walk.page /\ walk'.limit = walk.limit
          /\ walk'.items = walk.items /\ walk'.total = walk.total /\ walk'.seen = walk.seen
          /\ walk'.repeats = walk.repeats /\ walk'.watched = walk.watched \cap Live'
          /\ walk'.inserted = walk.inserted + 1 /\ walk'.removed = walk.removed + 0
          /\ walk'.skew = IF walk.pc = "count" THEN walk.skew + 1 + 0 ELSE walk.skew
          /\ walk' \in Walk
      BY NotedFields DEF LInv
    <3>4. walk.watched \cap Live' = walk.watched
      BY <3>1
    <3>. QED BY <3>2, <3>3, <3>4
  <2>2. /\ walk.removed \in Nat /\ walk.inserted \in Nat /\ walk.repeats \in Nat /\ walk.skew \in Nat
        /\ IsFiniteSet(walk.seen) /\ IsFiniteSet(walk.items) /\ Cardinality(walk.items) \in Nat
        /\ walk.watched \subseteq Live
    BY ListsConstants, FS_Subset, FS_CardinalityType DEF LInv, LTypeOK, Walk, WalkInv, WalkFits
  <2>3. /\ Fetched' = Fetched /\ Walking' /\ \A n : Due(n)' = Due(n)
        /\ Skip(walk.page, walk.limit)' = Skip(walk.page, walk.limit)
    BY <2>1 DEF Fetched, Walking, Due, Skip
  <2>4. /\ Numbers(createdAt, Live) /\ Apart(createdAt, Live \cap Lones) /\ Fetched \in Nat
        /\ Terms /\ Lones' = Lones
    <3>1. walk.watched \subseteq Ids
      BY DEF LInv, LTypeOK, Walk
    <3>. QED BY <3>1, LiveNumbered, FetchedType, AloneSame, WalkTerms DEF LInv
  <2>10. walk \in Walk
    BY DEF LInv, LTypeOK
  <2>5. /\ Missed' = MissedOf(createdAt, Lones, Live \cup {i}, walk.watched, walk.seen, Fetched)
        /\ Ahead' = AheadOf(createdAt, Lones, Live \cup {i}, walk.seen, Fetched)
    <3>1. (walk.watched \subseteq Ids)' => Terms'
      BY WalkTerms, PTL
    <3>2. walk'.watched \subseteq Ids
      BY <2>1 DEF Walk
    <3>. QED BY <2>1, <2>3, <2>4, <3>1, <3>2 DEF Terms
  <2>6. WalkFits'
    <3>1. list \in Forwarding => Cardinality(Missed') <= walk.removed
      <4>1. /\ Cardinality(Missed') <= Cardinality(Missed)
            /\ Cardinality(Missed') \in Nat /\ Cardinality(Missed) \in Nat
        BY <2>4, <2>2, <2>5, MissedOfMore DEF Terms
      <4>. QED BY <2>2, <4>1 DEF LInv, WalkInv, WalkFits
    <3>2. list \in Forwarding => Cardinality(Ahead') + walk.repeats <= walk.inserted + 1
      <4>1. /\ Cardinality(Ahead') <= Cardinality(Ahead) + 1
            /\ Cardinality(Ahead') \in Nat /\ Cardinality(Ahead) \in Nat
        BY <2>4, <2>5, AheadOfMore DEF Terms
      <4>. QED BY <2>2, <4>1 DEF LInv, WalkInv, WalkFits
    <3>3. walk.pc # "idle"
      BY DEF Walking
    <3>4. Overlooked' = Overlooked
      BY <2>1, AloneSame DEF Overlooked
    <3>. QED BY <2>1, <2>2, <2>3, <3>1, <3>2, <3>3, <3>4 DEF LInv, WalkInv, WalkFits
  <2>7. CountFits'
    <3>1. Cardinality(Live) \in Nat /\ Cardinality(Live') = Cardinality(Live) + 1
      BY <2>4, FS_AddElement, FS_CardinalityType DEF Numbers
    <3>2. Due(Cardinality(Live)) \in Nat
          /\ Due(Cardinality(Live')) \in {Due(Cardinality(Live)), Due(Cardinality(Live)) + 1}
      BY <3>1, DueOfMore DEF LInv
    <3>3. Due(Cardinality(Live))' = Due(Cardinality(Live'))
      BY <2>1 DEF Due, Skip
    <3>. QED BY <2>1, <2>2, <3>2, <3>3 DEF LInv, WalkInv, CountFits
  <2>8. WalksRepeatOnlyForCreations'
    BY <2>1, <2>2 DEF LInv, WalkInv, WalksRepeatOnlyForCreations
  <2>9. WalksMissOnlyForRemovals' /\ TotalsFitTheirPage'
    BY <2>1, <2>3 DEF LInv, WalkInv, WalksMissOnlyForRemovals, TotalsFitTheirPage, Walking
  <2>. QED BY <2>6, <2>7, <2>8, <2>9 DEF WalkInv
<1>. QED BY <1>1, <1>2

\* A row disappears: it pulls one over the border at most, and is counted.
LEMMA Shrink ==
    ASSUME LInv, NEW i \in Live, Live' = Live \ {i}, Noted(0, 1), UNCHANGED <<createdAt, list>>
    PROVE  WalkInv'
<1>1. CASE ~Walking
  BY <1>1, NotWalking DEF Noted
<1>2. CASE Walking
  <2>. USE <1>2
  <2>1. /\ walk'.pc = walk.pc /\ walk'.page = walk.page /\ walk'.limit = walk.limit
        /\ walk'.items = walk.items /\ walk'.total = walk.total /\ walk'.seen = walk.seen
        /\ walk'.repeats = walk.repeats /\ walk'.watched = walk.watched \ {i}
        /\ walk'.inserted = walk.inserted /\ walk'.removed = walk.removed + 1
        /\ walk'.skew = IF walk.pc = "count" THEN walk.skew + 1 ELSE walk.skew
        /\ walk' \in Walk
    <3>1. walk.watched \subseteq Live /\ walk \in Walk
      BY DEF LInv, WalkInv, WalkFits, LTypeOK
    <3>2. walk.removed \in Nat /\ walk.inserted \in Nat /\ walk.skew \in Nat
      BY <3>1 DEF Walk
    <3>. QED BY <3>1, <3>2, NotedFields DEF LInv
  <2>2. /\ walk.removed \in Nat /\ walk.inserted \in Nat /\ walk.repeats \in Nat /\ walk.skew \in Nat
        /\ IsFiniteSet(walk.seen) /\ IsFiniteSet(walk.items) /\ Cardinality(walk.items) \in Nat
        /\ walk.watched \subseteq Live /\ IsFiniteSet(walk.watched)
    BY ListsConstants, FS_Subset, FS_CardinalityType DEF LInv, LTypeOK, Walk, WalkInv, WalkFits
  <2>3. /\ Fetched' = Fetched /\ Walking' /\ \A n : Due(n)' = Due(n)
        /\ Skip(walk.page, walk.limit)' = Skip(walk.page, walk.limit)
    BY <2>1 DEF Fetched, Walking, Due, Skip
  <2>4. /\ Numbers(createdAt, Live) /\ Apart(createdAt, Live \cap Lones) /\ Fetched \in Nat
        /\ Terms /\ Lones' = Lones
    <3>1. walk.watched \subseteq Ids
      BY DEF LInv, LTypeOK, Walk
    <3>. QED BY <3>1, LiveNumbered, FetchedType, AloneSame, WalkTerms DEF LInv
  <2>10. walk \in Walk
    BY DEF LInv, LTypeOK
  <2>5. /\ Missed' = MissedOf(createdAt, Lones, Live \ {i}, walk.watched \ {i}, walk.seen, Fetched)
        /\ Ahead' = AheadOf(createdAt, Lones, Live \ {i}, walk.seen, Fetched)
    <3>1. (walk.watched \subseteq Ids)' => Terms'
      BY WalkTerms, PTL
    <3>2. walk'.watched \subseteq Ids
      BY <2>1 DEF Walk
    <3>. QED BY <2>1, <2>3, <2>4, <3>1, <3>2 DEF Terms
  <2>6. WalkFits'
    <3>1. list \in Forwarding => Cardinality(Missed') <= walk.removed + 1
      <4>1. /\ Cardinality(Missed') <= Cardinality(Missed) + 1
            /\ Cardinality(Missed') \in Nat /\ Cardinality(Missed) \in Nat
        BY <2>2, <2>4, <2>5, MissedOfFewer DEF Terms
      <4>. QED BY <2>2, <4>1 DEF LInv, WalkInv, WalkFits
    <3>2. list \in Forwarding => Cardinality(Ahead') + walk.repeats <= walk.inserted
      <4>1. /\ Cardinality(Ahead') <= Cardinality(Ahead)
            /\ Cardinality(Ahead') \in Nat /\ Cardinality(Ahead) \in Nat
        BY <2>4, <2>5, AheadOfFewer DEF Terms
      <4>. QED BY <2>2, <4>1 DEF LInv, WalkInv, WalkFits
    <3>3. walk.pc # "idle"
      BY DEF Walking
    <3>4. /\ Cardinality(Overlooked') <= Cardinality(Overlooked)
          /\ Cardinality(Overlooked') \in Nat /\ Cardinality(Overlooked) \in Nat
      <4>1. Overlooked' \in SUBSET Overlooked
        BY <2>1, AloneSame DEF Overlooked
      <4>. QED BY <2>10, <4>1, Finite, FS_Subset, FS_CardinalityType DEF Sizes
    <3>5. list \in Forwarding /\ walk.pc = "shown" /\ walk.total <= Skip(walk.page, walk.limit) + walk.limit =>
             Cardinality(Overlooked') <= walk.removed + 1
      BY <2>1, <2>2, <3>4 DEF LInv, WalkInv, WalkFits
    <3>6. walk.watched \ {i} \subseteq Live'
      BY <2>2
    <3>. QED BY <2>1, <2>2, <2>3, <3>1, <3>2, <3>3, <3>5, <3>6 DEF WalkFits
  <2>7. CountFits'
    <3>1. Cardinality(Live') \in Nat /\ Cardinality(Live) = Cardinality(Live') + 1
      <4>1. /\ IsFiniteSet(Live) /\ IsFiniteSet(Live') /\ Cardinality(Live') = Cardinality(Live) - 1
        BY <2>4, FS_RemoveElement DEF Numbers
      <4>2. Cardinality(Live) \in Nat /\ Cardinality(Live') \in Nat
        BY <4>1, FS_CardinalityType
      <4>. QED BY <4>1, <4>2
    <3>2. Due(Cardinality(Live')) \in Nat
          /\ Due(Cardinality(Live)) \in {Due(Cardinality(Live')), Due(Cardinality(Live')) + 1}
      BY <3>1, DueOfMore DEF LInv
    <3>3. Due(Cardinality(Live))' = Due(Cardinality(Live'))
      BY <2>1 DEF Due, Skip
    <3>. QED BY <2>1, <2>2, <3>2, <3>3 DEF LInv, WalkInv, CountFits
  <2>8. WalksRepeatOnlyForCreations'
    BY <2>1, <2>2 DEF LInv, WalkInv, WalksRepeatOnlyForCreations
  <2>9. WalksMissOnlyForRemovals' /\ TotalsFitTheirPage'
    BY <2>1, <2>3 DEF LInv, WalkInv, WalksMissOnlyForRemovals, TotalsFitTheirPage, Walking
  <2>. QED BY <2>6, <2>7, <2>8, <2>9 DEF WalkInv
<1>. QED BY <1>1, <1>2

(***************************************************************************)
(* The steps of the walk.                                                  *)
(***************************************************************************)
\* What an answer to a list may be.
LEMMA ServedRows ==
    ASSUME LTypeOK, RowsFit, NEW items \in Served
    PROVE  /\ items \subseteq Kept
           /\ list \in Forwarding => items \in Pages(Live, createdAt, walk.page, walk.limit)
<1>. DEFINE Shown(L) == \E stamp, page, limit : items \in Pages(L, stamp, page, limit)
<1>0. Live \subseteq Kept /\ \A L : Shown(L) => items \subseteq L
  BY DEF Live, Kept, Stored, Pages, Page, Orders, Injection
<1>1. CASE list \in {"users", "departments"}
  <2>1. items \in Pages(Live, createdAt, walk.page, walk.limit)
    BY <1>1 DEF Served, FindUsers, FindDepartments, UsersPage, DepartmentsPage, NotDeleted
  <2>. QED BY <1>0, <2>1
<1>2. CASE list \in {"roles", "whitelist"}
  <2>1. Kept = Live
    BY <1>2, LiveNumbered DEF Soft
  <2>2. items \in Pages(Kept, createdAt, walk.page, walk.limit)
    BY <1>2 DEF Served, FindRoles, FindWhitelist, RolesPage, WhitelistPage
  <2>. QED BY <1>0, <2>1, <2>2
<1>3. CASE list \in {"permissions", "attributes"}
  <2>1. Shown(Kept)
    BY <1>3 DEF Served, FindPermissions, PermissionsPage, FindAttributes, AttributesPage
  <2>. QED BY <1>0, <1>3, <2>1 DEF Forwarding
<1>. QED BY <1>1, <1>2, <1>3 DEF LTypeOK, Paged

\* A walk that ends was told of no row behind its last page.
LEMMA LastPage ==
    ASSUME NEW page \in Nat \ {0}, NEW limit \in Nat \ {0}, NEW total \in Nat,
           ~(page < (total + limit - 1) \div limit)
    PROVE  total <= Skip(page, limit) + limit
<1>. DEFINE d == (total + limit - 1) \div limit
            m == (total + limit - 1) % limit
<1>1. d \in Int /\ m \in 0..(limit - 1) /\ total + limit - 1 = d * limit + m
  OBVIOUS
<1>. HIDE DEF d, m
<1>2. d <= page
  BY <1>1 DEF d
<1>3. d * limit <= page * limit
  BY <1>1, <1>2
<1>4. page * limit = (page - 1) * limit + limit /\ page * limit \in Int /\ d * limit \in Int
  BY <1>1
<1>. QED BY <1>1, <1>3, <1>4 DEF Skip

\* A walk begins with nothing missed, repeated or shown.
LEMMA StartStep == ASSUME LInv, Start PROVE LInv'
<1>. USE DEF Start
<1>1. PICK limit \in Limits : walk' = [walk EXCEPT !.pc = "find", !.limit = limit, !.watched = Live]
  OBVIOUS
<1>2. /\ walk \in Walk /\ walk.pc = "idle" /\ walk.page = 1 /\ walk.seen = {} /\ walk.repeats = 0
      /\ walk.inserted = 0 /\ walk.removed = 0 /\ limit \in Nat \ {0} /\ Live \in SUBSET Ids
  BY ListsConstants DEF LInv, LTypeOK, WalkInv, WalkFits, Live
<1>3. /\ walk' \in Walk /\ walk'.pc = "find" /\ walk'.page = 1 /\ walk'.seen = {} /\ walk'.repeats = 0
      /\ walk'.inserted = 0 /\ walk'.removed = 0 /\ walk'.watched = Live /\ walk'.items = walk.items
  BY <1>1, <1>2 DEF Walk
<1>4. Live' = Live /\ Fetched' = 0
  <2>1. walk'.limit \in Nat
    BY <1>3 DEF Walk
  <2>2. (1 - 1) * walk'.limit = 0
    BY <2>1
  <2>. QED BY <1>3, <2>2 DEF Live, Fetched, Skip
<1>5. Missed' = {} /\ Ahead' = {}
  <2>1. Missed' \subseteq {i \in walk'.watched \ walk'.seen : Pos(createdAt', Live', i) < Fetched'}
    BY DEF Missed, Overlooked, Position, Pos, Before
  <2>2. \A i : Pos(createdAt, Live, i) \in Nat
    BY PosType, LiveNumbered DEF LInv
  <2>3. Missed' = {}
    BY <1>4, <2>1, <2>2
  <2>. QED BY <1>3, <2>3 DEF Ahead
<1>8. WalkInv'
  <2>1. WalkFits'
    BY <1>3, <1>4, <1>5, FS_EmptySet DEF WalkFits
  <2>. QED BY <1>3, <2>1 DEF WalkInv, CountFits, WalksMissOnlyForRemovals,
                                          WalksRepeatOnlyForCreations, TotalsFitTheirPage
<1>9. LTypeOK' /\ RowsFit' /\ RemovedByOne'
  BY <1>2, <1>3 DEF LInv, LTypeOK, RowsFit, RequestFits, RemovedByOne, Writing, Created
<1>. QED BY <1>8, <1>9 DEF LInv

\* A page is fetched: what it shows is no longer missed, and what it shows again was ahead.
LEMMA FindManyStep == ASSUME LInv, FindMany PROVE LInv'
<1>. USE DEF FindMany
<1>1. PICK items \in Served :
          walk' = [walk EXCEPT !.pc = "count", !.items = items, !.skew = 0, !.seen = @ \cup items,
                               !.repeats = @ + Cardinality({i \in items \cap walk.seen : Alone(i)})]
  OBVIOUS
<1>. DEFINE again == {i \in items \cap walk.seen : Alone(i)}
<1>2. /\ items \subseteq Kept
      /\ list \in Forwarding => items \in Pages(Live, createdAt, walk.page, walk.limit)
  BY ServedRows DEF LInv
<1>3. /\ walk \in Walk /\ walk.pc = "find" /\ items \subseteq Ids
      /\ IsFiniteSet(walk.seen) /\ IsFiniteSet(again)
      /\ Cardinality(again) \in Nat
      /\ walk.repeats \in Nat /\ walk.inserted \in Nat /\ walk.removed \in Nat
  <2>1. items \subseteq Ids /\ again \in SUBSET Ids
    BY <1>2 DEF Kept
  <2>. HIDE DEF again
  <2>. QED BY <2>1, ListsConstants, FS_Subset, FS_CardinalityType DEF FindMany, LInv, LTypeOK, Walk
<1>4. /\ walk' \in Walk /\ walk'.pc = "count" /\ walk'.page = walk.page /\ walk'.limit = walk.limit
      /\ walk'.seen = walk.seen \cup items /\ walk'.watched = walk.watched /\ walk'.items = items
      /\ walk'.repeats = walk.repeats + Cardinality(again) /\ walk'.skew = 0
      /\ walk'.inserted = walk.inserted /\ walk'.removed = walk.removed
  <2>1. walk.seen \cup items \in SUBSET Ids /\ walk.repeats + Cardinality(again) \in Nat
    BY <1>3 DEF Walk
  <2>2. walk' \in Walk
    BY <1>1, <1>3, <2>1 DEF Walk
  <2>. QED BY <1>1, <1>3, <2>2 DEF Walk
<1>5. /\ Numbers(createdAt, Live) /\ Cardinality(Live) \in Nat /\ IsFiniteSet(Live)
      /\ Skip(walk.page, walk.limit) \in Nat /\ walk.limit \in Nat \ {0} /\ walk.page \in Nat \ {0}
  BY LiveNumbered, FetchedType, FS_CardinalityType DEF LInv, Numbers
<1>6. /\ Live' = Live /\ Fetched = Skip(walk.page, walk.limit)
      /\ Fetched' = Skip(walk.page, walk.limit) + walk.limit
  BY <1>3, <1>4 DEF Live, Fetched, Skip
<1>7. \A i : /\ Position(Live, i)' = Position(Live, i) /\ Alone(i)' = Alone(i)
             /\ Position(Live, i) \in Nat
  <2>1. \A i : Position(Live, i) = Pos(createdAt, Live, i)
    BY DEF Position, Pos, Before
  <2>2. \A i : Position(Live, i) \in Nat
    BY <1>5, <2>1, PosType
  <2>3. \A i : Position(Live, i)' = Position(Live, i) /\ Alone(i)' = Alone(i)
    BY <1>6, AloneSame DEF Position
  <2>. QED BY <2>2, <2>3
<1>8. ASSUME list \in Forwarding
      PROVE  /\ Cardinality(Missed') <= walk.removed
             /\ Cardinality(Ahead') + walk'.repeats <= walk.inserted
  <2>1. /\ IsFiniteSet(Missed) /\ IsFiniteSet(Ahead) /\ Cardinality(Missed) \in Nat /\ Cardinality(Ahead) \in Nat
        /\ walk.watched \subseteq Live /\ Cardinality(Missed) <= walk.removed
        /\ Cardinality(Ahead) + walk.repeats <= walk.inserted
    BY <1>3, <1>8, Finite DEF Sizes, LInv, WalkInv, WalkFits, Walking
  <2>2. ASSUME NEW i \in Live, Alone(i)
        PROVE  i \in items <=> Position(Live, i) >= Skip(walk.page, walk.limit)
                               /\ Position(Live, i) < Skip(walk.page, walk.limit) + walk.limit
    <3>1. Position(Live, i) = Pos(createdAt, Live, i)
      BY DEF Position, Pos, Before
    <3>2. \A j \in Live : createdAt[j] = createdAt[i] => j = i
      BY <2>2, LiveNumbered DEF LInv
    <3>3. i \in items <=> Pos(createdAt, Live, i) \in Skip(walk.page, walk.limit)..(Skip(walk.page, walk.limit) + walk.limit - 1)
      <4>. HIDE DEF FindMany
      <4>. QED BY <1>2, <1>5, <1>8, <3>2, OnPage
    <3>. QED BY <1>5, <1>7, <3>1, <3>3
  <2>3. Missed' \in SUBSET Missed
    BY <1>4, <1>5, <1>6, <1>7, <2>1, <2>2 DEF Missed, Overlooked
  <2>4. items \subseteq Live
    <3>. HIDE DEF FindMany
    <3>. QED BY <1>2, <1>5, <1>8, PageHolds
  <2>5. Ahead' \cup again \in SUBSET Ahead /\ Ahead' \cap again = {}
    BY <1>4, <1>5, <1>6, <1>7, <2>2, <2>4 DEF Ahead
  <2>6. Cardinality(Missed') <= walk.removed
    <3>1. Cardinality(Missed') <= Cardinality(Missed) /\ Cardinality(Missed') \in Nat
      BY <2>1, <2>3, FS_Subset, FS_CardinalityType
    <3>. QED BY <1>3, <2>1, <3>1
  <2>7. Cardinality(Ahead') + Cardinality(again) <= Cardinality(Ahead) /\ Cardinality(Ahead') \in Nat
    <3>1. IsFiniteSet(Ahead') /\ Cardinality(Ahead') \in Nat
      BY <2>1, <2>5, FS_Subset, FS_CardinalityType
    <3>2. Cardinality(Ahead' \cup again) <= Cardinality(Ahead)
      BY <2>1, <2>5, FS_Subset
    <3>3. Cardinality(Ahead' \cup again)
          = Cardinality(Ahead') + Cardinality(again) - Cardinality({})
      BY <1>3, <2>5, <3>1, FS_Union
    <3>. QED BY <1>3, <3>1, <3>2, <3>3, FS_EmptySet
  <2>. QED BY <1>3, <1>4, <2>1, <2>6, <2>7
<1>9. WalkFits'
  BY <1>3, <1>4, <1>6, <1>8 DEF LInv, WalkInv, WalkFits, Walking
<1>10. CountFits'
  <2>1. list \in Forwarding => Cardinality(items) = Due(Cardinality(Live)) /\ Cardinality(items) \in Nat
    <3>. HIDE DEF FindMany
    <3>1. ASSUME list \in Forwarding
          PROVE  /\ IsFiniteSet(items)
                 /\ Cardinality(items) =
                      IF Cardinality(Live) <= Skip(walk.page, walk.limit) THEN 0
                      ELSE IF Cardinality(Live) <= Skip(walk.page, walk.limit) + walk.limit
                           THEN Cardinality(Live) - Skip(walk.page, walk.limit)
                      ELSE walk.limit
      BY <1>2, <1>5, <3>1, PageHolds
    <3>. QED BY <1>5, <3>1, FS_CardinalityType DEF Due
  <2>2. Due(Cardinality(Live))' = Due(Cardinality(Live))
    BY <1>4, <1>6 DEF Due, Skip
  <2>. QED BY <1>4, <2>1, <2>2 DEF CountFits
<1>11. WalksRepeatOnlyForCreations'
  <2>1. list \in Forwarding => Cardinality(Ahead') \in Nat
    BY <1>4, FiniteNext DEF Sizes
  <2>. QED BY <1>3, <1>4, <1>8, <2>1 DEF WalksRepeatOnlyForCreations
<1>12. WalkInv'
  BY <1>4, <1>9, <1>10, <1>11 DEF WalkInv, WalksMissOnlyForRemovals, TotalsFitTheirPage
<1>13. LTypeOK' /\ RemovedByOne'
  BY <1>4 DEF LInv, LTypeOK, RemovedByOne
<1>14. RowsFit'
  BY <1>2, <1>4 DEF LInv, RowsFit, RequestFits, Writing, Created, Kept, Stored
<1>. QED BY <1>12, <1>13, <1>14 DEF LInv

\* The total is counted: if it fits the pages so far, all rows that stood are on them.
LEMMA CountStep == ASSUME LInv, Count PROVE LInv'
<1>. USE DEF Count
<1>1. /\ walk \in Walk /\ walk.pc = "count" /\ Cardinality(Live) \in Nat /\ Numbers(createdAt, Live)
      /\ walk.watched \subseteq Live
  BY LiveNumbered, FS_CardinalityType DEF LInv, LTypeOK, Numbers, WalkInv, WalkFits, Walking
<1>2. /\ walk' \in Walk /\ walk'.pc = "shown" /\ walk'.page = walk.page /\ walk'.limit = walk.limit
      /\ walk'.seen = walk.seen /\ walk'.watched = walk.watched /\ walk'.items = walk.items
      /\ walk'.repeats = walk.repeats /\ walk'.skew = walk.skew /\ walk'.total = Cardinality(Live)
      /\ walk'.inserted = walk.inserted /\ walk'.removed = walk.removed
  BY <1>1 DEF Walk
<1>3. /\ Live' = Live /\ Fetched' = Fetched /\ Fetched = Skip(walk.page, walk.limit) + walk.limit
      /\ \A n : Due(n)' = Due(n)
  BY <1>1, <1>2 DEF Live, Fetched, Due, Skip
<1>4. Missed' = Missed /\ Ahead' = Ahead /\ Overlooked' = Overlooked
  BY <1>2, <1>3, AloneSame DEF Missed, Ahead, Overlooked, Position
<1>5. Cardinality(Live) <= Fetched => Overlooked = Missed
  <2>1. \A i \in Live : Position(Live, i) \in Nat /\ Position(Live, i) < Cardinality(Live)
    BY <1>1, PosType DEF Position, Pos, Before
  <2>2. Fetched \in Nat
    BY FetchedType DEF LInv
  <2>. QED BY <1>1, <2>1, <2>2 DEF Missed, Overlooked
<1>6. WalkFits'
  BY <1>1, <1>2, <1>3, <1>4, <1>5 DEF LInv, WalkInv, WalkFits, Walking, Skip
<1>7. TotalsFitTheirPage'
  BY <1>1, <1>2, <1>3 DEF LInv, WalkInv, CountFits, TotalsFitTheirPage
<1>8. WalksRepeatOnlyForCreations' /\ CountFits' /\ WalksMissOnlyForRemovals'
  BY <1>1, <1>2, <1>4 DEF LInv, WalkInv, WalksRepeatOnlyForCreations,
     CountFits, WalksMissOnlyForRemovals, Walking
<1>9. LTypeOK' /\ RowsFit' /\ RemovedByOne'
  BY <1>2 DEF LInv, LTypeOK, RowsFit, RequestFits, RemovedByOne, Writing, Created
<1>. QED BY <1>6, <1>7, <1>8, <1>9 DEF LInv, WalkInv

\* The client goes on to the next page, or has come to the last.
LEMMA TurnStep == ASSUME LInv, Turn PROVE LInv'
<1>. USE DEF Turn
<1>1. /\ walk \in Walk /\ walk.pc = "shown" /\ Live' = Live
      /\ walk.page \in Nat \ {0} /\ walk.limit \in Nat \ {0} /\ walk.total \in Nat
  BY DEF LInv, LTypeOK, Walk, Live
<1>2. CASE walk.page < TotalPages
  <2>1. /\ walk' \in Walk /\ walk'.pc = "find" /\ walk'.page = walk.page + 1 /\ walk'.limit = walk.limit
        /\ walk'.seen = walk.seen /\ walk'.watched = walk.watched /\ walk'.items = {}
        /\ walk'.repeats = walk.repeats
        /\ walk'.inserted = walk.inserted /\ walk'.removed = walk.removed
    <3>1. PICK page \in Nat \ {0} : page = walk.page + 1
      BY <1>1
    <3>2. PICK none \in SUBSET Ids : none = {}
      OBVIOUS
    <3>3. walk' = [walk EXCEPT !.pc = "find", !.page = page, !.items = none, !.total = 0]
      BY <1>2, <3>1, <3>2
    <3>4. walk' \in Walk
      <4>. HIDE DEF Turn
      <4>. QED BY <1>1, <3>3 DEF Walk
    <3>. QED BY <1>1, <3>1, <3>2, <3>3, <3>4 DEF Walk
  <2>2. Fetched' = Fetched
    <3>1. (walk.page + 1 - 1) * walk.limit = (walk.page - 1) * walk.limit + walk.limit
      BY <1>1
    <3>. QED BY <1>1, <2>1, <3>1 DEF Fetched, Skip
  <2>3. Missed' = Missed /\ Ahead' = Ahead /\ Overlooked' = Overlooked
    BY <1>1, <2>1, <2>2, AloneSame DEF Missed, Ahead, Overlooked, Position
  <2>4. WalkInv'
    BY <1>1, <2>1, <2>3 DEF LInv, WalkInv, WalkFits, CountFits,
       WalksMissOnlyForRemovals, WalksRepeatOnlyForCreations, TotalsFitTheirPage, Walking
  <2>. QED BY <2>1, <2>4 DEF LInv, LTypeOK, RowsFit, RequestFits, RemovedByOne, Writing, Created
<1>3. CASE ~(walk.page < TotalPages)
  <2>1. /\ walk' \in Walk /\ walk'.pc = "done" /\ walk'.page = walk.page /\ walk'.limit = walk.limit
        /\ walk'.seen = walk.seen /\ walk'.watched = walk.watched /\ walk'.items = walk.items
        /\ walk'.repeats = walk.repeats /\ walk'.skew = walk.skew /\ walk'.total = walk.total
        /\ walk'.inserted = walk.inserted /\ walk'.removed = walk.removed
    BY <1>1, <1>3 DEF Walk
  <2>2. walk.total <= Skip(walk.page, walk.limit) + walk.limit
    BY <1>1, <1>3, LastPage DEF TotalPages
  <2>3. WalksMissOnlyForRemovals'
    <3>1. Overlooked' = Overlooked
      BY <2>1, AloneSame DEF Overlooked
    <3>. QED BY <1>1, <2>1, <2>2, <3>1 DEF LInv, WalkInv, WalkFits, WalksMissOnlyForRemovals
  <2>4. TotalsFitTheirPage'
    BY <1>1, <2>1 DEF LInv, WalkInv, TotalsFitTheirPage, Due, Skip
  <2>5. WalkInv'
    BY <1>1, <2>1, <2>3, <2>4 DEF LInv, WalkInv, WalkFits, CountFits,
       WalksRepeatOnlyForCreations, Walking
  <2>. QED BY <2>1, <2>5 DEF LInv, LTypeOK, RowsFit, RequestFits, RemovedByOne, Writing, Created
<1>. QED BY <1>2, <1>3

\* A list that fails shows nothing more.
LEMMA FailListStep == ASSUME LInv, FailList PROVE LInv'
<1>. USE DEF FailList
<1>1. walk \in Walk /\ walk.pc \in {"find", "count"}
  BY DEF LInv, LTypeOK
<1>2. /\ walk' \in Walk /\ walk'.pc = "failed" /\ walk'.seen = walk.seen /\ walk'.items = walk.items
      /\ walk'.repeats = walk.repeats /\ walk'.inserted = walk.inserted /\ walk'.removed = walk.removed
  BY <1>1 DEF Walk
<1>3. WalkInv'
  BY <1>2 DEF LInv, WalkInv, WalkFits, CountFits,
     WalksMissOnlyForRemovals, WalksRepeatOnlyForCreations, TotalsFitTheirPage, Walking
<1>. QED BY <1>2, <1>3 DEF LInv, LTypeOK, RowsFit, RequestFits, RemovedByOne, Writing, Created

(***************************************************************************)
(* The steps of the requests.                                              *)
(***************************************************************************)
Known == {"live", "deleted", "gone"}

\* The answers, as handlePrismaError and the filter make them.
LEMMA Codes ==
    /\ Failure("P2002") = [status |-> 409, errorCode |-> "HTTP_EXCEPTION"]
    /\ Failure("P2025") = [status |-> 404, errorCode |-> "HTTP_EXCEPTION"]
    /\ Failure("P2024") = [status |-> 500, errorCode |-> "HTTP_EXCEPTION"]
    /\ Failure("P2034") = [status |-> 409, errorCode |-> "DB_CON_001"]
    /\ Unacknowledged = [status |-> 500, errorCode |-> "HTTP_EXCEPTION"]
    /\ Caught(Http(404)) = [status |-> 404, errorCode |-> "HTTP_EXCEPTION"]
    /\ Ok = [status |-> 200, errorCode |-> "none"]
BY DEF Failure, Caught, handlePrismaError, PrismaError, Http, AppException, NotFoundCodes, InvalidCodes,
       ERROR_REGISTRY, Ok, Unacknowledged

\* Every answer is one, and Ok is none of the others.
LEMMA Answering ==
    /\ \A code \in FailureCodes \cup {"P2002", "P2025"} :
           /\ Failure(code) \in Answers /\ Failure(code) # Ok
           /\ Failure(code).status = 404 <=> code = "P2025"
           /\ Failure(code) = Failure("P2002") <=> code = "P2002"
    /\ Caught(Http(404)) \in Answers /\ Caught(Http(404)) # Ok /\ Caught(Http(404)) # Failure("P2002")
    /\ Ok \in Answers /\ Ok.status # 404 /\ Ok # Failure("P2002") /\ Ok # None /\ Ok.status \notin 400..499
    /\ Unacknowledged \in Answers /\ Unacknowledged # Ok /\ Unacknowledged # Failure("P2002")
    /\ Unacknowledged.status # 404 /\ Unacknowledged.status \notin 400..499
<1>2. \A code \in FailureCodes \cup {"P2002", "P2025"} :
          code \in {"P2024", "P2034", "P2002", "P2025"}
  BY DEF FailureCodes
<1>3. /\ Failure("P2002").status = 409 /\ Failure("P2002").errorCode = "HTTP_EXCEPTION"
      /\ Failure("P2025").status = 404 /\ Failure("P2024").status = 500
      /\ Failure("P2034").status = 409 /\ Failure("P2034").errorCode = "DB_CON_001"
      /\ Caught(Http(404)).status = 404 /\ Ok.status = 200 /\ Unacknowledged.status = 500
  BY Codes
<1>4. /\ Failure("P2002") \in Answers /\ Failure("P2025") \in Answers /\ Failure("P2024") \in Answers
      /\ Failure("P2034") \in Answers /\ Caught(Http(404)) \in Answers /\ Ok \in Answers
      /\ Unacknowledged \in Answers
  <2>1. /\ [status |-> 409, errorCode |-> "HTTP_EXCEPTION"] \in Answers
        /\ [status |-> 404, errorCode |-> "HTTP_EXCEPTION"] \in Answers
        /\ [status |-> 500, errorCode |-> "HTTP_EXCEPTION"] \in Answers
        /\ [status |-> 409, errorCode |-> "DB_CON_001"] \in Answers
        /\ [status |-> 200, errorCode |-> "none"] \in Answers
    BY DEF Answers
  <2>. QED BY <2>1, Codes
<1>5. 200 \notin 400..499 /\ 500 \notin 400..499
  OBVIOUS
<1>. QED BY <1>2, <1>3, <1>4, <1>5, NoneIsNone

\* What answering does to the requests.
LEMMA AnsweredFields ==
    ASSUME LTypeOK, NEW q \in Requests, requests[q] # None, NEW a \in Answers, Answered(q, a)
    PROVE  /\ requests' \in [Requests -> Request \cup {None}]
           /\ requests'[q].op = requests[q].op /\ requests'[q].id = requests[q].id
           /\ requests'[q].key = requests[q].key
           /\ requests'[q].pc = "done" /\ requests'[q].answer = a
           /\ \A r \in Requests \ {q} : requests'[r] = requests[r]
           /\ requests[q] \in Request
<1>1. requests[q] \in Request
  BY DEF LTypeOK
<1>2. requests' = [requests EXCEPT ![q] = [requests[q] EXCEPT !.pc = "done", !.answer = a]]
  BY <1>1 DEF Answered, LTypeOK, Request
<1>3. [requests[q] EXCEPT !.pc = "done", !.answer = a] \in Request
  BY <1>1 DEF Request
<1>. QED BY <1>1, <1>2, <1>3 DEF LTypeOK, Request

\* What asking does to them.
LEMMA AskFields ==
    ASSUME LTypeOK, NEW q \in Requests, NEW op \in {"create", "update", "remove"}, NEW i \in Ids, NEW k \in Keys,
           NEW pc \in {"check", "write"}, Ask(q, op, i, k, pc)
    PROVE  /\ requests' \in [Requests -> Request \cup {None}]
           /\ requests'[q] = [op |-> op, id |-> i, key |-> k, pc |-> pc, answer |-> None]
           /\ requests[q] = None /\ requests'[q] # None
           /\ \A r \in Requests \ {q} : requests'[r] = requests[r]
<1>1. [op |-> op, id |-> i, key |-> k, pc |-> pc, answer |-> None] \in Request
  BY DEF Request
<1>. QED BY <1>1, NoneIsNone DEF Ask, LTypeOK

\* The invariant of rows and requests after a step of one request.
LEMMA OneRequest ==
    ASSUME LInv, NEW q \in Requests, UNCHANGED list, walk'.seen = walk.seen, walk'.items = walk.items,
           \A r \in Requests \ {q} : requests'[r] = requests[r],
           rows' \in [Ids -> Row],
           \A i \in Ids : rows[i].state \in Known => rows'[i].state \in Known,
           \A i \in Ids : rows[i].state = "gone" => rows'[i].state = "gone",
           list \notin Soft => \A i \in Ids : rows'[i].state # "deleted",
           \A r \in Requests \ {q} : Writing(r, "create") => rows'[requests[r].id] = rows[requests[r].id],
           RequestFits(q)',
           Writing(q, "create")' =>
               \A r \in Requests \ {q} : Writing(r, "create") => requests[r].id # requests'[q].id,
           \A i \in Ids : i \in Created' <=> rows'[i].state # "unused"
    PROVE  RowsFit'
<1>1. ASSUME NEW r \in Requests \ {q} PROVE RequestFits(r)' /\ (Writing(r, "create")' <=> Writing(r, "create"))
  <2>1. RequestFits(r) /\ requests'[r] = requests[r]
    BY DEF LInv, RowsFit
  <2>2. Writing(r, "create")' <=> Writing(r, "create")
    BY <2>1 DEF Writing
  <2>3. requests[r] # None => requests[r].id \in Ids
    BY DEF LInv, LTypeOK, Request
  <2>. QED BY <2>1, <2>2, <2>3 DEF RequestFits, Known
<1>2. \A r \in Requests : RequestFits(r)'
  BY <1>1
<1>3. \A r, s \in Requests :
          Writing(r, "create")' /\ Writing(s, "create")' /\ requests'[r].id = requests'[s].id => r = s
  BY <1>1 DEF LInv, RowsFit
<1>4. \A i \in walk'.seen \cup walk'.items : rows'[i].state \in {"live", "deleted", "gone"}
  BY DEF LInv, LTypeOK, Walk, RowsFit, Known
<1>. QED BY <1>2, <1>3, <1>4 DEF RowsFit

\* No new success of a removal: at most one remains.
LEMMA NoneRemoved ==
    ASSUME LInv, NEW q \in Requests, UNCHANGED list, \A r \in Requests \ {q} : requests'[r] = requests[r],
           ~(requests'[q].op = "remove" /\ requests'[q].answer = Ok)
    PROVE  RemovedByOne'
BY DEF LInv, RemovedByOne

\* A new row, the newest: it waits for its request.
LEMMA CreateStep ==
    ASSUME LInv, NEW q \in Requests, NEW i \in Ids, NEW k \in Keys, Create(q, i, k)
    PROVE  LInv'
<1>. USE DEF Create
<1>. DEFINE row == [state |-> "stamped", key |-> k]
<1>1. /\ requests' \in [Requests -> Request \cup {None}]
      /\ requests'[q] = [op |-> "create", id |-> i, key |-> k, pc |-> "write", answer |-> None]
      /\ requests[q] = None
      /\ \A r \in Requests \ {q} : requests'[r] = requests[r]
  BY AskFields DEF LInv
<1>2. row \in Row
  BY DEF Row
<1>3. /\ rows' \in [Ids -> Row] /\ rows'[i] = row /\ \A j \in Ids \ {i} : rows'[j] = rows[j]
      /\ rows[i].state = "unused"
  BY <1>2 DEF LInv, LTypeOK
<1>. HIDE DEF row
<1>4. i \notin Created
  BY <1>3 DEF LInv, RowsFit
<1>5. /\ createdAt' \in [Ids -> Nat] /\ createdAt'[i] > 0
      /\ \A j \in Ids \ {i} : createdAt'[j] = createdAt[j]
  <2>1. PICK now \in 1..Cardinality(Ids) : createdAt' = [createdAt EXCEPT ![i] = now]
    OBVIOUS
  <2>2. now \in Nat /\ now > 0
    BY ListsConstants, FS_CardinalityType
  <2>. QED BY <2>1, <2>2 DEF LInv, LTypeOK
<1>6. Created' = Created \cup {i}
  BY <1>5 DEF Created
<1>8. \A j \in Created : createdAt'[j] = createdAt[j] /\ j # i
  BY <1>4, <1>5 DEF Created
<1>10. Live' = Live /\ i \notin Live
  BY <1>3 DEF Live, row
<1>11. WalkInv'
  <2>1. \A j \in Ids : Alone(j)' => Alone(j)
    BY <1>5, <1>6, <1>8 DEF Alone, Created
  <2>. QED BY <1>5, <1>10, <2>1, Still DEF Live
<1>12. RequestFits(q)' /\ Writing(q, "create")'
  <2>1. requests'[q] # None
    BY AskFields DEF LInv
  <2>. QED BY <1>1, <1>3, <2>1 DEF RequestFits, Writing, row
<1>13. \A r \in Requests \ {q} : Writing(r, "create") => requests[r].id # i /\ requests[r].id \in Ids
  <2>1. SUFFICES ASSUME NEW r \in Requests, Writing(r, "create")
                 PROVE  requests[r].id # i /\ requests[r].id \in Ids
    OBVIOUS
  <2>2. requests[r] \in Request /\ rows[requests[r].id].state = "stamped"
    <3>1. requests[r] # None /\ RequestFits(r)
      BY <2>1 DEF LInv, RowsFit, Writing
    <3>2. requests[r] \in Request
      BY <3>1 DEF LInv, LTypeOK
    <3>. QED BY <2>1, <3>1, <3>2 DEF RequestFits
  <2>. QED BY <1>3, <2>2 DEF Request
<1>14. RowsFit'
  <2>1. \A j \in Ids : j \in Created' <=> rows'[j].state # "unused"
    BY <1>3, <1>6 DEF LInv, RowsFit, row
  <2>2. list \notin Soft => \A j \in Ids : rows'[j].state # "deleted"
    BY <1>3 DEF LInv, RowsFit, row
  <2>3. \A j \in Ids : rows[j].state \in Known => rows'[j] = rows[j]
    BY <1>3 DEF Known
  <2>. QED BY <1>1, <1>3, <1>12, <1>13, <2>1, <2>2, <2>3, OneRequest DEF Known
<1>15. RemovedByOne'
  BY <1>1, NoneRemoved
<1>16. LTypeOK'
  BY <1>1, <1>3, <1>5 DEF LInv, LTypeOK
<1>. QED BY <1>11, <1>14, <1>15, <1>16 DEF LInv

\* A request for a change of a row its client knows.
LEMMA ChangeStep ==
    ASSUME LInv, NEW q \in Requests, NEW i \in Ids, NEW k \in Keys, NEW op \in {"update", "remove"},
           Change(q, op, i, k)
    PROVE  LInv'
<1>. USE DEF Change
<1>1. /\ requests' \in [Requests -> Request \cup {None}]
      /\ requests'[q].op = op /\ requests'[q].id = i /\ requests'[q].answer = None /\ requests'[q] # None
      /\ \A r \in Requests \ {q} : requests'[r] = requests[r]
  <2>1. PICK pc \in {"check", "write"} : Ask(q, op, i, k, pc)
    OBVIOUS
  <2>2. requests' \in [Requests -> Request \cup {None}]
        /\ requests'[q] = [op |-> op, id |-> i, key |-> k, pc |-> pc, answer |-> None]
        /\ requests'[q] # None /\ \A r \in Requests \ {q} : requests'[r] = requests[r]
    <3>. HIDE DEF Change
    <3>1. op \in {"create", "update", "remove"} /\ LTypeOK
      BY DEF LInv
    <3>. QED BY <2>1, <3>1, AskFields
  <2>. QED BY <2>2
<1>2. WalkInv'
  BY Still, AloneSame DEF Live
<1>3. RequestFits(q)' /\ ~Writing(q, "create")'
  BY <1>1, Answering DEF RequestFits, Writing
<1>4. RowsFit'
  BY <1>1, <1>3, OneRequest DEF LInv, LTypeOK, RowsFit, Created, Known
<1>5. RemovedByOne'
  BY <1>1, Answering, NoneRemoved
<1>. QED BY <1>1, <1>2, <1>4, <1>5 DEF LInv, LTypeOK

\* The read before the write touches nothing.
LEMMA CheckStep ==
    ASSUME LInv, NEW q \in Requests, Check(q)
    PROVE  LInv'
<1>. USE DEF Check
<1>1. /\ requests[q] # None /\ requests[q].pc = "check" /\ requests[q] \in Request /\ RequestFits(q)
      /\ UNCHANGED <<list, createdAt, rows, walk>>
  BY DEF LInv, LTypeOK, RowsFit
<1>2. /\ requests' \in [Requests -> Request \cup {None}]
      /\ requests'[q].op = requests[q].op /\ requests'[q].id = requests[q].id
      /\ requests'[q].answer \in {requests[q].answer, Caught(Http(404))}
      /\ requests'[q].pc # "check"
      /\ \A r \in Requests \ {q} : requests'[r] = requests[r]
  <2>1. CASE rows[requests[q].id].state = "live"
    <3>1. requests' = [requests EXCEPT ![q] = [requests[q] EXCEPT !.pc = "write"]]
      BY <1>1, <2>1 DEF LInv, LTypeOK, Request
    <3>2. [requests[q] EXCEPT !.pc = "write"] \in Request
      BY <1>1 DEF Request
    <3>. QED BY <1>1, <3>1, <3>2 DEF LInv, LTypeOK, Request
  <2>2. CASE rows[requests[q].id].state # "live"
    BY <1>1, <2>2, AnsweredFields, Answering DEF LInv
  <2>. QED BY <2>1, <2>2
<1>3. requests[q].op # "create" /\ requests[q].id \in Ids /\ rows[requests[q].id].state \in Known
  BY <1>1 DEF RequestFits, Request, Known
<1>4. RequestFits(q)' /\ ~Writing(q, "create")'
  BY <1>1, <1>2, <1>3, Answering DEF RequestFits, Writing, Known
<1>5. WalkInv'
  BY Still, AloneSame DEF Live
<1>6. RowsFit'
  <2>1. /\ Created' = Created /\ rows \in [Ids -> Row]
        /\ \A r \in Requests \ {q} : Writing(r, "create") => rows'[requests[r].id] = rows[requests[r].id]
    BY <1>1 DEF LInv, LTypeOK, Created
  <2>2. /\ \A j \in Ids : j \in Created' <=> rows'[j].state # "unused"
        /\ list \notin Soft => \A j \in Ids : rows'[j].state # "deleted"
    BY <1>1, <2>1 DEF LInv, RowsFit
  <2>. QED BY <1>1, <1>2, <1>4, <2>1, <2>2, OneRequest
<1>7. RemovedByOne'
  <2>1. CASE requests'[q].answer = Caught(Http(404))
    BY <1>2, <2>1, NoneRemoved, Answering
  <2>2. CASE requests'[q].answer = requests[q].answer
    BY <1>1, <1>2, <2>2 DEF LInv, RemovedByOne
  <2>. QED BY <1>2, <2>1, <2>2
<1>. QED BY <1>1, <1>2, <1>5, <1>6, <1>7 DEF LInv, LTypeOK

\* The row that a request creates is stamped and nobody else's.
LEMMA Creator ==
    ASSUME LInv, NEW q \in Requests, Writing(q, "create")
    PROVE  /\ requests[q] \in Request /\ requests[q] # None
           /\ rows[requests[q].id] = [state |-> "stamped", key |-> requests[q].key]
           /\ \A r \in Requests \ {q} : Writing(r, "create") => requests[r].id # requests[q].id
           /\ requests[q].id \in Ids /\ requests[q].key \in Keys
<1>1. requests[q] \in Request /\ RequestFits(q) /\ requests[q] # None
  BY DEF LInv, LTypeOK, RowsFit, Writing
<1>. QED BY <1>1 DEF LInv, RowsFit, RequestFits, Request

\* The row of a change was inserted, and is not one that another request creates.
LEMMA Changer ==
    ASSUME LInv, NEW q \in Requests, requests[q] # None, requests[q].op # "create"
    PROVE  /\ requests[q] \in Request /\ requests[q].id \in Ids /\ requests[q].key \in Keys
           /\ rows[requests[q].id].state \in Known
           /\ \A r \in Requests \ {q} : Writing(r, "create") => requests[r].id # requests[q].id
<1>1. requests[q] \in Request /\ RequestFits(q)
  BY DEF LInv, LTypeOK, RowsFit
<1>2. \A r \in Requests : Writing(r, "create") => rows[requests[r].id].state = "stamped"
  <2>1. SUFFICES ASSUME NEW r \in Requests, Writing(r, "create")
                 PROVE  rows[requests[r].id].state = "stamped"
    OBVIOUS
  <2>2. rows[requests[r].id] = [state |-> "stamped", key |-> requests[r].key]
    BY <2>1, Creator
  <2>. QED BY <2>2
<1>. QED BY <1>1, <1>2 DEF RequestFits, Request, Known

\* A write that shows and hides no row leaves the walk alone.
LEMMA NothingNoted ==
    ASSUME LInv, Live' = Live, Noted(0, 0) PROVE walk' = walk
<1>1. CASE Walking
  <2>1. walk.watched \subseteq Live /\ walk \in Walk
    BY <1>1 DEF LInv, LTypeOK, WalkInv, WalkFits
  <2>2. /\ walk' = [walk EXCEPT !.watched = @ \cap {i \in Ids : rows'[i].state = "live"},
                               !.inserted = @ + 0, !.removed = @ + 0,
                               !.skew = IF walk.pc = "count" THEN @ + 0 + 0 ELSE @]
    BY <1>1 DEF Noted
  <2>3. walk.watched \cap {i \in Ids : rows'[i].state = "live"} = walk.watched
    BY <2>1 DEF Live
  <2>4. walk.inserted + 0 = walk.inserted /\ walk.removed + 0 = walk.removed /\ walk.skew + 0 + 0 = walk.skew
    BY <2>1 DEF Walk
  <2>5. walk' = [walk EXCEPT !.watched = walk.watched, !.inserted = walk.inserted,
                             !.removed = walk.removed, !.skew = walk.skew]
    BY <2>2, <2>3, <2>4
  <2>. QED BY <2>1, <2>5 DEF Walk
<1>2. CASE ~Walking
  BY <1>2 DEF Noted
<1>. QED BY <1>1, <1>2

\* A row is inserted, unless its key is taken.
LEMMA InsertStep ==
    ASSUME LInv, NEW q \in Requests, Insert(q)
    PROVE  LInv'
<1>. DEFINE i == requests[q].id
            taken == Holders(requests[q].key) # {}
            new == IF taken THEN "gone" ELSE "live"
<1>1. /\ Writing(q, "create") /\ rows' = [rows EXCEPT ![i].state = new]
      /\ Told(q, IF taken THEN Failure("P2002") ELSE Ok)
      /\ Noted(IF taken THEN 0 ELSE 1, 0) /\ UNCHANGED <<list, createdAt>>
  BY DEF Insert
<1>2. /\ requests[q] \in Request /\ requests[q] # None /\ requests[q].op = "create"
      /\ rows[i] = [state |-> "stamped", key |-> requests[q].key] /\ i \in Ids /\ requests[q].key \in Keys
      /\ \A r \in Requests \ {q} : Writing(r, "create") => requests[r].id # i
  BY <1>1, Creator DEF Writing
<1>3. /\ requests' \in [Requests -> Request \cup {None}]
      /\ requests'[q].op = "create" /\ requests'[q].id = i /\ requests'[q].pc = "done"
      /\ \A r \in Requests \ {q} : requests'[r] = requests[r]
  <2>1. PICK a \in Answers : Answered(q, a)
    BY <1>1, Answering DEF Told
  <2>. QED BY <1>2, <2>1, AnsweredFields DEF LInv
<1>. HIDE DEF taken, i
<1>4. /\ rows' \in [Ids -> Row] /\ rows'[i].state = new /\ \A j \in Ids \ {i} : rows'[j] = rows[j]
  <2>1. [rows[i] EXCEPT !.state = new] \in Row
    BY <1>2 DEF Row
  <2>2. rows' = [rows EXCEPT ![i] = [rows[i] EXCEPT !.state = new]]
    BY <1>1, <1>2 DEF LInv, LTypeOK
  <2>3. rows'[i].state = new
    BY <1>2, <2>2 DEF LInv, LTypeOK
  <2>. QED BY <1>2, <2>1, <2>2, <2>3 DEF LInv, LTypeOK
<1>5. i \notin Live /\ i \notin walk.seen
  BY <1>2 DEF Live, LInv, RowsFit
<1>6. WalkInv' /\ walk'.seen = walk.seen /\ walk'.items = walk.items /\ walk' \in Walk
  <2>1. CASE taken
    <3>1. Live' = Live
      BY <1>2, <1>4, <1>5, <2>1 DEF Live
    <3>2. walk' = walk
      <4>1. Noted(0, 0)
        BY <1>1, <2>1
      <4>. QED BY <3>1, <4>1, NothingNoted
    <3>. QED BY <1>1, <3>1, <3>2, Still, AloneSame DEF LInv, LTypeOK
  <2>2. CASE ~taken
    <3>1. Live' = Live \cup {i}
      BY <1>2, <1>4, <2>2 DEF Live
    <3>2. Noted(1, 0)
      BY <1>1, <2>2
    <3>3. walk'.seen = walk.seen /\ walk'.items = walk.items /\ walk' \in Walk
      BY <3>2, NotedFields DEF Noted, LInv, LTypeOK
    <3>. QED BY <1>1, <1>2, <1>5, <3>1, <3>2, <3>3, Grow
  <2>. QED BY <2>1, <2>2
<1>7. RequestFits(q)' /\ ~Writing(q, "create")'
  BY <1>3 DEF RequestFits, Writing
<1>8. RowsFit'
  <2>1. Created' = Created
    BY <1>1 DEF Created
  <2>2. \A j \in Ids : j \in Created' <=> rows'[j].state # "unused"
    BY <1>2, <1>4, <2>1 DEF LInv, RowsFit
  <2>3. list \notin Soft => \A j \in Ids : rows'[j].state # "deleted"
    BY <1>4 DEF LInv, RowsFit
  <2>4. \A j \in Ids : rows[j].state \in Known => rows'[j] = rows[j]
    BY <1>2, <1>4 DEF Known
  <2>5. \A r \in Requests \ {q} : Writing(r, "create") => rows'[requests[r].id] = rows[requests[r].id]
    BY <1>2, <1>4, Creator
  <2>. QED BY <1>1, <1>3, <1>4, <1>6, <1>7, <2>2, <2>3, <2>4, <2>5, OneRequest DEF Known
<1>9. RemovedByOne'
  BY <1>1, <1>3, NoneRemoved
<1>. QED BY <1>1, <1>3, <1>4, <1>6, <1>8, <1>9 DEF LInv, LTypeOK

\* The key of a row changes, and nothing a list counts.
LEMMA UpdateStep ==
    ASSUME LInv, NEW q \in Requests, Update(q)
    PROVE  LInv'
<1>. DEFINE i == requests[q].id
<1>1. /\ Writing(q, "update") /\ UNCHANGED <<list, createdAt, walk>>
      /\ rows' \in {rows, [rows EXCEPT ![i].key = requests[q].key]}
      /\ \E a \in {Failure("P2025"), Failure("P2002"), Ok, Unacknowledged} : Answered(q, a)
  BY DEF Update, Told
<1>2. /\ requests[q] \in Request /\ requests[q] # None /\ requests[q].op = "update" /\ i \in Ids
      /\ requests[q].key \in Keys /\ rows[i].state \in Known
      /\ \A r \in Requests \ {q} : Writing(r, "create") => requests[r].id # i
  BY <1>1, Changer DEF Writing
<1>3. /\ requests' \in [Requests -> Request \cup {None}]
      /\ requests'[q].op = "update" /\ requests'[q].id = i /\ requests'[q].pc = "done"
      /\ \A r \in Requests \ {q} : requests'[r] = requests[r]
  <2>1. PICK a \in Answers : Answered(q, a)
    BY <1>1, Answering
  <2>. QED BY <1>2, <2>1, AnsweredFields DEF LInv
<1>. HIDE DEF i
<1>4. /\ rows' \in [Ids -> Row] /\ \A j \in Ids : rows'[j].state = rows[j].state
      /\ \A j \in Ids \ {i} : rows'[j] = rows[j]
  <2>1. CASE rows' = rows
    BY <2>1 DEF LInv, LTypeOK
  <2>2. CASE rows' = [rows EXCEPT ![i].key = requests[q].key]
    <3>1. rows[i] \in Row /\ rows \in [Ids -> Row]
      BY <1>2 DEF LInv, LTypeOK
    <3>2. [rows[i] EXCEPT !.key = requests[q].key] \in Row
          /\ [rows[i] EXCEPT !.key = requests[q].key].state = rows[i].state
      BY <1>2, <3>1 DEF Row
    <3>3. rows' = [rows EXCEPT ![i] = [rows[i] EXCEPT !.key = requests[q].key]]
      BY <1>2, <2>2, <3>1
    <3>. QED BY <1>2, <3>1, <3>2, <3>3
  <2>. QED BY <1>1, <2>1, <2>2
<1>5. WalkInv'
  <2>1. Live' = Live
    BY <1>4 DEF Live
  <2>. QED BY <1>1, <2>1, Still, AloneSame
<1>6. RequestFits(q)' /\ ~Writing(q, "create")'
  BY <1>2, <1>3, <1>4 DEF RequestFits, Writing, Known
<1>7. RowsFit'
  <2>1. Created' = Created
    BY <1>1 DEF Created
  <2>2. \A r \in Requests \ {q} : Writing(r, "create") => rows'[requests[r].id] = rows[requests[r].id]
    BY <1>2, <1>4, Creator
  <2>4. \A j \in Ids : j \in Created' <=> rows'[j].state # "unused"
    BY <1>4, <2>1 DEF LInv, RowsFit
  <2>5. list \notin Soft => \A j \in Ids : rows'[j].state # "deleted"
    BY <1>4 DEF LInv, RowsFit
  <2>. QED BY <1>1, <1>3, <1>4, <1>6, <2>2, <2>4, <2>5, OneRequest
<1>8. RemovedByOne'
  BY <1>1, <1>3, NoneRemoved
<1>. QED BY <1>1, <1>3, <1>4, <1>5, <1>7, <1>8 DEF LInv, LTypeOK

\* A row is removed, or marked; a success leaves nothing for another where rows are not kept.
LEMMA DeleteStep ==
    ASSUME LInv, NEW q \in Requests, Delete(q)
    PROVE  LInv'
<1>. DEFINE i == requests[q].id
            new == IF list \in Soft THEN "deleted" ELSE "gone"
<1>1. /\ Writing(q, "remove") /\ UNCHANGED <<list, createdAt>>
      /\ rows' = IF Stored(i) THEN [rows EXCEPT ![i].state = new] ELSE rows
      /\ Told(q, IF Stored(i) THEN Ok ELSE Failure("P2025"))
      /\ Noted(0, IF i \in Live THEN 1 ELSE 0)
  BY DEF Delete
<1>2. /\ requests[q] \in Request /\ requests[q] # None /\ requests[q].op = "remove" /\ i \in Ids
      /\ rows[i].state \in Known
      /\ \A r \in Requests \ {q} : Writing(r, "create") => requests[r].id # i
  BY <1>1, Changer DEF Writing
<1>3. /\ requests' \in [Requests -> Request \cup {None}]
      /\ requests'[q].op = "remove" /\ requests'[q].id = i /\ requests'[q].pc = "done"
      /\ requests'[q].answer \in {IF Stored(i) THEN Ok ELSE Failure("P2025"), Unacknowledged}
      /\ \A r \in Requests \ {q} : requests'[r] = requests[r]
  <2>1. PICK a \in {IF Stored(i) THEN Ok ELSE Failure("P2025"), Unacknowledged} : Answered(q, a)
    BY <1>1 DEF Told
  <2>2. a \in Answers
    BY <2>1, Answering
  <2>. QED BY <1>2, <2>1, <2>2, AnsweredFields DEF LInv
<1>. HIDE DEF i
<1>4. /\ rows' \in [Ids -> Row] /\ \A j \in Ids \ {i} : rows'[j] = rows[j]
      /\ rows'[i].state = IF Stored(i) THEN new ELSE rows[i].state
  <2>1. CASE ~Stored(i)
    BY <1>1, <2>1 DEF LInv, LTypeOK
  <2>2. CASE Stored(i)
    <3>1. rows[i] \in Row /\ rows \in [Ids -> Row]
      BY <1>2 DEF LInv, LTypeOK
    <3>2. [rows[i] EXCEPT !.state = new] \in Row /\ [rows[i] EXCEPT !.state = new].state = new
      BY <3>1 DEF Row
    <3>3. rows' = [rows EXCEPT ![i] = [rows[i] EXCEPT !.state = new]]
      BY <1>1, <1>2, <2>2, <3>1
    <3>. QED BY <1>2, <2>2, <3>1, <3>2, <3>3
  <2>. QED BY <2>1, <2>2
<1>5. WalkInv' /\ walk'.seen = walk.seen /\ walk'.items = walk.items /\ walk' \in Walk
  <2>1. CASE i \notin Live
    <3>1. Live' = Live
      BY <1>2, <1>4, <2>1 DEF Live
    <3>2. walk' = walk
      <4>1. Noted(0, 0)
        BY <1>1, <2>1
      <4>. QED BY <3>1, <4>1, NothingNoted
    <3>. QED BY <1>1, <3>1, <3>2, Still, AloneSame DEF LInv, LTypeOK
  <2>2. CASE i \in Live
    <3>1. Stored(i) /\ Live' = Live \ {i}
      BY <1>4, <2>2 DEF Live, Stored
    <3>2. Noted(0, 1)
      BY <1>1, <2>2
    <3>3. walk'.seen = walk.seen /\ walk'.items = walk.items /\ walk' \in Walk
      BY <3>2, NotedFields DEF Noted, LInv, LTypeOK
    <3>. QED BY <1>1, <2>2, <3>1, <3>2, <3>3, Shrink
  <2>. QED BY <2>1, <2>2
<1>6. RequestFits(q)' /\ ~Writing(q, "create")'
  BY <1>1, <1>2, <1>3, <1>4, Answering DEF RequestFits, Writing, Known
<1>7. RowsFit'
  <2>1. Created' = Created
    BY <1>1 DEF Created
  <2>2. \A r \in Requests \ {q} : Writing(r, "create") => rows'[requests[r].id] = rows[requests[r].id]
    BY <1>2, <1>4, Creator
  <2>4. \A j \in Ids : j \in Created' <=> rows'[j].state # "unused"
    BY <1>2, <1>4, <2>1 DEF LInv, RowsFit, Known
  <2>5. list \notin Soft => \A j \in Ids : rows'[j].state # "deleted"
    BY <1>4 DEF LInv, RowsFit
  <2>6. \A j \in Ids : /\ rows[j].state \in Known => rows'[j].state \in Known
                       /\ rows[j].state = "gone" => rows'[j].state = "gone"
    BY <1>4 DEF Known, Stored
  <2>. QED BY <1>1, <1>3, <1>4, <1>5, <1>6, <2>2, <2>4, <2>5, <2>6, OneRequest
<1>8. RemovedByOne'
  <2>1. CASE ~Stored(i)
    BY <1>1, <1>3, <2>1, NoneRemoved, Answering
  <2>2. CASE Stored(i)
    <3>1. ASSUME list \notin Soft, NEW r \in Requests \ {q}, requests[r] # None, requests[r].op = "remove",
                 requests[r].answer = Ok
          PROVE  requests[r].id # i
      <4>1. rows[requests[r].id].state = "gone"
        BY <3>1 DEF LInv, RowsFit, RequestFits
      <4>. QED BY <2>2, <4>1 DEF Stored
    <3>. QED BY <1>1, <1>3, <3>1 DEF LInv, RemovedByOne
  <2>. QED BY <2>1, <2>2
<1>. QED BY <1>1, <1>3, <1>4, <1>5, <1>7, <1>8 DEF LInv, LTypeOK

\* A statement that does nothing: a row that was to be created will not be.
LEMMA FailStep ==
    ASSUME LInv, NEW q \in Requests, NEW code \in FailureCodes, Fail(q, code)
    PROVE  LInv'
<1>. DEFINE i == requests[q].id
<1>1. /\ requests[q] # None /\ requests[q].pc \in {"check", "write"} /\ UNCHANGED <<list, createdAt, walk>>
      /\ rows' = [rows EXCEPT ![i].state = IF @ = "stamped" THEN "gone" ELSE @]
      /\ Answered(q, Failure(code))
  BY DEF Fail
<1>2. /\ requests[q] \in Request /\ i \in Ids /\ RequestFits(q)
      /\ \A r \in Requests \ {q} : Writing(r, "create") => requests[r].id # i
  <2>1. requests[q] \in Request /\ RequestFits(q)
    BY <1>1 DEF LInv, LTypeOK, RowsFit
  <2>2. CASE requests[q].op = "create"
    <3>1. Writing(q, "create")
      BY <1>1, <2>1, <2>2 DEF RequestFits, Writing
    <3>. QED BY <2>1, <3>1, Creator DEF Request
  <2>3. CASE requests[q].op # "create"
    BY <1>1, <2>1, <2>3, Changer
  <2>. QED BY <2>2, <2>3
<1>3. /\ requests' \in [Requests -> Request \cup {None}]
      /\ requests'[q].op = requests[q].op /\ requests'[q].id = i /\ requests'[q].pc = "done"
      /\ requests'[q].answer # Ok
      /\ \A r \in Requests \ {q} : requests'[r] = requests[r]
  <2>1. Failure(code) \in Answers /\ Failure(code) # Ok
    BY Answering
  <2>. QED BY <1>1, <1>2, <2>1, AnsweredFields DEF LInv
<1>. HIDE DEF i
<1>4. /\ rows' \in [Ids -> Row] /\ \A j \in Ids \ {i} : rows'[j] = rows[j]
      /\ rows'[i].state = IF rows[i].state = "stamped" THEN "gone" ELSE rows[i].state
  <2>. DEFINE new == IF rows[i].state = "stamped" THEN "gone" ELSE rows[i].state
  <2>1. rows[i] \in Row /\ rows \in [Ids -> Row]
    BY <1>2 DEF LInv, LTypeOK
  <2>2. [rows[i] EXCEPT !.state = new] \in Row /\ [rows[i] EXCEPT !.state = new].state = new
    BY <2>1 DEF Row
  <2>3. rows' = [rows EXCEPT ![i] = [rows[i] EXCEPT !.state = new]]
    BY <1>1, <1>2, <2>1
  <2>. QED BY <1>2, <2>1, <2>2, <2>3
<1>5. WalkInv'
  <2>1. Live' = Live
    BY <1>2, <1>4 DEF Live
  <2>. QED BY <1>1, <2>1, Still, AloneSame
<1>6. RequestFits(q)' /\ ~Writing(q, "create")'
  <2>1. requests[q].op # "create" => rows[i].state \in {"live", "deleted", "gone"}
    BY <1>1, <1>2 DEF RequestFits, i
  <2>2. requests[q].op # "create" => rows'[i].state \in {"live", "deleted", "gone"}
    BY <1>4, <2>1
  <2>. QED BY <1>3, <2>2 DEF RequestFits, Writing
<1>7. RowsFit'
  <2>1. Created' = Created
    BY <1>1 DEF Created
  <2>2. \A r \in Requests \ {q} : Writing(r, "create") => rows'[requests[r].id] = rows[requests[r].id]
    BY <1>2, <1>4, Creator
  <2>4. \A j \in Ids : j \in Created' <=> rows'[j].state # "unused"
    BY <1>2, <1>4, <2>1 DEF LInv, RowsFit
  <2>5. list \notin Soft => \A j \in Ids : rows'[j].state # "deleted"
    BY <1>4 DEF LInv, RowsFit
  <2>6. \A j \in Ids : /\ rows[j].state \in Known => rows'[j].state \in Known
                       /\ rows[j].state = "gone" => rows'[j].state = "gone"
    BY <1>4 DEF Known
  <2>. QED BY <1>1, <1>3, <1>4, <1>6, <2>2, <2>4, <2>5, <2>6, OneRequest
<1>8. RemovedByOne'
  BY <1>1, <1>3, NoneRemoved
<1>. QED BY <1>1, <1>3, <1>4, <1>5, <1>7, <1>8 DEF LInv, LTypeOK

(***************************************************************************)
(* The theorems.                                                           *)
(***************************************************************************)
\* Nothing has been asked and nothing shown.
LEMMA InitInv == Init => LInv
<1>. SUFFICES ASSUME Init PROVE LInv
  OBVIOUS
<1>1. \A q \in Requests : requests[q] = None
  BY DEF Init
<1>2. /\ walk.pc = "idle" /\ walk.page = 1 /\ walk.limit = 1 /\ walk.items = {} /\ walk.seen = {}
      /\ walk.repeats = 0 /\ walk.inserted = 0 /\ walk.removed = 0 /\ walk \in Walk
  BY DEF Init, Walk
<1>3. \A i \in Ids : rows[i].state = IF createdAt[i] > 0 THEN "live" ELSE "unused"
  BY DEF Init
<1>4. /\ list \in Paged /\ createdAt \in [Ids -> Nat] /\ rows \in [Ids -> Row]
      /\ requests \in [Requests -> Request \cup {None}]
  <2>1. createdAt \in [Ids -> Nat]
    BY ListsConstants DEF Init
  <2>2. PICK key \in [Ids -> Keys] :
            rows = [i \in Ids |-> IF createdAt[i] > 0 THEN [state |-> "live", key |-> key[i]]
                                  ELSE [state |-> "unused", key |-> None]]
    BY DEF Init
  <2>3. rows \in [Ids -> Row]
    BY <2>2 DEF Row
  <2>. QED BY <2>1, <2>3 DEF Init
<1>5. RowsFit
  <2>1. \A i \in Ids : i \in Created <=> rows[i].state # "unused"
    BY <1>3 DEF Created
  <2>2. \A q \in Requests : RequestFits(q) /\ ~Writing(q, "create")
    BY <1>1 DEF RequestFits, Writing
  <2>. QED BY <1>2, <1>3, <2>1, <2>2 DEF RowsFit
<1>6. RemovedByOne
  BY <1>1 DEF RemovedByOne
<1>7. WalkInv
  BY <1>2, FS_EmptySet, ListsConstants DEF WalkInv, WalkFits, CountFits,
     WalksMissOnlyForRemovals, WalksRepeatOnlyForCreations, TotalsFitTheirPage, Walking
<1>. QED BY <1>2, <1>4, <1>5, <1>6, <1>7 DEF LInv, LTypeOK

\* One step of the system.
LEMMA StepInv == LInv /\ [Next]_vars => LInv'
<1>. SUFFICES ASSUME LInv, [Next]_vars PROVE LInv'
  OBVIOUS
<1>1. ASSUME NEW q \in Requests, NEW i \in Ids, NEW k \in Keys, Create(q, i, k) PROVE LInv'
  BY <1>1, CreateStep
<1>2. ASSUME NEW q \in Requests, NEW i \in Ids, NEW k \in Keys, NEW op \in {"update", "remove"},
             Change(q, op, i, k)
      PROVE  LInv'
  BY <1>2, ChangeStep
<1>3. ASSUME NEW q \in Requests, Check(q) \/ Insert(q) \/ Update(q) \/ Delete(q) PROVE LInv'
  BY <1>3, CheckStep, InsertStep, UpdateStep, DeleteStep
<1>4. ASSUME NEW q \in Requests, NEW code \in FailureCodes, Fail(q, code) PROVE LInv'
  BY <1>4, FailStep
<1>5. CASE Start \/ FindMany \/ Count \/ Turn \/ FailList
  BY <1>5, StartStep, FindManyStep, CountStep, TurnStep, FailListStep
<1>6. CASE UNCHANGED vars
  <2>1. UNCHANGED <<list, createdAt, rows, requests, walk>>
    BY <1>6 DEF vars
  <2>2. WalkInv'
    BY <2>1, Still, AloneSame DEF Live
  <2>3. RowsFit' /\ RemovedByOne' /\ LTypeOK'
    BY <2>1 DEF LInv, RowsFit, RequestFits, RemovedByOne, LTypeOK, Created, Writing
  <2>. QED BY <2>2, <2>3 DEF LInv
<1>. QED BY <1>1, <1>2, <1>3, <1>4, <1>5, <1>6 DEF Next

\* The inductive invariant of all that follows.
LEMMA Inductive == Spec => []LInv
BY InitInv, StepInv, PTL DEF Spec

\* For any number of rows, keys and requests and any page size, and whichever rows share a
\* createdAt: the types, one success per removed row where rows are not kept, and the counts
\* of a walk.  (prisma.repository.ts, whitelist-ip.service.ts.)
THEOREM ListsInvariant == Spec => []ListsInv
<1>1. LInv => ListsInv
  BY DEF LInv, WalkInv, ListsInv
<1>. QED BY <1>1, Inductive, PTL

\* Of the rows that stood throughout and share their createdAt with no other, a walk misses no
\* more than rows were removed meanwhile.  (skip, take, count and totalPages of the four services that forward page and limit.)
THEOREM MissedForRemovals == Spec => []WalksMissOnlyForRemovals
<1>1. LInv => WalksMissOnlyForRemovals
  BY DEF LInv, WalkInv
<1>. QED BY <1>1, Inductive, PTL

\* A walk is shown no more rows that share their createdAt with no other twice than rows were
\* created meanwhile.
THEOREM RepeatedForCreations == Spec => []WalksRepeatOnlyForCreations
<1>1. LInv => WalksRepeatOnlyForCreations
  BY DEF LInv, WalkInv
<1>. QED BY <1>1, Inductive, PTL

\* The total of an answer fits its items up to the writes between its two snapshots.
THEOREM TotalsFit == Spec => []TotalsFitTheirPage
<1>1. LInv => TotalsFitTheirPage
  BY DEF LInv, WalkInv
<1>. QED BY <1>1, Inductive, PTL

(***************************************************************************)
(* The list of permissions, which shows its first page whatever is asked.  *)
(***************************************************************************)
\* Every row that is alone and has been shown stays near the beginning if no row appears.
LEMMA FirstPageStays ==
    ASSUME LInv, LTypeOK', PermissionsShowTheFirstPage, list' = list, walk'.seen = walk.seen,
           Walking' => Walking /\ walk'.inserted = walk.inserted,
           Live' \subseteq Live, \A i \in Ids : rows[i].state \in Known => createdAt'[i] = createdAt[i],
           \A i \in Ids : Alone(i)' => Alone(i)
    PROVE  PermissionsShowTheFirstPage'
<1>. SUFFICES ASSUME list = "permissions", Walking', NEW i \in walk.seen, Alone(i)'
              PROVE  (Position(Live, i) < DefaultLimit + walk.inserted)'
  BY DEF PermissionsShowTheFirstPage
<1>1. i \in Ids /\ rows[i].state \in Known /\ walk.inserted \in Nat
  BY DEF LInv, LTypeOK, Walk, RowsFit, Known
<1>2. Position(Live, i) < DefaultLimit + walk.inserted
  BY <1>1 DEF PermissionsShowTheFirstPage
<1>3. Numbers(createdAt, Live)
  BY LiveNumbered DEF LInv
<1>4. Position(Live, i)' = Cardinality({j \in Live' : createdAt[j] > createdAt[i]})
  <2>1. \A j \in Live : createdAt'[j] = createdAt[j]
    BY DEF Live, Known
  <2>2. {j \in Live' : createdAt'[j] > createdAt'[i]} = {j \in Live' : createdAt[j] > createdAt[i]}
    BY <1>1, <2>1
  <2>. QED BY <2>2 DEF Position
<1>5. Position(Live, i)' <= Position(Live, i) /\ Position(Live, i)' \in Nat /\ Position(Live, i) \in Nat
  <2>1. {j \in Live' : createdAt[j] > createdAt[i]} \in SUBSET Before(createdAt, Live, i)
    BY DEF Before
  <2>2. IsFiniteSet(Before(createdAt, Live, i)) /\ Position(Live, i) = Cardinality(Before(createdAt, Live, i))
    BY <1>3, PosType DEF Position, Before
  <2>. QED BY <1>4, <2>1, <2>2, FS_Subset, FS_CardinalityType
<1>. QED BY <1>1, <1>2, <1>5, ListsConstants

\* A row appears and pushes them back by one place at most.
LEMMA FirstPageGrows ==
    ASSUME LInv, PermissionsShowTheFirstPage, UNCHANGED <<createdAt, list>>, walk'.seen = walk.seen,
           Walking' => Walking /\ walk'.inserted = walk.inserted + 1,
           NEW x \in Ids \ Live, Live' = Live \cup {x}
    PROVE  PermissionsShowTheFirstPage'
<1>. SUFFICES ASSUME list = "permissions", Walking', NEW i \in walk.seen, Alone(i)'
              PROVE  (Position(Live, i) < DefaultLimit + walk.inserted)'
  BY DEF PermissionsShowTheFirstPage
<1>1. walk.inserted \in Nat /\ Alone(i)
  BY AloneSame DEF LInv, LTypeOK, Walk
<1>2. Position(Live, i) < DefaultLimit + walk.inserted
  BY <1>1 DEF PermissionsShowTheFirstPage
<1>3. Numbers(createdAt, Live)
  BY LiveNumbered DEF LInv
<1>4. Position(Live, i) = Pos(createdAt, Live, i) /\ Position(Live, i)' = Pos(createdAt, Live \cup {x}, i)
  BY DEF Position, Pos, Before
<1>5. Pos(createdAt, Live \cup {x}, i) \in {Pos(createdAt, Live, i), Pos(createdAt, Live, i) + 1}
  BY <1>3, PosOfMore
<1>6. Pos(createdAt, Live, i) \in Nat
  BY <1>3, PosType
<1>. QED BY <1>1, <1>2, <1>4, <1>5, <1>6, ListsConstants

\* A page is fetched: the first, whichever was asked for.
LEMMA FirstPageFetched ==
    ASSUME LInv, PermissionsShowTheFirstPage, FindMany
    PROVE  PermissionsShowTheFirstPage'
<1>. SUFFICES ASSUME list = "permissions", NEW i \in walk'.seen, Alone(i)'
              PROVE  (Position(Live, i) < DefaultLimit + walk.inserted)'
  BY DEF PermissionsShowTheFirstPage, FindMany
<1>1. /\ walk \in Walk /\ walk.pc = "find" /\ UNCHANGED <<list, createdAt, rows>>
      /\ walk.inserted \in Nat
  BY DEF FindMany, LInv, LTypeOK, Walk
<1>2. PICK items \in Served :
          walk' = [walk EXCEPT !.pc = "count", !.items = items, !.skew = 0, !.seen = @ \cup items,
                               !.repeats = @ + Cardinality({j \in items \cap walk.seen : Alone(j)})]
  BY Zenon DEF FindMany
<1>3. walk'.seen = walk.seen \cup items /\ walk'.inserted = walk.inserted
  BY <1>1, <1>2 DEF Walk
<1>4. Live' = Live /\ Alone(i) /\ Kept = Live
  BY <1>1, AloneSame, LiveNumbered DEF Live, LInv, Soft
<1>5. Position(Live, i)' = Position(Live, i)
  BY <1>1, <1>4 DEF Position
<1>6. CASE i \in walk.seen
  BY <1>1, <1>3, <1>4, <1>5, <1>6 DEF PermissionsShowTheFirstPage, Walking
<1>7. CASE i \in items
  <2>1. items \in Pages(Live, createdAt, 1, DefaultLimit)
    BY <1>2, <1>4 DEF Served, FindPermissions, PermissionsPage
  <2>2. Numbers(createdAt, Live) /\ IsFiniteSet(Live)
    BY LiveNumbered DEF LInv, Numbers
  <2>3. i \in Live /\ Skip(1, DefaultLimit) = 0
    <3>1. items \subseteq Live
      BY <2>1, <2>2, ListsConstants, PageHolds
    <3>. QED BY <1>7, <3>1, ListsConstants DEF Skip
  <2>4. \A j \in Live : createdAt[j] = createdAt[i] => j = i
    BY <1>4, <2>3, LiveNumbered DEF LInv
  <2>5. Pos(createdAt, Live, i) \in Skip(1, DefaultLimit)..(Skip(1, DefaultLimit) + DefaultLimit - 1)
    BY <1>7, <2>1, <2>2, <2>3, <2>4, OnPage
  <2>6. Position(Live, i) = Pos(createdAt, Live, i)
    BY DEF Position, Pos, Before
  <2>. QED BY <1>1, <1>3, <1>5, <2>3, <2>5, <2>6, ListsConstants
<1>. QED BY <1>3, <1>6, <1>7

\* One step of the system.
LEMMA FirstPageStep ==
    ASSUME LInv, LInv', PermissionsShowTheFirstPage, [Next]_vars
    PROVE  PermissionsShowTheFirstPage'
<1>. DEFINE P == PermissionsShowTheFirstPage
<1>0. LTypeOK' /\ (UNCHANGED createdAt => \A i \in Ids : Alone(i)' => Alone(i))
  BY AloneSame DEF LInv
<1>1. ASSUME NEW q \in Requests, NEW i \in Ids, NEW k \in Keys, Create(q, i, k) PROVE P'
  <2>1. UNCHANGED <<list, walk>> /\ Live' = Live /\ Walking' = Walking
    BY <1>1 DEF Create, Live, Walking, LInv, LTypeOK
  <2>2. rows[i].state = "unused" /\ i \notin Created /\ \A j \in Ids \ {i} : createdAt'[j] = createdAt[j]
    BY <1>1 DEF Create, LInv, LTypeOK, RowsFit
  <2>3. \A j \in Ids : rows[j].state \in Known => createdAt'[j] = createdAt[j]
    BY <2>2 DEF Known
  <2>4. \A j \in Ids : Alone(j)' => Alone(j)
    <3>1. \A j \in Created : j \in Created' /\ createdAt'[j] = createdAt[j] /\ j # i
      BY <2>2 DEF Created
    <3>2. SUFFICES ASSUME NEW j \in Ids, Alone(j)' PROVE Alone(j)
      OBVIOUS
    <3>3. CASE j # i
      BY <2>2, <3>1, <3>2, <3>3 DEF Alone
    <3>4. CASE j = i
      <4>1. createdAt[i] = 0 /\ \A x \in Created : createdAt[x] > 0
        BY <2>2 DEF Created, LInv, LTypeOK
      <4>. QED BY <3>4, <4>1 DEF Alone
    <3>. QED BY <3>3, <3>4
  <2>. QED BY <1>0, <2>1, <2>3, <2>4, FirstPageStays
<1>2. ASSUME NEW q \in Requests, Insert(q) PROVE P'
  <2>. DEFINE i == requests[q].id
              taken == Holders(requests[q].key) # {}
              new == IF taken THEN "gone" ELSE "live"
  <2>1. /\ Writing(q, "create") /\ UNCHANGED <<list, createdAt>>
        /\ rows' = [rows EXCEPT ![i].state = new]
        /\ Noted(IF taken THEN 0 ELSE 1, 0)
    BY <1>2 DEF Insert
  <2>2. i \in Ids /\ rows[i].state = "stamped"
    <3>1. rows[i] = [state |-> "stamped", key |-> requests[q].key] /\ i \in Ids
      BY <2>1, Creator
    <3>. QED BY <3>1
  <2>. HIDE DEF i, taken
  <2>3. rows'[i].state = new /\ \A j \in Ids \ {i} : rows'[j] = rows[j]
    <3>1. rows[i] \in Row
      BY <2>2 DEF LInv, LTypeOK
    <3>2. rows' = [rows EXCEPT ![i] = [rows[i] EXCEPT !.state = new]]
      BY <2>1, <2>2, <3>1 DEF LInv, LTypeOK
    <3>. QED BY <2>2, <3>1, <3>2 DEF LInv, LTypeOK, Row
  <2>4. CASE taken
    <3>1. Live' = Live
      BY <2>2, <2>3, <2>4 DEF Live
    <3>2. walk' = walk
      <4>1. Noted(0, 0)
        BY <2>1, <2>4
      <4>. QED BY <3>1, <4>1, NothingNoted
    <3>. QED BY <1>0, <2>1, <3>1, <3>2, FirstPageStays DEF Walking
  <2>5. CASE ~taken
    <3>1. Live' = Live \cup {i} /\ i \notin Live
      BY <2>2, <2>3, <2>5 DEF Live
    <3>2. walk'.seen = walk.seen /\ (Walking' => Walking /\ walk'.inserted = walk.inserted + 1)
      <4>1. Noted(1, 0)
        BY <2>1, <2>5
      <4>2. CASE Walking
        BY <4>1, <4>2, NotedFields DEF LInv
      <4>3. CASE ~Walking
        BY <4>1, <4>3 DEF Noted, Walking
      <4>. QED BY <4>2, <4>3
    <3>. QED BY <2>1, <2>2, <3>1, <3>2, FirstPageGrows
  <2>. QED BY <2>4, <2>5
<1>3. ASSUME NEW q \in Requests, Delete(q) PROVE P'
  <2>1. /\ UNCHANGED <<list, createdAt>> /\ Noted(0, IF requests[q].id \in Live THEN 1 ELSE 0)
        /\ Live' \subseteq Live
    <3>1. \A j \in Ids : rows'[j].state = "live" => rows[j].state = "live"
      BY <1>3 DEF Delete, LInv, LTypeOK, Row
    <3>. QED BY <1>3, <3>1 DEF Delete, Live
  <2>2. walk'.seen = walk.seen /\ (Walking' => Walking /\ walk'.inserted = walk.inserted)
    <3>1. PICK n \in {0, 1} : Noted(0, n)
      BY <2>1
    <3>2. CASE Walking
      <4>1. n \in Nat /\ 0 \in Nat /\ walk.inserted \in Nat
        BY DEF LInv, LTypeOK, Walk
      <4>2. walk'.seen = walk.seen /\ walk'.inserted = walk.inserted + 0
        BY <3>1, <3>2, <4>1, NotedFields DEF LInv
      <4>. QED BY <3>2, <4>1, <4>2
    <3>3. CASE ~Walking
      BY <3>1, <3>3 DEF Noted, Walking
    <3>. QED BY <3>2, <3>3
  <2>. QED BY <1>0, <2>1, <2>2, FirstPageStays
<1>4. ASSUME UNCHANGED <<list, createdAt, walk>>, Live' \subseteq Live PROVE P'
  BY <1>0, <1>4, FirstPageStays DEF Walking
<1>5. ASSUME NEW q \in Requests, NEW i \in Ids, NEW k \in Keys, NEW op \in {"update", "remove"},
             Change(q, op, i, k)
      PROVE  P'
  BY <1>4, <1>5 DEF Change, Live
<1>6. ASSUME NEW q \in Requests, Check(q) PROVE P'
  BY <1>4, <1>6 DEF Check, Live
<1>7. ASSUME NEW q \in Requests, Update(q) PROVE P'
  <2>1. \A j \in Ids : rows'[j].state = rows[j].state
    BY <1>7 DEF Update, LInv, LTypeOK, Row
  <2>. QED BY <1>4, <1>7, <2>1 DEF Update, Live
<1>8. ASSUME NEW q \in Requests, NEW code \in FailureCodes, Fail(q, code) PROVE P'
  <2>1. \A j \in Ids : rows'[j].state = "live" => rows[j].state = "live"
    BY <1>8 DEF Fail, LInv, LTypeOK, Row
  <2>. QED BY <1>4, <1>8, <2>1 DEF Fail, Live
<1>9. ASSUME Start PROVE P'
  <2>1. walk'.seen = {}
    BY <1>9 DEF Start, LInv, LTypeOK, Walk, WalkInv, WalkFits
  <2>. QED BY <2>1 DEF PermissionsShowTheFirstPage
<1>10. CASE FindMany
  BY <1>10, FirstPageFetched
<1>11. ASSUME Count \/ Turn \/ FailList PROVE P'
  <2>1. UNCHANGED <<list, createdAt, rows>> /\ walk \in Walk
    BY <1>11 DEF Count, Turn, FailList, LInv, LTypeOK
  <2>2. walk'.seen = walk.seen /\ walk'.inserted = walk.inserted /\ Walking
    BY <1>11, <2>1 DEF Count, Turn, FailList, Walk, Walking
  <2>. QED BY <1>0, <2>1, <2>2, FirstPageStays DEF Live
<1>12. CASE UNCHANGED vars
  BY <1>4, <1>12 DEF vars, Live
<1>. QED BY <1>1, <1>2, <1>3, <1>5, <1>6, <1>7, <1>8, <1>9, <1>10, <1>11, <1>12 DEF Next

\* Of a list of permissions of any length a walk shows its first page only, however many pages
\* it asks for: those of its rows that share their createdAt with no other are among the first
\* ten, but for rows created meanwhile.  (PermissionsService.findAllPaginated.)
THEOREM OnlyTheFirstPage == Spec => []PermissionsShowTheFirstPage
<1>1. Init => PermissionsShowTheFirstPage
  BY DEF Init, PermissionsShowTheFirstPage, Walking
<1>2. LInv /\ LInv' /\ PermissionsShowTheFirstPage /\ [Next]_vars => PermissionsShowTheFirstPage'
  BY FirstPageStep
<1>. QED BY <1>1, <1>2, Inductive, PTL DEF Spec

\* Requests that a step does not answer are told nothing.
LEMMA NotTold ==
    ASSUME NEW q, requests'[q] = requests[q] \/ requests[q] = None \/ requests'[q].pc # "done"
    PROVE  ToldTheOutcome(q)
BY DEF ToldTheOutcome

\* Who is answered with an error of the server is told nothing.
LEMMA LostTold ==
    ASSUME LTypeOK, NEW q \in Requests, requests[q] # None, Answered(q, Unacknowledged)
    PROVE  ToldTheOutcome(q)
<1>1. requests'[q].answer = Unacknowledged
  BY AnsweredFields, Answering
<1>. QED BY <1>1, Answering DEF ToldTheOutcome

\* Not found by the read before the write: nothing is changed.
LEMMA CheckTold == ASSUME LInv, NEW q \in Requests, Check(q) PROVE ToldTheOutcome(q)
<1>. USE DEF Check
<1>1. requests[q] # None /\ requests[q] \in Request /\ rows' = rows
  BY DEF LInv, LTypeOK
<1>2. CASE rows[requests[q].id].state = "live"
  <2>1. requests'[q].pc = "write"
    BY <1>1, <1>2 DEF LInv, LTypeOK, Request
  <2>. QED BY <2>1, NotTold
<1>3. CASE rows[requests[q].id].state # "live"
  <2>1. requests'[q].answer = Caught(Http(404)) /\ requests'[q].id = requests[q].id
    BY <1>1, <1>3, AnsweredFields, Answering DEF LInv
  <2>. QED BY <1>1, <1>3, <2>1, Answering DEF ToldTheOutcome, Live
<1>. QED BY <1>2, <1>3

\* Inserted, or refused for the key of another row.
LEMMA InsertTold == ASSUME LInv, NEW q \in Requests, Insert(q) PROVE ToldTheOutcome(q)
<1>. DEFINE i == requests[q].id
            taken == Holders(requests[q].key) # {}
            new == IF taken THEN "gone" ELSE "live"
<1>. SUFFICES ASSUME ~Answered(q, Unacknowledged) PROVE ToldTheOutcome(q)
  BY LostTold DEF Insert, Writing, LInv
<1>0. ~Answered(q, Unacknowledged)
  OBVIOUS
<1>1. /\ Writing(q, "create") /\ rows' = [rows EXCEPT ![i].state = new]
      /\ Answered(q, IF taken THEN Failure("P2002") ELSE Ok)
  BY <1>0 DEF Insert, Told
<1>2. /\ requests[q] \in Request /\ requests[q] # None /\ requests[q].op = "create"
      /\ rows[i] = [state |-> "stamped", key |-> requests[q].key] /\ i \in Ids
  BY <1>1, Creator DEF Writing
<1>3. /\ requests'[q].op = "create" /\ requests'[q].id = i /\ requests'[q].key = requests[q].key
      /\ requests'[q].answer = IF taken THEN Failure("P2002") ELSE Ok
  <2>1. (IF taken THEN Failure("P2002") ELSE Ok) \in Answers
    BY Answering
  <2>. QED BY <1>1, <1>2, <2>1, AnsweredFields DEF LInv
<1>4. i \notin Holders(requests[q].key) /\ ~Stored(i) /\ i \notin Live
  BY <1>2 DEF Holders, Stored, Live
<1>5. /\ rows'[i].state = new /\ rows'[i].key = requests[q].key
      /\ \A j \in Ids : Stored(j) => rows'[j] = rows[j]
  BY <1>1, <1>2, <1>4 DEF LInv, LTypeOK
<1>6. taken => Holders(requests[q].key) \ {i} # {}
  BY <1>4
<1>. HIDE DEF taken, i
<1>7. CASE taken
  BY <1>3, <1>4, <1>5, <1>6, <1>7, Answering DEF ToldTheOutcome
<1>8. CASE ~taken
  BY <1>3, <1>4, <1>5, <1>8, Answering DEF ToldTheOutcome
<1>. QED BY <1>7, <1>8

\* Updated, not found, or refused for the key of another row.
LEMMA UpdateTold == ASSUME LInv, NEW q \in Requests, Update(q) PROVE ToldTheOutcome(q)
<1>. DEFINE i == requests[q].id
            k == requests[q].key
            found == IF list = "users" THEN rows[i].state = "live" ELSE Stored(i)
            taken == Holders(k) \ {i} # {}
<1>. SUFFICES ASSUME ~Answered(q, Unacknowledged) PROVE ToldTheOutcome(q)
  BY LostTold DEF Update, Writing, LInv
<1>0. ~Answered(q, Unacknowledged)
  OBVIOUS
<1>1. /\ Writing(q, "update")
      /\ rows' = IF found /\ ~taken THEN [rows EXCEPT ![i].key = k] ELSE rows
      /\ Answered(q, IF ~found THEN Failure("P2025") ELSE IF taken THEN Failure("P2002") ELSE Ok)
  BY <1>0 DEF Update, Told
<1>2. /\ requests[q] \in Request /\ requests[q] # None /\ requests[q].op = "update" /\ i \in Ids
  BY <1>1, Changer DEF Writing
<1>3. /\ found => Stored(i)
      /\ ~found => i \notin Live
  BY DEF Stored, Live
<1>4. ASSUME NEW a \in Answers, Answered(q, a)
      PROVE  /\ requests'[q].op = "update" /\ requests'[q].id = i /\ requests'[q].key = k
             /\ requests'[q].answer = a
  BY <1>2, <1>4, AnsweredFields DEF LInv
<1>. HIDE DEF found, taken, i, k
<1>5. CASE ~found
  <2>1. Answered(q, Failure("P2025")) /\ rows' = rows
    BY <1>1, <1>5
  <2>2. requests'[q].answer = Failure("P2025") /\ requests'[q].id = i
    BY <1>4, <2>1, Answering
  <2>. QED BY <1>3, <1>5, <2>1, <2>2, Answering DEF ToldTheOutcome
<1>6. CASE found /\ taken
  <2>1. Answered(q, Failure("P2002")) /\ rows' = rows
    BY <1>1, <1>6
  <2>2. requests'[q].answer = Failure("P2002") /\ requests'[q].id = i /\ requests'[q].key = k
    BY <1>4, <2>1, Answering
  <2>3. Failure("P2002") # Ok /\ Failure("P2002").status # 404
    BY Answering
  <2>4. Holders(k) \ {i} # {}
    BY <1>6 DEF taken
  <2>. QED BY <2>1, <2>2, <2>3, <2>4 DEF ToldTheOutcome
<1>7. CASE found /\ ~taken
  <2>1. Answered(q, Ok) /\ rows' = [rows EXCEPT ![i].key = k]
    BY <1>1, <1>7
  <2>2. /\ requests'[q].op = "update" /\ requests'[q].id = i /\ requests'[q].key = k /\ requests'[q].answer = Ok
    BY <1>4, <2>1, Answering
  <2>3. rows'[i].key = k
    <3>1. rows \in [Ids -> Row] /\ rows[i] \in Row
      BY <1>2 DEF LInv, LTypeOK
    <3>. QED BY <1>2, <2>1, <3>1 DEF Row
  <2>. QED BY <1>3, <1>7, <2>2, <2>3, Answering DEF ToldTheOutcome
<1>. QED BY <1>5, <1>6, <1>7

\* Removed, or not found.
LEMMA DeleteTold == ASSUME LInv, NEW q \in Requests, Delete(q) PROVE ToldTheOutcome(q)
<1>. DEFINE i == requests[q].id
            new == IF list \in Soft THEN "deleted" ELSE "gone"
<1>. SUFFICES ASSUME ~Answered(q, Unacknowledged) PROVE ToldTheOutcome(q)
  BY LostTold DEF Delete, Writing, LInv
<1>0. ~Answered(q, Unacknowledged)
  OBVIOUS
<1>1. /\ Writing(q, "remove")
      /\ rows' = IF Stored(i) THEN [rows EXCEPT ![i].state = new] ELSE rows
      /\ Answered(q, IF Stored(i) THEN Ok ELSE Failure("P2025"))
  BY <1>0 DEF Delete, Told
<1>2. /\ requests[q] \in Request /\ requests[q] # None /\ requests[q].op = "remove" /\ i \in Ids
  BY <1>1, Changer DEF Writing
<1>3. /\ requests'[q].op = "remove" /\ requests'[q].id = i
      /\ requests'[q].answer = IF Stored(i) THEN Ok ELSE Failure("P2025")
  <2>1. (IF Stored(i) THEN Ok ELSE Failure("P2025")) \in Answers
    BY Answering
  <2>. QED BY <1>1, <1>2, <2>1, AnsweredFields DEF LInv
<1>. HIDE DEF i
<1>4. CASE Stored(i)
  <2>1. rows'[i].state = new
    <3>1. rows \in [Ids -> Row] /\ rows[i] \in Row
      BY <1>2 DEF LInv, LTypeOK
    <3>. QED BY <1>1, <1>2, <1>4, <3>1 DEF Row
  <2>. QED BY <1>3, <1>4, <2>1, Answering DEF ToldTheOutcome
<1>5. CASE ~Stored(i)
  BY <1>1, <1>3, <1>5, Answering DEF ToldTheOutcome, Stored, Live
<1>. QED BY <1>4, <1>5

\* The statement did nothing.
LEMMA FailTold ==
    ASSUME LInv, NEW q \in Requests, NEW code \in FailureCodes, Fail(q, code) PROVE ToldTheOutcome(q)
<1>. DEFINE i == requests[q].id
<1>1. /\ requests[q] # None /\ requests[q] \in Request /\ i \in Ids
      /\ rows' = [rows EXCEPT ![i].state = IF @ = "stamped" THEN "gone" ELSE @]
      /\ Answered(q, Failure(code))
  BY DEF Fail, LInv, LTypeOK, Request
<1>2. /\ requests'[q].answer = Failure(code) /\ Failure(code) # Ok /\ Failure(code).status # 404
      /\ Failure(code) # Failure("P2002")
  <2>1. /\ Failure(code) \in Answers /\ Failure(code) # Ok /\ Failure(code).status # 404
        /\ Failure(code) # Failure("P2002")
    BY Answering DEF FailureCodes
  <2>. QED BY <1>1, <2>1, AnsweredFields DEF LInv
<1>3. \A j \in Ids : Stored(j) => rows'[j] = rows[j]
  <2>. SUFFICES ASSUME NEW j \in Ids, Stored(j) PROVE rows'[j] = rows[j]
    OBVIOUS
  <2>. HIDE DEF i
  <2>1. CASE j # i
    BY <1>1, <2>1 DEF LInv, LTypeOK
  <2>2. CASE j = i
    <3>1. rows \in [Ids -> Row] /\ rows[i] \in Row /\ rows[i].state # "stamped"
      BY <1>1, <2>2 DEF LInv, LTypeOK, Stored
    <3>2. rows' = [rows EXCEPT ![i] = [rows[i] EXCEPT !.state = rows[i].state]]
      BY <1>1, <3>1
    <3>. QED BY <1>1, <2>2, <3>1, <3>2 DEF Row
  <2>. QED BY <2>1, <2>2
<1>. QED BY <1>2, <1>3 DEF ToldTheOutcome

\* The truth is told in every step.
LEMMA StepTold == LInv /\ [Next]_vars => [\A q \in Requests : ToldTheOutcome(q)]_vars
<1>. SUFFICES ASSUME LInv, [Next]_vars, ~UNCHANGED vars, NEW r \in Requests
              PROVE  ToldTheOutcome(r)
  OBVIOUS
<1>1. ASSUME NEW q \in Requests, NEW i \in Ids, NEW k \in Keys,
             Create(q, i, k) \/ \E op \in {"update", "remove"} : Change(q, op, i, k)
      PROVE  ToldTheOutcome(r)
  <2>1. requests[q] = None /\ (r # q => requests'[r] = requests[r])
    BY <1>1 DEF Create, Change, Ask, LInv, LTypeOK
  <2>. QED BY <2>1, NotTold
<1>2. ASSUME NEW q \in Requests,
             Check(q) \/ Insert(q) \/ Update(q) \/ Delete(q) \/ \E code \in FailureCodes : Fail(q, code)
      PROVE  ToldTheOutcome(r)
  <2>1. CASE r # q
    <3>1. requests'[r] = requests[r]
      BY <1>2, <2>1 DEF Check, Insert, Update, Delete, Fail, Told, Answered, LInv, LTypeOK
    <3>. QED BY <3>1, NotTold
  <2>2. CASE r = q
    BY <1>2, <2>2, CheckTold, InsertTold, UpdateTold, DeleteTold, FailTold
  <2>. QED BY <2>1, <2>2
<1>3. CASE Start \/ FindMany \/ Count \/ Turn \/ FailList
  BY <1>3, NotTold DEF Start, FindMany, Count, Turn, FailList
<1>. QED BY <1>1, <1>2, <1>3 DEF Next

\* A request is told the truth as of its write, whatever the other requests do between its
\* read and its write.  (handlePrismaError and the filter under create, update and delete.)
THEOREM AnswersTold == Spec => AnswersTellTheOutcome
BY Inductive, StepTold, PTL DEF Spec, AnswersTellTheOutcome
=============================================================================
