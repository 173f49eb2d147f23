------------------------------ MODULE ListFacts ------------------------------
(***************************************************************************)
(* Facts about the lists and cursors of the pages, for the proofs about    *)
(* them: the cursors of ListCursor are in their lists, and what Positions  *)
(* selects is there, in order, once, and all of it.                        *)
(***************************************************************************)
EXTENDS ListCursor, Positions, Sequences, SequencesExt, FiniteSetTheorems, TLAPS

-----------------------------------------------------------------------------
(* Numbers in order.                                                       *)

\* A set of numbers that is not empty has a least one: what proofs by
\* induction need, for sets.
LEMMA LeastExists ==
    ASSUME NEW T \in SUBSET Nat, T # {}
    PROVE  \E m \in T : \A x \in T : m <= x
<1>1. \E m \in T : \A x \in T : ~(<<x, m>> \in OpToRel(<, Nat))
  BY WFMin, NatLessThanWellFounded, Zenon
<1>2. PICK m \in T : \A x \in T : ~(x < m)
  BY <1>1, Zenon DEF OpToRel
<1> QED  BY <1>2

Below(S, x) == {y \in S : y < x}

LEMMA BelowFinite ==
    ASSUME NEW S \in SUBSET Nat, IsFiniteSet(S), NEW x
    PROVE  IsFiniteSet(Below(S, x)) /\ Cardinality(Below(S, x)) \in Nat
<1>1. Below(S, x) \in SUBSET S
  BY DEF Below
<1> QED  BY <1>1, FS_Subset, FS_CardinalityType

\* Kth is defined: k - 1 of the numbers are less than some number in S.
LEMMA KthExists ==
    ASSUME NEW S \in SUBSET Nat, IsFiniteSet(S), NEW k \in 1 .. Cardinality(S)
    PROVE  \E x \in S : Cardinality(Below(S, x)) = k - 1
<1>. DEFINE Has(j) == \E x \in S : Cardinality(Below(S, x)) = j - 1
            K == {j \in 1 .. Cardinality(S) : ~Has(j)}
<1>0. Cardinality(S) \in Nat
  BY FS_CardinalityType
<1>. SUFFICES ASSUME K # {} PROVE FALSE
  OBVIOUS
<1>1. PICK j \in K : \A x \in K : j <= x
  <2>1. K \in SUBSET Nat
    BY <1>0
  <2>. HIDE DEF K
  <2> QED  BY <2>1, LeastExists
<1>2. j \in 1 .. Cardinality(S) /\ ~Has(j)
  OBVIOUS
<1>3. ASSUME j = 1 PROVE FALSE
  <2>1. S # {}
    BY <1>0, <1>2, FS_EmptySet
  <2>2. PICK m \in S : \A x \in S : m <= x
    BY <2>1, LeastExists
  <2>3. ASSUME NEW x \in Below(S, m) PROVE FALSE
    <3>1. x \in S /\ x < m
      BY DEF Below
    <3> QED  BY <2>2, <3>1
  <2>4. Cardinality(Below(S, m)) = j - 1
    <3>1. Below(S, m) = {}
      BY <2>3
    <3> QED  BY <1>3, <3>1, FS_EmptySet
  <2> QED  BY <1>2, <2>4
<1>4. ASSUME j # 1 PROVE FALSE
  <2>1. Has(j - 1)
    BY <1>0, <1>1, <1>2, <1>4
  <2>2. PICK x \in S : Cardinality(Below(S, x)) = j - 2
    BY <2>1, <1>2
  <2>. DEFINE A == Below(S, x) \cup {x}
              L == S \ A
  <2>3. IsFiniteSet(Below(S, x)) /\ x \notin Below(S, x)
    <3>1. IsFiniteSet(Below(S, x))
      BY BelowFinite
    <3>2. x \notin Below(S, x)
      BY DEF Below
    <3> QED  BY <3>1, <3>2
  <2>4. IsFiniteSet(A) /\ Cardinality(A) = j - 1
    BY <1>2, <2>2, <2>3, FS_AddElement
  <2>5. L # {}
    <3>. SUFFICES ASSUME S \subseteq A PROVE FALSE
      OBVIOUS
    <3>1. Cardinality(S) <= Cardinality(A)
      BY <2>4, FS_Subset
    <3> QED  BY <1>0, <1>2, <2>4, <3>1
  <2>6. PICK m \in L : \A y \in L : m <= y
    BY <2>5, LeastExists
  <2>7. Below(S, m) = A
    <3>1. m \in S /\ x < m
      BY DEF Below
    <3>2. ASSUME NEW y \in S, y < m PROVE y \in A
      BY <2>6, <3>2
    <3>3. ASSUME NEW y \in A PROVE y \in S /\ y < m
      BY <3>1 DEF Below
    <3> QED  BY <3>2, <3>3 DEF Below
  <2>. HIDE DEF A
  <2>8. Has(j)
    BY <2>4, <2>6, <2>7
  <2> QED  BY <1>2, <2>8
<1> QED  BY <1>3, <1>4

LEMMA KthIn ==
    ASSUME NEW S \in SUBSET Nat, IsFiniteSet(S), NEW k \in 1 .. Cardinality(S)
    PROVE  Kth(S, k) \in S /\ Cardinality(Below(S, Kth(S, k))) = k - 1
<1>1. \E x \in S : Cardinality({y \in S : y < x}) = k - 1
  BY KthExists DEF Below
<1> QED  BY <1>1 DEF Kth, Below

\* Of two numbers the greater one has more below it.
LEMMA BelowGrows ==
    ASSUME NEW S \in SUBSET Nat, IsFiniteSet(S), NEW x \in S, NEW y \in S, x < y
    PROVE  Cardinality(Below(S, x)) < Cardinality(Below(S, y))
<1>1. Below(S, x) \in SUBSET Below(S, y) /\ x \in Below(S, y) /\ x \notin Below(S, x)
  <2>1. ASSUME NEW z \in S, z < x PROVE z < y
    BY <2>1
  <2>2. Below(S, x) \subseteq Below(S, y)
    BY <2>1, Zenon DEF Below
  <2>3. x \in Below(S, y)
    BY Zenon DEF Below
  <2>4. ~(x < x)
    OBVIOUS
  <2> QED  BY <2>2, <2>3, <2>4, Zenon DEF Below
<1>2. /\ IsFiniteSet(Below(S, y)) /\ Cardinality(Below(S, y)) \in Nat
      /\ Cardinality(Below(S, x)) \in Nat
  BY BelowFinite
<1>3. /\ Cardinality(Below(S, x)) <= Cardinality(Below(S, y))
      /\ Cardinality(Below(S, y)) = Cardinality(Below(S, x)) => Below(S, y) = Below(S, x)
  BY <1>1, <1>2, FS_Subset
<1> QED  BY <1>1, <1>2, <1>3

LEMMA BelowAtMost ==
    ASSUME NEW S \in SUBSET Nat, IsFiniteSet(S), NEW x \in S
    PROVE  Cardinality(Below(S, x)) + 1 \in 1 .. Cardinality(S)
<1>1. Below(S, x) \in SUBSET S /\ x \notin Below(S, x)
  BY DEF Below
<1>2. /\ Cardinality(Below(S, x)) <= Cardinality(S)
      /\ Cardinality(S) = Cardinality(Below(S, x)) => S = Below(S, x)
  BY <1>1, FS_Subset
<1>3. Cardinality(Below(S, x)) \in Nat /\ Cardinality(S) \in Nat
  BY BelowFinite, FS_CardinalityType
<1> QED  BY <1>1, <1>2, <1>3

\* The numbers come in ascending order,
LEMMA KthAscends ==
    ASSUME NEW S \in SUBSET Nat, IsFiniteSet(S),
           NEW i \in 1 .. Cardinality(S), NEW j \in 1 .. Cardinality(S), i < j
    PROVE  Kth(S, i) < Kth(S, j)
<1>. DEFINE x == Kth(S, i)
            y == Kth(S, j)
<1>1. x \in S /\ y \in S /\ Cardinality(Below(S, x)) = i - 1 /\ Cardinality(Below(S, y)) = j - 1
  BY KthIn
<1>. HIDE DEF x, y
<1>2. ASSUME y < x PROVE FALSE
  <2>1. j - 1 < i - 1
    BY <1>1, <1>2, BelowGrows
  <2>2. i \in Int /\ j \in Int
    OBVIOUS
  <2> QED  BY <2>1, <2>2
<1>3. x # y
  BY <1>1
<1>4. x < y
  BY <1>1, <1>2, <1>3
<1> QED  BY <1>4 DEF x, y

\* and none is missing.
LEMMA KthReaches ==
    ASSUME NEW S \in SUBSET Nat, IsFiniteSet(S), NEW x \in S
    PROVE  \E k \in 1 .. Cardinality(S) : Kth(S, k) = x
<1>. DEFINE k == Cardinality(Below(S, x)) + 1
            y == Kth(S, k)
<1>1. k \in 1 .. Cardinality(S) /\ Cardinality(Below(S, x)) \in Nat
  BY BelowAtMost, BelowFinite
<1>2. y \in S /\ Cardinality(Below(S, y)) = k - 1
  BY <1>1, KthIn
<1>3. Cardinality(Below(S, y)) = Cardinality(Below(S, x))
  BY <1>1, <1>2
<1>. HIDE DEF k, y
<1>4. ASSUME x < y PROVE FALSE
  BY <1>1, <1>2, <1>3, <1>4, BelowGrows
<1>5. ASSUME y < x PROVE FALSE
  BY <1>1, <1>2, <1>3, <1>5, BelowGrows
<1>6. y = x
  BY <1>2, <1>4, <1>5
<1> QED  BY <1>1, <1>6 DEF y

\* A number is the k-th if k - 1 are below it.
LEMMA KthUnique ==
    ASSUME NEW S \in SUBSET Nat, IsFiniteSet(S), NEW x \in S,
           NEW k \in 1 .. Cardinality(S), Cardinality(Below(S, x)) = k - 1
    PROVE  Kth(S, k) = x
<1>. DEFINE y == Kth(S, k)
<1>1. y \in S /\ Cardinality(Below(S, y)) = k - 1
  BY KthIn
<1>. HIDE DEF y
<1>2. Cardinality(Below(S, y)) = Cardinality(Below(S, x)) /\ Cardinality(Below(S, x)) \in Nat
  BY <1>1, BelowFinite
<1>3. ~(x < y) /\ ~(y < x)
  BY <1>1, <1>2, BelowGrows
<1>4. y = x
  BY <1>1, <1>3
<1> QED  BY <1>4 DEF y

\* The ids of a table are such numbers.
LEMMA IdsFinite ==
    ASSUME NEW n \in Nat, NEW S \in SUBSET (1 .. n)
    PROVE  S \in SUBSET Nat /\ IsFiniteSet(S) /\ Cardinality(S) \in Nat
<1>1. \A m \in Nat : IsFiniteSet(1 .. m)
  BY FS_Interval
<1>2. IsFiniteSet(S)
  BY <1>1, FS_Subset
<1> QED  BY <1>2, FS_CardinalityType

LEMMA AscendingType ==
    ASSUME NEW S \in SUBSET Nat, IsFiniteSet(S)
    PROVE  /\ Ascending(S) \in Seq(S)
           /\ Len(Ascending(S)) = Cardinality(S)
           /\ DOMAIN Ascending(S) = 1 .. Cardinality(S)
           /\ \A k \in 1 .. Cardinality(S) : Ascending(S)[k] = Kth(S, k)
<1>1. Cardinality(S) \in Nat
  BY FS_CardinalityType
<1>2. \A k \in 1 .. Cardinality(S) : Kth(S, k) \in S
  BY KthIn
<1> QED  BY <1>1, <1>2 DEF Ascending

\* What loops over the list and appends the items that pass a test makes of
\* it: some of its items, in their order.
LEMMA KeptType ==
    ASSUME NEW T, NEW list \in Seq(T), NEW S \in SUBSET DOMAIN list
    PROVE  /\ IsFiniteSet(S) /\ S \in SUBSET Nat /\ Cardinality(S) \in 0 .. Len(list)
           /\ Kept(list, S) \in Seq(T)
           /\ Len(Kept(list, S)) = Cardinality(S)
           /\ DOMAIN Kept(list, S) = 1 .. Cardinality(S)
           /\ \A k \in 1 .. Cardinality(S) : Kth(S, k) \in S /\ Kept(list, S)[k] = list[Kth(S, k)]
<1>1. Len(list) \in Nat /\ DOMAIN list = 1 .. Len(list)
  OBVIOUS
<1>2. IsFiniteSet(1 .. Len(list)) /\ Cardinality(1 .. Len(list)) = Len(list)
  <2>1. \A n \in Nat : IsFiniteSet(1 .. n) /\ Cardinality(1 .. n) = n
    BY FS_Interval
  <2> QED  BY <1>1, <2>1
<1>3. IsFiniteSet(S) /\ S \in SUBSET Nat /\ Cardinality(S) \in 0 .. Len(list)
  <2>1. S \in SUBSET (1 .. Len(list))
    BY <1>1
  <2>2. IsFiniteSet(S) /\ Cardinality(S) <= Len(list)
    BY <1>2, <2>1, FS_Subset
  <2>3. Cardinality(S) \in Nat
    BY <2>2, FS_CardinalityType
  <2> QED  BY <1>1, <2>1, <2>2, <2>3
<1>4. ASSUME NEW k \in 1 .. Cardinality(S) PROVE Kth(S, k) \in S /\ list[Kth(S, k)] \in T
  <2>1. Kth(S, k) \in S
    BY <1>3, KthIn
  <2> QED  BY <1>1, <2>1
<1> QED  BY <1>3, <1>4 DEF Kept

\* An item that passes the test is not lost.
LEMMA KeptReaches ==
    ASSUME NEW T, NEW list \in Seq(T), NEW S \in SUBSET DOMAIN list, NEW i \in S
    PROVE  \E k \in DOMAIN Kept(list, S) : Kth(S, k) = i /\ Kept(list, S)[k] = list[i]
<1>1. IsFiniteSet(S) /\ S \in SUBSET Nat
  BY KeptType
<1>2. PICK k \in 1 .. Cardinality(S) : Kth(S, k) = i
  BY <1>1, KthReaches
<1> QED  BY <1>2, KeptType

\* The positions themselves: in order, once each, and all of them.
LEMMA SomePositions ==
    ASSUME NEW T, NEW list \in Seq(T), NEW S \in SUBSET DOMAIN list
    PROVE  /\ Len(Ascending(S)) \in 0 .. Len(list)
           /\ DOMAIN Ascending(S) = 1 .. Len(Ascending(S))
           /\ \A k \in DOMAIN Ascending(S) : Ascending(S)[k] \in S
           /\ \A k, l \in DOMAIN Ascending(S) : k < l => Ascending(S)[k] < Ascending(S)[l]
           /\ \A i \in S : \E k \in DOMAIN Ascending(S) : Ascending(S)[k] = i
           /\ Kept(list, S) = [k \in DOMAIN Ascending(S) |-> list[Ascending(S)[k]]]
           /\ Kept(list, S) \in Seq(T) /\ Len(Kept(list, S)) = Len(Ascending(S))
<1>1. IsFiniteSet(S) /\ S \in SUBSET Nat /\ Cardinality(S) \in 0 .. Len(list)
  BY KeptType
<1>2. /\ Len(Ascending(S)) = Cardinality(S)
      /\ DOMAIN Ascending(S) = 1 .. Cardinality(S)
      /\ \A k \in 1 .. Cardinality(S) : Ascending(S)[k] = Kth(S, k) /\ Kth(S, k) \in S
  BY <1>1, AscendingType, KeptType
<1>3. \A k, l \in 1 .. Cardinality(S) : k < l => Kth(S, k) < Kth(S, l)
  BY <1>1, KthAscends
<1>4. \A i \in S : \E k \in 1 .. Cardinality(S) : Kth(S, k) = i
  BY <1>1, KthReaches
<1>5. Kept(list, S) = [k \in DOMAIN Ascending(S) |-> list[Ascending(S)[k]]]
  BY <1>2 DEF Kept
<1>6. Kept(list, S) \in Seq(T) /\ Len(Kept(list, S)) = Len(Ascending(S))
  BY <1>2, KeptType
<1> QED  BY <1>1, <1>2, <1>3, <1>4, <1>5, <1>6, SMTT(30)

\* There is one list of the numbers of a set in ascending order.
LEMMA AscendingUnique ==
    ASSUME NEW S \in SUBSET Nat, IsFiniteSet(S), NEW s \in Seq(S),
           \A i, j \in DOMAIN s : i < j => s[i] < s[j],
           \A x \in S : \E i \in DOMAIN s : s[i] = x
    PROVE  s = Ascending(S)
<1>. DEFINE n == Len(s)
<1>0. n \in Nat /\ DOMAIN s = 1 .. n /\ \A i \in 1 .. n : s[i] \in S
  OBVIOUS
<1>1. \A i, j \in 1 .. n : s[i] < s[j] => i < j
  <2>. SUFFICES ASSUME NEW i \in 1 .. n, NEW j \in 1 .. n, s[i] < s[j], ~(i < j) PROVE FALSE
    OBVIOUS
  <2>1. i = j \/ j < i
    OBVIOUS
  <2>2. s[j] < s[i] \/ s[j] = s[i]
    BY <1>0, <2>1
  <2>3. s[i] \in Nat /\ s[j] \in Nat
    BY <1>0
  <2> QED  BY <2>2, <2>3
<1>. HIDE DEF n
<1>2. ASSUME NEW k \in 1 .. n PROVE Cardinality(Below(S, s[k])) = k - 1
  <2>. DEFINE B == Below(S, s[k])
              f == [i \in 1 .. k - 1 |-> s[i]]
  <2>1. \A i \in 1 .. k - 1 : i \in 1 .. n /\ i < k
    BY <1>0
  <2>2. f \in [1 .. k - 1 -> B]
    BY <1>0, <2>1 DEF Below
  <2>3. \A i, j \in 1 .. k - 1 : f[i] = f[j] => i = j
    <3>. SUFFICES ASSUME NEW i \in 1 .. k - 1, NEW j \in 1 .. k - 1, i < j, f[i] = f[j] PROVE FALSE
      OBVIOUS
    <3>1. s[i] < s[j] /\ s[i] = s[j] /\ s[i] \in Nat
      BY <1>0, <2>1
    <3> QED  BY <3>1
  <2>4. \A x \in B : \E i \in 1 .. k - 1 : f[i] = x
    <3>. SUFFICES ASSUME NEW x \in S, x < s[k] PROVE \E i \in 1 .. k - 1 : f[i] = x
      BY DEF Below
    <3>1. PICK i \in 1 .. n : s[i] = x
      BY <1>0
    <3>2. i < k
      BY <1>1, <3>1
    <3> QED  BY <3>1, <3>2
  <2>5. ExistsBijection(1 .. k - 1, B)
    <3>1. f \in Bijection(1 .. k - 1, B)
      BY <2>2, <2>3, <2>4 DEF Bijection, Injection, Surjection, IsInjective
    <3> QED  BY <3>1 DEF ExistsBijection
  <2>6. IsFiniteSet(1 .. k - 1) /\ Cardinality(1 .. k - 1) = k - 1
    BY FS_Interval
  <2> QED  BY <2>5, <2>6, FS_Bijection
<1>3. n = Cardinality(S)
  <2>1. s \in Bijection(1 .. n, S)
    <3>1. s \in [1 .. n -> S]
      BY <1>0
    <3>2. \A i, j \in 1 .. n : s[i] = s[j] => i = j
      <4>. SUFFICES ASSUME NEW i \in 1 .. n, NEW j \in 1 .. n, i < j, s[i] = s[j] PROVE FALSE
        OBVIOUS
      <4>1. s[i] < s[j] /\ s[i] = s[j] /\ s[i] \in Nat
        BY <1>0
      <4> QED  BY <4>1
    <3> QED  BY <1>0, <3>1, <3>2 DEF Bijection, Injection, Surjection, IsInjective
  <2>2. ExistsBijection(1 .. n, S)
    BY <2>1 DEF ExistsBijection
  <2>3. IsFiniteSet(1 .. n) /\ Cardinality(1 .. n) = n
    BY <1>0, FS_Interval
  <2> QED  BY <2>2, <2>3, FS_Bijection
<1>4. ASSUME NEW k \in 1 .. n PROVE s[k] = Kth(S, k)
  BY <1>0, <1>2, <1>3, KthUnique, ZenonT(30)
<1> QED  BY <1>0, <1>3, <1>4 DEF Ascending

\* A list with one item taken out.
LEMMA RemovedType ==
    ASSUME NEW T, NEW list \in Seq(T), NEW n \in DOMAIN list
    PROVE  /\ RemoveAt(list, n) \in Seq(T) /\ Len(RemoveAt(list, n)) = Len(list) - 1
           /\ \A i \in 1 .. Len(list) - 1 : RemoveAt(list, n)[i] = IF i < n THEN list[i] ELSE list[i + 1]
<1>. DEFINE u == SubSeq(list, 1, n - 1)
            v == SubSeq(list, n + 1, Len(list))
<1>0. n \in 1 .. Len(list) /\ Len(list) \in Nat
  OBVIOUS
<1>1. u \in Seq(T) /\ Len(u) = n - 1 /\ \A i \in 1 .. n - 1 : u[i] = list[i]
  BY <1>0
<1>2. v \in Seq(T) /\ Len(v) = Len(list) - n /\ \A i \in 1 .. Len(list) - n : v[i] = list[n + i]
  BY <1>0
<1>. HIDE DEF u, v
<1>3. u \o v \in Seq(T) /\ Len(u \o v) = Len(list) - 1
  BY <1>0, <1>1, <1>2
<1>4. ASSUME NEW i \in 1 .. Len(list) - 1
      PROVE  (u \o v)[i] = IF i < n THEN list[i] ELSE list[i + 1]
  <2>1. ASSUME i < n PROVE (u \o v)[i] = list[i]
    BY <1>0, <1>1, <1>2, <2>1
  <2>2. ASSUME i >= n PROVE (u \o v)[i] = list[i + 1]
    <3>1. (u \o v)[i] = v[i - (n - 1)]
      BY <1>0, <1>1, <1>2, <2>2, SMTT(30)
    <3>2. i - (n - 1) \in 1 .. Len(list) - n /\ n + (i - (n - 1)) = i + 1
      BY <1>0, <2>2
    <3> QED  BY <1>0, <1>2, <2>2, <3>1, <3>2
  <2>3. i \in Int /\ n \in Int
    BY <1>0
  <2>. DEFINE x == (u \o v)[i]
              y == list[i]
              z == list[i + 1]
  <2>4. (i < n => x = y) /\ (i >= n => x = z)
    BY <2>1, <2>2
  <2>. HIDE DEF x, y, z
  <2>5. x = IF i < n THEN y ELSE z
    BY <2>3, <2>4
  <2> QED  BY <2>5 DEF x, y, z
<1>5. RemoveAt(list, n) = u \o v
  BY Zenon DEF RemoveAt, u, v
<1> QED  BY <1>3, <1>4, <1>5
-----------------------------------------------------------------------------
(* Cursors.                                                                *)

\* "clamped to [0, total-1]" (the comment on CursorMovePage): paging gives a
\* cursor the list accepts, whatever the cursor, the length and the page size
\* it is given.
THEOREM MovePageValid ==
    ASSUME NEW cursor \in Int, NEW total \in Nat, NEW perPage \in Int,
           NEW forward \in BOOLEAN
    PROVE  ValidCursor(CursorMovePage(cursor, total, perPage, forward), total)
<1> DEFINE step == IF perPage < 1 THEN 1 ELSE perPage
           moved == IF forward THEN cursor + step ELSE cursor - step
<1>1. moved \in Int
  OBVIOUS
<1>2. CASE moved < 0 \/ total <= 0
  BY <1>2 DEF CursorMovePage, ValidCursor
<1>3. CASE ~(moved < 0 \/ total <= 0)
  BY <1>1, <1>3 DEF CursorMovePage, ValidCursor
<1> QED  BY <1>2, <1>3

\* The "last valid cursor index" of CursorGotoBottom is one the list accepts.
THEOREM GotoBottomValid ==
    ASSUME NEW total \in Nat
    PROVE  ValidCursor(CursorGotoBottom(total), total)
BY DEF CursorGotoBottom, ValidCursor

\* A cursor that the list accepts is on an item of it, unless it is empty.
LEMMA UnderTheCursor ==
    ASSUME NEW T, NEW list \in Seq(T), NEW cursor, ValidCursor(cursor, Len(list)), list # <<>>
    PROVE  /\ cursor \in Nat /\ cursor < Len(list)
           /\ cursor + 1 \in DOMAIN list
           /\ list[cursor + 1] \in T
<1>1. PICK c \in Nat : c = cursor
  BY DEF ValidCursor
<1>2. Len(list) \in Nat /\ Len(list) # 0 /\ DOMAIN list = 1 .. Len(list) /\ list \in [1 .. Len(list) -> T]
  OBVIOUS
<1>3. c < Len(list)
  BY <1>1, <1>2 DEF ValidCursor
<1>4. c + 1 \in 1 .. Len(list)
  BY <1>2, <1>3
<1>5. list[c + 1] \in T
  BY <1>2, <1>4
<1> QED  BY <1>1, <1>2, <1>3, <1>4, <1>5

\* A page that removes an item of its list and steps back from the end is
\* left with a cursor the shorter list accepts.
THEOREM AfterRemovalValid ==
    ASSUME NEW cursor \in Nat, NEW total \in Nat, cursor < total + 1
    PROVE  ValidCursor(CursorAfterRemoval(cursor, total), total)
BY DEF CursorAfterRemoval, ValidCursor
=============================================================================
