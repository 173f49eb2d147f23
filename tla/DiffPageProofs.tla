--------------------------- MODULE DiffPageProofs ---------------------------
(***************************************************************************)
(* Theorems about DiffPage, for any texts over any tokens and any heights  *)
(* of the window: each panel draws the text of its slot, the comparison is *)
(* the smallest one, and the lines of one change share rows.               *)
(*                                                                         *)
(* From the bottom up: the recursive functions satisfy their equations;    *)
(* the table holds the size of the largest set of matches that do not      *)
(* cross; the walk through it goes from corner to corner, through every    *)
(* line once; pairing the rows of a change keeps all that, and pairs no    *)
(* equal lines, because the table does not change inside a change; so the  *)
(* rows, which are a function of the two slots in every reachable state,   *)
(* have the properties.                                                    *)
(***************************************************************************)
EXTENDS DiffPage, ListFacts, TLAPS

\* Induction over the numbers, for a set: the theorem of the library takes an
\* operator.  It is the least counterexample.
LEMMA Induction ==
    ASSUME NEW T \in SUBSET Nat, 0 \in T, \A k \in T : k + 1 \in T
    PROVE  \A k \in Nat : k \in T
<1>. DEFINE Missing == Nat \ T
<1>. SUFFICES ASSUME Missing # {} PROVE FALSE
  OBVIOUS
<1>1. PICK m \in Missing : \A x \in Missing : m <= x
  <2>1. Missing \in SUBSET Nat
    OBVIOUS
  <2>. HIDE DEF Missing
  <2> QED  BY <2>1, LeastExists
<1>2. m \in Nat /\ m # 0 /\ m - 1 \in Nat /\ m - 1 < m
  OBVIOUS
<1>3. m - 1 \in T
  BY <1>1, <1>2
<1>4. (m - 1) + 1 \in T
  BY <1>3
<1>5. (m - 1) + 1 = m
  BY <1>2
<1> QED  BY <1>1, <1>4, <1>5

-----------------------------------------------------------------------------
(* Recursion.  Four functions are defined by recursion: the table, the walk *)
(* through it, the rows from a row on, and FlattenSeq.  That each exists is *)
(* proved once, for what they have in common: a value depends on values     *)
(* that are less deep.                                                      *)

TableOf(a, b, dp, i, j) ==
    IF i = 0 \/ j = 0 THEN 0
    ELSE IF a[i] = b[j] THEN dp[<<i-1, j-1>>] + 1
    ELSE IF dp[<<i-1, j>>] >= dp[<<i, j-1>>] THEN dp[<<i-1, j>>] ELSE dp[<<i, j-1>>]

WalkOf(a, b, dp, walk, i, j) ==
    IF i = 0 /\ j = 0 THEN <<>>
    ELSE IF i > 0 /\ j > 0 /\ a[i] = b[j] THEN Append(walk[<<i-1, j-1>>], Same(i, j))
    ELSE IF j > 0 /\ (i = 0 \/ dp[<<i, j-1>>] >= dp[<<i-1, j>>]) THEN Append(walk[<<i, j-1>>], Added(j))
    ELSE Append(walk[<<i-1, j>>], Removed(i))

RowsOf(rs, from, i) ==
    LET aStart == RunEnd(rs, i, "removed")
        aEnd   == RunEnd(rs, aStart, "added")
    IN  IF i = Len(rs) + 1 THEN <<>>
        ELSE IF rs[i].left.kind # "removed" THEN <<rs[i]>> \o from[i+1]
        ELSE Block(rs, i, aStart, aEnd) \o from[aEnd]

TokensOf(lines, flatten, i) == IF i = 1 THEN lines[i] ELSE flatten[i-1] \o lines[i]

Args(which, a, b) ==
    IF which \in {"table", "walk"} THEN Corners(a, b)
    ELSE IF which = "rows" THEN 1 .. Len(a) + 1 ELSE 1 .. Len(a)

Depth(which, a, b, x) ==
    IF which \in {"table", "walk"} THEN x[1] + x[2]
    ELSE IF which = "rows" THEN Len(a) + 1 - x ELSE x

Body(which, a, b, f, x) ==
    CASE which = "table"  -> TableOf(a, b, f, x[1], x[2])
      [] which = "walk"   -> WalkOf(a, b, LcsTable(a, b), f, x[1], x[2])
      [] which = "rows"   -> RowsOf(a, f, x)
      [] which = "tokens" -> TokensOf(a, f, x)

\* f and g are the same where they are less deep than k.
Agree(which, a, b, k, f, g) ==
    \A x \in Args(which, a, b) : Depth(which, a, b, x) < k => f[x] = g[x]

Bounded(which, a, b) ==
    \E n \in Nat : \A x \in Args(which, a, b) : Depth(which, a, b, x) \in 0 .. n

Descends(which, a, b) ==
    \A f, g : \A x \in Args(which, a, b) :
        Agree(which, a, b, Depth(which, a, b, x), f, g) => Body(which, a, b, f, x) = Body(which, a, b, g, x)

\* There is a function that has, at each argument, the value its recursive
\* definition gives it.  (The least depth at which none goes further leads to
\* one that does.)
LEMMA RecursionDefines ==
    ASSUME NEW which, NEW a, NEW b, Bounded(which, a, b), Descends(which, a, b)
    PROVE  \E f : f = [x \in Args(which, a, b) |-> Body(which, a, b, f, x)]
<1>. DEFINE S == Args(which, a, b)
            D(x) == Depth(which, a, b, x)
            Once(f) == [x \in S |-> Body(which, a, b, f, x)]
            Settled(f, k) == \A x \in S : D(x) < k => f[x] = Once(f)[x]
            T == {k \in Nat : \E f : Settled(f, k)}
<1>1. PICK n \in Nat : \A x \in S : D(x) \in 0 .. n
  BY Zenon DEF Bounded
<1>2. ASSUME NEW f, NEW x \in S PROVE Once(f)[x] = Body(which, a, b, f, x)
  OBVIOUS
<1>3. ASSUME NEW f, NEW x \in S, NEW k \in Nat, Settled(f, k), D(x) <= k
      PROVE  Once(f)[x] = Once(Once(f))[x]
  <2>1. Agree(which, a, b, D(x), f, Once(f))
    <3>. SUFFICES ASSUME NEW y \in S, D(y) < D(x) PROVE f[y] = Once(f)[y]
      BY Zenon DEF Agree
    <3>1. D(y) \in Nat /\ D(x) \in Nat
      BY <1>1
    <3>2. D(y) < k
      BY <1>3, <3>1
    <3> QED  BY <1>3, <3>2, Zenon
  <2>2. Body(which, a, b, f, x) = Body(which, a, b, Once(f), x)
    BY <2>1, Zenon DEF Descends
  <2> QED  BY <1>2, <2>2, Zenon
<1>. HIDE DEF Once, S, D
<1>4. 0 \in T
  <2>1. Settled(0, 0)
    BY <1>1
  <2> QED  BY <2>1, Zenon
<1>5. ASSUME NEW k \in T PROVE k + 1 \in T
  <2>1. PICK f : Settled(f, k)
    OBVIOUS
  <2>2. ASSUME NEW x \in S, D(x) < k + 1 PROVE Once(f)[x] = Once(Once(f))[x]
    <3>1. k \in Nat /\ D(x) <= k
      BY <1>1, <2>2
    <3> QED  BY <1>3, <2>1, <3>1
  <2>3. Settled(Once(f), k + 1)
    BY <2>2, Zenon
  <2>. HIDE DEF Settled
  <2> QED  BY <2>3
<1>6. PICK f : Settled(f, n + 1)
  <2>1. n + 1 \in T
    <3>. HIDE DEF Settled
    <3>1. T \in SUBSET Nat
      OBVIOUS
    <3>2. n + 1 \in Nat
      OBVIOUS
    <3>. HIDE DEF T
    <3> QED  BY <1>4, <1>5, <3>1, <3>2, Induction
  <2>. HIDE DEF Settled
  <2> QED  BY <2>1
<1>7. \A x \in S : Once(f)[x] = Once(Once(f))[x]
  <2>. SUFFICES ASSUME NEW x \in S PROVE Once(f)[x] = Once(Once(f))[x]
    OBVIOUS
  <2>1. D(x) <= n + 1 /\ n + 1 \in Nat
    BY <1>1
  <2> QED  BY <1>3, <1>6, <2>1
<1>8. Once(f) = Once(Once(f))
  BY <1>7, Zenon DEF Once
<1> QED  BY <1>8, Zenon DEF Once, S
-----------------------------------------------------------------------------
(* The table and the walk.                                                 *)

AreTexts(a, b) == Len(a) \in Nat /\ Len(b) \in Nat

\* A corner is a pair of positions, and every pair is one.
LEMMA CornerFacts ==
    ASSUME NEW a, NEW b, AreTexts(a, b)
    PROVE  /\ \A p \in Corners(a, b) : p[1] \in 0 .. Len(a) /\ p[2] \in 0 .. Len(b) /\ p = <<p[1], p[2]>>
           /\ \A i \in 0 .. Len(a), j \in 0 .. Len(b) : <<i, j>> \in Corners(a, b)
BY DEF Corners, AreTexts

\* The depth of a corner, the sum of its positions, is bounded.
LEMMA CornersBounded ==
    ASSUME NEW a, NEW b, AreTexts(a, b), NEW which \in {"table", "walk"}
    PROVE  Bounded(which, a, b)
<1>1. ASSUME NEW p \in Corners(a, b) PROVE p[1] + p[2] \in 0 .. Len(a) + Len(b)
  BY CornerFacts DEF AreTexts
<1>2. Len(a) + Len(b) \in Nat
  BY DEF AreTexts
<1> QED  BY <1>1, <1>2, Zenon DEF Bounded, Args, Depth

\* The three corners a corner's value may be computed from.
SameBefore(f, g, i, j) ==
    /\ i \in Nat /\ j \in Nat
    /\ i # 0 => f[<<i-1, j>>] = g[<<i-1, j>>]
    /\ j # 0 => f[<<i, j-1>>] = g[<<i, j-1>>]
    /\ i # 0 /\ j # 0 => f[<<i-1, j-1>>] = g[<<i-1, j-1>>]

\* Functions that agree on all less deep corners agree on the three corners
\* the table and the walk look back at.
LEMMA CornersBefore ==
    ASSUME NEW a, NEW b, AreTexts(a, b), NEW which \in {"table", "walk"}, NEW f, NEW g, NEW p \in Corners(a, b),
           Agree(which, a, b, Depth(which, a, b, p), f, g)
    PROVE  SameBefore(f, g, p[1], p[2])
<1>0. PICK i, j : i = p[1] /\ j = p[2]
  OBVIOUS
<1>1. \A q \in Corners(a, b) : q[1] + q[2] < i + j => f[q] = g[q]
  BY <1>0, Zenon DEF Agree, Args, Depth
<1>2. i \in 0 .. Len(a) /\ j \in 0 .. Len(b)
  BY <1>0, CornerFacts
<1>3. ASSUME NEW x \in 0 .. Len(a), NEW y \in 0 .. Len(b), x + y < i + j PROVE f[<<x, y>>] = g[<<x, y>>]
  BY <1>1, <1>3, CornerFacts
<1>4. i # 0 => f[<<i-1, j>>] = g[<<i-1, j>>]
  BY <1>2, <1>3 DEF AreTexts
<1>5. j # 0 => f[<<i, j-1>>] = g[<<i, j-1>>]
  BY <1>2, <1>3 DEF AreTexts
<1>6. i # 0 /\ j # 0 => f[<<i-1, j-1>>] = g[<<i-1, j-1>>]
  BY <1>2, <1>3 DEF AreTexts
<1> QED  BY <1>0, <1>2, <1>4, <1>5, <1>6 DEF AreTexts, SameBefore

\* The table satisfies its recursive equation.
LEMMA TableUnfolds ==
    ASSUME NEW a, NEW b, AreTexts(a, b), NEW i \in 0 .. Len(a), NEW j \in 0 .. Len(b)
    PROVE  LcsTable(a, b)[<<i, j>>] = TableOf(a, b, LcsTable(a, b), i, j)
<1>1. Descends("table", a, b)
  <2>. SUFFICES ASSUME NEW f, NEW g, NEW p \in Corners(a, b), Agree("table", a, b, Depth("table", a, b, p), f, g)
                PROVE  TableOf(a, b, f, p[1], p[2]) = TableOf(a, b, g, p[1], p[2])
    BY ZenonT(60) DEF Descends, Args, Body
  <2>1. SameBefore(f, g, p[1], p[2])
    BY CornersBefore
  <2> QED  BY <2>1, Zenon DEF TableOf, SameBefore
<1>2. \E f : f = [p \in Corners(a, b) |-> TableOf(a, b, f, p[1], p[2])]
  <2>1. \E f : f = [x \in Args("table", a, b) |-> Body("table", a, b, f, x)]
    BY <1>1, CornersBounded, RecursionDefines
  <2> QED  BY <2>1, Zenon DEF Args, Body
<1>3. LcsTable(a, b) = CHOOSE f : f = [p \in Corners(a, b) |-> TableOf(a, b, f, p[1], p[2])]
  BY Zenon DEF LcsTable, TableOf
<1>4. LcsTable(a, b) = [p \in Corners(a, b) |-> TableOf(a, b, LcsTable(a, b), p[1], p[2])]
  BY <1>2, <1>3, Zenon
<1> QED  BY <1>4, CornerFacts

\* So does the walk.
LEMMA WalkUnfolds ==
    ASSUME NEW a, NEW b, AreTexts(a, b), NEW i \in 0 .. Len(a), NEW j \in 0 .. Len(b)
    PROVE  WalkBack(a, b)[<<i, j>>] = WalkOf(a, b, LcsTable(a, b), WalkBack(a, b), i, j)
<1>. DEFINE dp == LcsTable(a, b)
<1>1. Descends("walk", a, b)
  <2>. SUFFICES ASSUME NEW f, NEW g, NEW p \in Corners(a, b), Agree("walk", a, b, Depth("walk", a, b, p), f, g)
                PROVE  WalkOf(a, b, dp, f, p[1], p[2]) = WalkOf(a, b, dp, g, p[1], p[2])
    BY ZenonT(60) DEF Descends, Args, Body
  <2>1. SameBefore(f, g, p[1], p[2])
    BY CornersBefore
  <2>2. ASSUME NEW i1, NEW j1, SameBefore(f, g, i1, j1)
        PROVE  WalkOf(a, b, dp, f, i1, j1) = WalkOf(a, b, dp, g, i1, j1)
    <3>. HIDE DEF dp
    <3> QED  BY <2>2 DEF WalkOf, SameBefore
  <2> QED  BY <2>1, <2>2, Zenon
<1>2. \E f : f = [p \in Corners(a, b) |-> WalkOf(a, b, dp, f, p[1], p[2])]
  <2>1. \E f : f = [x \in Args("walk", a, b) |-> Body("walk", a, b, f, x)]
    BY <1>1, CornersBounded, RecursionDefines
  <2> QED  BY <2>1, Zenon DEF Args, Body
<1>3. WalkBack(a, b) = CHOOSE f : f = [p \in Corners(a, b) |-> WalkOf(a, b, dp, f, p[1], p[2])]
  BY Zenon DEF WalkBack, WalkOf
<1>4. WalkBack(a, b) = [p \in Corners(a, b) |-> WalkOf(a, b, dp, WalkBack(a, b), p[1], p[2])]
  BY <1>2, <1>3, Zenon
<1> QED  BY <1>4, CornerFacts

-----------------------------------------------------------------------------
(* What is in the table.                                                   *)

\* What holds of a corner when it holds of the three before it holds of all.
LEMMA CornerInduction ==
    ASSUME NEW a, NEW b, AreTexts(a, b), NEW T,
           \A i \in 0 .. Len(a), j \in 0 .. Len(b) :
               /\ i # 0 => <<i-1, j>> \in T
               /\ j # 0 => <<i, j-1>> \in T
               /\ i # 0 /\ j # 0 => <<i-1, j-1>> \in T
               => <<i, j>> \in T
    PROVE  \A i \in 0 .. Len(a), j \in 0 .. Len(b) : <<i, j>> \in T
<1>. DEFINE Missing == {k \in Nat : \E i \in 0 .. Len(a), j \in 0 .. Len(b) : i + j = k /\ <<i, j>> \notin T}
<1>1. ASSUME Missing # {} PROVE FALSE
  <2>1. PICK k \in Missing : \A l \in Missing : k <= l
    <3>1. Missing \in SUBSET Nat
      OBVIOUS
    <3>. HIDE DEF Missing
    <3> QED  BY <1>1, <3>1, LeastExists
  <2>2. PICK i \in 0 .. Len(a), j \in 0 .. Len(b) : i + j = k /\ <<i, j>> \notin T
    OBVIOUS
  <2>3. ASSUME NEW x \in 0 .. Len(a), NEW y \in 0 .. Len(b), x + y < i + j PROVE <<x, y>> \in T
    <3>1. x + y \in Nat /\ i + j \in Nat
      BY DEF AreTexts
    <3>2. x + y \notin Missing
      <4>. HIDE DEF Missing
      <4> QED  BY <2>1, <2>2, <2>3, <3>1
    <3> QED  BY <3>1, <3>2
  <2>4. i # 0 => <<i-1, j>> \in T
    BY <2>3 DEF AreTexts
  <2>5. j # 0 => <<i, j-1>> \in T
    BY <2>3 DEF AreTexts
  <2>6. i # 0 /\ j # 0 => <<i-1, j-1>> \in T
    BY <2>3 DEF AreTexts
  <2> QED  BY <2>2, <2>4, <2>5, <2>6
<1>2. ASSUME NEW i \in 0 .. Len(a), NEW j \in 0 .. Len(b), <<i, j>> \notin T PROVE FALSE
  <2>1. i + j \in Nat
    BY DEF AreTexts
  <2>2. i + j \in Missing
    BY <1>2, <2>1
  <2> QED  BY <1>1, <2>2
<1> QED  BY <1>2

\* A line more makes the subsequence no shorter and at most one line longer.
Even(a, b, i, j) ==
    LET dp == LcsTable(a, b)
    IN  /\ dp[<<i, j>>] \in Nat
        /\ i # 0 => dp[<<i-1, j>>] <= dp[<<i, j>>] /\ dp[<<i, j>>] <= dp[<<i-1, j>>] + 1
        /\ j # 0 => dp[<<i, j-1>>] <= dp[<<i, j>>] /\ dp[<<i, j>>] <= dp[<<i, j-1>>] + 1
        /\ i # 0 /\ j # 0 => dp[<<i, j>>] <= dp[<<i-1, j-1>>] + 1

\* Each entry of the table is at most one more than its neighbours before it.
LEMMA TableEven ==
    ASSUME NEW a, NEW b, AreTexts(a, b)
    PROVE  \A i \in 0 .. Len(a), j \in 0 .. Len(b) : Even(a, b, i, j)
<1>. DEFINE dp == LcsTable(a, b)
            T == {p \in Corners(a, b) : Even(a, b, p[1], p[2])}
<1>1. ASSUME NEW i \in 0 .. Len(a), NEW j \in 0 .. Len(b),
             i # 0 => Even(a, b, i-1, j),
             j # 0 => Even(a, b, i, j-1),
             i # 0 /\ j # 0 => Even(a, b, i-1, j-1)
      PROVE  Even(a, b, i, j)
  <2>0. i \in Nat /\ j \in Nat
    BY DEF AreTexts
  <2>1. dp[<<i, j>>] = TableOf(a, b, dp, i, j)
    BY TableUnfolds
  <2>2. CASE i = 0 \/ j = 0
    <3>1. dp[<<i, j>>] = 0
      BY <2>1, <2>2, Zenon DEF TableOf
    <3>2. i # 0 => dp[<<i-1, j>>] = 0
      <4>. SUFFICES ASSUME i # 0 PROVE dp[<<i-1, j>>] = 0
        OBVIOUS
      <4>1. i - 1 \in 0 .. Len(a) /\ j = 0
        BY <2>0, <2>2 DEF AreTexts
      <4>2. dp[<<i-1, j>>] = TableOf(a, b, dp, i-1, j)
        BY <4>1, TableUnfolds
      <4> QED  BY <4>1, <4>2, Zenon DEF TableOf
    <3>3. j # 0 => dp[<<i, j-1>>] = 0
      <4>. SUFFICES ASSUME j # 0 PROVE dp[<<i, j-1>>] = 0
        OBVIOUS
      <4>1. j - 1 \in 0 .. Len(b) /\ i = 0
        BY <2>0, <2>2 DEF AreTexts
      <4>2. dp[<<i, j-1>>] = TableOf(a, b, dp, i, j-1)
        BY <4>1, TableUnfolds
      <4> QED  BY <4>1, <4>2, Zenon DEF TableOf
    <3>. HIDE DEF dp
    <3>4. /\ dp[<<i, j>>] \in Nat
          /\ i # 0 => dp[<<i-1, j>>] <= dp[<<i, j>>] /\ dp[<<i, j>>] <= dp[<<i-1, j>>] + 1
          /\ j # 0 => dp[<<i, j-1>>] <= dp[<<i, j>>] /\ dp[<<i, j>>] <= dp[<<i, j-1>>] + 1
      BY <3>1, <3>2, <3>3
    <3> QED  BY <2>2, <3>4, Zenon DEF Even, dp
  <2>3. CASE i # 0 /\ j # 0
    <3>. DEFINE d == dp[<<i, j>>]
                up == dp[<<i-1, j>>]
                back == dp[<<i, j-1>>]
                diag == dp[<<i-1, j-1>>]
    <3>1. up \in Nat /\ back \in Nat /\ diag \in Nat
      BY <1>1, <2>3, Zenon DEF Even
    <3>2. diag <= up /\ up <= diag + 1
      <4>1. j # 0 => dp[<<i-1, j-1>>] <= dp[<<i-1, j>>] /\ dp[<<i-1, j>>] <= dp[<<i-1, j-1>>] + 1
        BY <1>1, <2>3, Zenon DEF Even
      <4> QED  BY <2>3, <4>1
    <3>3. diag <= back /\ back <= diag + 1
      <4>1. i # 0 => dp[<<i-1, j-1>>] <= dp[<<i, j-1>>] /\ dp[<<i, j-1>>] <= dp[<<i-1, j-1>>] + 1
        BY <1>1, <2>3, Zenon DEF Even
      <4> QED  BY <2>3, <4>1
    <3>4. d = diag + 1 \/ (d = up /\ up >= back) \/ (d = back /\ ~(up >= back))
      BY <2>1, <2>3, Zenon DEF TableOf
    <3>5. Even(a, b, i, j) <=> /\ d \in Nat
                               /\ up <= d /\ d <= up + 1
                               /\ back <= d /\ d <= back + 1
                               /\ d <= diag + 1
      BY <2>3, Zenon DEF Even
    <3>. HIDE DEF d, up, back, diag
    <3> QED  BY <3>1, <3>2, <3>3, <3>4, <3>5
  <2> QED  BY <2>2, <2>3
<1>2. ASSUME NEW i \in 0 .. Len(a), NEW j \in 0 .. Len(b)
      PROVE  <<i, j>> \in T <=> Even(a, b, i, j)
  BY CornerFacts
<1>. HIDE DEF T
<1>3. ASSUME NEW i \in 0 .. Len(a), NEW j \in 0 .. Len(b),
             i # 0 => <<i-1, j>> \in T,
             j # 0 => <<i, j-1>> \in T,
             i # 0 /\ j # 0 => <<i-1, j-1>> \in T
      PROVE  <<i, j>> \in T
  <2>1. /\ i # 0 => i - 1 \in 0 .. Len(a)
        /\ j # 0 => j - 1 \in 0 .. Len(b)
    BY DEF AreTexts
  <2> QED  BY <1>1, <1>2, <1>3, <2>1, Zenon
<1>4. \A i \in 0 .. Len(a), j \in 0 .. Len(b) : <<i, j>> \in T
  BY <1>3, CornerInduction, Zenon
<1> QED  BY <1>2, <1>4

-----------------------------------------------------------------------------
(* A longest common subsequence, without the table.                        *)

Equal(a, b) == {p \in (DOMAIN a) \X (DOMAIN b) : a[p[1]] = b[p[2]]}
Straight(M) == \A p, q \in M : p # q => (p[1] < q[1] <=> p[2] < q[2]) /\ p[1] # q[1] /\ p[2] # q[2]

\* Equal lines of the first i lines of a and the first j of b, none crossing.
Matching(a, b, i, j, M) ==
    /\ M \in SUBSET Equal(a, b)
    /\ Straight(M)
    /\ \A p \in M : p[1] <= i /\ p[2] <= j

Longest(a, b, i, j, d) ==
    /\ \E M : Matching(a, b, i, j, M) /\ IsFiniteSet(M) /\ Cardinality(M) = d
    /\ \A M : Matching(a, b, i, j, M) => IsFiniteSet(M) /\ Cardinality(M) <= d

\* The types of a match.
LEMMA PairTypes ==
    ASSUME NEW X, NEW Y, NEW a \in Seq(X), NEW b \in Seq(Y), NEW p \in Equal(a, b)
    PROVE  /\ p[1] \in 1 .. Len(a) /\ p[2] \in 1 .. Len(b) /\ p = <<p[1], p[2]>>
           /\ p[1] \in Nat /\ p[2] \in Nat /\ a[p[1]] = b[p[2]]
BY DEF Equal

\* Nothing matches nothing.
LEMMA LongestOfNothing ==
    ASSUME NEW X, NEW Y, NEW a \in Seq(X), NEW b \in Seq(Y),
           NEW i \in 0 .. Len(a), NEW j \in 0 .. Len(b), i = 0 \/ j = 0
    PROVE  Longest(a, b, i, j, 0)
<1>1. ASSUME NEW M, Matching(a, b, i, j, M) PROVE M = {}
  <2>. SUFFICES ASSUME NEW p \in M PROVE FALSE
    OBVIOUS
  <2>1. p \in Equal(a, b) /\ p[1] <= i /\ p[2] <= j
    BY <1>1 DEF Matching
  <2> QED  BY <2>1, PairTypes
<1>2. IsFiniteSet({}) /\ Cardinality({}) = 0
  BY FS_EmptySet
<1>3. Matching(a, b, i, j, {})
  BY DEF Matching, Straight
<1>4. ASSUME NEW M, Matching(a, b, i, j, M) PROVE IsFiniteSet(M) /\ Cardinality(M) <= 0
  <2>1. M = {}
    BY <1>1, <1>4
  <2>2. IsFiniteSet(M) /\ Cardinality(M) = 0
    BY <1>2, <2>1
  <2> QED  BY <2>2
<1> QED  BY <1>2, <1>3, <1>4, Zenon DEF Longest

\* With equal last lines there is one match more.
LEMMA LongestMatch ==
    ASSUME NEW X, NEW Y, NEW a \in Seq(X), NEW b \in Seq(Y),
           NEW i \in 1 .. Len(a), NEW j \in 1 .. Len(b), a[i] = b[j],
           NEW d \in Nat, Longest(a, b, i - 1, j - 1, d)
    PROVE  Longest(a, b, i, j, d + 1)
<1>. DEFINE c == <<i, j>>
<1>0. c \in Equal(a, b) /\ c[1] = i /\ c[2] = j /\ i \in Nat /\ j \in Nat
  BY DEF Equal
<1>. HIDE DEF c
<1>1. \E M : Matching(a, b, i, j, M) /\ IsFiniteSet(M) /\ Cardinality(M) = d + 1
  <2>1. PICK N : Matching(a, b, i - 1, j - 1, N) /\ IsFiniteSet(N) /\ Cardinality(N) = d
    BY Zenon DEF Longest
  <2>2. ASSUME NEW p \in N
        PROVE  /\ p \in Equal(a, b) /\ p[1] \in Nat /\ p[2] \in Nat /\ p[1] <= i - 1 /\ p[2] <= j - 1
               /\ p[1] < i /\ p[2] < j
    <3>1. p \in Equal(a, b) /\ p[1] <= i - 1 /\ p[2] <= j - 1
      BY <2>1 DEF Matching
    <3> QED  BY <1>0, <3>1, PairTypes
  <2>3. c \notin N
    BY <1>0, <2>2
  <2>4. IsFiniteSet(N \cup {c}) /\ Cardinality(N \cup {c}) = d + 1
    BY <2>1, <2>3, FS_AddElement
  <2>5. Straight(N \cup {c})
    <3>. SUFFICES ASSUME NEW p \in N \cup {c}, NEW q \in N \cup {c}, p # q
                  PROVE  (p[1] < q[1] <=> p[2] < q[2]) /\ p[1] # q[1] /\ p[2] # q[2]
      BY Zenon DEF Straight
    <3>1. CASE p \in N /\ q \in N
      BY <2>1, <3>1, Zenon DEF Matching, Straight
    <3>2. CASE p = c /\ q \in N
      BY <1>0, <2>2, <3>2
    <3>3. CASE p \in N /\ q = c
      BY <1>0, <2>2, <3>3
    <3> QED  BY <3>1, <3>2, <3>3
  <2>6. Matching(a, b, i, j, N \cup {c})
    <3>1. N \cup {c} \in SUBSET Equal(a, b)
      BY <1>0, <2>2
    <3>2. \A p \in N \cup {c} : p[1] <= i /\ p[2] <= j
      BY <1>0, <2>2
    <3> QED  BY <2>5, <3>1, <3>2, Zenon DEF Matching
  <2> QED  BY <2>4, <2>6
<1>2. ASSUME NEW M, Matching(a, b, i, j, M)
      PROVE  IsFiniteSet(M) /\ Cardinality(M) <= d + 1
  <2>. DEFINE Edge == {p \in M : p[1] = i \/ p[2] = j}
  <2>1. ASSUME NEW p \in M PROVE p[1] \in Nat /\ p[2] \in Nat /\ p[1] <= i /\ p[2] <= j
    <3>1. p \in Equal(a, b) /\ p[1] <= i /\ p[2] <= j
      BY <1>2 DEF Matching
    <3> QED  BY <3>1, PairTypes
  <2>2. ASSUME NEW p \in Edge, NEW q \in Edge, p # q PROVE FALSE
    <3>1. (p[1] < q[1] <=> p[2] < q[2]) /\ (q[1] < p[1] <=> q[2] < p[2]) /\ p[1] # q[1] /\ p[2] # q[2]
      BY <1>2, <2>2, Zenon DEF Matching, Straight
    <3>2. /\ p[1] \in Nat /\ p[2] \in Nat /\ p[1] <= i /\ p[2] <= j
          /\ q[1] \in Nat /\ q[2] \in Nat /\ q[1] <= i /\ q[2] <= j
      BY <2>1
    <3> QED  BY <1>0, <3>1, <3>2, SMTT(30)
  <2>3. Matching(a, b, i - 1, j - 1, M \ Edge)
    <3>1. M \ Edge \in SUBSET Equal(a, b)
      BY <1>2, Zenon DEF Matching
    <3>2. Straight(M \ Edge)
      BY <1>2, Zenon DEF Matching, Straight
    <3>3. ASSUME NEW p \in M \ Edge PROVE p[1] <= i - 1 /\ p[2] <= j - 1
      BY <1>0, <2>1
    <3> QED  BY <3>1, <3>2, <3>3, Zenon DEF Matching
  <2>4. IsFiniteSet(M \ Edge) /\ Cardinality(M \ Edge) <= d
    BY <2>3, Zenon DEF Longest
  <2>5. CASE Edge = {}
    <3>1. M = M \ Edge
      BY <2>5, Zenon
    <3>2. Cardinality(M \ Edge) \in Nat
      BY <2>4, FS_CardinalityType
    <3>. HIDE DEF Edge
    <3>3. Cardinality(M \ Edge) <= d + 1
      BY <2>4, <3>2
    <3> QED  BY <2>4, <3>1, <3>3, Zenon
  <2>6. CASE Edge # {}
    <3>1. PICK p : p \in Edge
      BY <2>6
    <3>2. M = (M \ Edge) \cup {p} /\ p \notin M \ Edge
      <4>1. Edge = {p}
        BY <2>2, <3>1
      <4> QED  BY <3>1, <4>1
    <3>. DEFINE R == M \ Edge
    <3>. HIDE DEF R, Edge
    <3>3. M = R \cup {p} /\ p \notin R /\ IsFiniteSet(R) /\ Cardinality(R) <= d
      BY <2>4, <3>2 DEF R
    <3>4. Cardinality(R) \in Nat
      BY <3>3, FS_CardinalityType
    <3>5. IsFiniteSet(R \cup {p}) /\ Cardinality(R \cup {p}) = Cardinality(R) + 1
      BY <3>3, FS_AddElement
    <3>6. Cardinality(R) + 1 <= d + 1
      BY <3>3, <3>4
    <3> QED  BY <3>3, <3>5, <3>6
  <2> QED  BY <2>5, <2>6
<1> QED  BY <1>1, <1>2, Zenon DEF Longest

\* With different last lines one of them is in no match.
LEMMA LongestNoMatch ==
    ASSUME NEW X, NEW Y, NEW a \in Seq(X), NEW b \in Seq(Y),
           NEW i \in 1 .. Len(a), NEW j \in 1 .. Len(b), a[i] # b[j],
           NEW up \in Nat, Longest(a, b, i - 1, j, up),
           NEW back \in Nat, Longest(a, b, i, j - 1, back)
    PROVE  Longest(a, b, i, j, IF up >= back THEN up ELSE back)
<1>. DEFINE d == IF up >= back THEN up ELSE back
<1>0. i \in Nat /\ j \in Nat /\ d \in Nat /\ up <= d /\ back <= d /\ (d = up \/ d = back)
  OBVIOUS
<1>. HIDE DEF d
<1>1. ASSUME NEW M, Matching(a, b, i - 1, j, M) \/ Matching(a, b, i, j - 1, M)
      PROVE  Matching(a, b, i, j, M)
  <2>1. ASSUME NEW p \in M PROVE p[1] <= i /\ p[2] <= j
    <3>1. p \in Equal(a, b) /\ ((p[1] <= i - 1 /\ p[2] <= j) \/ (p[1] <= i /\ p[2] <= j - 1))
      <4>1. CASE Matching(a, b, i - 1, j, M)
        BY <4>1 DEF Matching
      <4>2. CASE Matching(a, b, i, j - 1, M)
        BY <4>2 DEF Matching
      <4> QED  BY <1>1, <4>1, <4>2
    <3>2. p[1] \in Nat /\ p[2] \in Nat
      BY <3>1, PairTypes
    <3> QED  BY <1>0, <3>1, <3>2
  <2> QED  BY <1>1, <2>1, Zenon DEF Matching
<1>2. \E M : Matching(a, b, i, j, M) /\ IsFiniteSet(M) /\ Cardinality(M) = d
  BY <1>0, <1>1, Zenon DEF Longest
<1>3. ASSUME NEW M, Matching(a, b, i, j, M)
      PROVE  IsFiniteSet(M) /\ Cardinality(M) <= d
  <2>1. ASSUME NEW p \in M
        PROVE  /\ p[1] \in Nat /\ p[2] \in Nat /\ p[1] <= i /\ p[2] <= j
               /\ ~(p[1] = i /\ p[2] = j)
    <3>1. p \in Equal(a, b) /\ p[1] <= i /\ p[2] <= j
      BY <1>3 DEF Matching
    <3>2. p[1] \in Nat /\ p[2] \in Nat /\ a[p[1]] = b[p[2]]
      BY <3>1, PairTypes
    <3> QED  BY <3>1, <3>2
  <2>2. CASE \E p \in M : p[1] = i
    <3>1. PICK p \in M : p[1] = i
      BY <2>2
    <3>2. ASSUME NEW q \in M PROVE q[2] <= j - 1
      <4>0. ASSUME q # p
            PROVE  (p[1] < q[1] <=> p[2] < q[2]) /\ (q[1] < p[1] <=> q[2] < p[2]) /\ p[1] # q[1]
        BY <1>3, <4>0, Zenon DEF Matching, Straight
      <4>1. q = p \/ ((p[1] < q[1] <=> p[2] < q[2]) /\ (q[1] < p[1] <=> q[2] < p[2]) /\ p[1] # q[1])
        BY <4>0
      <4>2. /\ p[2] \in Nat /\ p[2] < j
            /\ q[1] \in Nat /\ q[2] \in Nat /\ q[1] <= i /\ q[2] <= j
        BY <1>0, <2>1, <3>1
      <4>3. q[2] < j
        BY <1>0, <3>1, <4>1, <4>2
      <4> QED  BY <1>0, <4>2, <4>3
    <3>3. Matching(a, b, i, j - 1, M)
      BY <1>3, <3>2, Zenon DEF Matching
    <3>4. IsFiniteSet(M) /\ Cardinality(M) <= back
      BY <3>3, Zenon DEF Longest
    <3>5. Cardinality(M) \in Nat
      BY <3>4, FS_CardinalityType
    <3> QED  BY <1>0, <3>4, <3>5
  <2>3. CASE ~ \E p \in M : p[1] = i
    <3>1. ASSUME NEW p \in M PROVE p[1] <= i - 1
      BY <1>0, <2>1, <2>3
    <3>3. Matching(a, b, i - 1, j, M)
      BY <1>3, <3>1, Zenon DEF Matching
    <3>4. IsFiniteSet(M) /\ Cardinality(M) <= up
      BY <3>3, Zenon DEF Longest
    <3>5. Cardinality(M) \in Nat
      BY <3>4, FS_CardinalityType
    <3> QED  BY <1>0, <3>4, <3>5
  <2> QED  BY <2>2, <2>3
<1> QED  BY <1>2, <1>3, Zenon DEF Longest, d

\* The table holds what it is for.
LEMMA TableLongest ==
    ASSUME NEW X, NEW Y, NEW a \in Seq(X), NEW b \in Seq(Y),
           NEW i \in 0 .. Len(a), NEW j \in 0 .. Len(b)
    PROVE  Longest(a, b, i, j, LcsTable(a, b)[<<i, j>>])
<1>. DEFINE dp == LcsTable(a, b)
            T == {p \in Corners(a, b) : Longest(a, b, p[1], p[2], dp[p])}
<1>0. AreTexts(a, b)
  BY DEF AreTexts
<1>1. ASSUME NEW x \in 0 .. Len(a), NEW y \in 0 .. Len(b)
      PROVE  <<x, y>> \in T <=> Longest(a, b, x, y, dp[<<x, y>>])
  BY <1>0, CornerFacts
<1>. HIDE DEF T
<1>2. ASSUME NEW x \in 0 .. Len(a), NEW y \in 0 .. Len(b),
             x # 0 => <<x-1, y>> \in T,
             y # 0 => <<x, y-1>> \in T,
             x # 0 /\ y # 0 => <<x-1, y-1>> \in T
      PROVE  <<x, y>> \in T
  <2>1. dp[<<x, y>>] = TableOf(a, b, dp, x, y)
    BY <1>0, TableUnfolds
  <2>2. CASE x = 0 \/ y = 0
    <3>1. dp[<<x, y>>] = 0
      BY <2>1, <2>2, Zenon DEF TableOf
    <3> QED  BY <1>1, <2>2, <3>1, LongestOfNothing
  <2>3. CASE x # 0 /\ y # 0
    <3>1. /\ x \in 1 .. Len(a) /\ y \in 1 .. Len(b)
          /\ x - 1 \in 0 .. Len(a) /\ y - 1 \in 0 .. Len(b)
      BY <2>3
    <3>2. /\ Longest(a, b, x-1, y, dp[<<x-1, y>>])
          /\ Longest(a, b, x, y-1, dp[<<x, y-1>>])
          /\ Longest(a, b, x-1, y-1, dp[<<x-1, y-1>>])
      BY <1>1, <1>2, <2>3, <3>1
    <3>3. dp[<<x-1, y>>] \in Nat /\ dp[<<x, y-1>>] \in Nat /\ dp[<<x-1, y-1>>] \in Nat
      BY <1>0, <3>1, TableEven DEF Even
    <3>. HIDE DEF dp
    <3>4. CASE a[x] = b[y]
      <4>1. dp[<<x, y>>] = dp[<<x-1, y-1>>] + 1
        BY <2>1, <2>3, <3>4, Zenon DEF TableOf
      <4>2. Longest(a, b, x, y, dp[<<x-1, y-1>>] + 1)
        BY <3>1, <3>2, <3>3, <3>4, LongestMatch
      <4> QED  BY <1>1, <4>1, <4>2
    <3>5. CASE a[x] # b[y]
      <4>1. dp[<<x, y>>] = IF dp[<<x-1, y>>] >= dp[<<x, y-1>>] THEN dp[<<x-1, y>>] ELSE dp[<<x, y-1>>]
        BY <2>1, <2>3, <3>5, Zenon DEF TableOf
      <4>2. Longest(a, b, x, y, IF dp[<<x-1, y>>] >= dp[<<x, y-1>>] THEN dp[<<x-1, y>>] ELSE dp[<<x, y-1>>])
        BY <3>1, <3>2, <3>3, <3>5, LongestNoMatch, SMTT(30)
      <4> QED  BY <1>1, <4>1, <4>2
    <3> QED  BY <3>4, <3>5
  <2> QED  BY <2>2, <2>3
<1>3. \A x \in 0 .. Len(a), y \in 0 .. Len(b) : <<x, y>> \in T
  BY <1>0, <1>2, CornerInduction, Zenon
<1> QED  BY <1>1, <1>3

\* An upper bound that is in the set is its greatest number.
LEMMA MaxIs ==
    ASSUME NEW S \in SUBSET Int, NEW v \in S, \A y \in S : y <= v
    PROVE  Max(S) = v
<1>1. \E x \in S : \A y \in S : x >= y
  OBVIOUS
<1>2. Max(S) \in S /\ \A y \in S : Max(S) >= y
  BY <1>1, Zenon DEF Max
<1>3. PICK w \in S : w = Max(S) /\ \A y \in S : w >= y
  BY <1>2
<1>4. w <= v /\ w >= v /\ w \in Int /\ v \in Int
  BY <1>3
<1> QED  BY <1>3, <1>4

\* What the comparison should find is in the last corner.
LEMMA MostMatchesInTable ==
    ASSUME NEW X, NEW Y, NEW a \in Seq(X), NEW b \in Seq(Y)
    PROVE  MostMatches(a, b) = LcsTable(a, b)[<<Len(a), Len(b)>>]
<1>. DEFINE n == Len(a)
            m == Len(b)
            d == LcsTable(a, b)[<<n, m>>]
            S == {Cardinality(M) : M \in {N \in SUBSET Equal(a, b) : Straight(N)}}
<1>1. n \in 0 .. Len(a) /\ m \in 0 .. Len(b)
  OBVIOUS
<1>2. Longest(a, b, n, m, d)
  BY <1>1, TableLongest
<1>3. d \in Nat
  <2>1. AreTexts(a, b)
    BY DEF AreTexts
  <2>2. Even(a, b, n, m)
    BY <1>1, <2>1, TableEven
  <2> QED  BY <2>2, Zenon DEF Even
<1>. HIDE DEF d
<1>4. ASSUME NEW M PROVE Matching(a, b, n, m, M) <=> M \in SUBSET Equal(a, b) /\ Straight(M)
  <2>1. ASSUME M \in SUBSET Equal(a, b), NEW p \in M PROVE p[1] <= n /\ p[2] <= m
    BY <2>1, PairTypes
  <2> QED  BY <2>1, Zenon DEF Matching
<1>5. d \in S
  BY <1>2, <1>4, Zenon DEF Longest
<1>6. ASSUME NEW c \in S PROVE c \in Int /\ c <= d
  <2>1. PICK M : Matching(a, b, n, m, M) /\ c = Cardinality(M)
    BY <1>4
  <2>2. IsFiniteSet(M) /\ Cardinality(M) <= d
    BY <1>2, <2>1, Zenon DEF Longest
  <2> QED  BY <2>1, <2>2, FS_CardinalityType
<1>7. MostMatches(a, b) = Max(S)
  BY Zenon DEF MostMatches, Equal, Straight
<1>. HIDE DEF S
<1>8. Max(S) = d
  BY <1>5, <1>6, MaxIs
<1> QED  BY <1>7, <1>8 DEF d

\* What the walk does at a corner: the value it leaves with a match is one
\* less, and otherwise the same.
Match(a, b, i, j) == i > 0 /\ j > 0 /\ a[i] = b[j]
GoBack(dp, i, j)  == j > 0 /\ (i = 0 \/ dp[<<i, j-1>>] >= dp[<<i-1, j>>])

StepsDown(a, b, dp, i, j) ==
    /\ Match(a, b, i, j) => dp[<<i, j>>] = dp[<<i-1, j-1>>] + 1
    /\ ~Match(a, b, i, j) /\ GoBack(dp, i, j) => dp[<<i, j>>] = dp[<<i, j-1>>]
    /\ ~Match(a, b, i, j) /\ ~GoBack(dp, i, j) /\ i > 0 => dp[<<i, j>>] = dp[<<i-1, j>>]

\* What each kind of step of the walk does to the value in the table.
LEMMA TableSteps ==
    ASSUME NEW a, NEW b, AreTexts(a, b), NEW i \in 0 .. Len(a), NEW j \in 0 .. Len(b)
    PROVE  StepsDown(a, b, LcsTable(a, b), i, j)
<1>. DEFINE dp == LcsTable(a, b)
            d == dp[<<i, j>>]
            up == dp[<<i-1, j>>]
            back == dp[<<i, j-1>>]
            diag == dp[<<i-1, j-1>>]
<1>0. i \in Nat /\ j \in Nat
  BY DEF AreTexts
<1>1. d = IF i = 0 \/ j = 0 THEN 0
          ELSE IF a[i] = b[j] THEN diag + 1
          ELSE IF up >= back THEN up ELSE back
  BY TableUnfolds DEF TableOf
<1>2. /\ i = 0 /\ j # 0 => back = 0
      /\ j = 0 /\ i # 0 => up = 0
  <2>1. ASSUME i = 0, j # 0 PROVE back = 0
    <3>1. j - 1 \in 0 .. Len(b)
      BY <1>0, <2>1 DEF AreTexts
    <3>2. back = TableOf(a, b, dp, i, j-1)
      BY <3>1, TableUnfolds
    <3> QED  BY <2>1, <3>2, Zenon DEF TableOf
  <2>2. ASSUME j = 0, i # 0 PROVE up = 0
    <3>1. i - 1 \in 0 .. Len(a)
      BY <1>0, <2>2 DEF AreTexts
    <3>2. up = TableOf(a, b, dp, i-1, j)
      BY <3>1, TableUnfolds
    <3> QED  BY <2>2, <3>2, Zenon DEF TableOf
  <2> QED  BY <2>1, <2>2
<1>3. i # 0 /\ j # 0 => up \in Nat /\ back \in Nat
  <2>. SUFFICES ASSUME i # 0, j # 0 PROVE up \in Nat /\ back \in Nat
    OBVIOUS
  <2>1. i - 1 \in 0 .. Len(a) /\ j - 1 \in 0 .. Len(b)
    BY <1>0 DEF AreTexts
  <2> QED  BY <2>1, TableEven DEF Even
<1>. HIDE DEF d, up, back, diag
<1>4. /\ (i > 0 /\ j > 0 /\ a[i] = b[j]) => d = diag + 1
      /\ ~(i > 0 /\ j > 0 /\ a[i] = b[j]) /\ j > 0 /\ (i = 0 \/ back >= up) => d = back
      /\ ~(i > 0 /\ j > 0 /\ a[i] = b[j]) /\ i > 0 /\ ~(j > 0 /\ (i = 0 \/ back >= up)) => d = up
  BY <1>0, <1>1, <1>2, <1>3
<1> QED  BY <1>4, Zenon DEF d, up, back, diag, dp, Match, GoBack, StepsDown
-----------------------------------------------------------------------------
(* Counting the items of a list that pass a test.                          *)

\* c[k] of the first k numbers are in S.
Counts(c, S, n) ==
    /\ c \in [0 .. n -> Nat] /\ c[0] = 0
    /\ \A k \in 1 .. n : c[k] = IF k \in S THEN c[k-1] + 1 ELSE c[k-1]

\* A counter that goes up at the positions of S, and only there, counts them.
LEMMA CountBelow ==
    ASSUME NEW n \in Nat, NEW S \in SUBSET (1 .. n), NEW c, Counts(c, S, n)
    PROVE  /\ IsFiniteSet(S)
           /\ \A k \in 0 .. n : Cardinality(Below(S, k + 1)) = c[k]
<1>0. IsFiniteSet(S) /\ S \in SUBSET Nat
  BY IdsFinite
<1>. DEFINE T == {k \in Nat : k \in 0 .. n => Cardinality(Below(S, k + 1)) = c[k]}
<1>1. 0 \in T
  <2>1. \A y \in S : ~(y < 0 + 1)
    OBVIOUS
  <2>2. Below(S, 0 + 1) = {}
    BY <2>1, Zenon DEF Below
  <2>3. Cardinality({}) = 0
    BY FS_EmptySet
  <2>4. Cardinality(Below(S, 0 + 1)) = c[0]
    BY <2>2, <2>3, Zenon DEF Counts
  <2> QED  BY <2>4
<1>2. ASSUME NEW k \in T PROVE k + 1 \in T
  <2>. SUFFICES ASSUME k + 1 \in 0 .. n PROVE Cardinality(Below(S, k + 1 + 1)) = c[k + 1]
    OBVIOUS
  <2>1. k \in Nat /\ k \in 0 .. n /\ k + 1 \in 1 .. n /\ Cardinality(Below(S, k + 1)) = c[k]
    OBVIOUS
  <2>2. c[k + 1] = IF k + 1 \in S THEN c[k] + 1 ELSE c[k]
    <3>1. c[k + 1] = IF k + 1 \in S THEN c[(k + 1) - 1] + 1 ELSE c[(k + 1) - 1]
      BY <2>1 DEF Counts
    <3>2. (k + 1) - 1 = k
      BY <2>1
    <3> QED  BY <3>1, <3>2
  <2>3. IsFiniteSet(Below(S, k + 1))
    BY <1>0, BelowFinite
  <2>4. CASE k + 1 \in S
    <3>1. Below(S, k + 1 + 1) = Below(S, k + 1) \cup {k + 1} /\ k + 1 \notin Below(S, k + 1)
      <4>1. \A y \in S : y < k + 1 + 1 <=> (y < k + 1 \/ y = k + 1)
        BY <2>1
      <4>2. ~(k + 1 < k + 1)
        BY <2>1
      <4> QED  BY <2>4, <4>1, <4>2, Zenon DEF Below
    <3>2. Cardinality(Below(S, k + 1) \cup {k + 1}) = Cardinality(Below(S, k + 1)) + 1
      BY <2>3, <3>1, FS_AddElement
    <3> QED  BY <2>1, <2>2, <2>4, <3>1, <3>2
  <2>5. CASE k + 1 \notin S
    <3>1. Below(S, k + 1 + 1) = Below(S, k + 1)
      <4>1. \A y \in S : y < k + 1 + 1 <=> (y < k + 1 \/ y = k + 1)
        BY <2>1
      <4> QED  BY <2>5, <4>1, Zenon DEF Below
    <3> QED  BY <2>1, <2>2, <2>5, <3>1
  <2> QED  BY <2>4, <2>5
<1>3. \A k \in Nat : k \in T
  <2>1. T \in SUBSET Nat
    OBVIOUS
  <2>. HIDE DEF T
  <2> QED  BY <1>1, <1>2, <2>1, Induction
<1> QED  BY <1>0, <1>3

\* The kept items and where they come from.
KeptFrom(list, S, c, m) ==
    /\ DOMAIN Kept(list, S) = 1 .. m
    /\ \A h \in 1 .. m : \E k \in S : c[k] = h /\ Kept(list, S)[h] = list[k]

\* The items that pass, and where in the list they are.
LEMMA CountedKept ==
    ASSUME NEW V, NEW list \in Seq(V), NEW S \in SUBSET DOMAIN list, NEW c, Counts(c, S, Len(list))
    PROVE  /\ Cardinality(S) = c[Len(list)] /\ c[Len(list)] \in Nat
           /\ KeptFrom(list, S, c, c[Len(list)])
<1>. DEFINE n == Len(list)
<1>0. n \in Nat /\ S \in SUBSET (1 .. n) /\ DOMAIN list = 1 .. n
  OBVIOUS
<1>1. c[n] \in Nat
  BY <1>0 DEF Counts
<1>. HIDE DEF n
<1>2. /\ IsFiniteSet(S)
      /\ \A k \in 0 .. n : Cardinality(Below(S, k + 1)) = c[k]
  BY <1>0, CountBelow DEF n
<1>3. Cardinality(S) = c[n]
  <2>1. Below(S, n + 1) = S
    BY <1>0 DEF Below
  <2> QED  BY <1>0, <1>2, <2>1
<1>4. /\ DOMAIN Kept(list, S) = 1 .. Cardinality(S)
      /\ \A h \in 1 .. Cardinality(S) : Kept(list, S)[h] = list[Kth(S, h)]
  BY KeptType
<1>5. ASSUME NEW h \in 1 .. c[n] PROVE \E k \in S : c[k] = h /\ Kept(list, S)[h] = list[k]
  <2>. DEFINE k == Kth(S, h)
  <2>1. k \in S /\ Cardinality(Below(S, k)) = h - 1
    <3>1. S \in SUBSET Nat /\ h \in 1 .. Cardinality(S)
      BY <1>0, <1>3
    <3> QED  BY <1>2, <3>1, KthIn
  <2>2. Kept(list, S)[h] = list[k]
    BY <1>3, <1>4
  <2>. HIDE DEF k
  <2>3. k \in 1 .. n /\ k - 1 \in 0 .. n /\ (k - 1) + 1 = k
    BY <1>0, <2>1
  <2>4. c[k - 1] = h - 1
    BY <1>2, <2>1, <2>3
  <2>5. c[k] = c[k - 1] + 1
    BY <2>1, <2>3 DEF Counts, n
  <2>6. h \in Int
    BY <1>1
  <2> QED  BY <2>1, <2>2, <2>4, <2>5, <2>6
<1>6. KeptFrom(list, S, c, c[n])
  BY <1>3, <1>4, <1>5, Zenon DEF KeptFrom
<1> QED  BY <1>1, <1>3, <1>6 DEF n
-----------------------------------------------------------------------------
(* The walk meets every line of a and every line of b, once and in order,  *)
(* and every corner it comes through has in the table the number of        *)
(* matches so far.                                                         *)

Kind == {"same", "added", "removed"}
Step == [kind : Kind, i : Nat, j : Nat]

\* From corner <<x, y>> to corner <<x1, y1>>: a step of kind l as the left panel
\* shows it, and r as the right one does.
Move(a, b, l, r, x, y, x1, y1) ==
    /\ x1 = IF l = "added" THEN x ELSE x + 1
    /\ y1 = IF r = "removed" THEN y ELSE y + 1
    /\ LcsTable(a, b)[<<x1, y1>>] = LcsTable(a, b)[<<x, y>>] + (IF l = "same" THEN 1 ELSE 0)

Marks(s, x, y) ==
    /\ s.kind # "added" => s.i = x
    /\ s.kind # "removed" => s.j = y

\* The corners the walk w comes through.
Through(a, b, w, x, y) ==
    /\ x \in [0 .. Len(w) -> 0 .. Len(a)] /\ y \in [0 .. Len(w) -> 0 .. Len(b)]
    /\ x[0] = 0 /\ y[0] = 0
    /\ \A k \in 1 .. Len(w) :
         Move(a, b, w[k].kind, w[k].kind, x[k-1], y[k-1], x[k], y[k]) /\ Marks(w[k], x[k], y[k])

\* No line of a is removed right after a line of b is added.
RemovedFirst(w) ==
    \A k \in 1 .. Len(w) - 1 : w[k].kind = "added" => w[k+1].kind # "removed"

WalkTo(a, b, w, i, j) ==
    /\ w \in Seq(Step)
    /\ RemovedFirst(w)
    /\ \E x, y : Through(a, b, w, x, y) /\ x[Len(w)] = i /\ y[Len(w)] = j

\* A walk to a corner and one step more is a walk to the next corner.
LEMMA WalkExtends ==
    ASSUME NEW a, NEW b, NEW w, NEW i, NEW j, WalkTo(a, b, w, i, j),
           NEW s \in Step, NEW i1 \in 0 .. Len(a), NEW j1 \in 0 .. Len(b),
           Move(a, b, s.kind, s.kind, i, j, i1, j1), Marks(s, i1, j1),
           s.kind = "removed" => Len(w) = 0 \/ w[Len(w)].kind # "added"
    PROVE  WalkTo(a, b, Append(w, s), i1, j1)
<1>. DEFINE n == Len(w)
            v == Append(w, s)
<1>0. /\ n \in Nat /\ v \in Seq(Step) /\ Len(v) = n + 1
      /\ \A k \in 1 .. n : v[k] = w[k]
      /\ v[n + 1] = s
  BY DEF WalkTo
<1>1. PICK x, y : Through(a, b, w, x, y) /\ x[n] = i /\ y[n] = j
  BY Zenon DEF WalkTo
<1>. DEFINE x1 == [k \in 0 .. n + 1 |-> IF k = n + 1 THEN i1 ELSE x[k]]
            y1 == [k \in 0 .. n + 1 |-> IF k = n + 1 THEN j1 ELSE y[k]]
<1>2. RemovedFirst(v)
  <2>. SUFFICES ASSUME NEW k \in 1 .. n, v[k].kind = "added" PROVE v[k+1].kind # "removed"
    BY <1>0 DEF RemovedFirst
  <2>1. CASE k = n
    BY <1>0, <2>1
  <2>2. CASE k # n
    <3>1. k \in 1 .. n - 1 /\ k + 1 \in 1 .. n
      BY <1>0, <2>2
    <3>2. w[k].kind = "added" => w[k+1].kind # "removed"
      BY <3>1 DEF WalkTo, RemovedFirst
    <3> QED  BY <1>0, <3>1, <3>2
  <2> QED  BY <2>1, <2>2
<1>3. Through(a, b, v, x1, y1) /\ x1[n + 1] = i1 /\ y1[n + 1] = j1
  <2>0. x \in [0 .. n -> 0 .. Len(a)] /\ y \in [0 .. n -> 0 .. Len(b)] /\ x[0] = 0 /\ y[0] = 0
    BY <1>1, Zenon DEF Through
  <2>1. x1 \in [0 .. n + 1 -> 0 .. Len(a)] /\ y1 \in [0 .. n + 1 -> 0 .. Len(b)]
    BY <1>0, <2>0
  <2>2. x1[0] = 0 /\ y1[0] = 0 /\ x1[n + 1] = i1 /\ y1[n + 1] = j1 /\ x1[n] = i /\ y1[n] = j
    BY <1>0, <1>1, <2>0
  <2>3. \A k \in 0 .. n : x1[k] = x[k] /\ y1[k] = y[k]
    BY <1>0
  <2>. HIDE DEF x1, y1, v
  <2>4. ASSUME NEW k \in 1 .. n + 1
        PROVE  Move(a, b, v[k].kind, v[k].kind, x1[k-1], y1[k-1], x1[k], y1[k]) /\ Marks(v[k], x1[k], y1[k])
    <3>1. CASE k = n + 1
      <4>1. k - 1 = n
        BY <1>0, <3>1
      <4> QED  BY <1>0, <2>2, <3>1, <4>1, Zenon
    <3>2. CASE k \in 1 .. n
      <4>1. k - 1 \in 0 .. n /\ k \in 0 .. n
        BY <1>0, <3>2
      <4>2. Move(a, b, w[k].kind, w[k].kind, x[k-1], y[k-1], x[k], y[k]) /\ Marks(w[k], x[k], y[k])
        BY <1>1, <3>2, Zenon DEF Through
      <4> QED  BY <1>0, <2>3, <3>2, <4>1, <4>2, Zenon
    <3>3. k = n + 1 \/ k \in 1 .. n
      BY <1>0
    <3> QED  BY <3>1, <3>2, <3>3
  <2> QED  BY <1>0, <2>1, <2>2, <2>4, Zenon DEF Through
<1> QED  BY <1>0, <1>2, <1>3, Zenon DEF WalkTo

\* After a removed line the walk has no way back to an added one: going over
\* the line of b would have been as good before.
LEMMA NoAddedBefore ==
    ASSUME NEW a, NEW b, AreTexts(a, b), NEW i \in 1 .. Len(a), NEW j \in 0 .. Len(b),
           ~(j > 0 /\ LcsTable(a, b)[<<i, j-1>>] >= LcsTable(a, b)[<<i-1, j>>]),
           NEW w, WalkTo(a, b, w, i - 1, j), Len(w) # 0
    PROVE  w[Len(w)].kind # "added"
<1>. SUFFICES ASSUME w[Len(w)].kind = "added" PROVE FALSE
  OBVIOUS
<1>. DEFINE n == Len(w)
            dp == LcsTable(a, b)
<1>1. n \in Nat /\ n # 0 /\ n \in 1 .. n /\ n - 1 \in 0 .. n
  BY DEF WalkTo
<1>2. PICK x, y : Through(a, b, w, x, y) /\ x[n] = i - 1 /\ y[n] = j
  BY Zenon DEF WalkTo
<1>3. Move(a, b, "added", "added", x[n-1], y[n-1], x[n], y[n])
  BY <1>1, <1>2, Zenon DEF Through
<1>4. x[n-1] \in Nat /\ y[n-1] \in 0 .. Len(b)
  <2>1. x \in [0 .. n -> 0 .. Len(a)] /\ y \in [0 .. n -> 0 .. Len(b)]
    BY <1>2, Zenon DEF Through
  <2>. HIDE DEF n
  <2> QED  BY <1>1, <2>1, SMTT(30) DEF AreTexts
<1>. HIDE DEF n
<1>5. x[n-1] = i - 1 /\ y[n-1] = j - 1 /\ j - 1 \in 0 .. Len(b) /\ j > 0
  BY <1>2, <1>3, <1>4 DEF Move, AreTexts
<1>6. dp[<<i-1, j>>] = dp[<<i-1, j-1>>] + 0
  BY <1>2, <1>3, <1>5, Zenon DEF Move
<1>7. i \in 0 .. Len(a) /\ i - 1 \in 0 .. Len(a) /\ i # 0
  BY DEF AreTexts
<1>8. Even(a, b, i, j-1) /\ Even(a, b, i-1, j) /\ Even(a, b, i-1, j-1)
  BY <1>5, <1>7, TableEven
<1>9. /\ dp[<<i, j-1>>] \in Nat /\ dp[<<i-1, j>>] \in Nat /\ dp[<<i-1, j-1>>] \in Nat
      /\ dp[<<i-1, j-1>>] <= dp[<<i, j-1>>]
  BY <1>7, <1>8, Zenon DEF Even
<1>. HIDE DEF dp
<1> QED  BY <1>5, <1>6, <1>9 DEF dp

\* The walk of the code from each corner back is a walk to that corner.
LEMMA WalkReaches ==
    ASSUME NEW a, NEW b, AreTexts(a, b)
    PROVE  \A i \in 0 .. Len(a), j \in 0 .. Len(b) : WalkTo(a, b, WalkBack(a, b)[<<i, j>>], i, j)
<1>. DEFINE dp == LcsTable(a, b)
            walk == WalkBack(a, b)
            T == {p \in Corners(a, b) : WalkTo(a, b, walk[p], p[1], p[2])}
<1>1. ASSUME NEW i \in 0 .. Len(a), NEW j \in 0 .. Len(b),
             i # 0 => WalkTo(a, b, walk[<<i-1, j>>], i-1, j),
             j # 0 => WalkTo(a, b, walk[<<i, j-1>>], i, j-1),
             i # 0 /\ j # 0 => WalkTo(a, b, walk[<<i-1, j-1>>], i-1, j-1)
      PROVE  WalkTo(a, b, walk[<<i, j>>], i, j)
  <2>0. i \in Nat /\ j \in Nat /\ dp[<<i, j>>] \in Nat
    <3>1. Even(a, b, i, j)
      BY TableEven
    <3> QED  BY <3>1 DEF AreTexts, Even
  <2>1. walk[<<i, j>>] = WalkOf(a, b, dp, walk, i, j)
    BY WalkUnfolds
  <2>9. StepsDown(a, b, dp, i, j)
    BY TableSteps
  <2>. DEFINE match == Match(a, b, i, j)
              back == GoBack(dp, i, j)
  <2>2. CASE i = 0 /\ j = 0
    <3>1. walk[<<i, j>>] = <<>>
      BY <2>1, <2>2, Zenon DEF WalkOf
    <3>. DEFINE z == [k \in 0 .. 0 |-> 0]
    <3>2. Through(a, b, <<>>, z, z) /\ z[0] = 0
      BY DEF Through, AreTexts
    <3>3. RemovedFirst(<<>>) /\ <<>> \in Seq(Step) /\ Len(<<>>) = 0
      BY DEF RemovedFirst
    <3> QED  BY <2>2, <3>1, <3>2, <3>3, Zenon DEF WalkTo
  <2>3. CASE match
    <3>1. walk[<<i, j>>] = Append(walk[<<i-1, j-1>>], Same(i, j))
      BY <2>0, <2>1, <2>3, SMTT(30) DEF WalkOf, Match
    <3>2. WalkTo(a, b, walk[<<i-1, j-1>>], i-1, j-1)
      BY <1>1, <2>0, <2>3 DEF Match
    <3>3. Same(i, j) \in Step /\ Marks(Same(i, j), i, j) /\ Same(i, j).kind = "same"
      BY <2>0 DEF Same, Step, Kind, Marks
    <3>4. dp[<<i, j>>] = dp[<<i-1, j-1>>] + 1
      BY <2>9, <2>3, Zenon DEF StepsDown
    <3>5. Move(a, b, "same", "same", i-1, j-1, i, j)
      BY <2>0, <3>4 DEF Move
    <3> QED  BY <3>1, <3>2, <3>3, <3>5, WalkExtends
  <2>4. CASE ~match /\ back
    <3>1. walk[<<i, j>>] = Append(walk[<<i, j-1>>], Added(j))
      <4>1. ~(i = 0 /\ j = 0)
        BY <2>0, <2>4 DEF GoBack
      <4> QED  BY <2>1, <2>4, <4>1, Zenon DEF WalkOf, Match, GoBack
    <3>2. WalkTo(a, b, walk[<<i, j-1>>], i, j-1)
      BY <1>1, <2>0, <2>4 DEF GoBack
    <3>3. Added(j) \in Step /\ Marks(Added(j), i, j) /\ Added(j).kind = "added"
      BY <2>0 DEF Added, Step, Kind, Marks
    <3>4. dp[<<i, j>>] = dp[<<i, j-1>>]
      BY <2>9, <2>4, Zenon DEF StepsDown
    <3>5. Move(a, b, "added", "added", i, j-1, i, j)
      BY <2>0, <3>4 DEF Move
    <3> QED  BY <3>1, <3>2, <3>3, <3>5, WalkExtends
  <2>5. CASE ~match /\ ~back /\ i > 0
    <3>0. i \in 1 .. Len(a)
      BY <2>0, <2>5
    <3>1. walk[<<i, j>>] = Append(walk[<<i-1, j>>], Removed(i))
      <4>1. ~(i = 0 /\ j = 0)
        BY <2>0, <2>5
      <4> QED  BY <2>1, <2>5, <4>1, Zenon DEF WalkOf, Match, GoBack
    <3>2. WalkTo(a, b, walk[<<i-1, j>>], i-1, j)
      BY <1>1, <2>0, <2>5
    <3>3. Removed(i) \in Step /\ Marks(Removed(i), i, j) /\ Removed(i).kind = "removed"
      BY <2>0 DEF Removed, Step, Kind, Marks
    <3>4. dp[<<i, j>>] = dp[<<i-1, j>>]
      BY <2>9, <2>5, Zenon DEF StepsDown
    <3>5. Move(a, b, "removed", "removed", i-1, j, i, j)
      BY <2>0, <3>4 DEF Move
    <3>6. Len(walk[<<i-1, j>>]) = 0 \/ walk[<<i-1, j>>][Len(walk[<<i-1, j>>])].kind # "added"
      <4>1. ~(j > 0 /\ dp[<<i, j-1>>] >= dp[<<i-1, j>>])
        BY <2>5 DEF GoBack
      <4>. HIDE DEF walk
      <4> QED  BY <3>0, <3>2, <4>1, NoAddedBefore
    <3>. HIDE DEF walk
    <3> QED  BY <3>1, <3>2, <3>3, <3>5, <3>6, WalkExtends
  <2> QED  BY <2>0, <2>2, <2>3, <2>4, <2>5 DEF GoBack
<1>2. ASSUME NEW i \in 0 .. Len(a), NEW j \in 0 .. Len(b)
      PROVE  <<i, j>> \in T <=> WalkTo(a, b, walk[<<i, j>>], i, j)
  BY CornerFacts
<1>. HIDE DEF T
<1>3. ASSUME NEW i \in 0 .. Len(a), NEW j \in 0 .. Len(b),
             i # 0 => <<i-1, j>> \in T,
             j # 0 => <<i, j-1>> \in T,
             i # 0 /\ j # 0 => <<i-1, j-1>> \in T
      PROVE  <<i, j>> \in T
  <2>1. /\ i # 0 => i - 1 \in 0 .. Len(a)
        /\ j # 0 => j - 1 \in 0 .. Len(b)
    BY DEF AreTexts
  <2> QED  BY <1>1, <1>2, <1>3, <2>1, Zenon
<1>4. \A i \in 0 .. Len(a), j \in 0 .. Len(b) : <<i, j>> \in T
  BY <1>3, CornerInduction, Zenon
<1> QED  BY <1>2, <1>4

\* So the alignment is a walk to the last corner.
LEMMA AlignmentWalks ==
    ASSUME NEW a, NEW b, AreTexts(a, b)
    PROVE  WalkTo(a, b, Alignment(a, b), Len(a), Len(b))
<1>1. Len(a) \in 0 .. Len(a) /\ Len(b) \in 0 .. Len(b)
  BY DEF AreTexts
<1> QED  BY <1>1, WalkReaches DEF Alignment

\* The first position of the corners counts the steps that are not of an added
\* line, the second those that are not of a removed one.
LEMMA WalkCounts ==
    ASSUME NEW a, NEW b, AreTexts(a, b), NEW w \in Seq(Step), NEW x, NEW y, Through(a, b, w, x, y)
    PROVE  /\ Counts(x, {k \in DOMAIN w : w[k].kind # "added"}, Len(w))
           /\ Counts(y, {k \in DOMAIN w : w[k].kind # "removed"}, Len(w))
<1>. DEFINE n == Len(w)
<1>1. n \in Nat /\ DOMAIN w = 1 .. n
  OBVIOUS
<1>2. x \in [0 .. n -> 0 .. Len(a)] /\ y \in [0 .. n -> 0 .. Len(b)] /\ x[0] = 0 /\ y[0] = 0
  BY Zenon DEF Through
<1>3. ASSUME NEW k \in 1 .. n
      PROVE  /\ x[k] = IF w[k].kind # "added" THEN x[k-1] + 1 ELSE x[k-1]
             /\ y[k] = IF w[k].kind # "removed" THEN y[k-1] + 1 ELSE y[k-1]
  BY Zenon DEF Through, Move
<1>. HIDE DEF n
<1>4. x \in [0 .. n -> Nat] /\ y \in [0 .. n -> Nat]
  BY <1>1, <1>2 DEF AreTexts
<1>5. Counts(x, {k \in DOMAIN w : w[k].kind # "added"}, n)
  BY <1>1, <1>2, <1>3, <1>4 DEF Counts
<1>6. Counts(y, {k \in DOMAIN w : w[k].kind # "removed"}, n)
  BY <1>1, <1>2, <1>3, <1>4 DEF Counts
<1> QED  BY <1>5, <1>6 DEF n

\* The rendering of a pair of lines word by word has the words of the lines.
LEMMA WordDiffWords ==
    ASSUME NEW X, NEW Y, NEW a \in Seq(X), NEW b \in Seq(Y)
    PROVE  Words(WordDiff(a, b).left) = a /\ Words(WordDiff(a, b).right) = b
<1>. DEFINE w == Alignment(a, b)
            S == {k \in DOMAIN w : w[k].kind # "added"}
            R == {k \in DOMAIN w : w[k].kind # "removed"}
            lefts == Kept(w, S)
            rights == Kept(w, R)
<1>0. AreTexts(a, b)
  BY DEF AreTexts
<1>1. WalkTo(a, b, w, Len(a), Len(b))
  BY <1>0, AlignmentWalks
<1>2. WordDiff(a, b).left = [k \in DOMAIN lefts |-> [tok |-> a[lefts[k].i], mark |-> lefts[k].kind]]
  BY DEF WordDiff
<1>3. WordDiff(a, b).right = [k \in DOMAIN rights |-> [tok |-> b[rights[k].j], mark |-> rights[k].kind]]
  BY DEF WordDiff
<1>. HIDE DEF w
<1>4. w \in Seq(Step)
  BY <1>1, Zenon DEF WalkTo
<1>5. PICK x, y : Through(a, b, w, x, y) /\ x[Len(w)] = Len(a) /\ y[Len(w)] = Len(b)
  BY <1>1, Zenon DEF WalkTo
<1>6. Counts(x, S, Len(w)) /\ Counts(y, R, Len(w))
  BY <1>0, <1>4, <1>5, WalkCounts
<1>10. S \in SUBSET DOMAIN w /\ R \in SUBSET DOMAIN w
  OBVIOUS
<1>. HIDE DEF S, R
<1>7. /\ DOMAIN lefts = 1 .. Len(a)
      /\ \A h \in 1 .. Len(a) : \E k \in S : x[k] = h /\ lefts[h] = w[k]
  <2>1. KeptFrom(w, S, x, Len(a))
    BY <1>4, <1>5, <1>6, <1>10, CountedKept
  <2> QED  BY <2>1, Zenon DEF KeptFrom
<1>8. /\ DOMAIN rights = 1 .. Len(b)
      /\ \A h \in 1 .. Len(b) : \E k \in R : y[k] = h /\ rights[h] = w[k]
  <2>1. KeptFrom(w, R, y, Len(b))
    BY <1>4, <1>5, <1>6, <1>10, CountedKept
  <2> QED  BY <2>1, Zenon DEF KeptFrom
<1>9. DOMAIN w = 1 .. Len(w)
  BY <1>4
<1>. USE DEF S, R
<1>11. ASSUME NEW h \in 1 .. Len(a) PROVE lefts[h].i = h
  <2>1. PICK k \in S : x[k] = h /\ lefts[h] = w[k]
    BY <1>7
  <2>2. Marks(w[k], x[k], y[k])
    BY <1>5, <1>9, Zenon DEF Through
  <2> QED  BY <2>1, <2>2, Zenon DEF Marks
<1>12. ASSUME NEW h \in 1 .. Len(b) PROVE rights[h].j = h
  <2>1. PICK k \in R : y[k] = h /\ rights[h] = w[k]
    BY <1>8
  <2>2. Marks(w[k], x[k], y[k])
    BY <1>5, <1>9, Zenon DEF Through
  <2> QED  BY <2>1, <2>2, Zenon DEF Marks
<1>. HIDE DEF lefts, rights
<1>13. Words(WordDiff(a, b).left) = [k \in 1 .. Len(a) |-> a[k]]
  BY <1>2, <1>7, <1>11 DEF Words
<1>14. Words(WordDiff(a, b).right) = [k \in 1 .. Len(b) |-> b[k]]
  BY <1>3, <1>8, <1>12 DEF Words
<1>15. a = [k \in 1 .. Len(a) |-> a[k]] /\ b = [k \in 1 .. Len(b) |-> b[k]]
  OBVIOUS
<1> QED  BY <1>13, <1>14, <1>15
-----------------------------------------------------------------------------
(* The rows.  What was said of the walk is said of them: they too go from  *)
(* corner to corner.                                                       *)

IsCell(c) == c = Cell(c.kind, c.text, c.plain)

Unchanged(r) == r.left.kind = "same"  /\ r.right.kind = "same"
OnlyLeft(r)  == r.left.kind = "removed" /\ r.right.kind = "removed"
OnlyRight(r) == r.left.kind = "added" /\ r.right.kind = "added"
Paired(r)    == r.left.kind = "removed" /\ r.right.kind = "added"

\* The row r shows what is between two corners; fa and fb say whether the
\* highlighted lines have the words of the lines.
RowStep(a, b, fa, fb, r, x, y, x1, y1) ==
    /\ IsCell(r.left) /\ IsCell(r.right)
    /\ Unchanged(r) \/ OnlyLeft(r) \/ OnlyRight(r) \/ Paired(r)
    /\ Move(a, b, r.left.kind, r.right.kind, x, y, x1, y1)
    /\ r.left.kind # "added" /\ fa => Words(r.left.text) = a[x1]
    /\ r.right.kind # "removed" /\ fb => Words(r.right.text) = b[y1]
    /\ r.left.kind = "removed" => r.left.plain = a[x1]
    /\ r.right.kind = "added" => r.right.plain = b[y1]

Along(a, b, fa, fb, rs, x, y) ==
    /\ x \in [0 .. Len(rs) -> 0 .. Len(a)] /\ y \in [0 .. Len(rs) -> 0 .. Len(b)]
    /\ \A k \in 1 .. Len(rs) : RowStep(a, b, fa, fb, rs[k], x[k-1], y[k-1], x[k], y[k])

Ends(rs, x, y, i, j, i1, j1) == x[0] = i /\ y[0] = j /\ x[Len(rs)] = i1 /\ y[Len(rs)] = j1

IsList(rs) == \E V : rs \in Seq(V)

Between(a, b, fa, fb, rs, i, j, i1, j1) ==
    /\ IsList(rs)
    /\ \E x, y : Along(a, b, fa, fb, rs, x, y) /\ Ends(rs, x, y, i, j, i1, j1)

\* What may stand under a row with one side only.
Under(r, r1) ==
    /\ OnlyLeft(r)  => Unchanged(r1) \/ OnlyLeft(r1)
    /\ OnlyRight(r) => Unchanged(r1) \/ OnlyRight(r1)

SidesApart(rs) == \A k \in 1 .. Len(rs) - 1 : Under(rs[k], rs[k+1])

\* Items of two lists after each other.
LEMMA ListsJoin ==
    ASSUME NEW u, NEW v, IsList(u), IsList(v)
    PROVE  /\ IsList(u \o v) /\ Len(u) \in Nat /\ Len(v) \in Nat /\ Len(u \o v) = Len(u) + Len(v)
           /\ \A k \in 1 .. Len(u) : (u \o v)[k] = u[k]
           /\ \A k \in Len(u) + 1 .. Len(u) + Len(v) : (u \o v)[k] = v[k - Len(u)]
<1>1. PICK U : u \in Seq(U)
  BY Zenon DEF IsList
<1>2. PICK V : v \in Seq(V)
  BY Zenon DEF IsList
<1>3. u \in Seq(U \cup V) /\ v \in Seq(U \cup V)
  BY <1>1, <1>2
<1>4. u \o v \in Seq(U \cup V)
  BY <1>3
<1> QED  BY <1>3, <1>4 DEF IsList

\* Rows to a corner and rows on from it are rows past it.
LEMMA RowsJoin ==
    ASSUME NEW a, NEW b, NEW fa, NEW fb, NEW u, NEW v, NEW i, NEW j, NEW i1, NEW j1, NEW i2, NEW j2,
           Between(a, b, fa, fb, u, i, j, i1, j1), Between(a, b, fa, fb, v, i1, j1, i2, j2)
    PROVE  Between(a, b, fa, fb, u \o v, i, j, i2, j2)
<1>. DEFINE n == Len(u)
            m == Len(v)
            w == u \o v
<1>1. /\ IsList(w) /\ n \in Nat /\ m \in Nat /\ Len(w) = n + m
      /\ \A k \in 1 .. n : w[k] = u[k]
      /\ \A k \in n + 1 .. n + m : w[k] = v[k - n]
  BY ListsJoin, Zenon DEF Between
<1>2. PICK x, y : Along(a, b, fa, fb, u, x, y) /\ Ends(u, x, y, i, j, i1, j1)
  BY Zenon DEF Between
<1>3. PICK p, q : Along(a, b, fa, fb, v, p, q) /\ Ends(v, p, q, i1, j1, i2, j2)
  BY Zenon DEF Between
<1>4. /\ x \in [0 .. n -> 0 .. Len(a)] /\ y \in [0 .. n -> 0 .. Len(b)]
      /\ p \in [0 .. m -> 0 .. Len(a)] /\ q \in [0 .. m -> 0 .. Len(b)]
      /\ x[0] = i /\ y[0] = j /\ x[n] = i1 /\ y[n] = j1
      /\ p[0] = i1 /\ q[0] = j1 /\ p[m] = i2 /\ q[m] = j2
  BY <1>2, <1>3, Zenon DEF Along, Ends
<1>. DEFINE X == [k \in 0 .. n + m |-> IF k <= n THEN x[k] ELSE p[k - n]]
            Y == [k \in 0 .. n + m |-> IF k <= n THEN y[k] ELSE q[k - n]]
<1>. HIDE DEF n, m, w
<1>5. X \in [0 .. n + m -> 0 .. Len(a)] /\ Y \in [0 .. n + m -> 0 .. Len(b)]
  BY <1>1, <1>4, SMTT(30)
<1>6. /\ \A k \in 0 .. n : X[k] = x[k] /\ Y[k] = y[k]
      /\ \A k \in n .. n + m : X[k] = p[k - n] /\ Y[k] = q[k - n]
  <2>1. \A k \in 0 .. n : X[k] = x[k] /\ Y[k] = y[k]
    BY <1>1
  <2>2. ASSUME NEW k \in n .. n + m PROVE X[k] = p[k - n] /\ Y[k] = q[k - n]
    <3>1. CASE k = n
      <4>1. X[k] = x[n] /\ Y[k] = y[n] /\ k - n = 0
        BY <1>1, <3>1
      <4> QED  BY <1>4, <4>1
    <3>2. CASE k # n
      BY <1>1, <3>2
    <3> QED  BY <3>1, <3>2
  <2> QED  BY <2>1, <2>2
<1>. HIDE DEF X, Y
<1>7. ASSUME NEW k \in 1 .. n + m
      PROVE  RowStep(a, b, fa, fb, w[k], X[k-1], Y[k-1], X[k], Y[k])
  <2>1. CASE k \in 1 .. n
    <3>1. k - 1 \in 0 .. n /\ k \in 0 .. n
      BY <1>1, <2>1
    <3>2. RowStep(a, b, fa, fb, u[k], x[k-1], y[k-1], x[k], y[k])
      BY <1>2, <2>1, Zenon DEF Along, n
    <3> QED  BY <1>1, <1>6, <2>1, <3>1, <3>2, Zenon
  <2>2. CASE k \in n + 1 .. n + m
    <3>. DEFINE h == k - n
    <3>1. h \in 1 .. m /\ k - 1 \in n .. n + m /\ k \in n .. n + m /\ (k - 1) - n = h - 1
      BY <1>1, <2>2
    <3>2. RowStep(a, b, fa, fb, v[h], p[h-1], q[h-1], p[h], q[h])
      BY <1>3, <3>1, Zenon DEF Along, m
    <3>3. w[k] = v[h] /\ X[k] = p[h] /\ Y[k] = q[h]
      BY <1>1, <1>6, <2>2, <3>1, Zenon
    <3>4. X[k-1] = p[h-1] /\ Y[k-1] = q[h-1]
      BY <1>6, <3>1, Zenon
    <3> QED  BY <3>2, <3>3, <3>4, Zenon
  <2>3. k \in 1 .. n \/ k \in n + 1 .. n + m
    BY <1>1
  <2> QED  BY <2>1, <2>2, <2>3
<1>8. Along(a, b, fa, fb, w, X, Y)
  BY <1>1, <1>5, <1>7, Zenon DEF Along
<1>9. Ends(w, X, Y, i, j, i2, j2)
  <2>1. 0 \in 0 .. n /\ n + m \in n .. n + m /\ (n + m) - n = m
    BY <1>1
  <2> QED  BY <1>1, <1>4, <1>6, <2>1, Zenon DEF Ends
<1> QED  BY <1>1, <1>8, <1>9, Zenon DEF Between, w

\* Two lists that keep the sides apart do so together, if the rows at which
\* they meet do.
LEMMA SidesJoin ==
    ASSUME NEW u, NEW v, IsList(u), IsList(v), SidesApart(u), SidesApart(v),
           Len(u) # 0 /\ Len(v) # 0 => Under(u[Len(u)], v[1])
    PROVE  SidesApart(u \o v)
<1>. DEFINE n == Len(u)
            m == Len(v)
            w == u \o v
<1>1. /\ n \in Nat /\ m \in Nat /\ Len(w) = n + m
      /\ \A k \in 1 .. n : w[k] = u[k]
      /\ \A k \in n + 1 .. n + m : w[k] = v[k - n]
  BY ListsJoin, Zenon
<1>. HIDE DEF n, m, w
<1>. SUFFICES ASSUME NEW k \in 1 .. Len(w) - 1 PROVE Under(w[k], w[k+1])
  BY Zenon DEF SidesApart, w
<1>0. k \in 1 .. n + m - 1
  BY <1>1
<1>2. CASE k \in 1 .. n - 1
  <2>1. k \in 1 .. n /\ k + 1 \in 1 .. n
    BY <1>1, <1>2
  <2>2. Under(u[k], u[k+1])
    BY <1>2, Zenon DEF SidesApart, n
  <2>3. w[k] = u[k] /\ w[k+1] = u[k+1]
    BY <1>1, <2>1, Zenon
  <2> QED  BY <2>2, <2>3, Zenon
<1>3. CASE k = n
  <2>1. /\ n \in 1 .. n /\ n + 1 \in n + 1 .. n + m /\ (n + 1) - n = 1
        /\ n # 0 /\ m # 0
    BY <1>0, <1>1, <1>3
  <2>2. w[n] = u[n] /\ w[n+1] = v[1]
    BY <1>1, <2>1, Zenon
  <2> QED  BY <1>3, <2>1, <2>2, Zenon DEF n, m
<1>4. CASE k \in n + 1 .. n + m - 1
  <2>. DEFINE h == k - n
  <2>1. /\ k \in n + 1 .. n + m /\ k + 1 \in n + 1 .. n + m
        /\ (k + 1) - n = h + 1 /\ h \in 1 .. m - 1
    BY <1>1, <1>4
  <2>2. Under(v[h], v[h+1])
    BY <2>1, Zenon DEF SidesApart, m
  <2>3. w[k] = v[h] /\ w[k+1] = v[h+1]
    BY <1>1, <2>1
  <2> QED  BY <2>2, <2>3, Zenon
<1>5. k \in 1 .. n - 1 \/ k = n \/ k \in n + 1 .. n + m - 1
  BY <1>0, <1>1
<1> QED  BY <1>2, <1>3, <1>4, <1>5

\* The highlighted lines have the words of the lines.
Faithful(a, hl) == \A k \in 1 .. Len(a) : Words(Shown(a, hl, k)) = a[k]

\* What is known of a step of the walk.
StepBetween(a, b, s, x, y, x1, y1) ==
    /\ s \in Step
    /\ x \in 0 .. Len(a) /\ y \in 0 .. Len(b) /\ x1 \in 0 .. Len(a) /\ y1 \in 0 .. Len(b)
    /\ Move(a, b, s.kind, s.kind, x, y, x1, y1) /\ Marks(s, x1, y1)

RowShowsStep(a, b, aHL, bHL, s, x, y, x1, y1) ==
    LET r == Row(s, a, b, aHL, bHL)
    IN  /\ RowStep(a, b, Faithful(a, aHL), Faithful(b, bHL), r, x, y, x1, y1)
        /\ r.left.kind = s.kind /\ r.right.kind = s.kind

\* The row of a step shows the lines between the two corners of the step.
LEMMA RowOfStep ==
    ASSUME NEW a, NEW b, NEW aHL, NEW bHL, AreTexts(a, b),
           NEW s, NEW x, NEW y, NEW x1, NEW y1, StepBetween(a, b, s, x, y, x1, y1)
    PROVE  RowShowsStep(a, b, aHL, bHL, s, x, y, x1, y1)
<1>. DEFINE r == Row(s, a, b, aHL, bHL)
            fa == Faithful(a, aHL)
            fb == Faithful(b, bHL)
<1>0. s.kind \in Kind
  BY DEF StepBetween, Step
<1>1. s.kind # "added" => x1 \in 1 .. Len(a) /\ s.i = x1
  BY DEF StepBetween, Move, Marks, AreTexts
<1>2. s.kind # "removed" => y1 \in 1 .. Len(b) /\ s.j = y1
  BY DEF StepBetween, Move, Marks, AreTexts
<1>3. s.kind # "added" => (fa => Words(Shown(a, aHL, s.i)) = a[x1])
  BY <1>1, Zenon DEF Faithful
<1>4. s.kind # "removed" => (fb => Words(Shown(b, bHL, s.j)) = b[y1])
  BY <1>2, Zenon DEF Faithful
<1>5. /\ r.left.kind = s.kind /\ r.right.kind = s.kind
      /\ IsCell(r.left) /\ IsCell(r.right)
      /\ s.kind # "added" => r.left.text = Shown(a, aHL, s.i)
      /\ s.kind # "removed" => r.right.text = Shown(b, bHL, s.j)
      /\ s.kind = "removed" => r.left.plain = a[s.i]
      /\ s.kind = "added" => r.right.plain = b[s.j]
  <2>1. CASE s.kind = "same"
    BY <2>1 DEF Row, Cell, IsCell
  <2>2. CASE s.kind = "added"
    BY <2>2 DEF Row, Cell, Padding, IsCell
  <2>3. CASE s.kind = "removed"
    BY <2>3 DEF Row, Cell, Padding, IsCell
  <2> QED  BY <1>0, <2>1, <2>2, <2>3 DEF Kind
<1>. HIDE DEF r, fa, fb
<1>6. Unchanged(r) \/ OnlyLeft(r) \/ OnlyRight(r) \/ Paired(r)
  BY <1>0, <1>5 DEF Kind, Unchanged, OnlyLeft, OnlyRight
<1>7. RowStep(a, b, fa, fb, r, x, y, x1, y1)
  BY <1>1, <1>2, <1>3, <1>4, <1>5, <1>6, Zenon DEF RowStep, StepBetween
<1> QED  BY <1>5, <1>7, Zenon DEF r, fa, fb, RowShowsStep

\* What the pairing starts from.
FromWalk(a, b, fa, fb, rs, x, y) ==
    /\ IsList(rs)
    /\ Along(a, b, fa, fb, rs, x, y)
    /\ Ends(rs, x, y, 0, 0, Len(a), Len(b))
    /\ \A k \in 1 .. Len(rs) : rs[k].left.kind = rs[k].right.kind
    /\ \A k \in 1 .. Len(rs) - 1 : rs[k].left.kind = "added" => rs[k+1].left.kind # "removed"

\* The rows LcsAlignedDiff returns go from corner to corner as the walk does.
LEMMA DiffFromWalk ==
    ASSUME NEW a, NEW b, NEW aHL, NEW bHL, AreTexts(a, b)
    PROVE  \E x, y : FromWalk(a, b, Faithful(a, aHL), Faithful(b, bHL), LcsAlignedDiff(a, b, aHL, bHL), x, y)
<1>. DEFINE w == Alignment(a, b)
            n == Len(w)
            R(k) == Row(w[k], a, b, aHL, bHL)
            rs == LcsAlignedDiff(a, b, aHL, bHL)
            fa == Faithful(a, aHL)
            fb == Faithful(b, bHL)
<1>1. WalkTo(a, b, w, Len(a), Len(b))
  BY AlignmentWalks
<1>2. w \in Seq(Step) /\ RemovedFirst(w)
  BY <1>1, Zenon DEF WalkTo
<1>3. PICK x, y : Through(a, b, w, x, y) /\ x[n] = Len(a) /\ y[n] = Len(b)
  BY <1>1, Zenon DEF WalkTo
<1>4. rs = [k \in DOMAIN w |-> R(k)]
  BY DEF LcsAlignedDiff
<1>. HIDE DEF w, rs, R
<1>5. n \in Nat /\ DOMAIN w = 1 .. n /\ \A k \in 1 .. n : w[k] \in Step
  BY <1>2
<1>. HIDE DEF n
<1>6. IsList(rs) /\ Len(rs) = n /\ \A k \in 1 .. n : rs[k] = R(k)
  <2>1. rs \in Seq({R(k) : k \in 1 .. n}) /\ Len(rs) = n
    BY <1>4, <1>5
  <2> QED  BY <1>4, <1>5, <2>1 DEF IsList
<1>7. /\ x \in [0 .. n -> 0 .. Len(a)] /\ y \in [0 .. n -> 0 .. Len(b)] /\ x[0] = 0 /\ y[0] = 0
      /\ \A k \in 1 .. n :
           Move(a, b, w[k].kind, w[k].kind, x[k-1], y[k-1], x[k], y[k]) /\ Marks(w[k], x[k], y[k])
  BY <1>3, Zenon DEF Through, n
<1>8. ASSUME NEW k \in 1 .. n
      PROVE  /\ RowStep(a, b, fa, fb, rs[k], x[k-1], y[k-1], x[k], y[k])
             /\ rs[k].left.kind = w[k].kind /\ rs[k].right.kind = w[k].kind
  <2>1. /\ x[k-1] \in 0 .. Len(a) /\ y[k-1] \in 0 .. Len(b)
        /\ x[k] \in 0 .. Len(a) /\ y[k] \in 0 .. Len(b)
    <3>1. k - 1 \in 0 .. n /\ k \in 0 .. n
      BY <1>5
    <3> QED  BY <1>7, <3>1
  <2>2. w[k] \in Step
    BY <1>5
  <2>3. Move(a, b, w[k].kind, w[k].kind, x[k-1], y[k-1], x[k], y[k]) /\ Marks(w[k], x[k], y[k])
    BY <1>7
  <2>4. rs[k] = Row(w[k], a, b, aHL, bHL)
    BY <1>6 DEF R
  <2>. DEFINE r == Row(w[k], a, b, aHL, bHL)
  <2>5. /\ RowStep(a, b, fa, fb, r, x[k-1], y[k-1], x[k], y[k])
        /\ r.left.kind = w[k].kind /\ r.right.kind = w[k].kind
    <3>1. StepBetween(a, b, w[k], x[k-1], y[k-1], x[k], y[k])
      BY <2>1, <2>2, <2>3, Zenon DEF StepBetween
    <3>2. RowShowsStep(a, b, aHL, bHL, w[k], x[k-1], y[k-1], x[k], y[k])
      BY <3>1, RowOfStep
    <3> QED  BY <3>2, Zenon DEF RowShowsStep
  <2> QED  BY <2>4, <2>5, Zenon
<1>9. Along(a, b, fa, fb, rs, x, y)
  BY <1>6, <1>7, <1>8, Zenon DEF Along
<1>10. Ends(rs, x, y, 0, 0, Len(a), Len(b))
  BY <1>3, <1>6, <1>7, Zenon DEF Ends
<1>11. ASSUME NEW k \in 1 .. n - 1, rs[k].left.kind = "added"
       PROVE  rs[k+1].left.kind # "removed"
  <2>1. k \in 1 .. n /\ k + 1 \in 1 .. n
    BY <1>5
  <2>2. w[k].kind = "added" => w[k+1].kind # "removed"
    BY <1>2, Zenon DEF RemovedFirst, n
  <2> QED  BY <1>8, <1>11, <2>1, <2>2
<1> QED  BY <1>6, <1>8, <1>9, <1>10, <1>11, Zenon DEF FromWalk, rs, fa, fb

\* The table does not fall to either side.
LEMMA TableGrows ==
    ASSUME NEW a, NEW b, AreTexts(a, b), NEW i \in Nat, NEW j \in Nat, NEW p \in Nat, NEW q \in Nat,
           i + p <= Len(a), j + q <= Len(b)
    PROVE  /\ LcsTable(a, b)[<<i, j>>] <= LcsTable(a, b)[<<i + p, j + q>>]
           /\ LcsTable(a, b)[<<i, j>>] \in Nat /\ LcsTable(a, b)[<<i + p, j + q>>] \in Nat
<1>. DEFINE dp(x, y) == LcsTable(a, b)[<<x, y>>]
            P == {h \in Nat : i + h <= Len(a) => dp(i, j) <= dp(i + h, j)}
            Q == {h \in Nat : j + h <= Len(b) => dp(i + p, j) <= dp(i + p, j + h)}
<1>0. ASSUME NEW x \in 0 .. Len(a), NEW y \in 0 .. Len(b)
      PROVE  /\ dp(x, y) \in Nat
             /\ x # 0 => dp(x-1, y) <= dp(x, y)
             /\ y # 0 => dp(x, y-1) <= dp(x, y)
  <2>1. Even(a, b, x, y)
    BY TableEven
  <2> QED  BY <2>1, Zenon DEF Even
<1>. HIDE DEF dp
<1>1. \A h \in Nat : h \in P
  <2>1. 0 \in P
    <3>1. i + 0 = i /\ i \in 0 .. Len(a) /\ j \in 0 .. Len(b)
      BY DEF AreTexts
    <3>2. dp(i, j) \in Nat
      BY <1>0, <3>1
    <3> QED  BY <3>1, <3>2
  <2>2. ASSUME NEW h \in P PROVE h + 1 \in P
    <3>. SUFFICES ASSUME i + (h + 1) <= Len(a) PROVE dp(i, j) <= dp(i + (h + 1), j)
      OBVIOUS
    <3>1. dp(i, j) <= dp(i + h, j)
      BY DEF AreTexts
    <3>. DEFINE x == i + (h + 1)
    <3>2. x \in 0 .. Len(a) /\ x # 0 /\ x - 1 = i + h /\ i + h \in 0 .. Len(a) /\ i \in 0 .. Len(a) /\ j \in 0 .. Len(b)
      BY DEF AreTexts
    <3>. HIDE DEF x
    <3>3. dp(x - 1, j) <= dp(x, j) /\ dp(x, j) \in Nat /\ dp(i + h, j) \in Nat /\ dp(i, j) \in Nat
      BY <1>0, <3>2
    <3>4. dp(i + h, j) <= dp(x, j)
      BY <3>2, <3>3
    <3>5. dp(i, j) <= dp(x, j)
      BY <3>1, <3>3, <3>4
    <3> QED  BY <3>5 DEF x
  <2>3. P \in SUBSET Nat
    OBVIOUS
  <2>. HIDE DEF P
  <2> QED  BY <2>1, <2>2, <2>3, Induction
<1>2. \A h \in Nat : h \in Q
  <2>1. 0 \in Q
    <3>1. j + 0 = j /\ i + p \in 0 .. Len(a) /\ j \in 0 .. Len(b)
      BY DEF AreTexts
    <3>2. dp(i + p, j) \in Nat
      BY <1>0, <3>1
    <3> QED  BY <3>1, <3>2
  <2>2. ASSUME NEW h \in Q PROVE h + 1 \in Q
    <3>. SUFFICES ASSUME j + (h + 1) <= Len(b) PROVE dp(i + p, j) <= dp(i + p, j + (h + 1))
      OBVIOUS
    <3>1. dp(i + p, j) <= dp(i + p, j + h)
      BY DEF AreTexts
    <3>. DEFINE y == j + (h + 1)
                x == i + p
    <3>2. y \in 0 .. Len(b) /\ y # 0 /\ y - 1 = j + h /\ j + h \in 0 .. Len(b) /\ x \in 0 .. Len(a) /\ j \in 0 .. Len(b)
      BY DEF AreTexts
    <3>. HIDE DEF x, y
    <3>3. dp(x, y - 1) <= dp(x, y) /\ dp(x, y) \in Nat /\ dp(x, j + h) \in Nat /\ dp(x, j) \in Nat
      BY <1>0, <3>2
    <3>4. dp(x, j + h) <= dp(x, y)
      BY <3>2, <3>3
    <3>5. dp(x, j) <= dp(x, y)
      BY <3>1, <3>3, <3>4 DEF x
    <3> QED  BY <3>5 DEF x, y
  <2>3. Q \in SUBSET Nat
    OBVIOUS
  <2>. HIDE DEF Q
  <2> QED  BY <2>1, <2>2, <2>3, Induction
<1>3. dp(i, j) <= dp(i + p, j) /\ dp(i + p, j) <= dp(i + p, j + q)
  BY <1>1, <1>2
<1>4. dp(i, j) \in Nat /\ dp(i + p, j) \in Nat /\ dp(i + p, j + q) \in Nat
  <2>1. i \in 0 .. Len(a) /\ j \in 0 .. Len(b) /\ i + p \in 0 .. Len(a) /\ j + q \in 0 .. Len(b)
    BY DEF AreTexts
  <2> QED  BY <1>0, <2>1
<1>5. dp(i, j) <= dp(i + p, j + q)
  BY <1>3, <1>4
<1> QED  BY <1>4, <1>5, Zenon DEF dp
-----------------------------------------------------------------------------
(* Pairing.                                                                *)

\* h rows into a run of rows of one kind that begins with row r.
RunAt(a, b, kind, x, y, r, h) ==
    /\ x[r - 1 + h] = x[r-1] + (IF kind = "removed" THEN h ELSE 0)
    /\ y[r - 1 + h] = y[r-1] + (IF kind = "added" THEN h ELSE 0)
    /\ LcsTable(a, b)[<<x[r - 1 + h], y[r - 1 + h]>>] = LcsTable(a, b)[<<x[r-1], y[r-1]>>]

\* The corners of a run of removed or added rows lie on one line, and the
\* table has one value along it.
LEMMA AlongRun ==
    ASSUME NEW a, NEW b, NEW fa, NEW fb, NEW rs, NEW x, NEW y, AreTexts(a, b), Len(rs) \in Nat,
           Along(a, b, fa, fb, rs, x, y), NEW kind \in {"removed", "added"},
           NEW r \in 1 .. Len(rs) + 1, NEW e \in r .. Len(rs) + 1,
           \A k \in r .. e - 1 : rs[k].left.kind = kind /\ rs[k].right.kind = kind
    PROVE  \A h \in 0 .. e - r : RunAt(a, b, kind, x, y, r, h)
<1>. DEFINE n == Len(rs)
            dp == LcsTable(a, b)
            T == {h \in Nat : h \in 0 .. e - r => RunAt(a, b, kind, x, y, r, h)}
<1>0. x \in [0 .. n -> 0 .. Len(a)] /\ y \in [0 .. n -> 0 .. Len(b)]
  BY Zenon DEF Along
<1>1. \A k \in 0 .. n : x[k] \in Nat /\ y[k] \in Nat /\ dp[<<x[k], y[k]>>] \in Nat
  <2>. SUFFICES ASSUME NEW k \in 0 .. n PROVE x[k] \in Nat /\ y[k] \in Nat /\ dp[<<x[k], y[k]>>] \in Nat
    OBVIOUS
  <2>1. x[k] \in 0 .. Len(a) /\ y[k] \in 0 .. Len(b)
    BY <1>0
  <2>2. Even(a, b, x[k], y[k])
    BY <2>1, TableEven
  <2>3. dp[<<x[k], y[k]>>] \in Nat
    BY <2>2, Zenon DEF Even
  <2> QED  BY <2>1, <2>3 DEF AreTexts
<1>. HIDE DEF n, dp
<1>2. n \in Nat /\ r \in 1 .. n + 1 /\ e \in r .. n + 1
  BY DEF n
<1>3. 0 \in T
  <2>1. r - 1 + 0 = r - 1 /\ r - 1 \in 0 .. n
    BY <1>2
  <2>2. x[r-1] \in Nat /\ y[r-1] \in Nat
    BY <1>1, <2>1, Zenon
  <2>3. x[r-1] + 0 = x[r-1] /\ y[r-1] + 0 = y[r-1]
    BY ONLY <2>2
  <2>4. RunAt(a, b, kind, x, y, r, 0)
    <3>1. x[r - 1 + 0] = x[r-1] /\ y[r - 1 + 0] = y[r-1]
      BY <2>1
    <3>2. x[r-1] = x[r-1] + (IF kind = "removed" THEN 0 ELSE 0) /\ y[r-1] = y[r-1] + (IF kind = "added" THEN 0 ELSE 0)
      BY <2>3
    <3> QED  BY <3>1, <3>2, Zenon DEF RunAt
  <2> QED  BY <2>4
<1>4. ASSUME NEW h \in T PROVE h + 1 \in T
  <2>. SUFFICES ASSUME h + 1 \in 0 .. e - r PROVE RunAt(a, b, kind, x, y, r, h + 1)
    OBVIOUS
  <2>. DEFINE k == r - 1 + (h + 1)
  <2>1. k \in r .. e - 1 /\ k \in 1 .. n /\ k - 1 = r - 1 + h /\ k - 1 \in 0 .. n /\ r - 1 \in 0 .. n /\ h \in Nat /\ h \in 0 .. e - r
    BY <1>2
  <2>2. RunAt(a, b, kind, x, y, r, h)
    BY <2>1
  <2>. HIDE DEF k, T
  <2>3. Move(a, b, kind, kind, x[k-1], y[k-1], x[k], y[k])
    <3>1. RowStep(a, b, fa, fb, rs[k], x[k-1], y[k-1], x[k], y[k])
      BY <2>1, Zenon DEF Along, n
    <3> QED  BY <2>1, <3>1, Zenon DEF RowStep
  <2>4. /\ x[k-1] = x[r-1] + (IF kind = "removed" THEN h ELSE 0)
        /\ y[k-1] = y[r-1] + (IF kind = "added" THEN h ELSE 0)
        /\ dp[<<x[k-1], y[k-1]>>] = dp[<<x[r-1], y[r-1]>>]
    BY <2>1, <2>2, Zenon DEF RunAt, dp
  <2>5. /\ x[k] = x[r-1] + (IF kind = "removed" THEN h + 1 ELSE 0)
        /\ y[k] = y[r-1] + (IF kind = "added" THEN h + 1 ELSE 0)
    BY <1>1, <2>1, <2>3, <2>4, SMTT(30) DEF Move
  <2>6. dp[<<x[k], y[k]>>] = dp[<<x[r-1], y[r-1]>>]
    <3>1. dp[<<x[k], y[k]>>] = dp[<<x[k-1], y[k-1]>>] + 0
      BY <2>3, Zenon DEF Move, dp
    <3> QED  BY <1>1, <2>1, <2>4, <3>1, SMTT(30)
  <2> QED  BY <2>5, <2>6, Zenon DEF RunAt, dp, k
<1>5. \A h \in Nat : h \in T
  <2>1. T \in SUBSET Nat
    OBVIOUS
  <2>. HIDE DEF T
  <2> QED  BY <1>3, <1>4, <2>1, Induction
<1> QED  BY <1>5

\* The removed rows i .. s - 1 and the added rows s .. e - 1 in the walk's rows.
Change(rs, i, s, e) ==
    /\ i \in 1 .. Len(rs) /\ s \in i + 1 .. Len(rs) + 1 /\ e \in s .. Len(rs) + 1
    /\ \A k \in i .. s - 1 : rs[k].left.kind = "removed"
    /\ \A k \in s .. e - 1 : rs[k].left.kind = "added"

\* The left cell of a removed line, and the right cell of an added one.
Removes(a, fa, c, x) ==
    IsCell(c) /\ c.kind = "removed" /\ c.plain = a[x] /\ (fa => Words(c.text) = a[x])
Adds(b, fb, c, y) ==
    IsCell(c) /\ c.kind = "added" /\ c.plain = b[y] /\ (fb => Words(c.text) = b[y])

\* The corners around a change and the lines between them.
Spans(a, b, fa, fb, rs, x, y, i, s, e) ==
    /\ x[i-1] \in Nat /\ y[i-1] \in Nat
    /\ x[e-1] = x[i-1] + (s - i) /\ y[e-1] = y[i-1] + (e - s)
    /\ x[e-1] <= Len(a) /\ y[e-1] <= Len(b)
    /\ LcsTable(a, b)[<<x[e-1], y[e-1]>>] = LcsTable(a, b)[<<x[i-1], y[i-1]>>]
    /\ \A k \in 1 .. s - i : Removes(a, fa, rs[i + k - 1].left, x[i-1] + k)
    /\ \A k \in 1 .. e - s : Adds(b, fb, rs[s + k - 1].right, y[i-1] + k)

\* A change lies between two corners with the same value in the table.
LEMMA ChangeSpans ==
    ASSUME NEW a, NEW b, NEW fa, NEW fb, NEW rs, NEW x, NEW y, AreTexts(a, b),
           FromWalk(a, b, fa, fb, rs, x, y), NEW i, NEW s, NEW e, Change(rs, i, s, e)
    PROVE  Spans(a, b, fa, fb, rs, x, y, i, s, e)
<1>. DEFINE n == Len(rs)
<1>1. Along(a, b, fa, fb, rs, x, y) /\ n \in Nat
  BY ListsJoin DEF FromWalk
<1>2. i \in 1 .. n /\ s \in i + 1 .. n + 1 /\ e \in s .. n + 1
  BY Zenon DEF Change
<1>3. x \in [0 .. n -> 0 .. Len(a)] /\ y \in [0 .. n -> 0 .. Len(b)]
  BY <1>1, Zenon DEF Along
<1>4. \A k \in 1 .. n : rs[k].left.kind = rs[k].right.kind
  BY Zenon DEF FromWalk
<1>. HIDE DEF n
<1>5. ASSUME NEW h \in 0 .. s - i PROVE RunAt(a, b, "removed", x, y, i, h)
  <2>1. i \in 1 .. n + 1 /\ s \in i .. n + 1
    BY <1>1, <1>2
  <2>2. ASSUME NEW k \in i .. s - 1 PROVE rs[k].left.kind = "removed" /\ rs[k].right.kind = "removed"
    <3>1. k \in 1 .. n
      BY <1>1, <1>2
    <3>2. rs[k].left.kind = "removed"
      BY Zenon DEF Change
    <3> QED  BY <1>4, <3>1, <3>2
  <2> QED  BY <1>1, <2>1, <2>2, AlongRun DEF n
<1>6. ASSUME NEW h \in 0 .. e - s PROVE RunAt(a, b, "added", x, y, s, h)
  <2>1. s \in 1 .. n + 1 /\ e \in s .. n + 1
    BY <1>1, <1>2
  <2>2. ASSUME NEW k \in s .. e - 1 PROVE rs[k].left.kind = "added" /\ rs[k].right.kind = "added"
    <3>1. k \in 1 .. n
      BY <1>1, <1>2
    <3>2. rs[k].left.kind = "added"
      BY Zenon DEF Change
    <3> QED  BY <1>4, <3>1, <3>2
  <2> QED  BY <1>1, <2>1, <2>2, AlongRun DEF n
<1>7. \A k \in 0 .. n : x[k] \in 0 .. Len(a) /\ y[k] \in 0 .. Len(b)
  BY <1>3
<1>8. i - 1 \in 0 .. n /\ s - 1 \in 0 .. n /\ e - 1 \in 0 .. n
  BY <1>1, <1>2
<1>9. x[i-1] \in Nat /\ y[i-1] \in Nat /\ x[e-1] <= Len(a) /\ y[e-1] <= Len(b)
  BY <1>7, <1>8 DEF AreTexts
<1>10. ASSUME NEW h \in 0 .. s - i
       PROVE  x[i - 1 + h] = x[i-1] + h /\ y[i - 1 + h] = y[i-1]
  <2>1. x[i - 1 + h] = x[i-1] + h /\ y[i - 1 + h] = y[i-1] + 0
    BY <1>5 DEF RunAt
  <2> QED  BY <1>9, <2>1
<1>11. x[s-1] = x[i-1] + (s - i) /\ y[s-1] = y[i-1]
  <2>1. s - i \in 0 .. s - i /\ i - 1 + (s - i) = s - 1
    BY <1>1, <1>2
  <2> QED  BY <1>10, <2>1
<1>12. ASSUME NEW h \in 0 .. e - s
       PROVE  x[s - 1 + h] = x[s-1] /\ y[s - 1 + h] = y[i-1] + h
  <2>1. x[s - 1 + h] = x[s-1] + 0 /\ y[s - 1 + h] = y[s-1] + h
    BY <1>6 DEF RunAt
  <2>2. x[s-1] \in Nat
    BY <1>7, <1>8 DEF AreTexts
  <2> QED  BY <1>11, <2>1, <2>2
<1>13. x[e-1] = x[i-1] + (s - i) /\ y[e-1] = y[i-1] + (e - s)
  <2>1. e - s \in 0 .. e - s /\ s - 1 + (e - s) = e - 1
    BY <1>1, <1>2
  <2> QED  BY <1>11, <1>12, <2>1
<1>14. LcsTable(a, b)[<<x[e-1], y[e-1]>>] = LcsTable(a, b)[<<x[i-1], y[i-1]>>]
  <2>1. /\ s - i \in 0 .. s - i /\ i - 1 + (s - i) = s - 1
        /\ e - s \in 0 .. e - s /\ s - 1 + (e - s) = e - 1
    BY <1>1, <1>2
  <2>2. RunAt(a, b, "removed", x, y, i, s - i) /\ RunAt(a, b, "added", x, y, s, e - s)
    BY <1>5, <1>6, <2>1
  <2> QED  BY <2>1, <2>2, Zenon DEF RunAt
<1>15. ASSUME NEW k \in 1 .. s - i PROVE Removes(a, fa, rs[i + k - 1].left, x[i-1] + k)
  <2>. DEFINE h == i + k - 1
  <2>1. h \in 1 .. n /\ h \in i .. s - 1 /\ h = i - 1 + k /\ k \in 0 .. s - i
    BY <1>1, <1>2
  <2>2. RowStep(a, b, fa, fb, rs[h], x[h-1], y[h-1], x[h], y[h])
    BY <1>1, <2>1, Zenon DEF Along, n
  <2>3. rs[h].left.kind = "removed"
    BY <2>1, Zenon DEF Change
  <2>4. x[h] = x[i-1] + k
    BY <1>10, <2>1
  <2>5. "removed" # "added"
    OBVIOUS
  <2> QED  BY <2>2, <2>3, <2>4, <2>5, Zenon DEF RowStep, Removes
<1>16. ASSUME NEW k \in 1 .. e - s PROVE Adds(b, fb, rs[s + k - 1].right, y[i-1] + k)
  <2>. DEFINE h == s + k - 1
  <2>1. h \in 1 .. n /\ h \in s .. e - 1 /\ h = s - 1 + k /\ k \in 0 .. e - s
    BY <1>1, <1>2
  <2>2. RowStep(a, b, fa, fb, rs[h], x[h-1], y[h-1], x[h], y[h])
    BY <1>1, <2>1, Zenon DEF Along, n
  <2>3. rs[h].right.kind = "added"
    <3>1. rs[h].left.kind = "added"
      BY <2>1, Zenon DEF Change
    <3> QED  BY <1>4, <2>1, <3>1
  <2>4. y[h] = y[i-1] + k
    BY <1>12, <2>1
  <2>5. "removed" # "added"
    OBVIOUS
  <2> QED  BY <2>2, <2>3, <2>4, <2>5, Zenon DEF RowStep, Adds
<1> QED  BY <1>9, <1>13, <1>14, <1>15, <1>16, Zenon DEF Spans

\* Two corners, P to the right and Q down, with the same value.
Flat(a, b, v, w, P, Q) ==
    /\ v \in Nat /\ w \in Nat /\ P \in Nat /\ Q \in Nat
    /\ v + P <= Len(a) /\ w + Q <= Len(b)
    /\ LcsTable(a, b)[<<v + P, w + Q>>] = LcsTable(a, b)[<<v, w>>]

\* The table has the same value at every corner of a change.
LEMMA ChangeIsFlat ==
    ASSUME NEW a, NEW b, AreTexts(a, b), NEW v, NEW w, NEW P, NEW Q, Flat(a, b, v, w, P, Q),
           NEW p \in 0 .. P, NEW q \in 0 .. Q
    PROVE  LcsTable(a, b)[<<v + p, w + q>>] = LcsTable(a, b)[<<v, w>>]
<1>. DEFINE dp(x, y) == LcsTable(a, b)[<<x, y>>]
<1>0. /\ v \in Nat /\ w \in Nat /\ P \in Nat /\ Q \in Nat /\ v + P <= Len(a) /\ w + Q <= Len(b)
      /\ dp(v + P, w + Q) = dp(v, w)
  BY Zenon DEF Flat
<1>1. PICK x, y, g, h : x = v + p /\ y = w + q /\ g = P - p /\ h = Q - q
  OBVIOUS
<1>2. /\ x \in Nat /\ y \in Nat /\ g \in Nat /\ h \in Nat /\ p \in Nat /\ q \in Nat
      /\ x + g = v + P /\ y + h = w + Q /\ v + p <= Len(a) /\ w + q <= Len(b)
  BY <1>0, <1>1 DEF AreTexts
<1>3. dp(v, w) <= dp(v + p, w + q) /\ dp(v, w) \in Nat /\ dp(v + p, w + q) \in Nat
  BY <1>0, <1>2, TableGrows
<1>4. dp(x, y) <= dp(x + g, y + h)
  <2>1. x + g <= Len(a) /\ y + h <= Len(b)
    BY <1>0, <1>2
  <2> QED  BY <1>2, <2>1, TableGrows
<1>5. dp(x + g, y + h) = dp(v, w) /\ dp(x, y) = dp(v + p, w + q)
  BY <1>0, <1>1, <1>2
<1>. HIDE DEF dp
<1>6. dp(v + p, w + q) = dp(v, w)
  BY <1>3, <1>4, <1>5
<1> QED  BY <1>6 DEF dp

\* A line on the left with nothing beside it.
LEMMA LeftAlone ==
    ASSUME NEW a, NEW b, NEW fa, NEW fb, NEW c, NEW x \in Nat, NEW y \in Nat, Removes(a, fa, c, x + 1),
           LcsTable(a, b)[<<x + 1, y>>] = LcsTable(a, b)[<<x, y>>], LcsTable(a, b)[<<x, y>>] \in Nat
    PROVE  LET r == [left |-> c, right |-> Padding("removed")]
           IN  RowStep(a, b, fa, fb, r, x, y, x + 1, y) /\ OnlyLeft(r)
<1>. DEFINE r == [left |-> c, right |-> Padding("removed")]
            dp(p, q) == LcsTable(a, b)[<<p, q>>]
<1>1. r.left = c /\ r.right.kind = "removed" /\ IsCell(r.right) /\ c.kind = "removed" /\ IsCell(c)
  BY DEF Padding, Cell, IsCell, Removes
<1>. HIDE DEF r
<1>2. OnlyLeft(r)
  BY <1>1 DEF OnlyLeft
<1>3. Move(a, b, r.left.kind, r.right.kind, x, y, x + 1, y)
  <2>1. dp(x + 1, y) = dp(x, y) + 0
    <3>. HIDE DEF dp
    <3>1. dp(x + 1, y) = dp(x, y) /\ dp(x, y) \in Nat
      BY DEF dp
    <3> QED  BY <3>1
  <2>2. "removed" # "added" /\ "removed" # "same"
    OBVIOUS
  <2> QED  BY <1>1, <2>1, <2>2, Zenon DEF Move
<1>4. "removed" # "added"
  OBVIOUS
<1>5. RowStep(a, b, fa, fb, r, x, y, x + 1, y)
  BY <1>1, <1>2, <1>3, <1>4, Zenon DEF RowStep, Removes
<1> QED  BY <1>2, <1>5 DEF r

\* A line on the right with nothing beside it.
LEMMA RightAlone ==
    ASSUME NEW a, NEW b, NEW fa, NEW fb, NEW c, NEW x \in Nat, NEW y \in Nat, Adds(b, fb, c, y + 1),
           LcsTable(a, b)[<<x, y + 1>>] = LcsTable(a, b)[<<x, y>>], LcsTable(a, b)[<<x, y>>] \in Nat
    PROVE  LET r == [left |-> Padding("added"), right |-> c]
           IN  RowStep(a, b, fa, fb, r, x, y, x, y + 1) /\ OnlyRight(r)
<1>. DEFINE r == [left |-> Padding("added"), right |-> c]
            dp(p, q) == LcsTable(a, b)[<<p, q>>]
<1>1. r.right = c /\ r.left.kind = "added" /\ IsCell(r.left) /\ c.kind = "added" /\ IsCell(c)
  BY DEF Padding, Cell, IsCell, Adds
<1>. HIDE DEF r
<1>2. OnlyRight(r)
  BY <1>1 DEF OnlyRight
<1>3. Move(a, b, r.left.kind, r.right.kind, x, y, x, y + 1)
  <2>1. dp(x, y + 1) = dp(x, y) + 0
    <3>. HIDE DEF dp
    <3>1. dp(x, y + 1) = dp(x, y) /\ dp(x, y) \in Nat
      BY DEF dp
    <3> QED  BY <3>1
  <2>2. "removed" # "added" /\ "added" # "same"
    OBVIOUS
  <2> QED  BY <1>1, <2>1, <2>2, Zenon DEF Move
<1>4. "removed" # "added"
  OBVIOUS
<1>5. RowStep(a, b, fa, fb, r, x, y, x, y + 1)
  BY <1>1, <1>2, <1>3, <1>4, Zenon DEF RowStep, Adds
<1> QED  BY <1>2, <1>5 DEF r

\* A removed and an added line on one row.
LEMMA PairedRow ==
    ASSUME NEW a, NEW b, NEW fa, NEW fb, NEW c, NEW d, NEW x \in Nat, NEW y \in Nat,
           Removes(a, fa, c, x + 1), Adds(b, fb, d, y + 1), a[x+1] \in Seq(Token), b[y+1] \in Seq(Token),
           LcsTable(a, b)[<<x + 1, y + 1>>] = LcsTable(a, b)[<<x, y>>], LcsTable(a, b)[<<x, y>>] \in Nat
    PROVE  RowStep(a, b, fa, fb, Pair(c, d), x, y, x + 1, y + 1) /\ Paired(Pair(c, d))
<1>. DEFINE r == Pair(c, d)
            dp(p, q) == LcsTable(a, b)[<<p, q>>]
            words == WordDiff(a[x+1], b[y+1])
<1>1. Words(words.left) = a[x+1] /\ Words(words.right) = b[y+1]
  BY WordDiffWords
<1>2. r = [left |-> [c EXCEPT !.text = words.left], right |-> [d EXCEPT !.text = words.right]]
  BY DEF Pair, Removes, Adds
<1>. HIDE DEF r, words
<1>3. /\ r.left.kind = "removed" /\ r.left.plain = a[x+1] /\ r.left.text = words.left /\ IsCell(r.left)
      /\ r.right.kind = "added" /\ r.right.plain = b[y+1] /\ r.right.text = words.right /\ IsCell(r.right)
  BY <1>2 DEF Removes, Adds, IsCell, Cell
<1>4. Paired(r)
  BY <1>3 DEF Paired
<1>5. Move(a, b, r.left.kind, r.right.kind, x, y, x + 1, y + 1)
  <2>1. dp(x + 1, y + 1) = dp(x, y) + 0
    <3>. HIDE DEF dp
    <3>1. dp(x + 1, y + 1) = dp(x, y) /\ dp(x, y) \in Nat
      BY DEF dp
    <3> QED  BY <3>1
  <2>2. "removed" # "added" /\ "removed" # "same"
    OBVIOUS
  <2> QED  BY <1>3, <2>1, <2>2, Zenon DEF Move
<1>6. RowStep(a, b, fa, fb, r, x, y, x + 1, y + 1)
  BY <1>1, <1>3, <1>4, <1>5, Zenon DEF RowStep
<1> QED  BY <1>4, <1>6 DEF r

\* How far a run of n lines is gone after k rows.
Least(k, n) == IF k <= n THEN k ELSE n

BlockRow(rs, i, s, P, Q, k) ==
    IF k > P THEN [left |-> Padding("added"), right |-> rs[s + k - 1].right]
    ELSE IF k > Q THEN [left |-> rs[i + k - 1].left, right |-> Padding("removed")]
    ELSE Pair(rs[i + k - 1].left, rs[s + k - 1].right)

\* The rows of a block: pairs first, then the lines left over on one side.
BlockShape(r, k, P, Q) ==
    /\ k > P => OnlyRight(r)
    /\ k > Q => OnlyLeft(r)
    /\ k <= P /\ k <= Q => Paired(r)

\* P removed rows from the i-th on and Q added ones from the s-th on, which
\* begin at the corner <<v, w>>.
ChangeAt(a, b, fa, fb, rs, i, s, v, w, P, Q) ==
    /\ Flat(a, b, v, w, P, Q)
    /\ \A k \in 1 .. P : Removes(a, fa, rs[i + k - 1].left, v + k)
    /\ \A k \in 1 .. Q : Adds(b, fb, rs[s + k - 1].right, w + k)

\* Each row of a block shows one line of the change on each side, as far as
\* they go; where it pairs two lines they differ, since the table is flat.
LEMMA RowOfBlock ==
    ASSUME NEW a \in Seq(Seq(Token)), NEW b \in Seq(Seq(Token)), NEW fa, NEW fb, NEW rs, NEW i, NEW s,
           NEW v, NEW w, NEW P, NEW Q, ChangeAt(a, b, fa, fb, rs, i, s, v, w, P, Q),
           NEW k \in Nat, k # 0, k <= P \/ k <= Q
    PROVE  /\ RowStep(a, b, fa, fb, BlockRow(rs, i, s, P, Q, k),
                      v + Least(k - 1, P), w + Least(k - 1, Q), v + Least(k, P), w + Least(k, Q))
           /\ BlockShape(BlockRow(rs, i, s, P, Q, k), k, P, Q)
<1>. DEFINE dp(p, q) == LcsTable(a, b)[<<p, q>>]
            r == BlockRow(rs, i, s, P, Q, k)
            c == rs[i + k - 1].left
            d == rs[s + k - 1].right
<1>0. AreTexts(a, b)
  BY DEF AreTexts
<1>1. /\ v \in Nat /\ w \in Nat /\ P \in Nat /\ Q \in Nat
      /\ \A h \in 1 .. P : Removes(a, fa, rs[i + h - 1].left, v + h)
      /\ \A h \in 1 .. Q : Adds(b, fb, rs[s + h - 1].right, w + h)
  BY Zenon DEF ChangeAt, Flat
<1>2. dp(v + P, w + Q) = dp(v, w) /\ v + P <= Len(a) /\ w + Q <= Len(b)
  BY Zenon DEF ChangeAt, Flat
<1>. HIDE DEF dp
<1>3. ASSUME NEW p \in 0 .. P, NEW q \in 0 .. Q PROVE dp(v + p, w + q) = dp(v, w)
  <2>1. Flat(a, b, v, w, P, Q)
    BY Zenon DEF ChangeAt
  <2> QED  BY <1>0, <2>1, ChangeIsFlat DEF dp
<1>4. dp(v, w) \in Nat
  <2>1. v \in 0 .. Len(a) /\ w \in 0 .. Len(b)
    BY <1>1, <1>2
  <2>2. Even(a, b, v, w)
    BY <1>0, <2>1, TableEven
  <2> QED  BY <2>2, Zenon DEF Even, dp
<1>. DEFINE X == v + Least(k - 1, P)
            Y == w + Least(k - 1, Q)
<1>5. X \in Nat /\ Y \in Nat /\ dp(X, Y) \in Nat /\ dp(X, Y) = dp(v, w)
  <2>1. Least(k - 1, P) \in 0 .. P /\ Least(k - 1, Q) \in 0 .. Q
    BY <1>1 DEF Least
  <2>2. X \in Nat /\ Y \in Nat
    BY <1>1, <2>1
  <2>3. dp(X, Y) = dp(v, w)
    BY <1>3, <2>1
  <2>. HIDE DEF X, Y
  <2> QED  BY <1>4, <2>2, <2>3
<1>6. CASE k > P
  <2>1. Least(k - 1, P) = P /\ Least(k, P) = P /\ Least(k - 1, Q) = k - 1 /\ Least(k, Q) = k /\ k \in 1 .. Q
    BY <1>1, <1>6 DEF Least
  <2>2. X = v + P /\ Y + 1 = w + k
    BY <1>1, <2>1
  <2>3. Adds(b, fb, d, Y + 1)
    BY <1>1, <2>1, <2>2
  <2>4. dp(X, Y + 1) = dp(X, Y)
    <3>1. P \in 0 .. P /\ k \in 0 .. Q
      BY <1>1, <2>1
    <3>2. dp(v + P, w + k) = dp(v, w)
      BY <1>3, <3>1
    <3>. HIDE DEF X, Y
    <3> QED  BY <1>5, <2>2, <3>2, Zenon
  <2>5. r = [left |-> Padding("added"), right |-> d]
    BY <1>1, <1>6 DEF BlockRow
  <2>. HIDE DEF X, Y, r, d
  <2>6. RowStep(a, b, fa, fb, r, X, Y, X, Y + 1) /\ OnlyRight(r)
    BY <1>5, <2>3, <2>4, <2>5, RightAlone DEF dp
  <2>7. BlockShape(r, k, P, Q)
    BY <1>1, <1>6, <2>1, <2>6 DEF BlockShape
  <2>. USE DEF X, Y, r
  <2>8. v + Least(k, P) = X /\ w + Least(k, Q) = Y + 1
    BY <2>1, <2>2
  <2> QED  BY <2>6, <2>7, <2>8, Zenon
<1>7. CASE k <= P /\ k > Q
  <2>1. Least(k - 1, Q) = Q /\ Least(k, Q) = Q /\ Least(k - 1, P) = k - 1 /\ Least(k, P) = k /\ k \in 1 .. P
    BY <1>1, <1>7 DEF Least
  <2>2. Y = w + Q /\ X + 1 = v + k
    BY <1>1, <2>1
  <2>3. Removes(a, fa, c, X + 1)
    BY <1>1, <2>1, <2>2
  <2>4. dp(X + 1, Y) = dp(X, Y)
    <3>1. Q \in 0 .. Q /\ k \in 0 .. P
      BY <1>1, <2>1
    <3>2. dp(v + k, w + Q) = dp(v, w)
      BY <1>3, <3>1
    <3>. HIDE DEF X, Y
    <3> QED  BY <1>5, <2>2, <3>2, Zenon
  <2>5. r = [left |-> c, right |-> Padding("removed")]
    BY <1>1, <1>7 DEF BlockRow
  <2>. HIDE DEF X, Y, r, c
  <2>6. RowStep(a, b, fa, fb, r, X, Y, X + 1, Y) /\ OnlyLeft(r)
    BY <1>5, <2>3, <2>4, <2>5, LeftAlone DEF dp
  <2>7. BlockShape(r, k, P, Q)
    BY <1>1, <1>7, <2>1, <2>6 DEF BlockShape
  <2>. USE DEF X, Y, r
  <2>8. v + Least(k, P) = X + 1 /\ w + Least(k, Q) = Y
    BY <2>1, <2>2
  <2> QED  BY <2>6, <2>7, <2>8, Zenon
<1>8. CASE k <= P /\ k <= Q
  <2>1. /\ Least(k - 1, Q) = k - 1 /\ Least(k, Q) = k /\ Least(k - 1, P) = k - 1 /\ Least(k, P) = k
        /\ k \in 1 .. P /\ k \in 1 .. Q
    BY <1>1, <1>8 DEF Least
  <2>2. Y + 1 = w + k /\ X + 1 = v + k
    BY <1>1, <2>1
  <2>3. Removes(a, fa, c, X + 1) /\ Adds(b, fb, d, Y + 1)
    BY <1>1, <2>1, <2>2
  <2>4. dp(X + 1, Y + 1) = dp(X, Y)
    BY <1>3, <1>5, <2>1, <2>2
  <2>5. r = Pair(c, d)
    BY <1>1, <1>8 DEF BlockRow
  <2>6. a[X+1] \in Seq(Token) /\ b[Y+1] \in Seq(Token)
    <3>1. X + 1 \in 1 .. Len(a) /\ Y + 1 \in 1 .. Len(b)
      <4>1. Len(a) \in Nat /\ Len(b) \in Nat
        OBVIOUS
      <4>2. /\ v \in Nat /\ w \in Nat /\ P \in Nat /\ Q \in Nat
            /\ v + P <= Len(a) /\ w + Q <= Len(b)
        BY <1>1, <1>2, Zenon
      <4>3. v + k \in 1 .. Len(a) /\ w + k \in 1 .. Len(b)
        BY <1>8, <4>1, <4>2, SMTT(30)
      <4>. HIDE DEF X, Y
      <4> QED  BY <2>2, <4>3
    <3> QED  BY <3>1
  <2>. HIDE DEF X, Y, r, c, d
  <2>7. RowStep(a, b, fa, fb, r, X, Y, X + 1, Y + 1) /\ Paired(r)
    BY <1>5, <2>3, <2>4, <2>5, <2>6, PairedRow DEF dp
  <2>8. BlockShape(r, k, P, Q)
    BY <1>1, <1>8, <2>1, <2>7 DEF BlockShape
  <2>. USE DEF X, Y, r
  <2>9. v + Least(k, P) = X + 1 /\ w + Least(k, Q) = Y + 1
    BY <2>1, <2>2
  <2> QED  BY <2>7, <2>8, <2>9, Zenon
<1> QED  BY <1>1, <1>6, <1>7, <1>8

\* A function on 1 .. n is a list.
LEMMA FunctionIsList ==
    ASSUME NEW n \in Nat, NEW V, NEW f \in [1 .. n -> V]
    PROVE  f \in Seq(V) /\ IsList(f) /\ Len(f) = n
<1>1. f \in Seq(V) /\ Len(f) = n
  OBVIOUS
<1> QED  BY <1>1, Zenon DEF IsList

\* The rows of a block go from the corner where the change begins to the
\* corner where it ends, and keep the sides apart.
LEMMA BlockBetween ==
    ASSUME NEW a \in Seq(Seq(Token)), NEW b \in Seq(Seq(Token)), NEW fa, NEW fb, NEW rs, NEW x, NEW y,
           FromWalk(a, b, fa, fb, rs, x, y), NEW i, NEW s, NEW e, Change(rs, i, s, e)
    PROVE  /\ Between(a, b, fa, fb, Block(rs, i, s, e), x[i-1], y[i-1], x[e-1], y[e-1])
           /\ SidesApart(Block(rs, i, s, e))
           /\ Len(Block(rs, i, s, e)) \in Nat \ {0}
<1>. DEFINE P == s - i
            Q == e - s
            N == IF P >= Q THEN P ELSE Q
            B == Block(rs, i, s, e)
            R(k) == BlockRow(rs, i, s, P, Q, k)
            v == x[i-1]
            w == y[i-1]
            X == [k \in 0 .. N |-> v + Least(k, P)]
            Y == [k \in 0 .. N |-> w + Least(k, Q)]
<1>0. AreTexts(a, b)
  BY DEF AreTexts
<1>1. Len(rs) \in Nat
  BY ListsJoin DEF FromWalk
<1>2. P \in Nat /\ P # 0 /\ Q \in Nat /\ N \in Nat /\ N # 0
  BY <1>1 DEF Change
<1>30. Spans(a, b, fa, fb, rs, x, y, i, s, e)
  BY <1>0, ChangeSpans
<1>3. /\ ChangeAt(a, b, fa, fb, rs, i, s, v, w, P, Q)
       /\ v \in Nat /\ w \in Nat
       /\ x[e-1] = v + P /\ y[e-1] = w + Q /\ v + P <= Len(a) /\ w + Q <= Len(b)
  <2>1. /\ v \in Nat /\ w \in Nat
        /\ x[e-1] = v + P /\ y[e-1] = w + Q /\ x[e-1] <= Len(a) /\ y[e-1] <= Len(b)
    BY <1>30, Zenon DEF Spans
  <2>2. v + P <= Len(a) /\ w + Q <= Len(b)
    BY <2>1
  <2>3. LcsTable(a, b)[<<v + P, w + Q>>] = LcsTable(a, b)[<<v, w>>]
    BY <1>30, <2>1, Zenon DEF Spans
  <2>4. Flat(a, b, v, w, P, Q)
    BY <1>2, <2>1, <2>2, <2>3, Zenon DEF Flat
  <2>5. ChangeAt(a, b, fa, fb, rs, i, s, v, w, P, Q)
    BY <1>30, <2>4, Zenon DEF ChangeAt, Spans
  <2> QED  BY <2>1, <2>2, <2>5
<1>4. B = [k \in 1 .. N |-> R(k)]
  BY Zenon DEF Block, BlockRow
<1>5. ASSUME NEW k \in 1 .. N
      PROVE  /\ RowStep(a, b, fa, fb, R(k),
                         v + Least(k - 1, P), w + Least(k - 1, Q), v + Least(k, P), w + Least(k, Q))
             /\ BlockShape(R(k), k, P, Q)
  <2>1. k \in Nat /\ k # 0 /\ (k <= P \/ k <= Q)
    BY <1>2
  <2>. HIDE DEF P, Q, v, w, N
  <2>2. /\ RowStep(a, b, fa, fb, BlockRow(rs, i, s, P, Q, k),
                   v + Least(k - 1, P), w + Least(k - 1, Q), v + Least(k, P), w + Least(k, Q))
        /\ BlockShape(BlockRow(rs, i, s, P, Q, k), k, P, Q)
    <3>. HIDE DEF R
    <3> QED  BY <1>3, <2>1, RowOfBlock
  <2> QED  BY <2>2, Zenon
<1>. HIDE DEF B, R
<1>6. IsList(B) /\ Len(B) = N /\ \A k \in 1 .. N : B[k] = R(k)
  <2>. HIDE DEF N, P, Q, v, w, X, Y
  <2>0. N \in Nat
    BY <1>2
  <2>1. B \in [1 .. N -> {R(k) : k \in 1 .. N}]
    BY <1>4
  <2>2. IsList(B) /\ Len(B) = N
    BY <2>0, <2>1, FunctionIsList
  <2>3. \A k \in 1 .. N : B[k] = R(k)
    BY <1>4
  <2> QED  BY <2>2, <2>3
<1>7. X \in [0 .. N -> 0 .. Len(a)] /\ Y \in [0 .. N -> 0 .. Len(b)]
  <2>1. ASSUME NEW k \in 0 .. N PROVE v + Least(k, P) \in 0 .. Len(a) /\ w + Least(k, Q) \in 0 .. Len(b)
    <3>. HIDE DEF P, Q, v, w
    <3>1. Least(k, P) \in 0 .. P /\ Least(k, Q) \in 0 .. Q
      BY <1>2 DEF Least
    <3>2. /\ v \in Nat /\ w \in Nat /\ v + P <= Len(a) /\ w + Q <= Len(b)
          /\ P \in Nat /\ Q \in Nat /\ Len(a) \in Nat /\ Len(b) \in Nat
      BY <1>0, <1>2, <1>3, Zenon DEF AreTexts
    <3>3. v + Least(k, P) \in 0 .. Len(a)
      BY <3>1, <3>2, SMTT(30)
    <3>4. w + Least(k, Q) \in 0 .. Len(b)
      BY <3>1, <3>2, SMTT(30)
    <3> QED  BY <3>3, <3>4
  <2> QED  BY <2>1
<1>8. \A k \in 0 .. N : X[k] = v + Least(k, P) /\ Y[k] = w + Least(k, Q)
  OBVIOUS
<1>. HIDE DEF X, Y, N, P, Q, v, w
<1>9. ASSUME NEW k \in 1 .. N PROVE RowStep(a, b, fa, fb, B[k], X[k-1], Y[k-1], X[k], Y[k])
  <2>1. k - 1 \in 0 .. N /\ k \in 0 .. N
    BY <1>2
  <2> QED  BY <1>5, <1>6, <1>8, <2>1, Zenon
<1>10. Along(a, b, fa, fb, B, X, Y)
  BY <1>6, <1>7, <1>9, Zenon DEF Along
<1>11. X[0] = v /\ Y[0] = w /\ X[N] = x[e-1] /\ Y[N] = y[e-1]
  <2>1. Least(0, P) = 0 /\ Least(0, Q) = 0 /\ Least(N, P) = P /\ Least(N, Q) = Q
    BY <1>2 DEF Least, N
  <2>2. X[0] = v + Least(0, P) /\ Y[0] = w + Least(0, Q) /\ X[N] = v + Least(N, P) /\ Y[N] = w + Least(N, Q)
    <3>1. 0 \in 0 .. N /\ N \in 0 .. N
      BY <1>2
    <3> QED  BY <1>8, <3>1, Zenon
  <2> QED  BY <1>3, <2>1, <2>2
<1>12. Between(a, b, fa, fb, B, v, w, x[e-1], y[e-1])
  BY <1>6, <1>10, <1>11, Zenon DEF Between, Ends
<1>13. SidesApart(B)
  <2>. SUFFICES ASSUME NEW k \in 1 .. N - 1 PROVE Under(B[k], B[k+1])
    BY <1>6, Zenon DEF SidesApart
  <2>1. k \in 1 .. N /\ k + 1 \in 1 .. N
    BY <1>2
  <2>2. BlockShape(B[k], k, P, Q) /\ BlockShape(B[k+1], k + 1, P, Q)
    BY <1>5, <1>6, <2>1, Zenon
  <2>3. CASE k > P
    <3>1. k + 1 > P
      BY <1>2, <2>1, <2>3
    <3>2. OnlyRight(B[k]) /\ OnlyRight(B[k+1])
      BY <2>2, <2>3, <3>1, Zenon DEF BlockShape
    <3> QED  BY <3>2 DEF Under, OnlyRight, OnlyLeft
  <2>4. CASE k > Q
    <3>1. k + 1 > Q
      BY <1>2, <2>1, <2>4
    <3>2. OnlyLeft(B[k]) /\ OnlyLeft(B[k+1])
      BY <2>2, <2>4, <3>1, Zenon DEF BlockShape
    <3> QED  BY <3>2 DEF Under, OnlyRight, OnlyLeft
  <2>5. CASE k <= P /\ k <= Q
    BY <2>2, <2>5 DEF BlockShape, Under, OnlyRight, OnlyLeft, Paired
  <2>6. k > P \/ k > Q \/ (k <= P /\ k <= Q)
    BY <1>2, <2>1
  <2> QED  BY <2>3, <2>4, <2>5, <2>6
<1> QED  BY <1>2, <1>6, <1>12, <1>13, Zenon DEF B, v, w

\* Where a run of rows of one kind ends.
LEMMA RunEnds ==
    ASSUME NEW rs, Len(rs) \in Nat, NEW i \in 1 .. Len(rs) + 1, NEW kind
    PROVE  /\ RunEnd(rs, i, kind) \in i .. Len(rs) + 1
           /\ \A k \in i .. RunEnd(rs, i, kind) - 1 : rs[k].left.kind = kind
           /\ RunEnd(rs, i, kind) <= Len(rs) => rs[RunEnd(rs, i, kind)].left.kind # kind
<1>. DEFINE n == Len(rs)
            Ended(e) == /\ \A k \in i .. e - 1 : rs[k].left.kind = kind
                        /\ e <= n => rs[e].left.kind # kind
            S == {e \in i .. n + 1 : e = n + 1 \/ rs[e].left.kind # kind}
<1>1. PICK e \in S : \A k \in S : e <= k
  <2>1. S \in SUBSET Nat /\ S # {}
    <3>1. n + 1 \in S
      OBVIOUS
    <3> QED  BY <3>1
  <2>. HIDE DEF S
  <2> QED  BY <2>1, LeastExists
<1>2. e \in i .. n + 1 /\ Ended(e)
  <2>1. ASSUME NEW k \in i .. e - 1 PROVE rs[k].left.kind = kind
    <3>1. k \in i .. n + 1 /\ ~(e <= k)
      OBVIOUS
    <3> QED  BY <1>1, <3>1
  <2> QED  BY <2>1
<1>3. RunEnd(rs, i, kind) = CHOOSE f \in i .. n + 1 : Ended(f)
  BY Zenon DEF RunEnd
<1>. HIDE DEF Ended, n
<1>4. RunEnd(rs, i, kind) \in i .. n + 1 /\ Ended(RunEnd(rs, i, kind))
  BY <1>2, <1>3, Zenon
<1> QED  BY <1>4, Zenon DEF Ended, n

\* The change that begins with a removed row.
LEMMA ChangeBegins ==
    ASSUME NEW rs, Len(rs) \in Nat, NEW i \in 1 .. Len(rs), rs[i].left.kind = "removed"
    PROVE  LET s == RunEnd(rs, i, "removed")
               e == RunEnd(rs, s, "added")
           IN  /\ Change(rs, i, s, e)
               /\ s <= Len(rs) => rs[s].left.kind # "removed"
               /\ e <= Len(rs) => rs[e].left.kind # "added"
               /\ e \in i + 1 .. Len(rs) + 1
<1>. DEFINE n == Len(rs)
            s == RunEnd(rs, i, "removed")
            e == RunEnd(rs, s, "added")
<1>1. /\ s \in i .. n + 1
      /\ \A k \in i .. s - 1 : rs[k].left.kind = "removed"
      /\ s <= n => rs[s].left.kind # "removed"
  <2>1. i \in 1 .. n + 1
    OBVIOUS
  <2> QED  BY <2>1, RunEnds
<1>. HIDE DEF s
<1>2. s # i
  BY <1>1
<1>3. /\ e \in s .. n + 1
      /\ \A k \in s .. e - 1 : rs[k].left.kind = "added"
      /\ e <= n => rs[e].left.kind # "added"
  <2>1. s \in 1 .. n + 1
    BY <1>1
  <2> QED  BY <2>1, RunEnds
<1>. HIDE DEF e, n
<1>4. s \in i + 1 .. n + 1 /\ e \in i + 1 .. n + 1 /\ n \in Nat
  BY <1>1, <1>2, <1>3 DEF n
<1>5. Change(rs, i, s, e)
  BY <1>1, <1>3, <1>4, Zenon DEF Change, n
<1> QED  BY <1>1, <1>3, <1>4, <1>5, Zenon DEF s, e, n

\* The rows from a row on satisfy their recursive equation.
LEMMA RowsUnfold ==
    ASSUME NEW rs, Len(rs) \in Nat, NEW i \in 1 .. Len(rs) + 1
    PROVE  PairedFrom(rs)[i] = RowsOf(rs, PairedFrom(rs), i)
<1>. DEFINE n == Len(rs)
<1>1. Descends("rows", rs, <<>>)
  <2>. SUFFICES ASSUME NEW f, NEW g, NEW k \in 1 .. n + 1, Agree("rows", rs, <<>>, n + 1 - k, f, g)
                PROVE  RowsOf(rs, f, k) = RowsOf(rs, g, k)
    BY ZenonT(60) DEF Descends, Args, Body, Depth
  <2>1. ASSUME NEW h \in k + 1 .. n + 1 PROVE f[h] = g[h]
    <3>1. \A q \in 1 .. n + 1 : n + 1 - q < n + 1 - k => f[q] = g[q]
      BY Zenon DEF Agree, Args, Depth
    <3>2. h \in 1 .. n + 1 /\ n + 1 - h < n + 1 - k
      OBVIOUS
    <3> QED  BY <3>1, <3>2
  <2>2. CASE k = n + 1
    BY <2>2, Zenon DEF RowsOf
  <2>3. CASE k # n + 1 /\ rs[k].left.kind # "removed"
    <3>1. k + 1 \in k + 1 .. n + 1
      BY <2>3
    <3>2. f[k+1] = g[k+1]
      BY <2>1, <3>1
    <3> QED  BY <2>3, <3>2, Zenon DEF RowsOf
  <2>4. CASE k # n + 1 /\ rs[k].left.kind = "removed"
    <3>. DEFINE s == RunEnd(rs, k, "removed")
                e == RunEnd(rs, s, "added")
    <3>1. e \in k + 1 .. n + 1
      <4>1. k \in 1 .. n
        BY <2>4
      <4> QED  BY <2>4, <4>1, ChangeBegins
    <3>2. f[e] = g[e]
      BY <2>1, <3>1
    <3> QED  BY <2>4, <3>2, Zenon DEF RowsOf
  <2> QED  BY <2>2, <2>3, <2>4
<1>2. Bounded("rows", rs, <<>>)
  <2>1. n + 1 \in Nat
    OBVIOUS
  <2>2. ASSUME NEW k \in 1 .. n + 1 PROVE n + 1 - k \in 0 .. n + 1
    OBVIOUS
  <2> QED  BY <2>1, <2>2, Zenon DEF Bounded, Args, Depth
<1>3. \E f : f = [k \in 1 .. n + 1 |-> RowsOf(rs, f, k)]
  <2>1. \E f : f = [k \in Args("rows", rs, <<>>) |-> Body("rows", rs, <<>>, f, k)]
    BY <1>1, <1>2, RecursionDefines
  <2> QED  BY <2>1, Zenon DEF Args, Body
<1>4. PairedFrom(rs) = CHOOSE f : f = [k \in 1 .. n + 1 |-> RowsOf(rs, f, k)]
  BY Zenon DEF PairedFrom, RowsOf
<1>5. PairedFrom(rs) = [k \in 1 .. n + 1 |-> RowsOf(rs, PairedFrom(rs), k)]
  BY <1>3, <1>4, Zenon
<1> QED  BY <1>5, Zenon

\* What the loop makes of the rows from the i-th on.
RestIs(a, b, fa, fb, rs, x, y, i) ==
    LET v == PairedFrom(rs)[i]
    IN  /\ Between(a, b, fa, fb, v, x[i-1], y[i-1], Len(a), Len(b))
        /\ SidesApart(v)
        /\ i = Len(rs) + 1 => Len(v) = 0
        /\ i # Len(rs) + 1 /\ rs[i].left.kind # "removed" => v[1] = rs[i]

\* No rows go from the last corner to itself.
LEMMA NothingLeft ==
    ASSUME NEW a, NEW b, NEW fa, NEW fb, AreTexts(a, b)
    PROVE  /\ Between(a, b, fa, fb, <<>>, Len(a), Len(b), Len(a), Len(b))
           /\ SidesApart(<<>>) /\ Len(<<>>) = 0
<1>. DEFINE X == [k \in {0} |-> Len(a)]
            Y == [k \in {0} |-> Len(b)]
<1>1. IsList(<<>>) /\ Len(<<>>) = 0
  <2>1. <<>> \in Seq({}) /\ Len(<<>>) = 0
    OBVIOUS
  <2> QED  BY <2>1, Zenon DEF IsList
<1>2. 0 .. 0 = {0} /\ 1 .. 0 = {}
  OBVIOUS
<1>3. X \in [0 .. 0 -> 0 .. Len(a)] /\ Y \in [0 .. 0 -> 0 .. Len(b)] /\ X[0] = Len(a) /\ Y[0] = Len(b)
  BY <1>2 DEF AreTexts
<1>. HIDE DEF X, Y
<1>4. Along(a, b, fa, fb, <<>>, X, Y)
  <2>1. \A k \in 1 .. 0 : RowStep(a, b, fa, fb, <<>>[k], X[k-1], Y[k-1], X[k], Y[k])
    BY <1>2, Zenon
  <2> QED  BY <1>1, <1>3, <2>1, Zenon DEF Along
<1>5. SidesApart(<<>>)
  <2>1. 1 .. 0 - 1 = {}
    OBVIOUS
  <2> QED  BY <1>1, <2>1, Zenon DEF SidesApart
<1> QED  BY <1>1, <1>3, <1>4, <1>5, Zenon DEF Between, Ends

\* One row goes from its first corner to its second.
LEMMA OneRow ==
    ASSUME NEW a, NEW b, NEW fa, NEW fb, NEW r, NEW x \in 0 .. Len(a), NEW y \in 0 .. Len(b),
           NEW x1 \in 0 .. Len(a), NEW y1 \in 0 .. Len(b), RowStep(a, b, fa, fb, r, x, y, x1, y1)
    PROVE  /\ Between(a, b, fa, fb, <<r>>, x, y, x1, y1)
           /\ SidesApart(<<r>>) /\ Len(<<r>>) = 1 /\ <<r>>[1] = r
<1>. DEFINE X == [k \in 0 .. 1 |-> IF k = 0 THEN x ELSE x1]
            Y == [k \in 0 .. 1 |-> IF k = 0 THEN y ELSE y1]
<1>1. IsList(<<r>>) /\ Len(<<r>>) = 1 /\ <<r>>[1] = r
  <2>1. <<r>> \in Seq({r}) /\ Len(<<r>>) = 1 /\ <<r>>[1] = r
    OBVIOUS
  <2> QED  BY <2>1, Zenon DEF IsList
<1>2. X \in [0 .. 1 -> 0 .. Len(a)] /\ Y \in [0 .. 1 -> 0 .. Len(b)]
  OBVIOUS
<1>3. X[0] = x /\ X[1] = x1 /\ Y[0] = y /\ Y[1] = y1
  OBVIOUS
<1>. HIDE DEF X, Y
<1>4. ASSUME NEW k \in 1 .. 1 PROVE RowStep(a, b, fa, fb, <<r>>[k], X[k-1], Y[k-1], X[k], Y[k])
  <2>1. k = 1 /\ k - 1 = 0
    OBVIOUS
  <2> QED  BY <1>1, <1>3, <2>1, Zenon
<1>5. Along(a, b, fa, fb, <<r>>, X, Y)
  BY <1>1, <1>2, <1>4, Zenon DEF Along
<1>6. SidesApart(<<r>>)
  <2>1. 1 .. 1 - 1 = {}
    OBVIOUS
  <2> QED  BY <1>1, <2>1, Zenon DEF SidesApart
<1> QED  BY <1>1, <1>3, <1>5, <1>6, Zenon DEF Between, Ends

\* What is said of the rest from one row on follows from what is said of the
\* rests from the later ones on.
LEMMA RestStep ==
    ASSUME NEW a \in Seq(Seq(Token)), NEW b \in Seq(Seq(Token)), NEW fa, NEW fb, NEW rs, NEW x, NEW y,
           FromWalk(a, b, fa, fb, rs, x, y), NEW i \in 1 .. Len(rs) + 1,
           \A j \in i + 1 .. Len(rs) + 1 : RestIs(a, b, fa, fb, rs, x, y, j)
    PROVE  RestIs(a, b, fa, fb, rs, x, y, i)
<1>. DEFINE n == Len(rs)
            from == PairedFrom(rs)
<1>0. AreTexts(a, b) /\ n \in Nat
  BY ListsJoin DEF FromWalk, AreTexts
<1>1. from[i] = RowsOf(rs, from, i)
  BY <1>0, RowsUnfold
<1>2. /\ Along(a, b, fa, fb, rs, x, y)
      /\ x[n] = Len(a) /\ y[n] = Len(b)
      /\ \A k \in 1 .. n : rs[k].left.kind = rs[k].right.kind
      /\ \A k \in 1 .. n - 1 : rs[k].left.kind = "added" => rs[k+1].left.kind # "removed"
  BY Zenon DEF FromWalk, Ends
<1>3. x \in [0 .. n -> 0 .. Len(a)] /\ y \in [0 .. n -> 0 .. Len(b)]
  BY <1>2, Zenon DEF Along
<1>4. ASSUME NEW k \in 1 .. n
      PROVE  /\ RowStep(a, b, fa, fb, rs[k], x[k-1], y[k-1], x[k], y[k])
             /\ x[k-1] \in 0 .. Len(a) /\ y[k-1] \in 0 .. Len(b)
             /\ x[k] \in 0 .. Len(a) /\ y[k] \in 0 .. Len(b)
             /\ Unchanged(rs[k]) \/ OnlyLeft(rs[k]) \/ OnlyRight(rs[k])
  <2>1. RowStep(a, b, fa, fb, rs[k], x[k-1], y[k-1], x[k], y[k])
    BY <1>2, Zenon DEF Along
  <2>2. k - 1 \in 0 .. n /\ k \in 0 .. n
    BY <1>0
  <2>3. /\ x[k-1] \in 0 .. Len(a) /\ y[k-1] \in 0 .. Len(b)
        /\ x[k] \in 0 .. Len(a) /\ y[k] \in 0 .. Len(b)
    BY <1>3, <2>2
  <2>4. Unchanged(rs[k]) \/ OnlyLeft(rs[k]) \/ OnlyRight(rs[k])
    <3>1. Unchanged(rs[k]) \/ OnlyLeft(rs[k]) \/ OnlyRight(rs[k]) \/ Paired(rs[k])
      BY <2>1, Zenon DEF RowStep
    <3>2. rs[k].left.kind = rs[k].right.kind
      BY <1>2
    <3> QED  BY <3>1, <3>2 DEF Paired
  <2> QED  BY <2>1, <2>3, <2>4
<1>5. ASSUME NEW k \in 1 .. n, NEW v, Len(v) # 0 => k # n /\ v[1] = rs[k+1], ~OnlyLeft(rs[k])
      PROVE  Len(v) # 0 => Under(rs[k], v[1])
  <2>. SUFFICES ASSUME Len(v) # 0 PROVE Under(rs[k], v[1])
    OBVIOUS
  <2>1. k \in 1 .. n - 1 /\ k + 1 \in 1 .. n /\ v[1] = rs[k+1]
    BY <1>0, <1>5
  <2>2. OnlyRight(rs[k]) => rs[k+1].left.kind # "removed"
    BY <1>2, <2>1 DEF OnlyRight
  <2>3. Unchanged(rs[k+1]) \/ OnlyLeft(rs[k+1]) \/ OnlyRight(rs[k+1])
    BY <1>4, <2>1
  <2> QED  BY <1>5, <2>1, <2>2, <2>3, Zenon DEF Under, OnlyLeft, OnlyRight, Unchanged
<1>. HIDE DEF from
<1>6. CASE i = n + 1
  <2>1. from[i] = <<>>
    BY <1>1, <1>6, Zenon DEF RowsOf
  <2>2. i - 1 = n
    BY <1>0, <1>6
  <2>3. Between(a, b, fa, fb, <<>>, Len(a), Len(b), Len(a), Len(b)) /\ SidesApart(<<>>) /\ Len(<<>>) = 0
    BY <1>0, NothingLeft
  <2> QED  BY <1>2, <1>6, <2>1, <2>2, <2>3, Zenon DEF RestIs, from
<1>7. CASE i # n + 1 /\ rs[i].left.kind # "removed"
  <2>. DEFINE u == <<rs[i]>>
              v == from[i+1]
  <2>1. i \in 1 .. n /\ i + 1 \in i + 1 .. n + 1 /\ (i + 1) - 1 = i
    BY <1>0, <1>7
  <2>2. from[i] = u \o v
    BY <1>1, <1>7, Zenon DEF RowsOf
  <2>3. RestIs(a, b, fa, fb, rs, x, y, i + 1)
    BY <2>1
  <2>4. /\ Between(a, b, fa, fb, v, x[i], y[i], Len(a), Len(b))
        /\ SidesApart(v)
        /\ i + 1 = n + 1 => Len(v) = 0
        /\ i + 1 # n + 1 /\ rs[i+1].left.kind # "removed" => v[1] = rs[i+1]
    BY <2>1, <2>3, Zenon DEF RestIs, from
  <2>5. /\ Between(a, b, fa, fb, u, x[i-1], y[i-1], x[i], y[i])
        /\ SidesApart(u) /\ Len(u) = 1 /\ u[1] = rs[i]
    BY <1>4, <2>1, OneRow
  <2>. HIDE DEF u, v
  <2>6. Between(a, b, fa, fb, u \o v, x[i-1], y[i-1], Len(a), Len(b))
    BY <2>4, <2>5, RowsJoin
  <2>7. Len(v) # 0 => Under(rs[i], v[1])
    <3>. SUFFICES ASSUME Len(v) # 0 PROVE Under(rs[i], v[1])
      OBVIOUS
    <3>1. i + 1 # n + 1 /\ i # n /\ i \in 1 .. n - 1 /\ i + 1 \in 1 .. n
      BY <1>0, <2>1, <2>4
    <3>2. ~OnlyLeft(rs[i])
      BY <1>7 DEF OnlyLeft
    <3>3. CASE rs[i+1].left.kind # "removed"
      BY <1>5, <2>1, <2>4, <3>1, <3>2, <3>3, Zenon
    <3>4. CASE rs[i+1].left.kind = "removed"
      <4>1. ~OnlyRight(rs[i])
        BY <1>2, <3>1, <3>4, Zenon DEF OnlyRight
      <4> QED  BY <3>2, <4>1, Zenon DEF Under
    <3> QED  BY <3>3, <3>4
  <2>8. IsList(u) /\ IsList(v)
    BY <2>4, <2>5, Zenon DEF Between
  <2>9. SidesApart(u \o v)
    <3>1. Len(u) # 0 /\ Len(v) # 0 => Under(u[Len(u)], v[1])
      BY <2>5, <2>7
    <3> QED  BY <2>4, <2>5, <2>8, <3>1, SidesJoin
  <2>10. (u \o v)[1] = rs[i]
    <3>1. 1 \in 1 .. Len(u)
      BY <2>5
    <3> QED  BY <2>5, <2>8, <3>1, ListsJoin
  <2> QED  BY <1>7, <2>2, <2>6, <2>9, <2>10, Zenon DEF RestIs, from
<1>8. CASE i # n + 1 /\ rs[i].left.kind = "removed"
  <2>. DEFINE s == RunEnd(rs, i, "removed")
              e == RunEnd(rs, s, "added")
              u == Block(rs, i, s, e)
              v == from[e]
  <2>1. i \in 1 .. n
    BY <1>0, <1>8
  <2>2. from[i] = u \o v
    BY <1>1, <1>8, Zenon DEF RowsOf
  <2>3. /\ Change(rs, i, s, e)
        /\ s <= n => rs[s].left.kind # "removed"
        /\ e <= n => rs[e].left.kind # "added"
        /\ e \in i + 1 .. n + 1
    BY <1>0, <1>8, <2>1, ChangeBegins
  <2>. HIDE DEF s, e
  <2>4. RestIs(a, b, fa, fb, rs, x, y, e)
    BY <2>3
  <2>5. /\ Between(a, b, fa, fb, v, x[e-1], y[e-1], Len(a), Len(b))
        /\ SidesApart(v)
        /\ e = n + 1 => Len(v) = 0
        /\ e # n + 1 /\ rs[e].left.kind # "removed" => v[1] = rs[e]
    BY <2>4, Zenon DEF RestIs, from
  <2>6. /\ Between(a, b, fa, fb, u, x[i-1], y[i-1], x[e-1], y[e-1])
        /\ SidesApart(u) /\ Len(u) \in Nat \ {0}
    BY <2>3, BlockBetween
  <2>. HIDE DEF u, v
  <2>7. Between(a, b, fa, fb, u \o v, x[i-1], y[i-1], Len(a), Len(b))
    BY <2>5, <2>6, RowsJoin
  <2>8. ASSUME Len(v) # 0, NEW r PROVE Under(r, v[1])
    <3>1. e # n + 1 /\ e \in 1 .. n /\ e <= n
      BY <1>0, <2>3, <2>5, <2>8
    <3>2. rs[e].left.kind # "removed"
      <4>1. CASE e = s
        BY <2>3, <3>1, <4>1
      <4>2. CASE e # s
        <5>1. s \in i + 1 .. n + 1 /\ e \in s .. n + 1
          BY <2>3, Zenon DEF Change
        <5>2. e - 1 \in s .. e - 1 /\ e - 1 \in 1 .. n - 1 /\ (e - 1) + 1 = e
          BY <1>0, <2>1, <3>1, <4>2, <5>1
        <5>3. rs[e-1].left.kind = "added"
          BY <2>3, <5>2, Zenon DEF Change
        <5> QED  BY <1>2, <5>2, <5>3
      <4> QED  BY <4>1, <4>2
    <3>3. Unchanged(rs[e])
      BY <1>4, <2>3, <3>1, <3>2 DEF OnlyLeft, OnlyRight
    <3> QED  BY <2>5, <3>1, <3>2, <3>3, Zenon DEF Under
  <2>9. IsList(u) /\ IsList(v)
    BY <2>5, <2>6, Zenon DEF Between
  <2>10. SidesApart(u \o v)
    BY <2>5, <2>6, <2>8, <2>9, SidesJoin
  <2> QED  BY <1>8, <2>2, <2>7, <2>10, Zenon DEF RestIs, from
<1> QED  BY <1>6, <1>7, <1>8

\* What the pairing keeps: the rows lie between the same corners, and no two
\* rows with one side only, of different sides, follow one another.
Comparison(a, b, fa, fb, rs) ==
    Between(a, b, fa, fb, rs, 0, 0, Len(a), Len(b)) /\ SidesApart(rs)

\* By induction from the last row up, the paired rows are a comparison: they go
\* from the first corner to the last and keep the sides apart.
LEMMA PairedRows ==
    ASSUME NEW a \in Seq(Seq(Token)), NEW b \in Seq(Seq(Token)), NEW fa, NEW fb, NEW rs, NEW x, NEW y,
           FromWalk(a, b, fa, fb, rs, x, y)
    PROVE  Comparison(a, b, fa, fb, PairAndHighlight(rs))
<1>. DEFINE n == Len(rs)
            T == {h \in Nat : \A i \in 1 .. n + 1 : n + 1 - i <= h => RestIs(a, b, fa, fb, rs, x, y, i)}
<1>1. n \in Nat
  BY ListsJoin DEF FromWalk
<1>. HIDE DEF n
<1>2. ASSUME NEW h \in Nat, \A i \in 1 .. n + 1 : n + 1 - i < h => RestIs(a, b, fa, fb, rs, x, y, i)
      PROVE  h \in T
  <2>. SUFFICES ASSUME NEW i \in 1 .. n + 1, n + 1 - i <= h PROVE RestIs(a, b, fa, fb, rs, x, y, i)
    OBVIOUS
  <2>1. ASSUME NEW j \in i + 1 .. n + 1 PROVE RestIs(a, b, fa, fb, rs, x, y, j)
    <3>1. j \in 1 .. n + 1 /\ n + 1 - j < h
      BY <1>1
    <3> QED  BY <1>2, <3>1
  <2> QED  BY <2>1, RestStep DEF n
<1>3. 0 \in T
  <2>1. ASSUME NEW i \in 1 .. n + 1, n + 1 - i < 0 PROVE FALSE
    BY <1>1, <2>1
  <2>. HIDE DEF T
  <2> QED  BY <1>2, <2>1
<1>4. ASSUME NEW h \in T PROVE h + 1 \in T
  <2>1. h \in Nat /\ h + 1 \in Nat
    OBVIOUS
  <2>2. ASSUME NEW i \in 1 .. n + 1, n + 1 - i < h + 1 PROVE RestIs(a, b, fa, fb, rs, x, y, i)
    <3>1. n + 1 - i <= h
      BY <1>1, <2>1, <2>2
    <3> QED  BY <3>1
  <2>. HIDE DEF T
  <2> QED  BY <1>2, <2>1, <2>2
<1>5. n \in T
  <2>1. T \in SUBSET Nat
    OBVIOUS
  <2>. HIDE DEF T
  <2> QED  BY <1>1, <1>3, <1>4, <2>1, Induction
<1>6. RestIs(a, b, fa, fb, rs, x, y, 1)
  <2>1. 1 \in 1 .. n + 1 /\ n + 1 - 1 <= n
    BY <1>1
  <2> QED  BY <1>5, <2>1
<1>7. 1 - 1 = 0 /\ x[0] = 0 /\ y[0] = 0
  BY DEF FromWalk, Ends
<1> QED  BY <1>6, <1>7, Zenon DEF RestIs, PairAndHighlight, Comparison
-----------------------------------------------------------------------------
(* What follows for the rows on the page when they are a comparison.       *)

\* The corners and the counts of the rows.
RowsCounted(a, b, fa, fb, x, y, n) ==
    /\ n = Len(rows) /\ n \in Nat /\ DOMAIN rows = 1 .. n /\ IsList(rows)
    /\ Along(a, b, fa, fb, rows, x, y) /\ x[n] = Len(a) /\ y[n] = Len(b) /\ x[0] = 0 /\ y[0] = 0
    /\ \A k \in 1 .. n :
         /\ RowStep(a, b, fa, fb, rows[k], x[k-1], y[k-1], x[k], y[k])
         /\ x[k-1] \in 0 .. Len(a) /\ y[k-1] \in 0 .. Len(b)
         /\ x[k] \in 0 .. Len(a) /\ y[k] \in 0 .. Len(b)
    /\ Counts(x, {k \in DOMAIN rows : rows[k].left.kind # "added"}, n)
    /\ Counts(y, {k \in DOMAIN rows : rows[k].right.kind # "removed"}, n)

\* The corners of a comparison count the rows each panel draws.
LEMMA ComparisonCounts ==
    ASSUME NEW a, NEW b, NEW fa, NEW fb, AreTexts(a, b), Comparison(a, b, fa, fb, rows)
    PROVE  \E x, y : RowsCounted(a, b, fa, fb, x, y, Len(rows))
<1>. DEFINE n == Len(rows)
<1>1. PICK x, y : Along(a, b, fa, fb, rows, x, y) /\ Ends(rows, x, y, 0, 0, Len(a), Len(b))
  BY Zenon DEF Comparison, Between
<1>2. IsList(rows) /\ n \in Nat /\ DOMAIN rows = 1 .. n
  <2>1. IsList(rows)
    BY Zenon DEF Comparison, Between
  <2>2. PICK V : rows \in Seq(V)
    BY <2>1, Zenon DEF IsList
  <2> QED  BY <2>1, <2>2
<1>3. /\ x \in [0 .. n -> 0 .. Len(a)] /\ y \in [0 .. n -> 0 .. Len(b)]
      /\ x[0] = 0 /\ y[0] = 0 /\ x[n] = Len(a) /\ y[n] = Len(b)
  BY <1>1, Zenon DEF Along, Ends
<1>4. ASSUME NEW k \in 1 .. n
      PROVE  /\ RowStep(a, b, fa, fb, rows[k], x[k-1], y[k-1], x[k], y[k])
             /\ x[k-1] \in 0 .. Len(a) /\ y[k-1] \in 0 .. Len(b)
             /\ x[k] \in 0 .. Len(a) /\ y[k] \in 0 .. Len(b)
  <2>1. k - 1 \in 0 .. n /\ k \in 0 .. n
    BY <1>2
  <2>2. RowStep(a, b, fa, fb, rows[k], x[k-1], y[k-1], x[k], y[k])
    BY <1>1, Zenon DEF Along
  <2> QED  BY <1>3, <2>1, <2>2
<1>5. ASSUME NEW k \in 1 .. n
      PROVE  /\ x[k] = IF rows[k].left.kind # "added" THEN x[k-1] + 1 ELSE x[k-1]
             /\ y[k] = IF rows[k].right.kind # "removed" THEN y[k-1] + 1 ELSE y[k-1]
  <2>1. Move(a, b, rows[k].left.kind, rows[k].right.kind, x[k-1], y[k-1], x[k], y[k])
    BY <1>4, Zenon DEF RowStep
  <2> QED  BY <2>1, Zenon DEF Move
<1>. HIDE DEF n
<1>6. x \in [0 .. n -> Nat] /\ y \in [0 .. n -> Nat]
  BY <1>3 DEF AreTexts
<1>7. Counts(x, {k \in DOMAIN rows : rows[k].left.kind # "added"}, n)
  BY <1>2, <1>3, <1>5, <1>6 DEF Counts
<1>8. Counts(y, {k \in DOMAIN rows : rows[k].right.kind # "removed"}, n)
  BY <1>2, <1>3, <1>5, <1>6 DEF Counts
<1> QED  BY <1>1, <1>2, <1>3, <1>4, <1>7, <1>8, Zenon DEF RowsCounted, n

\* Where the items of a selection are in it, by such a count.
LEMMA KeptWhere ==
    ASSUME NEW list, IsList(list), NEW S \in SUBSET DOMAIN list, NEW c, NEW m,
           Counts(c, S, Len(list)), m = c[Len(list)]
    PROVE  KeptFrom(list, S, c, m)
<1>1. PICK W : list \in Seq(W)
  BY Zenon DEF IsList
<1>2. KeptFrom(list, S, c, c[Len(list)])
  BY <1>1, CountedKept
<1> QED  BY <1>2, Zenon

\* The left panel of a comparison draws the first text.
LEMMA DrawnLeft ==
    ASSUME NEW a, NEW b, NEW fa, NEW fb, NEW V, a \in Seq(V), AreTexts(a, b), Comparison(a, b, fa, fb, rows)
    PROVE  fa => Drawn(RenderLeftLines) = a
<1>. DEFINE n == Len(rows)
            S == {k \in DOMAIN rows : rows[k].left.kind # "added"}
            col == [k \in DOMAIN rows |-> rows[k].left]
            drawn == Kept(col, S)
<1>1. PICK x, y : RowsCounted(a, b, fa, fb, x, y, n)
  BY ComparisonCounts
<1>. HIDE DEF n
<1>2. n \in Nat /\ DOMAIN rows = 1 .. n /\ Counts(x, S, n) /\ x[n] = Len(a)
  BY <1>1, Zenon DEF RowsCounted
<1>3. IsList(col) /\ Len(col) = n
  <2>1. col \in [1 .. n -> {rows[k].left : k \in 1 .. n}]
    BY <1>2
  <2>. HIDE DEF col
  <2> QED  BY <1>2, <2>1, FunctionIsList
<1>4. S \in SUBSET DOMAIN col
  OBVIOUS
<1>5. \A k \in DOMAIN rows : col[k] = rows[k].left
  OBVIOUS
<1>6. \A k \in S : k \in 1 .. n /\ rows[k].left.kind # "added"
  BY <1>2
<1>. HIDE DEF S, col
<1>7. /\ DOMAIN drawn = 1 .. Len(a)
      /\ \A h \in 1 .. Len(a) : \E k \in S : x[k] = h /\ drawn[h] = col[k]
  <2>1. Counts(x, S, Len(col))
    BY <1>2, <1>3
  <2>2. Len(a) = x[Len(col)]
    BY <1>2, <1>3
  <2>3. KeptFrom(col, S, x, Len(a))
    BY <1>3, <1>4, <2>1, <2>2, KeptWhere
  <2> QED  BY <2>3, Zenon DEF KeptFrom
<1>. HIDE DEF drawn
<1>8. ASSUME NEW h \in 1 .. Len(a) PROVE fa => Words(drawn[h].text) = a[h]
  <2>1. PICK k \in S : x[k] = h /\ drawn[h] = col[k]
    BY <1>7
  <2>2. k \in 1 .. n /\ rows[k].left.kind # "added"
    BY <1>6
  <2>3. RowStep(a, b, fa, fb, rows[k], x[k-1], y[k-1], x[k], y[k])
    BY <1>1, <2>2, Zenon DEF RowsCounted
  <2>4. fa => Words(rows[k].left.text) = a[x[k]]
    BY <2>2, <2>3, Zenon DEF RowStep
  <2> QED  BY <1>2, <1>5, <2>1, <2>2, <2>4, Zenon
<1>9. fa => Drawn(drawn) = [h \in 1 .. Len(a) |-> a[h]]
  BY <1>7, <1>8, Zenon DEF Drawn
<1>10. a = [h \in 1 .. Len(a) |-> a[h]]
  OBVIOUS
<1>11. RenderLeftLines = drawn
  BY Zenon DEF RenderLeftLines, drawn, col, S
<1> QED  BY <1>9, <1>10, <1>11, Zenon

\* The right panel of a comparison draws the second text.
LEMMA DrawnRight ==
    ASSUME NEW a, NEW b, NEW fa, NEW fb, NEW V, b \in Seq(V), AreTexts(a, b), Comparison(a, b, fa, fb, rows)
    PROVE  fb => Drawn(RenderRightLines) = b
<1>. DEFINE n == Len(rows)
            S == {k \in DOMAIN rows : rows[k].right.kind # "removed"}
            col == [k \in DOMAIN rows |-> rows[k].right]
            drawn == Kept(col, S)
<1>1. PICK x, y : RowsCounted(a, b, fa, fb, x, y, n)
  BY ComparisonCounts
<1>. HIDE DEF n
<1>2. n \in Nat /\ DOMAIN rows = 1 .. n /\ Counts(y, S, n) /\ y[n] = Len(b)
  BY <1>1, Zenon DEF RowsCounted
<1>3. IsList(col) /\ Len(col) = n
  <2>1. col \in [1 .. n -> {rows[k].right : k \in 1 .. n}]
    BY <1>2
  <2>. HIDE DEF col
  <2> QED  BY <1>2, <2>1, FunctionIsList
<1>4. S \in SUBSET DOMAIN col
  OBVIOUS
<1>5. \A k \in DOMAIN rows : col[k] = rows[k].right
  OBVIOUS
<1>6. \A k \in S : k \in 1 .. n /\ rows[k].right.kind # "removed"
  BY <1>2
<1>. HIDE DEF S, col
<1>7. /\ DOMAIN drawn = 1 .. Len(b)
      /\ \A h \in 1 .. Len(b) : \E k \in S : y[k] = h /\ drawn[h] = col[k]
  <2>1. Counts(y, S, Len(col))
    BY <1>2, <1>3
  <2>2. Len(b) = y[Len(col)]
    BY <1>2, <1>3
  <2>3. KeptFrom(col, S, y, Len(b))
    BY <1>3, <1>4, <2>1, <2>2, KeptWhere
  <2> QED  BY <2>3, Zenon DEF KeptFrom
<1>. HIDE DEF drawn
<1>8. ASSUME NEW h \in 1 .. Len(b) PROVE fb => Words(drawn[h].text) = b[h]
  <2>1. PICK k \in S : y[k] = h /\ drawn[h] = col[k]
    BY <1>7
  <2>2. k \in 1 .. n /\ rows[k].right.kind # "removed"
    BY <1>6
  <2>3. RowStep(a, b, fa, fb, rows[k], x[k-1], y[k-1], x[k], y[k])
    BY <1>1, <2>2, Zenon DEF RowsCounted
  <2>4. fb => Words(rows[k].right.text) = b[y[k]]
    BY <2>2, <2>3, Zenon DEF RowStep
  <2> QED  BY <1>2, <1>5, <2>1, <2>2, <2>4, Zenon
<1>9. fb => Drawn(drawn) = [h \in 1 .. Len(b) |-> b[h]]
  BY <1>7, <1>8, Zenon DEF Drawn
<1>10. b = [h \in 1 .. Len(b) |-> b[h]]
  OBVIOUS
<1>11. RenderRightLines = drawn
  BY Zenon DEF RenderRightLines, drawn, col, S
<1> QED  BY <1>9, <1>10, <1>11, Zenon

\* As many rows are unchanged as the table says there are matches.
LEMMA UnchangedCounted ==
    ASSUME NEW X, NEW Y, NEW a \in Seq(X), NEW b \in Seq(Y), NEW fa, NEW fb, Comparison(a, b, fa, fb, rows)
    PROVE  Cardinality({k \in DOMAIN rows : ~Changed(k)}) = MostMatches(a, b)
<1>. DEFINE n == Len(rows)
            S == {k \in DOMAIN rows : ~Changed(k)}
            dp(i, j) == LcsTable(a, b)[<<i, j>>]
<1>0. AreTexts(a, b)
  BY DEF AreTexts
<1>1. PICK x, y : RowsCounted(a, b, fa, fb, x, y, n)
  BY <1>0, ComparisonCounts
<1>. DEFINE c == [k \in 0 .. n |-> dp(x[k], y[k])]
<1>2. /\ n \in Nat /\ DOMAIN rows = 1 .. n /\ IsList(rows) /\ x[n] = Len(a) /\ y[n] = Len(b) /\ x[0] = 0 /\ y[0] = 0
      /\ \A k \in 1 .. n :
           /\ RowStep(a, b, fa, fb, rows[k], x[k-1], y[k-1], x[k], y[k])
           /\ x[k-1] \in 0 .. Len(a) /\ y[k-1] \in 0 .. Len(b)
           /\ x[k] \in 0 .. Len(a) /\ y[k] \in 0 .. Len(b)
  BY <1>1, Zenon DEF RowsCounted
<1>3. ASSUME NEW i \in 0 .. Len(a), NEW j \in 0 .. Len(b) PROVE dp(i, j) \in Nat
  <2>1. Even(a, b, i, j)
    BY <1>0, TableEven
  <2> QED  BY <2>1, Zenon DEF Even
<1>4. dp(0, 0) = 0
  <2>1. 0 \in 0 .. Len(a) /\ 0 \in 0 .. Len(b)
    BY <1>0 DEF AreTexts
  <2>2. dp(0, 0) = TableOf(a, b, LcsTable(a, b), 0, 0)
    BY <1>0, <2>1, TableUnfolds
  <2> QED  BY <2>2, Zenon DEF TableOf
<1>. HIDE DEF n, dp
<1>5. c[0] = 0 /\ c[n] = dp(Len(a), Len(b))
  <2>1. 0 \in 0 .. n /\ n \in 0 .. n
    BY <1>2
  <2> QED  BY <1>2, <1>4, <2>1
<1>6. ASSUME NEW k \in 1 .. n
      PROVE  c[k] = IF k \in S THEN c[k-1] + 1 ELSE c[k-1]
  <2>1. k - 1 \in 0 .. n /\ k \in 0 .. n
    BY <1>2
  <2>2. c[k] = dp(x[k], y[k]) /\ c[k-1] = dp(x[k-1], y[k-1])
    BY <2>1
  <2>3. dp(x[k], y[k]) = dp(x[k-1], y[k-1]) + (IF rows[k].left.kind = "same" THEN 1 ELSE 0)
    BY <1>2, Zenon DEF RowStep, Move, dp
  <2>4. k \in S <=> rows[k].left.kind = "same"
    BY <1>2 DEF Changed
  <2>5. dp(x[k-1], y[k-1]) \in Nat
    BY <1>2, <1>3
  <2>. HIDE DEF c, S
  <2> QED  BY <2>2, <2>3, <2>4, <2>5
<1>7. c \in [0 .. n -> Nat]
  <2>1. ASSUME NEW k \in 0 .. n PROVE dp(x[k], y[k]) \in Nat
    <3>1. CASE k = 0
      BY <1>2, <1>4, <3>1
    <3>2. CASE k # 0
      <4>1. k \in 1 .. n
        BY <1>2, <3>2
      <4> QED  BY <1>2, <1>3, <4>1
    <3> QED  BY <3>1, <3>2
  <2> QED  BY <2>1
<1>8. S \in SUBSET DOMAIN rows
  OBVIOUS
<1>. HIDE DEF c, S
<1>9. Counts(c, S, n)
  BY <1>5, <1>6, <1>7, Zenon DEF Counts
<1>10. Cardinality(S) = c[n]
  <2>1. PICK V : rows \in Seq(V)
    BY <1>2, Zenon DEF IsList
  <2> QED  BY <1>8, <1>9, <2>1, CountedKept DEF n
<1>11. MostMatches(a, b) = dp(Len(a), Len(b))
  BY MostMatchesInTable DEF dp
<1> QED  BY <1>5, <1>10, <1>11 DEF S

\* Rows with one side only stay on that side until a line is unchanged.
LEMMA SideStays ==
    ASSUME Len(rows) \in Nat, SidesApart(rows), NEW i \in 1 .. Len(rows), NEW j \in i .. Len(rows),
           \A k \in i .. j : ~Unchanged(rows[k])
    PROVE  /\ OnlyLeft(rows[i]) => OnlyLeft(rows[j])
           /\ OnlyRight(rows[i]) => OnlyRight(rows[j])
<1>. DEFINE n == Len(rows)
            T == {h \in Nat : i + h <= j => /\ OnlyLeft(rows[i]) => OnlyLeft(rows[i+h])
                                            /\ OnlyRight(rows[i]) => OnlyRight(rows[i+h])}
<1>1. 0 \in T
  <2>1. i + 0 = i
    OBVIOUS
  <2> QED  BY <2>1
<1>2. ASSUME NEW h \in T PROVE h + 1 \in T
  <2>. SUFFICES ASSUME i + (h + 1) <= j
                PROVE  /\ OnlyLeft(rows[i]) => OnlyLeft(rows[i + (h + 1)])
                       /\ OnlyRight(rows[i]) => OnlyRight(rows[i + (h + 1)])
    OBVIOUS
  <2>. DEFINE k == i + h
  <2>1. /\ k \in 1 .. n - 1 /\ k + 1 \in i .. j /\ k + 1 = i + (h + 1)
        /\ OnlyLeft(rows[i]) => OnlyLeft(rows[k])
        /\ OnlyRight(rows[i]) => OnlyRight(rows[k])
    OBVIOUS
  <2>. HIDE DEF k, T
  <2>2. Under(rows[k], rows[k+1])
    BY <2>1, Zenon DEF SidesApart, n
  <2>3. ~Unchanged(rows[k+1])
    BY <2>1
  <2> QED  BY <2>1, <2>2, <2>3, Zenon DEF Under
<1>3. j - i \in Nat /\ i + (j - i) = j /\ T \in SUBSET Nat
  OBVIOUS
<1>4. j - i \in T
  <2>. HIDE DEF T
  <2> QED  BY <1>1, <1>2, <1>3, Induction
<1> QED  BY <1>3, <1>4

\* ChangesPaired holds of every comparison, and so does the part of TypeOK
\* that is about the rows.
LEMMA ChangesHold ==
    ASSUME NEW a, NEW b, NEW fa, NEW fb, AreTexts(a, b), Comparison(a, b, fa, fb, rows)
    PROVE  /\ ChangesPaired
           /\ \A k \in DOMAIN rows :
                \/ rows[k].left.kind = rows[k].right.kind
                \/ rows[k].left.kind = "removed" /\ rows[k].right.kind = "added"
<1>. DEFINE n == Len(rows)
            dp(i, j) == LcsTable(a, b)[<<i, j>>]
<1>1. PICK x, y : RowsCounted(a, b, fa, fb, x, y, n)
  BY ComparisonCounts
<1>2. /\ n \in Nat /\ DOMAIN rows = 1 .. n
      /\ \A k \in 1 .. n :
           /\ RowStep(a, b, fa, fb, rows[k], x[k-1], y[k-1], x[k], y[k])
           /\ x[k-1] \in 0 .. Len(a) /\ y[k-1] \in 0 .. Len(b)
           /\ x[k] \in 0 .. Len(a) /\ y[k] \in 0 .. Len(b)
  BY <1>1, Zenon DEF RowsCounted
<1>3. ASSUME NEW k \in DOMAIN rows
      PROVE  Unchanged(rows[k]) \/ OnlyLeft(rows[k]) \/ OnlyRight(rows[k]) \/ Paired(rows[k])
  BY <1>2, Zenon DEF RowStep
<1>4. ASSUME NEW k \in DOMAIN rows
      PROVE  \/ rows[k].left.kind = rows[k].right.kind
             \/ rows[k].left.kind = "removed" /\ rows[k].right.kind = "added"
  BY <1>3 DEF Unchanged, OnlyLeft, OnlyRight, Paired
<1>5. ASSUME NEW k \in DOMAIN rows, rows[k].left.kind # rows[k].right.kind
      PROVE  rows[k].left.plain # rows[k].right.plain
  <2>1. rows[k].left.kind = "removed" /\ rows[k].right.kind = "added"
    BY <1>4, <1>5
  <2>2. k \in 1 .. n
    BY <1>2
  <2>3. RowStep(a, b, fa, fb, rows[k], x[k-1], y[k-1], x[k], y[k])
    BY <1>2, <2>2
  <2>4. rows[k].left.plain = a[x[k]] /\ rows[k].right.plain = b[y[k]]
    BY <2>1, <2>3, Zenon DEF RowStep
  <2>5. Move(a, b, "removed", "added", x[k-1], y[k-1], x[k], y[k])
    BY <2>1, <2>3, Zenon DEF RowStep
  <2>6. /\ x[k-1] \in Nat /\ y[k-1] \in Nat /\ x[k] = x[k-1] + 1 /\ y[k] = y[k-1] + 1
        /\ dp(x[k], y[k]) = dp(x[k-1], y[k-1]) + 0
    BY <1>2, <2>2, <2>5 DEF Move, AreTexts
  <2>7. dp(x[k-1], y[k-1]) \in Nat
    <3>1. x[k-1] \in 0 .. Len(a) /\ y[k-1] \in 0 .. Len(b)
      BY <1>2, <2>2
    <3>2. Even(a, b, x[k-1], y[k-1])
      BY <3>1, TableEven
    <3> QED  BY <3>2, Zenon DEF Even
  <2>8. ASSUME a[x[k]] = b[y[k]] PROVE FALSE
    <3>1. x[k] \in 0 .. Len(a) /\ y[k] \in 0 .. Len(b)
      BY <1>2, <2>2
    <3>2. StepsDown(a, b, LcsTable(a, b), x[k], y[k])
      BY <3>1, TableSteps
    <3>3. Match(a, b, x[k], y[k])
      BY <2>6, <2>8 DEF Match
    <3>4. dp(x[k], y[k]) = dp(x[k] - 1, y[k] - 1) + 1
      BY <3>2, <3>3, Zenon DEF StepsDown
    <3>5. x[k] - 1 = x[k-1] /\ y[k] - 1 = y[k-1]
      BY <2>6
    <3>6. dp(x[k], y[k]) = dp(x[k-1], y[k-1]) + 1
      BY <3>4, <3>5, Zenon
    <3>. HIDE DEF dp
    <3> QED  BY <2>6, <2>7, <3>6
  <2> QED  BY <2>4, <2>8
<1>6. ASSUME NEW i \in DOMAIN rows, NEW j \in DOMAIN rows, Alone(i, "removed"), Alone(j, "added")
      PROVE  \E k \in DOMAIN rows : ~Changed(k) /\ k \in (i .. j) \cup (j .. i)
  <2>. SUFFICES ASSUME \A k \in DOMAIN rows : k \in (i .. j) \cup (j .. i) => Changed(k) PROVE FALSE
    OBVIOUS
  <2>1. i \in 1 .. n /\ j \in 1 .. n /\ OnlyLeft(rows[i]) /\ OnlyRight(rows[j])
    BY <1>2, <1>6 DEF Alone, OnlyLeft, OnlyRight
  <2>2. ASSUME NEW k \in (i .. j) \cup (j .. i) PROVE ~Unchanged(rows[k])
    <3>1. k \in DOMAIN rows
      BY <1>2, <2>1
    <3> QED  BY <3>1 DEF Changed, Unchanged
  <2>3. SidesApart(rows)
    BY DEF Comparison
  <2>. HIDE DEF n
  <2>4. CASE i <= j
    <3>1. j \in i .. n
      BY <1>2, <2>1, <2>4
    <3>2. \A k \in i .. j : ~Unchanged(rows[k])
      BY <2>2
    <3>3. OnlyLeft(rows[j])
      BY <1>2, <2>1, <2>3, <3>1, <3>2, SideStays DEF n
    <3> QED  BY <2>1, <3>3 DEF OnlyLeft, OnlyRight
  <2>5. CASE j <= i
    <3>1. i \in j .. n
      BY <1>2, <2>1, <2>5
    <3>2. \A k \in j .. i : ~Unchanged(rows[k])
      BY <2>2
    <3>3. OnlyRight(rows[i])
      BY <1>2, <2>1, <2>3, <3>1, <3>2, SideStays DEF n
    <3> QED  BY <2>1, <3>3 DEF OnlyLeft, OnlyRight
  <2>6. i <= j \/ j <= i
    BY <1>2, <2>1
  <2> QED  BY <2>4, <2>5, <2>6
<1>7. ChangesPaired
  BY <1>5, <1>6, Zenon DEF ChangesPaired
<1> QED  BY <1>4, <1>7
-----------------------------------------------------------------------------
(* The texts on the page.                                                  *)

\* The greatest of finitely many positions is one of them.
LEMMA MaxOf ==
    ASSUME NEW n \in Nat, NEW S \in SUBSET (1 .. n), S # {}
    PROVE  Max(S) \in S
<1>. DEFINE T == {n - v : v \in S}
<1>1. PICK m \in T : \A t \in T : m <= t
  <2>1. T \in SUBSET Nat
    <3>1. \A v \in S : n - v \in Nat
      OBVIOUS
    <3> QED  BY <3>1, Zenon
  <2>2. T # {}
    <3>1. PICK v : v \in S
      OBVIOUS
    <3>2. n - v \in T
      BY <3>1, Zenon
    <3> QED  BY <3>2
  <2>. HIDE DEF T
  <2> QED  BY <2>1, <2>2, LeastExists
<1>2. PICK v \in S : m = n - v
  OBVIOUS
<1>3. ASSUME NEW u \in S PROVE v >= u
  <2>1. n - u \in T
    BY Zenon
  <2>2. n - v <= n - u
    BY <1>1, <1>2, <2>1, Zenon
  <2>3. n \in Int /\ u \in Int /\ v \in Int
    OBVIOUS
  <2> QED  BY <2>2, <2>3
<1> QED  BY <1>2, <1>3, Zenon DEF Max

\* The least of a set of positions is one of them.
LEMMA MinOf ==
    ASSUME NEW S \in SUBSET Nat, S # {}
    PROVE  Min(S) \in S
<1>1. \E m \in S : \A t \in S : m <= t
  BY LeastExists
<1> QED  BY <1>1, Zenon DEF Min

\* normRaw gives lines, one at least.
LEMMA NormRawType ==
    ASSUME NEW raw \in Seq(Seq(Token))
    PROVE  NormRaw(raw) \in Seq(Seq(Token)) /\ Len(NormRaw(raw)) # 0
<1>. DEFINE written == {k \in DOMAIN raw : raw[k] # <<>>}
            m == Max(written)
<1>1. CASE written = {}
  <2>1. << <<>> >> \in Seq(Seq(Token)) /\ Len(<< <<>> >>) # 0
    OBVIOUS
  <2> QED  BY <1>1, <2>1, Zenon DEF NormRaw
<1>2. CASE written # {}
  <2>1. m \in written
    <3>1. written \in SUBSET (1 .. Len(raw)) /\ Len(raw) \in Nat
      OBVIOUS
    <3>. HIDE DEF written
    <3> QED  BY <1>2, <3>1, MaxOf
  <2>2. m \in 1 .. Len(raw)
    BY <2>1
  <2>. HIDE DEF m
  <2>3. SubSeq(raw, 1, m) \in Seq(Seq(Token)) /\ Len(SubSeq(raw, 1, m)) # 0
    BY <2>2
  <2> QED  BY <1>2, <2>3, Zenon DEF NormRaw, m
<1> QED  BY <1>1, <1>2

\* A line that is painted has its words.
LEMMA WordsOfPainted ==
    ASSUME NEW line \in Seq(Token), NEW mark
    PROVE  Words(Painted(line, mark)) = line
<1>1. Words(Painted(line, mark)) = [k \in DOMAIN line |-> line[k]]
  BY DEF Words, Painted
<1> QED  BY <1>1

\* A text that is shown in its own lines.
LEMMA ShownInItsLines ==
    ASSUME NEW raw \in Seq(Seq(Token)), InItsLines(raw)
    PROVE  Faithful(NormRaw(raw), HlLines(NormRaw(raw)))
<1>. DEFINE lines == NormRaw(raw)
            hl == HlLines(lines)
<1>1. lines \in Seq(Seq(Token))
  BY NormRawType
<1>2. HighlightHTTP(lines) = [k \in DOMAIN lines |-> Painted(lines[k], "text")]
  BY Zenon DEF InItsLines
<1>3. hl = <<>> \/ hl = [k \in DOMAIN lines |-> Painted(lines[k], "text")]
  BY <1>2, Zenon DEF HlLines
<1>. HIDE DEF lines, hl
<1>. SUFFICES ASSUME NEW k \in 1 .. Len(lines) PROVE Words(Shown(lines, hl, k)) = lines[k]
  BY Zenon DEF Faithful, lines, hl
<1>4. k \in DOMAIN lines /\ lines[k] \in Seq(Token)
  BY <1>1
<1>5. Shown(lines, hl, k) = Painted(lines[k], "text")
  <2>1. CASE hl = <<>>
    <3>1. ~(k <= Len(hl))
      BY <1>1, <2>1
    <3> QED  BY <3>1, Zenon DEF Shown
  <2>2. CASE hl = [h \in DOMAIN lines |-> Painted(lines[h], "text")]
    BY <1>4, <2>2, Zenon DEF Shown
  <2> QED  BY <1>3, <2>1, <2>2
<1> QED  BY <1>4, <1>5, WordsOfPainted

\* FlattenSeq of lines is a line.
LEMMA FlattenType ==
    ASSUME NEW lines \in Seq(Seq(Token))
    PROVE  FlattenSeq(lines) \in Seq(Token)
<1>. DEFINE n == Len(lines)
            F == FlattenSeq(lines)
<1>1. CASE n = 0
  <2>1. F = lines /\ lines = <<>>
    BY <1>1 DEF FlattenSeq
  <2> QED  BY <2>1
<1>2. CASE n # 0
  <2>1. n \in Nat /\ n \in 1 .. n /\ \A i \in 1 .. n : lines[i] \in Seq(Token)
    BY <1>2
  <2>. HIDE DEF n
  <2>2. Descends("tokens", lines, <<>>)
    <3>. SUFFICES ASSUME NEW f, NEW g, NEW k \in 1 .. n, Agree("tokens", lines, <<>>, k, f, g)
                  PROVE  TokensOf(lines, f, k) = TokensOf(lines, g, k)
      BY ZenonT(60) DEF Descends, Args, Body, Depth, n
    <3>1. CASE k = 1
      BY <3>1, Zenon DEF TokensOf
    <3>2. CASE k # 1
      <4>1. \A q \in 1 .. n : q < k => f[q] = g[q]
        BY Zenon DEF Agree, Args, Depth, n
      <4>2. k - 1 \in 1 .. n /\ k - 1 < k
        BY <2>1, <3>2
      <4>3. f[k-1] = g[k-1]
        BY <4>1, <4>2
      <4> QED  BY <3>2, <4>3, Zenon DEF TokensOf
    <3> QED  BY <3>1, <3>2
  <2>3. Bounded("tokens", lines, <<>>)
    <3>1. \A k \in 1 .. n : k \in 0 .. n
      BY <2>1
    <3> QED  BY <2>1, <3>1, Zenon DEF Bounded, Args, Depth, n
  <2>4. \E f : f = [k \in 1 .. n |-> TokensOf(lines, f, k)]
    <3>1. \E f : f = [k \in Args("tokens", lines, <<>>) |-> Body("tokens", lines, <<>>, f, k)]
      BY <2>2, <2>3, RecursionDefines
    <3> QED  BY <3>1, Zenon DEF Args, Body, n
  <2>. DEFINE flatten == CHOOSE f : f = [k \in 1 .. n |-> TokensOf(lines, f, k)]
  <2>5. flatten = [k \in 1 .. n |-> TokensOf(lines, flatten, k)]
    BY <2>4, Zenon
  <2>6. F = flatten[n]
    BY <1>2, Zenon DEF FlattenSeq, TokensOf, n
  <2>. HIDE DEF flatten, F
  <2>7. ASSUME NEW k \in 1 .. n
        PROVE  flatten[k] = IF k = 1 THEN lines[k] ELSE flatten[k-1] \o lines[k]
    BY <2>5, Zenon DEF TokensOf
  <2>. DEFINE T == {h \in Nat : h + 1 \in 1 .. n => flatten[h+1] \in Seq(Token)}
  <2>8. 0 \in T
    BY <2>1, <2>7
  <2>9. ASSUME NEW h \in T PROVE h + 1 \in T
    <3>. SUFFICES ASSUME h + 1 + 1 \in 1 .. n PROVE flatten[h+1+1] \in Seq(Token)
      OBVIOUS
    <3>1. h + 1 \in 1 .. n /\ h + 1 + 1 # 1 /\ (h + 1 + 1) - 1 = h + 1 /\ flatten[h+1] \in Seq(Token)
      BY <2>1
    <3>2. flatten[h+1+1] = flatten[h+1] \o lines[h+1+1]
      BY <2>7, <3>1
    <3>3. lines[h+1+1] \in Seq(Token)
      BY <2>1
    <3> QED  BY <3>1, <3>2, <3>3
  <2>10. n - 1 \in T
    <3>1. T \in SUBSET Nat /\ n - 1 \in Nat
      BY <2>1
    <3>. HIDE DEF T
    <3> QED  BY <2>8, <2>9, <3>1, Induction
  <2>11. (n - 1) + 1 = n
    BY <2>1
  <2> QED  BY <2>1, <2>6, <2>10, <2>11 DEF F
<1> QED  BY <1>1, <1>2

\* HighlightHTTP gives a list of lines.
LEMMA HighlightType ==
    ASSUME NEW lines \in Seq(Seq(Token))
    PROVE  Len(HighlightHTTP(lines)) \in Nat
<1>. DEFINE end == HeaderEnd(lines)
            body == SubSeq(lines, end + 1, Len(lines))
            pretty == PrettyPrint /\ \E k \in 1 .. end : lines[k] = Typed
            shown == SubSeq(lines, 1, end) \o (IF pretty THEN Reflowed(body) ELSE body)
            blank == {k \in 2 .. Len(lines) - 1 : lines[k] = <<>>}
<1>1. end \in Nat /\ end <= Len(lines)
  <2>1. CASE blank = {}
    <3>1. end = Len(lines)
      BY <2>1, Zenon DEF HeaderEnd
    <3>. HIDE DEF end
    <3> QED  BY <3>1
  <2>2. CASE blank # {}
    <3>1. end = Min(blank)
      BY <2>2, Zenon DEF HeaderEnd
    <3>2. Min(blank) \in blank
      <4>1. blank \in SUBSET Nat
        OBVIOUS
      <4>. HIDE DEF blank
      <4> QED  BY <2>2, <4>1, MinOf
    <3>. HIDE DEF end
    <3>3. end \in 2 .. Len(lines) - 1
      BY <3>1, <3>2
    <3> QED  BY <3>3
  <2> QED  BY <2>1, <2>2
<1>. HIDE DEF end
<1>2. body \in Seq(Seq(Token)) /\ SubSeq(lines, 1, end) \in Seq(Seq(Token))
  BY <1>1
<1>3. HighlightHTTP(lines) = [k \in DOMAIN shown |-> Painted(shown[k], "text")]
  BY Zenon DEF HighlightHTTP, end
<1>. HIDE DEF body, pretty
<1>4. Reflowed(body) \in Seq(Seq(Token))
  <2>. DEFINE toks == FlattenSeq(body)
  <2>1. toks \in Seq(Token)
    BY <1>2, FlattenType
  <2>2. Reflowed(body) = body \/ Reflowed(body) = [k \in DOMAIN toks |-> <<toks[k]>>]
    BY Zenon DEF Reflowed
  <2>. HIDE DEF toks
  <2>3. [k \in DOMAIN toks |-> <<toks[k]>>] \in Seq(Seq(Token))
    <3>1. [k \in DOMAIN toks |-> <<toks[k]>>] \in [1 .. Len(toks) -> Seq(Token)]
      <4>1. DOMAIN toks = 1 .. Len(toks) /\ \A k \in 1 .. Len(toks) : toks[k] \in Token
        BY <2>1
      <4>2. \A k \in 1 .. Len(toks) : <<toks[k]>> \in Seq(Token)
        BY <4>1
      <4> QED  BY <4>1, <4>2, Zenon
    <3>2. Len(toks) \in Nat
      BY <2>1
    <3> QED  BY <3>1, <3>2, FunctionIsList
  <2> QED  BY <1>2, <2>2, <2>3
<1>5. shown \in Seq(Seq(Token))
  <2>1. (IF pretty THEN Reflowed(body) ELSE body) \in Seq(Seq(Token))
    BY <1>2, <1>4, Zenon
  <2> QED  BY <1>2, <2>1
<1>. HIDE DEF shown
<1>6. Len(shown) \in Nat /\ DOMAIN shown = 1 .. Len(shown)
  BY <1>5
<1>. DEFINE V == {Painted(shown[k], "text") : k \in DOMAIN shown}
<1>7. HighlightHTTP(lines) \in [1 .. Len(shown) -> V]
  <2>1. [k \in DOMAIN shown |-> Painted(shown[k], "text")] \in [DOMAIN shown -> V]
    BY Zenon
  <2> QED  BY <1>3, <1>6, <2>1, Zenon
<1>. HIDE DEF V
<1> QED  BY <1>6, <1>7, FunctionIsList

\* A clamped offset is a number.
LEMMA ClampType ==
    ASSUME NEW y \in Int, NEW n \in Int, NEW h \in Int
    PROVE  Clamp(y, n, h) \in Nat
<1>. DEFINE S == {y, n - h}
            m == Min(S)
            T == {0, m}
<1>1. m \in Int
  <2>1. \E u \in S : \A t \in S : u <= t
    OBVIOUS
  <2>2. m \in S
    BY <2>1, Zenon DEF Min
  <2>. HIDE DEF m
  <2> QED  BY <2>2
<1>. HIDE DEF m
<1>2. \E u \in T : \A t \in T : u >= t
  BY <1>1
<1>3. Max(T) \in T /\ \A t \in T : Max(T) >= t
  BY <1>2, Zenon DEF Max
<1>4. PICK u \in T : u = Max(T) /\ \A t \in T : u >= t
  BY <1>3, Zenon
<1>5. u \in Nat
  BY <1>1, <1>4
<1> QED  BY <1>4, <1>5, Zenon DEF Clamp, T, m, S

\* The rows of two texts compare them.
LEMMA ComputedIsComparison ==
    ASSUME NEW l \in Seq(Seq(Token)), NEW r \in Seq(Seq(Token)), l # EmptyRaw, r # EmptyRaw
    PROVE  Comparison(NormRaw(l), NormRaw(r), Faithful(NormRaw(l), HlLines(NormRaw(l))),
                      Faithful(NormRaw(r), HlLines(NormRaw(r))), ComputeDiff(l, r))
<1>. DEFINE a == NormRaw(l)
            b == NormRaw(r)
            fa == Faithful(a, HlLines(a))
            fb == Faithful(b, HlLines(b))
            rs == LcsAlignedDiff(a, b, HlLines(a), HlLines(b))
<1>1. a \in Seq(Seq(Token)) /\ b \in Seq(Seq(Token))
  BY NormRawType
<1>2. AreTexts(a, b)
  BY <1>1 DEF AreTexts
<1>3. ComputeDiff(l, r) = PairAndHighlight(rs)
  BY Zenon DEF ComputeDiff
<1>4. \E x, y : FromWalk(a, b, fa, fb, rs, x, y)
  BY <1>2, DiffFromWalk, Zenon
<1>5. PICK x, y : FromWalk(a, b, fa, fb, rs, x, y)
  BY <1>4, Zenon
<1>. HIDE DEF a, b, fa, fb, rs
<1>6. Comparison(a, b, fa, fb, PairAndHighlight(rs))
  BY <1>1, <1>5, PairedRows
<1> QED  BY <1>3, <1>6, Zenon DEF a, b, fa, fb
-----------------------------------------------------------------------------
(* The page.  The rows are a function of the two slots, so what the lemmas *)
(* above say of the comparison of two texts holds of the page's rows in    *)
(* every reachable state.                                                  *)

Texts == Raws \cup {EmptyRaw}

\* The second slot is filled only after the first.
SlotsFilledInOrder == left = EmptyRaw => right = EmptyRaw

\* No action leaves rows that compare something else than the two slots.
RowsCompareTheSlots == rows = ComputeDiff(left, right)

ViewInv ==
    /\ focus \in Focus /\ height \in Heights /\ offset \in [Side -> Nat]
    /\ said \in {"nothing", "selected", "ready", "replaced"}
    /\ PanelsScrollTogether

DiffInv ==
    /\ left \in Texts /\ right \in Texts
    /\ SlotsFilledInOrder
    /\ RowsCompareTheSlots
    /\ ViewInv

\* What the assumption says of the texts in the slots.
LEMMA TextsAre == Texts \subseteq Seq(Seq(Token)) /\ Heights \subseteq Int
<1>1. EmptyRaw \in Seq(Seq(Token))
  BY DEF EmptyRaw
<1> QED  BY <1>1, DiffAssumption DEF Texts

\* With both slots filled the two viewports have the same number of lines, so
\* offsets that are equal are still equal when they are clamped.
LEMMA ScrolledAlike ==
    ASSUME NEW l, NEW r, NEW rs, NEW h, NEW y, l # EmptyRaw, r # EmptyRaw, y.left = y.right
    PROVE  LET z == ScrolledTo(y, l, r, rs, h) IN z.left = z.right
<1>1. Content(l, r, rs, h).left = Content(l, r, rs, h).right
  BY DEF Content
<1> QED  BY <1>1 DEF ScrolledTo, Side

\* There is no comparison while a slot is empty.
LEMMA NothingCompared == \A l : ComputeDiff(l, EmptyRaw) = <<>> /\ ComputeDiff(EmptyRaw, l) = <<>>
BY Zenon DEF ComputeDiff

\* The rows of two texts have a length.
LEMMA ComputedLength ==
    ASSUME NEW l \in Texts, NEW r \in Texts
    PROVE  Len(ComputeDiff(l, r)) \in Nat
<1>1. CASE l = EmptyRaw \/ r = EmptyRaw
  <2>1. ComputeDiff(l, r) = <<>>
    BY <1>1, Zenon DEF ComputeDiff
  <2> QED  BY <2>1
<1>2. CASE l # EmptyRaw /\ r # EmptyRaw
  <2>1. l \in Seq(Seq(Token)) /\ r \in Seq(Seq(Token))
    BY TextsAre
  <2>2. IsList(ComputeDiff(l, r))
    BY <1>2, <2>1, ComputedIsComparison, Zenon DEF Comparison, Between
  <2> QED  BY <2>2, ListsJoin
<1> QED  BY <1>1, <1>2

\* A scrolled offset has its type.
LEMMA ScrolledType ==
    ASSUME NEW l \in Texts, NEW r \in Texts, NEW rs, Len(rs) \in Nat, NEW h \in Heights, NEW y \in [Side -> Int]
    PROVE  ScrolledTo(y, l, r, rs, h) \in [Side -> Nat]
<1>1. h \in Int
  BY TextsAre
<1>2. ASSUME NEW s \in Side PROVE Content(l, r, rs, h)[s] \in Int
  <2>1. CASE l = EmptyRaw
    <3>1. Content(l, r, rs, h) = [left |-> h, right |-> 1]
      BY <2>1, Zenon DEF Content
    <3> QED  BY <1>1, <3>1 DEF Side
  <2>2. CASE l # EmptyRaw /\ r = EmptyRaw
    <3>1. Content(l, r, rs, h) = [left |-> Len(HighlightHTTP(NormRaw(l))), right |-> h]
      BY <2>2, Zenon DEF Content
    <3>2. Len(HighlightHTTP(NormRaw(l))) \in Nat
      <4>1. l \in Seq(Seq(Token))
        BY TextsAre
      <4> QED  BY <4>1, NormRawType, HighlightType
    <3> QED  BY <1>1, <3>1, <3>2 DEF Side
  <2>3. CASE l # EmptyRaw /\ r # EmptyRaw
    <3>1. Content(l, r, rs, h) = [left |-> Len(rs) + 1, right |-> Len(rs) + 1]
      BY <2>3, Zenon DEF Content
    <3>2. Len(rs) + 1 \in Int
      OBVIOUS
    <3> QED  BY <3>1, <3>2 DEF Side
  <2> QED  BY <2>1, <2>2, <2>3
<1>3. ASSUME NEW s \in Side PROVE Clamp(y[s], Content(l, r, rs, h)[s], h) \in Nat
  <2>1. y[s] \in Int
    OBVIOUS
  <2> QED  BY <1>1, <1>2, <2>1, ClampType
<1> QED  BY <1>3, Zenon DEF ScrolledTo

\* The top is an offset of both panels.
LEMMA TopType == Top \in [Side -> Nat] /\ Top.left = Top.right
BY DEF Top, Side

\* Half a page is a number of lines.
LEMMA HalfPageType ==
    ASSUME NEW h \in Int
    PROVE  Max({1, h \div 2}) \in Int
<1>. DEFINE T == {1, h \div 2}
<1>1. h \div 2 \in Int
  OBVIOUS
<1>2. \E u \in T : \A t \in T : u >= t
  BY <1>1
<1>3. Max(T) \in T
  BY <1>2, Zenon DEF Max
<1>4. T \in SUBSET Int
  BY <1>1
<1>. HIDE DEF T
<1>5. Max(T) \in Int
  BY <1>3, <1>4
<1> QED  BY <1>5 DEF T

\* Scrolling and clamping keep what the view has.
LEMMA ViewScrolls ==
    ASSUME NEW l \in Texts, NEW r \in Texts, NEW y \in [Side -> Int], NEW h \in Heights,
           l # EmptyRaw /\ r # EmptyRaw => y.left = y.right
    PROVE  LET z == ScrolledTo(y, l, r, ComputeDiff(l, r), h)
           IN  z \in [Side -> Nat] /\ (l # EmptyRaw /\ r # EmptyRaw => z.left = z.right)
<1>1. ScrolledTo(y, l, r, ComputeDiff(l, r), h) \in [Side -> Nat]
  BY ComputedLength, ScrolledType
<1> QED  BY <1>1, ScrolledAlike

\* Every action preserves the invariant.
LEMMA DiffStep == DiffInv /\ [Next]_vars => DiffInv'
<1>. SUFFICES ASSUME DiffInv, [Next]_vars PROVE DiffInv'
  OBVIOUS
<1>1. /\ left \in Texts /\ right \in Texts /\ EmptyRaw \in Texts /\ \A raw \in Raws : raw \in Texts
      /\ (left = EmptyRaw => right = EmptyRaw)
      /\ rows = ComputeDiff(left, right)
      /\ focus \in Focus /\ height \in Heights /\ offset \in [Side -> Nat] /\ offset \in [Side -> Int]
      /\ said \in {"nothing", "selected", "ready", "replaced"}
      /\ (left # EmptyRaw /\ right # EmptyRaw => offset.left = offset.right)
  BY DEF DiffInv, Texts, SlotsFilledInOrder, RowsCompareTheSlots, ViewInv, PanelsScrollTogether, Both
<1>2. ASSUME /\ left' \in Texts /\ right' \in Texts
             /\ (left' = EmptyRaw => right' = EmptyRaw)
             /\ rows' = ComputeDiff(left', right')
             /\ focus' \in Focus /\ height' \in Heights /\ offset' \in [Side -> Nat]
             /\ said' \in {"nothing", "selected", "ready", "replaced"}
             /\ (left' # EmptyRaw /\ right' # EmptyRaw => offset'.left = offset'.right)
      PROVE  DiffInv'
  BY <1>2, Zenon DEF DiffInv, SlotsFilledInOrder, RowsCompareTheSlots, ViewInv, PanelsScrollTogether, Both
<1>3. ASSUME NEW raw \in Raws, SendToDiff(raw) PROVE DiffInv'
  <2>1. CASE /\ left = EmptyRaw /\ left' = raw
             /\ offset' = ScrolledTo(offset, raw, right, rows, height)
             /\ said' = "selected" /\ UNCHANGED <<right, rows, focus, height>>
    <3>1. right = EmptyRaw /\ rows = <<>> /\ ComputeDiff(raw, EmptyRaw) = <<>>
      BY <1>1, <2>1, NothingCompared
    <3>2. offset' \in [Side -> Nat]
      <4>1. ScrolledTo(offset, raw, right, ComputeDiff(raw, right), height) \in [Side -> Nat]
        BY <1>1, <3>1, ViewScrolls
      <4> QED  BY <2>1, <3>1, <4>1
    <3> QED  BY <1>1, <1>2, <2>1, <3>1, <3>2
  <2>2. CASE /\ left # EmptyRaw /\ right = EmptyRaw /\ right' = raw
             /\ rows' = ComputeDiff(left, raw) /\ focus' = "both" /\ offset' = Top /\ said' = "ready"
             /\ UNCHANGED <<left, height>>
    BY <1>1, <1>2, <2>2, TopType DEF Focus
  <2>3. CASE /\ left # EmptyRaw /\ right # EmptyRaw /\ left' = raw /\ right' = EmptyRaw
             /\ rows' = <<>> /\ focus' = "both" /\ offset' = Top /\ said' = "replaced" /\ UNCHANGED height
    BY <1>1, <1>2, <2>3, TopType, NothingCompared DEF Focus
  <2> QED  BY <1>3, <2>1, <2>2, <2>3 DEF SendToDiff
<1>4. CASE CycleFocus
  <2>1. focus' \in Focus /\ said' = "nothing" /\ UNCHANGED <<left, right, rows, height, offset>>
    BY <1>1, <1>4 DEF CycleFocus, Focus, slots, viewport
  <2> QED  BY <1>1, <1>2, <2>1
<1>5. ASSUME NEW delta \in Int, Scroll(delta) PROVE DiffInv'
  <2>. DEFINE y == [s \in Side |-> offset.left + delta]
  <2>1. y \in [Side -> Int] /\ y.left = y.right
    BY <1>1 DEF Side
  <2>2. /\ offset' = ScrolledTo(y, left, right, rows, height)
        /\ said' = "nothing" /\ UNCHANGED <<left, right, focus, rows, height>>
    BY <1>5 DEF Scroll, slots
  <2>. HIDE DEF y
  <2>3. offset' \in [Side -> Nat] /\ (left # EmptyRaw /\ right # EmptyRaw => offset'.left = offset'.right)
    BY <1>1, <2>1, <2>2, ViewScrolls
  <2> QED  BY <1>1, <1>2, <2>2, <2>3
<1>6. CASE Clear
  <2>1. /\ rows' = <<>> /\ focus' = "both" /\ offset' = Top /\ said' = "nothing" /\ height' = height
        /\ right' = EmptyRaw /\ (left' = left \/ left' = right \/ left' = EmptyRaw)
    BY <1>6 DEF Clear
  <2> QED  BY <1>1, <1>2, <2>1, TopType, NothingCompared DEF Focus
<1>7. ASSUME NEW h \in Heights, Resize(h) PROVE DiffInv'
  <2>1. /\ height' = h /\ offset' = ScrolledTo(offset, left, right, rows, h)
        /\ said' = "nothing" /\ UNCHANGED <<left, right, focus, rows>>
    BY <1>7 DEF Resize, slots
  <2>2. offset' \in [Side -> Nat] /\ (left # EmptyRaw /\ right # EmptyRaw => offset'.left = offset'.right)
    BY <1>1, <2>1, ViewScrolls
  <2> QED  BY <1>1, <1>2, <2>1, <2>2
<1>8. CASE UNCHANGED vars
  BY <1>1, <1>2, <1>8 DEF vars, slots, viewport
<1>9. {-1, 1, -HalfPage, HalfPage} \subseteq Int
  <2>1. height \in Int
    BY <1>1, TextsAre
  <2>2. HalfPage \in Int
    BY <2>1, HalfPageType DEF HalfPage
  <2> QED  BY <2>2
<1> QED  BY <1>3, <1>4, <1>5, <1>6, <1>7, <1>8, <1>9 DEF Next

\* The inductive invariant of the page.
LEMMA DiffInvariant == Spec => []DiffInv
<1>1. Init => DiffInv
  <2>. SUFFICES ASSUME Init PROVE DiffInv
    OBVIOUS
  <2>1. rows = ComputeDiff(left, right)
    BY NothingCompared DEF Init
  <2> QED  BY <2>1 DEF Init, DiffInv, Texts, SlotsFilledInOrder, RowsCompareTheSlots, ViewInv, PanelsScrollTogether, Both, Focus, Side
<1> QED  BY <1>1, DiffStep, PTL DEF Spec

\* While both slots are filled, the rows compare their texts.
LEMMA RowsAreComparison ==
    ASSUME DiffInv, Both
    PROVE  /\ Comparison(NormRaw(left), NormRaw(right), Faithful(NormRaw(left), HlLines(NormRaw(left))),
                         Faithful(NormRaw(right), HlLines(NormRaw(right))), rows)
           /\ NormRaw(left) \in Seq(Seq(Token)) /\ NormRaw(right) \in Seq(Seq(Token))
           /\ AreTexts(NormRaw(left), NormRaw(right))
<1>1. left \in Seq(Seq(Token)) /\ right \in Seq(Seq(Token)) /\ left # EmptyRaw /\ right # EmptyRaw
  BY TextsAre DEF DiffInv, Both
<1>2. rows = ComputeDiff(left, right)
  BY DEF DiffInv, RowsCompareTheSlots
<1>3. NormRaw(left) \in Seq(Seq(Token)) /\ NormRaw(right) \in Seq(Seq(Token))
  BY <1>1, NormRawType
<1>4. AreTexts(NormRaw(left), NormRaw(right))
  BY <1>3 DEF AreTexts
<1> QED  BY <1>1, <1>2, <1>3, <1>4, ComputedIsComparison, Zenon

\* There are no rows while a slot is empty.
LEMMA NoRows ==
    ASSUME DiffInv, ~Both
    PROVE  rows = <<>>
BY NothingCompared DEF DiffInv, Both, RowsCompareTheSlots

\* Every variable keeps its type, and a row has the same kind on both sides
\* unless it puts a removed line beside an added one, for any texts.
THEOREM TypeCorrect == Spec => []TypeOK
<1>1. ASSUME DiffInv PROVE TypeOK
  <2>1. \A k \in DOMAIN rows :
          \/ rows[k].left.kind = rows[k].right.kind
          \/ rows[k].left.kind = "removed" /\ rows[k].right.kind = "added"
    <3>1. CASE Both
      BY <1>1, <3>1, RowsAreComparison, ChangesHold
    <3>2. CASE ~Both
      <4>1. rows = <<>>
        BY <1>1, <3>2, NoRows
      <4> QED  BY <4>1
    <3> QED  BY <3>1, <3>2
  <2> QED  BY <1>1, <2>1 DEF DiffInv, Texts, ViewInv, TypeOK
<1> QED  BY <1>1, DiffInvariant, PTL

\* Each panel draws the lines of its own text, every one once and in order,
\* through the alignment, the pairing and the word by word rendering, and
\* nothing of a comparison whose slots have changed.
THEOREM PanelsCorrect == Spec => []PanelsShowTheirSlots
<1>1. ASSUME DiffInv PROVE PanelsShowTheirSlots
  <2>1. CASE Both
    <3>. DEFINE a == NormRaw(left)
                b == NormRaw(right)
                fa == Faithful(a, HlLines(a))
                fb == Faithful(b, HlLines(b))
    <3>1. Comparison(a, b, fa, fb, rows) /\ a \in Seq(Seq(Token)) /\ b \in Seq(Seq(Token)) /\ AreTexts(a, b)
      BY <1>1, <2>1, RowsAreComparison
    <3>2. (InItsLines(left) => fa) /\ (InItsLines(right) => fb)
      <4>1. left \in Seq(Seq(Token)) /\ right \in Seq(Seq(Token))
        BY <1>1, TextsAre DEF DiffInv
      <4> QED  BY <4>1, ShownInItsLines, Zenon
    <3>. HIDE DEF a, b, fa, fb
    <3>3. fa => Drawn(RenderLeftLines) = a
      BY <3>1, DrawnLeft
    <3>4. fb => Drawn(RenderRightLines) = b
      BY <3>1, DrawnRight
    <3> QED  BY <2>1, <3>2, <3>3, <3>4, Zenon DEF PanelsShowTheirSlots, a, b
  <2>2. CASE ~Both
    BY <1>1, <2>2, NoRows, Zenon DEF PanelsShowTheirSlots
  <2> QED  BY <2>1, <2>2
<1> QED  BY <1>1, DiffInvariant, PTL

\* As many lines stand side by side as unchanged as any alignment of the two
\* texts can have, for any texts.
THEOREM FewestCorrect == Spec => []FewestChanges
<1>1. ASSUME DiffInv PROVE FewestChanges
  <2>. SUFFICES ASSUME Both
                PROVE  Cardinality({k \in DOMAIN rows : ~Changed(k)}) = MostMatches(NormRaw(left), NormRaw(right))
    BY Zenon DEF FewestChanges
  <2> QED  BY <1>1, RowsAreComparison, UnchangedCounted
<1> QED  BY <1>1, DiffInvariant, PTL

\* The removed and the added lines of one change share rows as far as they
\* go, and no row pairs equal lines, for any texts.
THEOREM PairsCorrect == Spec => []ChangesPaired
<1>1. ASSUME DiffInv PROVE ChangesPaired
  <2>1. CASE Both
    BY <1>1, <2>1, RowsAreComparison, ChangesHold
  <2>2. CASE ~Both
    <3>1. rows = <<>>
      BY <1>1, <2>2, NoRows
    <3>2. DOMAIN rows = {}
      BY <3>1
    <3> QED  BY <3>2, Zenon DEF ChangesPaired
  <2> QED  BY <2>1, <2>2
<1> QED  BY <1>1, DiffInvariant, PTL

\* A comparison that is cleared or replaced leaves nothing behind, and its
\* two panels always show the same rows.
THEOREM ComparisonCorrect ==
    Spec => [](SlotsFilledInOrder /\ RowsCompareTheSlots /\ PanelsScrollTogether)
<1>1. DiffInv => SlotsFilledInOrder /\ RowsCompareTheSlots /\ PanelsScrollTogether
  BY DEF DiffInv, ViewInv
<1> QED  BY <1>1, DiffInvariant, PTL
=============================================================================
