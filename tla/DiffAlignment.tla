---------------------------- MODULE DiffAlignment ----------------------------
(***************************************************************************)
(* How internal/ui/diff/model.go sets two texts side by side: a longest    *)
(* common subsequence of the lines, then the removed and added lines of    *)
(* one change put on the same rows, then a longest common subsequence of   *)
(* the tokens of each such pair.                                           *)
(*                                                                         *)
(* A line is the sequence of its tokens.  A row has two cells, one for     *)
(* each side; what the program keeps in two slices of the same length is   *)
(* one sequence of rows.                                                   *)
(***************************************************************************)
EXTENDS Integers, Sequences, SequencesExt, Positions

\* A displayed line: its tokens, each with the mark it is painted in.
Painted(line, mark) == [k \in DOMAIN line |-> [tok |-> line[k], mark |-> mark]]

Cell(kind, text, plain) == [kind |-> kind, text |-> text, plain |-> plain]
Padding(kind) == Cell(kind, <<>>, <<>>)

Corners(a, b) == (0 .. Len(a)) \X (0 .. Len(b))

\* LcsTable(a, b)[<<i, j>>]: the length of a longest common subsequence of the
\* first i items of a and the first j items of b.
LcsTable(a, b) ==
    LET dp[p \in Corners(a, b)] ==
            LET i == p[1]
                j == p[2]
            IN  IF i = 0 \/ j = 0 THEN 0
                ELSE IF a[i] = b[j] THEN dp[<<i-1, j-1>>] + 1
                ELSE IF dp[<<i-1, j>>] >= dp[<<i, j-1>>] THEN dp[<<i-1, j>>] ELSE dp[<<i, j-1>>]
    IN  dp

Same(i, j) == [kind |-> "same", i |-> i, j |-> j]
Added(j)   == [kind |-> "added", i |-> 0, j |-> j]
Removed(i) == [kind |-> "removed", i |-> i, j |-> 0]

\* Mistake: on a tie the walk steps over the line of a first.
WalkTiesUp(a, b) ==
    LET dp == LcsTable(a, b)
        walk[p \in Corners(a, b)] ==
            LET i == p[1]
                j == p[2]
            IN  IF i = 0 /\ j = 0 THEN <<>>
                ELSE IF i > 0 /\ j > 0 /\ a[i] = b[j] THEN Append(walk[<<i-1, j-1>>], Same(i, j))
                ELSE IF j > 0 /\ (i = 0 \/ dp[<<i, j-1>>] > dp[<<i-1, j>>]) THEN Append(walk[<<i, j-1>>], Added(j))
                ELSE Append(walk[<<i-1, j>>], Removed(i))
    IN  walk

\* Mistake: the walk looks at the rest of b before it looks for a match.
WalkGreedily(a, b) ==
    LET dp == LcsTable(a, b)
        walk[p \in Corners(a, b)] ==
            LET i == p[1]
                j == p[2]
            IN  IF i = 0 /\ j = 0 THEN <<>>
                ELSE IF j > 0 /\ (i = 0 \/ dp[<<i, j-1>>] >= dp[<<i-1, j>>]) THEN Append(walk[<<i, j-1>>], Added(j))
                ELSE IF i > 0 /\ j > 0 /\ a[i] = b[j] THEN Append(walk[<<i-1, j-1>>], Same(i, j))
                ELSE Append(walk[<<i-1, j>>], Removed(i))
    IN  walk

\* The walk back through the table from each corner; what it meets last comes
\* first.
WalkBack(a, b) ==
    LET dp == LcsTable(a, b)
        walk[p \in Corners(a, b)] ==
            LET i == p[1]
                j == p[2]
            IN  IF i = 0 /\ j = 0 THEN <<>>
                ELSE IF i > 0 /\ j > 0 /\ a[i] = b[j] THEN Append(walk[<<i-1, j-1>>], Same(i, j))
                ELSE IF j > 0 /\ (i = 0 \/ dp[<<i, j-1>>] >= dp[<<i-1, j>>]) THEN Append(walk[<<i, j-1>>], Added(j))
                ELSE Append(walk[<<i-1, j>>], Removed(i))
    IN  walk

Alignment(a, b) == WalkBack(a, b)[<<Len(a), Len(b)>>]

\* The two renderings of a pair of lines, token by token.
WordDiff(leftLine, rightLine) ==
    LET segs   == Alignment(leftLine, rightLine)
        lefts  == Kept(segs, {k \in DOMAIN segs : segs[k].kind # "added"})
        rights == Kept(segs, {k \in DOMAIN segs : segs[k].kind # "removed"})
    IN  [left  |-> [k \in DOMAIN lefts |->
                      [tok |-> leftLine[lefts[k].i], mark |-> lefts[k].kind]],
         right |-> [k \in DOMAIN rights |->
                      [tok |-> rightLine[rights[k].j], mark |-> rights[k].kind]]]

\* hl are the highlighted lines; a line they do not reach is shown as it is.
Shown(plain, hl, k) == IF k <= Len(hl) THEN hl[k] ELSE Painted(plain[k], "text")

\* The row of one step of the walk.
Row(s, a, b, aHL, bHL) ==
    CASE s.kind = "same" ->
           [left  |-> Cell("same", Shown(a, aHL, s.i), <<>>),
            right |-> Cell("same", Shown(b, bHL, s.j), <<>>)]
      [] s.kind = "added" ->
           [left  |-> Padding("added"),
            right |-> Cell("added", Shown(b, bHL, s.j), b[s.j])]
      [] s.kind = "removed" ->
           [left  |-> Cell("removed", Shown(a, aHL, s.i), a[s.i]),
            right |-> Padding("removed")]

LcsAlignedDiff(a, b, aHL, bHL) ==
    LET steps == Alignment(a, b)
    IN  [k \in DOMAIN steps |-> Row(steps[k], a, b, aHL, bHL)]

\* The first row from the i-th on that is not of this kind.
RunEnd(rows, i, kind) ==
    CHOOSE e \in i .. Len(rows) + 1 :
        /\ \A k \in i .. e - 1 : rows[k].left.kind = kind
        /\ e <= Len(rows) => rows[e].left.kind # kind

Pair(l, r) ==
    LET words == WordDiff(l.plain, r.plain)
    IN  [left |-> [l EXCEPT !.text = words.left], right |-> [r EXCEPT !.text = words.right]]

\* A run of removed rows with the run of added rows right after it on the same
\* rows; what is left over keeps its padding.
Block(rows, rStart, aStart, aEnd) ==
    LET removed == aStart - rStart
        added   == aEnd - aStart
    IN  [k \in 1 .. (IF removed >= added THEN removed ELSE added) |->
            IF k > removed THEN [left |-> Padding("added"), right |-> rows[aStart + k - 1].right]
            ELSE IF k > added THEN [left |-> rows[rStart + k - 1].left, right |-> Padding("removed")]
            ELSE Pair(rows[rStart + k - 1].left, rows[aStart + k - 1].right)]

\* What the loop makes of the rows from each one on.
PairedFrom(rows) ==
    LET from[i \in 1 .. Len(rows) + 1] ==
            LET aStart == RunEnd(rows, i, "removed")
                aEnd   == RunEnd(rows, aStart, "added")
            IN  IF i = Len(rows) + 1 THEN <<>>
                ELSE IF rows[i].left.kind # "removed" THEN <<rows[i]>> \o from[i+1]
                ELSE Block(rows, i, aStart, aEnd) \o from[aEnd]
    IN  from

PairAndHighlight(rows) == PairedFrom(rows)[1]
=============================================================================
