------------------------------- MODULE DiffPage -------------------------------
(***************************************************************************)
(* internal/ui/diff: two slots, filled one after the other by              *)
(* SendToDiffMsg, the rows that compare them, and the two viewports.       *)
(*                                                                         *)
(* A raw text is the sequence of its lines; \n, \r and \r\n end a line     *)
(* alike (normRaw), and the sequence without lines is the text "" of an    *)
(* empty slot.                                                             *)
(***************************************************************************)
EXTENDS DiffAlignment

CONSTANTS
    Token,       \* what the lines are made of
    Raws,        \* the texts that may be sent, "" among them
    Typed,       \* the header line that announces a JSON or HTML body
    Open,        \* the token a body that parses begins with
    PrettyPrint, \* tui.pretty_print_body
    Heights      \* heights of the two viewports

ASSUME DiffAssumption == Raws \subseteq Seq(Seq(Token)) /\ Heights \subseteq Int

EmptyRaw == <<>>

VARIABLES
    left, right,  \* the raw text in each slot
    focus,        \* the slot Clear acts on
    rows,         \* leftLines and rightLines
    height,       \* of both viewports
    offset,       \* YOffset of each viewport
    said          \* what the last message told the program, if it did

slots    == <<left, right>>
viewport == <<height, offset>>
vars     == <<slots, focus, rows, viewport, said>>

Side  == {"left", "right"}
Focus == {"both", "left", "right"}

Init ==
    /\ left = EmptyRaw
    /\ right = EmptyRaw
    /\ focus = "both"
    /\ rows = <<>>
    /\ height \in Heights
    /\ offset = [s \in Side |-> 0]
    /\ said = "nothing"
-----------------------------------------------------------------------------
\* TrimRight: no blank line at the end, but one line at least.
NormRaw(raw) ==
    LET written == {k \in DOMAIN raw : raw[k] # <<>>}
    IN  IF written = {} THEN << <<>> >> ELSE SubSeq(raw, 1, Max(written))

\* One token to a line: what pretty printing makes of a body that parses.
Reflowed(body) ==
    LET toks == FlattenSeq(body)
    IN  IF toks # <<>> /\ toks[1] = Open THEN [k \in DOMAIN toks |-> <<toks[k]>>] ELSE body

\* The first blank line, not the first line and not the last one, ends the headers.
HeaderEnd(lines) ==
    LET blank == {k \in 2 .. Len(lines) - 1 : lines[k] = <<>>}
    IN  IF blank = {} THEN Len(lines) ELSE Min(blank)

\* The lines HighlightHTTP shows for the given ones.
HighlightHTTP(lines) ==
    LET end  == HeaderEnd(lines)
        body == SubSeq(lines, end + 1, Len(lines))
        pretty == PrettyPrint /\ \E k \in 1 .. end : lines[k] = Typed
        shown == SubSeq(lines, 1, end) \o (IF pretty THEN Reflowed(body) ELSE body)
    IN  [k \in DOMAIN shown |-> Painted(shown[k], "text")]

HlLines(lines) == IF lines = << <<>> >> THEN <<>> ELSE HighlightHTTP(lines)

ComputeDiff(l, r) ==
    IF l = EmptyRaw \/ r = EmptyRaw THEN <<>>
    ELSE PairAndHighlight(LcsAlignedDiff(NormRaw(l), NormRaw(r), HlLines(NormRaw(l)), HlLines(NormRaw(r))))

\* The number of lines refreshViewports puts into each viewport: a
\* placeholder fills its viewport, and the rendered rows end in a newline.
Content(l, r, rs, h) ==
    IF l = EmptyRaw THEN [left |-> h, right |-> 1]
    ELSE IF r = EmptyRaw THEN [left |-> Len(HighlightHTTP(NormRaw(l))), right |-> h]
    ELSE [left |-> Len(rs) + 1, right |-> Len(rs) + 1]

\* Mistake: nothing stops the offset at the top.
ClampBelow(y, lines, h) == Min({y, Max({0, lines - h})})

\* SetYOffset keeps the offset between the top and the last full screen.
Clamp(y, lines, h) == Max({0, Min({y, lines - h})})

ScrolledTo(y, l, r, rs, h) ==
    [s \in Side |-> Clamp(y[s], Content(l, r, rs, h)[s], h)]
-----------------------------------------------------------------------------
Top == [s \in Side |-> 0]

SendToDiff(raw) ==
    /\ \/ /\ left = EmptyRaw
          /\ left' = raw
          /\ offset' = ScrolledTo(offset, raw, right, rows, height)
          /\ said' = "selected"
          /\ UNCHANGED <<right, rows, focus>>
       \/ /\ left # EmptyRaw /\ right = EmptyRaw
          /\ right' = raw
          /\ rows' = ComputeDiff(left, raw)
          /\ focus' = "both"
          /\ offset' = Top
          /\ said' = "ready"
          /\ UNCHANGED left
       \/ /\ left # EmptyRaw /\ right # EmptyRaw
          /\ left' = raw
          /\ right' = EmptyRaw
          /\ rows' = <<>>
          /\ focus' = "both"
          /\ offset' = Top
          /\ said' = "replaced"
    /\ UNCHANGED height

CycleFocus ==
    /\ focus' = CASE focus = "both" -> "left" [] focus = "left" -> "right" [] focus = "right" -> "both"
    /\ said' = "nothing"
    /\ UNCHANGED <<slots, rows, viewport>>

\* Up, Down, half a page and the wheel; both panels go where the left one goes.
Scroll(delta) ==
    /\ offset' = ScrolledTo([s \in Side |-> offset.left + delta], left, right, rows, height)
    /\ said' = "nothing"
    /\ UNCHANGED <<slots, focus, rows, height>>

HalfPage == Max({1, height \div 2})

\* Mistake: the rows of the cleared comparison stay.
ClearKeepingRows ==
    /\ \/ focus = "left"  /\ left' = right /\ right' = EmptyRaw
       \/ focus = "right" /\ right' = EmptyRaw /\ UNCHANGED left
       \/ focus = "both"  /\ left' = EmptyRaw /\ right' = EmptyRaw
    /\ focus' = "both"
    /\ offset' = Top
    /\ said' = "nothing"
    /\ UNCHANGED <<rows, height>>

\* Clearing the first text makes the second one the first.
Clear ==
    /\ \/ focus = "left"  /\ left' = right /\ right' = EmptyRaw
       \/ focus = "right" /\ right' = EmptyRaw /\ UNCHANGED left
       \/ focus = "both"  /\ left' = EmptyRaw /\ right' = EmptyRaw
    /\ rows' = <<>>
    /\ focus' = "both"
    /\ offset' = Top
    /\ said' = "nothing"
    /\ UNCHANGED height

\* SetSize, and Help, which makes the status bar grow or shrink.
Resize(h) ==
    /\ height' = h
    /\ offset' = ScrolledTo(offset, left, right, rows, h)
    /\ said' = "nothing"
    /\ UNCHANGED <<slots, focus, rows>>

\* CurrentRaw
CurrentRaw == IF focus = "right" THEN right ELSE left

Next ==
    \/ \E raw \in Raws : SendToDiff(raw)
    \/ CycleFocus
    \/ \E delta \in {-1, 1, -HalfPage, HalfPage} : Scroll(delta)
    \/ Clear
    \/ \E h \in Heights : Resize(h)

Spec == Init /\ [][Next]_vars
-----------------------------------------------------------------------------
Both == left # EmptyRaw /\ right # EmptyRaw

\* The column a panel draws, without its blank padding: renderLeftLines draws
\* none of the added cells, renderRightLines none of the removed ones.
RenderLeftLines ==
    Kept([k \in DOMAIN rows |-> rows[k].left], {k \in DOMAIN rows : rows[k].left.kind # "added"})
RenderRightLines ==
    Kept([k \in DOMAIN rows |-> rows[k].right], {k \in DOMAIN rows : rows[k].right.kind # "removed"})

Words(text) == [k \in DOMAIN text |-> text[k].tok]
Drawn(column) == [k \in DOMAIN column |-> Words(column[k].text)]

\* A text whose highlighted form has the lines of the text itself.
InItsLines(raw) == HighlightHTTP(NormRaw(raw)) = [k \in DOMAIN NormRaw(raw) |-> Painted(NormRaw(raw)[k], "text")]

Changed(k) == rows[k].left.kind # "same"
Alone(k, kind) == rows[k].left.kind = kind /\ rows[k].right.kind = kind

\* The largest set of equal lines of a and b of which no two cross: what the
\* comparison should find, without a table.
MostMatches(a, b) ==
    LET equal == {p \in (DOMAIN a) \X (DOMAIN b) : a[p[1]] = b[p[2]]}
        Straight(M) == \A p, q \in M : p # q => (p[1] < q[1] <=> p[2] < q[2]) /\ p[1] # q[1] /\ p[2] # q[2]
    IN  Max({Cardinality(M) : M \in {N \in SUBSET equal : Straight(N)}})

\* The state has its types, and the rows exist only while both slots are
\* filled.
TypeOK ==
    /\ left \in Raws \cup {EmptyRaw}
    /\ right \in Raws \cup {EmptyRaw}
    /\ focus \in Focus
    /\ height \in Heights
    /\ offset \in [Side -> Nat]
    /\ said \in {"nothing", "selected", "ready", "replaced"}
    /\ \A k \in DOMAIN rows :
         \/ rows[k].left.kind = rows[k].right.kind
         \/ rows[k].left.kind = "removed" /\ rows[k].right.kind = "added"

\* Each panel draws the text of its own slot, every line once and in order,
\* through the alignment, the pairing and the word by word rendering, and
\* draws nothing of a comparison whose slots have changed.  (Texts that
\* pretty printing gives other lines are excepted.)
PanelsShowTheirSlots ==
    IF Both
    THEN /\ InItsLines(left)  => Drawn(RenderLeftLines)  = NormRaw(left)
         /\ InItsLines(right) => Drawn(RenderRightLines) = NormRaw(right)
    ELSE rows = <<>>

\* The comparison is the smallest one: as many lines stand side by side as
\* unchanged as can.
FewestChanges ==
    Both => Cardinality({k \in DOMAIN rows : ~Changed(k)}) = MostMatches(NormRaw(left), NormRaw(right))

\* Between two unchanged lines there is one change, and its removed and
\* added lines share rows as far as they go: no removed line is left alone
\* where an added one is, and no pair is of equal lines.
ChangesPaired ==
    /\ \A i, j \in DOMAIN rows :
         Alone(i, "removed") /\ Alone(j, "added")
           => \E k \in DOMAIN rows : ~Changed(k) /\ k \in (i .. j) \cup (j .. i)
    /\ \A k \in DOMAIN rows :
         rows[k].left.kind # rows[k].right.kind => rows[k].left.plain # rows[k].right.plain

\* The two panels of a comparison always show the same rows, whatever was
\* scrolled before the second text came or the window resized.
PanelsScrollTogether == Both => offset.left = offset.right

\* "DiffReadyMsg is emitted when both slots are filled and the diff is ready
\* to view" (the comment on DiffReadyMsg).
ReadyWhenBothFilled == said = "ready" => Both
=============================================================================
