--------------------------- MODULE ReplayPageProofs ---------------------------
(***************************************************************************)
(* Theorems about ReplayPage for any number of entries, drafts and filter  *)
(* texts.                                                                  *)
(***************************************************************************)
EXTENDS ReplayPage, ListFacts, TLAPS

\* The table, as TypeOK has it.
IsTable(table, n) ==
    /\ n \in 0 .. MaxEntries
    /\ DOMAIN table \subseteq 1 .. n
    /\ \A id \in DOMAIN table : table[id] \in Row

\* The list has the ids of the table, each once and in order.
Ascends(list) == \A i, j \in DOMAIN list : i < j => list[i].id < list[j].id

Covers(list, table) ==
    /\ \A i \in DOMAIN list : list[i].id \in DOMAIN table
    /\ \A id \in DOMAIN table : \E i \in DOMAIN list : list[i].id = id

\* What an entry and its row share.
Agrees(e, table) ==
    /\ e.flagged = table[e.id].flagged
    /\ ~e.sending => e.response = table[e.id].response

InSync(list, table) ==
    /\ Ascends(list)
    /\ Covers(list, table)
    /\ \A i \in DOMAIN list : Agrees(list[i], table)

ListsInv ==
    /\ allEntries \in Seq(Entry) /\ entries \in Seq(Entry)
    /\ ValidCursor(cursor, Len(entries))
    /\ IsTable(rows, lastId)
    /\ InSync(allEntries, rows)
    /\ ViewMatchesList
    /\ filterMode = "off" => term = NoTerm

\* What is typed and what is under way.  A text area that is read holds a text,
\* and a request that is queued still has an id.
MessagesInv ==
    /\ filterMode \in {"off", "typing", "accepted"}
    /\ term \in {NoTerm} \cup Terms
    /\ editing \in BOOLEAN /\ queued \in BOOLEAN
    /\ {textarea, editorResult} \subseteq Text \cup {NoText}
    /\ BagToSet(inFlight) \subseteq [index : Nat, by : Id, to : Text]
    /\ screen \in {"replay", "other", "overlay"}
    /\ editing => textarea \in Text
    /\ queued => lastId < MaxEntries

PageInv == ListsInv /\ MessagesInv

\* Without deletions every send under way names the entry it was made for.
SendsNameTheirEntry ==
    \A sent \in BagToSet(inFlight) :
        /\ sent.index + 1 \in DOMAIN allEntries
        /\ allEntries[sent.index + 1].id = sent.by

\* If no key overtakes a message, a text is only typed, or brought by the
\* editor, while the page is shown with the entry it belongs to under the
\* cursor, and nothing that would move the cursor is queued.
OfSelected(text) ==
    screen = "replay" /\ ~queued /\ entries # <<>> /\ text.of = Selected.id

EditsInv ==
    /\ EditsStayWithTheirEntry
    /\ \A id \in DOMAIN rows : rows[id].request.of = id
    /\ editing => OfSelected(textarea)
    /\ editorResult # NoText => ~editing /\ OfSelected(editorResult)
-----------------------------------------------------------------------------
(* Lists and tables.                                                       *)

LEMMA ListDomain ==
    ASSUME NEW list \in Seq(Entry)
    PROVE  /\ Len(list) \in Nat /\ DOMAIN list = 1 .. Len(list)
           /\ \A i \in DOMAIN list : list[i] \in Entry /\ list[i].id \in Id
<1>1. Len(list) \in Nat /\ DOMAIN list = 1 .. Len(list) /\ \A i \in DOMAIN list : list[i] \in Entry
  OBVIOUS
<1>2. \A e \in Entry : e.id \in Id
  BY DEF Entry
<1> QED  BY <1>1, <1>2

\* Two entries never have one id.
LEMMA IdsDiffer ==
    ASSUME NEW list \in Seq(Entry), Ascends(list),
           NEW i \in DOMAIN list, NEW j \in DOMAIN list, list[i].id = list[j].id
    PROVE  i = j
<1>1. i \in Int /\ j \in Int /\ list[i].id \in Int
  BY ListDomain DEF Id
<1>2. i < j => list[i].id < list[j].id
  BY DEF Ascends
<1>3. j < i => list[j].id < list[i].id
  BY DEF Ascends
<1> QED  BY <1>1, <1>2, <1>3

\* An entry changes in the list, and its row with it.
LEMMA SyncChange ==
    ASSUME NEW list \in Seq(Entry), NEW table, InSync(list, table),
           NEW i \in DOMAIN list, NEW e \in Entry, e.id = list[i].id,
           NEW after, DOMAIN after = DOMAIN table, Agrees(e, after),
           \A id \in DOMAIN table : id # e.id => after[id] = table[id]
    PROVE  /\ InSync([list EXCEPT ![i] = e], after)
           /\ [list EXCEPT ![i] = e] \in Seq(Entry)
           /\ Len([list EXCEPT ![i] = e]) = Len(list)
           /\ DOMAIN [list EXCEPT ![i] = e] = DOMAIN list
           /\ \A j \in DOMAIN list : [list EXCEPT ![i] = e][j].id = list[j].id
<1>. DEFINE new == [list EXCEPT ![i] = e]
<1>1. new \in Seq(Entry) /\ Len(new) = Len(list) /\ DOMAIN new = DOMAIN list
  OBVIOUS
<1>2. new[i] = e /\ \A j \in DOMAIN list : j # i => new[j] = list[j]
  OBVIOUS
<1>. HIDE DEF new
<1>3. \A j \in DOMAIN list : new[j].id = list[j].id
  BY <1>2
<1>4. Ascends(new) /\ Covers(new, after)
  BY <1>1, <1>3 DEF InSync, Ascends, Covers
<1>5. ASSUME NEW j \in DOMAIN list PROVE Agrees(new[j], after)
  <2>1. CASE j = i
    BY <1>2, <2>1
  <2>2. CASE j # i
    <3>1. list[j].id # e.id
      BY <2>2, IdsDiffer DEF InSync
    <3>2. after[list[j].id] = table[list[j].id]
      BY <3>1 DEF InSync, Covers
    <3> QED  BY <1>2, <2>2, <3>2 DEF InSync, Agrees
  <2> QED  BY <2>1, <2>2
<1>6. InSync(new, after)
  BY <1>1, <1>4, <1>5 DEF InSync
<1> QED  BY <1>1, <1>3, <1>6 DEF new

\* A new entry comes last, with a row.
LEMMA SyncAppend ==
    ASSUME NEW list \in Seq(Entry), NEW table, InSync(list, table),
           NEW n \in Nat, DOMAIN table \subseteq 1 .. n,
           NEW e \in Entry, e.id = n + 1,
           NEW after, DOMAIN after = DOMAIN table \cup {n + 1}, Agrees(e, after),
           \A id \in DOMAIN table : after[id] = table[id]
    PROVE  InSync(Append(list, e), after)
<1>. DEFINE new == Append(list, e)
            last == Len(list) + 1
<1>1. /\ DOMAIN new = 1 .. last /\ last \in Nat /\ DOMAIN list = 1 .. last - 1
      /\ last \in DOMAIN new /\ new[last] = e /\ \A i \in DOMAIN list : new[i] = list[i]
  OBVIOUS
<1>2. \A i \in DOMAIN list : list[i].id \in DOMAIN table /\ list[i].id \in Nat /\ list[i].id <= n
  BY DEF InSync, Covers
<1>. HIDE DEF new, last
<1>3. \A i \in DOMAIN new : i = last \/ i \in DOMAIN list
  BY <1>1
<1>4. Ascends(new)
  <2>. SUFFICES ASSUME NEW i \in DOMAIN new, NEW j \in DOMAIN new, i < j PROVE new[i].id < new[j].id
    BY DEF Ascends
  <2>1. i \in DOMAIN list
    BY <1>1
  <2>2. CASE j = last
    <3>1. new[j].id = n + 1 /\ new[i].id = list[i].id /\ list[i].id <= n /\ list[i].id \in Nat
      BY <1>1, <1>2, <2>1, <2>2
    <3> QED  BY <3>1
  <2>3. CASE j \in DOMAIN list
    BY <1>1, <2>1, <2>3 DEF InSync, Ascends
  <2> QED  BY <1>3, <2>2, <2>3
<1>5. Covers(new, after)
  <2>1. ASSUME NEW i \in DOMAIN new PROVE new[i].id \in DOMAIN after
    BY <1>1, <1>2, <1>3
  <2>2. ASSUME NEW id \in DOMAIN after PROVE \E i \in DOMAIN new : new[i].id = id
    <3>1. CASE id = n + 1
      BY <1>1, <3>1
    <3>2. CASE id \in DOMAIN table
      <4>1. PICK i \in DOMAIN list : list[i].id = id
        BY <3>2 DEF InSync, Covers
      <4>2. i \in DOMAIN new
        BY <1>1
      <4> QED  BY <1>1, <4>1, <4>2
    <3> QED  BY <3>1, <3>2
  <2> QED  BY <2>1, <2>2 DEF Covers
<1>6. ASSUME NEW i \in DOMAIN new PROVE Agrees(new[i], after)
  <2>1. CASE i = last
    BY <1>1, <2>1
  <2>2. CASE i \in DOMAIN list
    <3>1. new[i] = list[i] /\ after[list[i].id] = table[list[i].id] /\ Agrees(list[i], table)
      BY <1>1, <1>2, <2>2 DEF InSync
    <3> QED  BY <3>1 DEF Agrees
  <2> QED  BY <1>3, <2>1, <2>2
<1>7. InSync(new, after)
  BY <1>4, <1>5, <1>6 DEF InSync
<1> QED  BY <1>7 DEF new

\* Some of the entries stay, those whose rows do: the f[k]-th of the list
\* becomes the k-th.
Selects(f, new, list) ==
    /\ DOMAIN f = DOMAIN new /\ DOMAIN new \subseteq Nat
    /\ \A k \in DOMAIN new : f[k] \in DOMAIN list /\ new[k] = list[f[k]]
    /\ \A k, l \in DOMAIN new : k < l => f[k] < f[l]

RowsSelected(f, list, after, table) ==
    /\ DOMAIN after \subseteq DOMAIN table
    /\ \A id \in DOMAIN after : after[id] = table[id]
    /\ \A i \in DOMAIN list : list[i].id \in DOMAIN after <=> \E k \in DOMAIN f : f[k] = i

LEMMA SyncSelect ==
    ASSUME NEW list \in Seq(Entry), NEW table, InSync(list, table),
           NEW new, NEW f, Selects(f, new, list),
           NEW after, RowsSelected(f, list, after, table)
    PROVE  InSync(new, after)
<1>. USE DEF Selects, RowsSelected
<1>1. Ascends(new)
  BY DEF InSync, Ascends
<1>2. \A k \in DOMAIN new : new[k].id \in DOMAIN after
  OBVIOUS
<1>3. ASSUME NEW id \in DOMAIN after PROVE \E k \in DOMAIN new : new[k].id = id
  <2>1. PICK i \in DOMAIN list : list[i].id = id
    BY DEF InSync, Covers
  <2>2. PICK k \in DOMAIN new : f[k] = i
    BY <2>1
  <2> QED  BY <2>1, <2>2
<1>4. ASSUME NEW k \in DOMAIN new PROVE Agrees(new[k], after)
  <2>1. Agrees(list[f[k]], table) /\ new[k] = list[f[k]] /\ new[k].id \in DOMAIN after
    BY <1>2 DEF InSync
  <2> QED  BY <2>1 DEF Agrees
<1> QED  BY <1>1, <1>2, <1>3, <1>4 DEF InSync, Covers

\* What DatabaseMirrorsList says.
LEMMA SyncMirrors ==
    ASSUME allEntries \in Seq(Entry), IsTable(rows, lastId), InSync(allEntries, rows)
    PROVE  DatabaseMirrorsList
<1>. DEFINE ids == [i \in DOMAIN allEntries |-> allEntries[i].id]
            S == DOMAIN rows
<1>1. S \in SUBSET Nat /\ IsFiniteSet(S)
  <2>1. lastId \in Nat /\ S \subseteq 1 .. lastId
    BY DEF IsTable
  <2> QED  BY <2>1, IdsFinite
<1>2. ids \in Seq(S) /\ DOMAIN ids = DOMAIN allEntries
  <2>1. DOMAIN allEntries = 1 .. Len(allEntries) /\ Len(allEntries) \in Nat
    BY ListDomain
  <2>2. \A i \in DOMAIN allEntries : allEntries[i].id \in S
    BY DEF InSync, Covers
  <2>3. ids \in [1 .. Len(allEntries) -> S]
    BY <2>1, <2>2
  <2> QED  BY <2>1, <2>3
<1>3. \A i, j \in DOMAIN ids : i < j => ids[i] < ids[j]
  BY DEF InSync, Ascends
<1>4. \A x \in S : \E i \in DOMAIN ids : ids[i] = x
  BY DEF InSync, Covers
<1>. HIDE DEF ids, S
<1>5. ids = Ascending(S)
  BY <1>1, <1>2, <1>3, <1>4, AscendingUnique
<1>6. ASSUME NEW e \in ToSet(allEntries) PROVE Agrees(e, rows)
  BY DEF InSync, ToSet
<1> QED  BY <1>5, <1>6 DEF DatabaseMirrorsList, Agrees, ids, S
-----------------------------------------------------------------------------
(* The filtered view.                                                      *)

\* applyFilter leaves a view of the list, and a cursor in it.
LEMMA Refiltered ==
    ASSUME allEntries' \in Seq(Entry), NEW current \in Nat, NEW prefer \in Int,
           ApplyFilterFrom(current, prefer)
    PROVE  /\ entries' \in Seq(Entry)
           /\ ValidCursor(cursor', Len(entries)')
           /\ ViewMatchesList'
<1>. DEFINE S == MatchingSet(allEntries)'
            shown == Ascending(S)
<1>1. S \in SUBSET DOMAIN allEntries'
  BY DEF MatchingSet
<1>2. Matching(allEntries)' = shown
  BY DEF Matching
<1>. HIDE DEF S
<1>3. /\ Len(shown) \in Nat /\ DOMAIN shown = 1 .. Len(shown)
      /\ Kept(allEntries', S) = [k \in DOMAIN shown |-> allEntries'[shown[k]]]
      /\ Kept(allEntries', S) \in Seq(Entry) /\ Len(Kept(allEntries', S)) = Len(shown)
  BY <1>1, SomePositions
<1>. HIDE DEF shown
<1>4. CASE Filtered'
  <2>. DEFINE hits == {k \in DOMAIN shown : shown[k] = prefer + 1}
  <2>1. /\ entries' = [k \in DOMAIN shown |-> allEntries'[shown[k]]]
        /\ cursor' = IF hits = {} THEN 0 ELSE (CHOOSE k \in hits : TRUE) - 1
    BY <1>2, <1>4 DEF ApplyFilterFrom
  <2>2. entries' = Kept(allEntries', S) /\ entries' \in Seq(Entry) /\ Len(entries') = Len(shown)
    BY <1>3, <2>1
  <2>3. ValidCursor(cursor', Len(entries'))
    <3>1. CASE hits = {}
      BY <2>1, <3>1 DEF ValidCursor
    <3>2. CASE hits # {}
      <4>1. (CHOOSE k \in hits : TRUE) \in hits
        BY <3>2
      <4>2. cursor' \in Nat /\ cursor' < Len(shown)
        <5>1. PICK k \in hits : cursor' = k - 1
          BY <2>1, <3>2, <4>1
        <5>2. k \in 1 .. Len(shown)
          BY <1>3
        <5> QED  BY <1>3, <5>1, <5>2
      <4>3. Len(entries') = Len(shown)
        BY <2>2
      <4> QED  BY <4>2, <4>3 DEF ValidCursor
    <3> QED  BY <3>1, <3>2
  <2>4. ViewMatchesList'
    BY <1>4, <2>2, Zenon DEF ViewMatchesList, S
  <2> QED  BY <2>2, <2>3, <2>4
<1>5. CASE ~Filtered'
  <2>. DEFINE n == Len(allEntries')
              wanted == IF prefer \in 0 .. (n - 1) THEN prefer ELSE current
  <2>1. entries' = allEntries' /\ cursor' = IF n = 0 THEN 0 ELSE IF wanted >= n THEN n - 1 ELSE wanted
    BY <1>5 DEF ApplyFilterFrom
  <2>2. n \in Nat /\ wanted \in Nat
    BY ListDomain
  <2>3. ValidCursor(cursor', Len(entries'))
    BY <2>1, <2>2 DEF ValidCursor
  <2>4. ViewMatchesList'
    BY <1>5, <2>1, Zenon DEF ViewMatchesList
  <2> QED  BY <2>1, <2>3, <2>4
<1> QED  BY <1>4, <1>5

\* currentAllIdx is the entry under the cursor.
LEMMA CurrentIsSelected ==
    ASSUME ListsInv, entries # <<>>
    PROVE  /\ cursor \in Nat /\ cursor + 1 \in DOMAIN entries /\ Selected \in Entry
           /\ CurrentAllIdx \in Nat /\ CurrentAllIdx + 1 \in DOMAIN allEntries
           /\ allEntries[CurrentAllIdx + 1] \in Entry
           /\ Selected.id = allEntries[CurrentAllIdx + 1].id
           /\ ~Filtered => CurrentAllIdx = cursor /\ Selected = allEntries[CurrentAllIdx + 1]
           /\ Filtered => /\ cursor + 1 \in DOMAIN Matching(allEntries)
                          /\ CurrentAllIdx + 1 = Matching(allEntries)[cursor + 1]
<1>1. /\ cursor \in Nat /\ cursor < Len(entries)
      /\ cursor + 1 \in DOMAIN entries /\ Selected \in Entry
  BY UnderTheCursor DEF ListsInv, Selected
<1>. DEFINE S == MatchingSet(allEntries)
            shown == Matching(allEntries)
            k == cursor + 1
<1>2. CASE Filtered
  <2>1. S \in SUBSET DOMAIN allEntries
    BY DEF MatchingSet
  <2>2. shown = Ascending(S)
    BY DEF Matching
  <2>. HIDE DEF S, shown
  <2>3. /\ Len(shown) \in Nat /\ DOMAIN shown = 1 .. Len(shown)
        /\ \A l \in DOMAIN shown : shown[l] \in S
        /\ Kept(allEntries, S) = [l \in DOMAIN shown |-> allEntries[shown[l]]]
        /\ Len(Kept(allEntries, S)) = Len(shown) /\ Kept(allEntries, S) \in Seq(Entry)
    BY <2>1, <2>2, SomePositions DEF ListsInv
  <2>4. Len(entries) = Len(shown)
    BY <1>2, <2>3 DEF ListsInv, ViewMatchesList, S
  <2>5. k \in DOMAIN shown /\ k \in DOMAIN Kept(allEntries, S)
    <3>1. DOMAIN entries = 1 .. Len(entries)
      BY DEF ListsInv
    <3>2. DOMAIN Kept(allEntries, S) = DOMAIN shown
      BY <2>3, Zenon
    <3> QED  BY <1>1, <2>3, <2>4, <3>1, <3>2
  <2>6. shown[k] \in DOMAIN allEntries /\ shown[k] \in Nat \ {0}
    <3>1. shown[k] \in DOMAIN allEntries
      BY <2>1, <2>3, <2>5
    <3>2. DOMAIN allEntries = 1 .. Len(allEntries)
      BY DEF ListsInv
    <3> QED  BY <3>1, <3>2
  <2>7. CurrentAllIdx = shown[k] - 1
    BY <1>1, <1>2, <2>4 DEF CurrentAllIdx, shown, k
  <2>8. CurrentAllIdx \in Nat /\ CurrentAllIdx + 1 = shown[k]
    BY <2>6, <2>7
  <2>9. entries[k].id = allEntries[shown[k]].id
    <3>. DEFINE Unedited(e) == [e EXCEPT !.request = Original(e.id)]
    <3>1. Kept(allEntries, S)[k] = allEntries[shown[k]]
      BY <2>3, <2>5
    <3>2. Unedited(entries[k]) = Unedited(Kept(allEntries, S)[k])
      BY <1>2, <2>5 DEF ListsInv, ViewMatchesList, S
    <3>3. \A e \in Entry : Unedited(e).id = e.id
      BY DEF Entry
    <3>. HIDE DEF Unedited
    <3>4. entries[k] \in Entry /\ allEntries[shown[k]] \in Entry
      BY <1>1, <2>6, ListDomain DEF Selected, ListsInv
    <3> QED  BY <3>1, <3>2, <3>3, <3>4
  <2>10. allEntries[shown[k]] \in Entry
    BY <2>6, ListDomain DEF ListsInv
  <2> QED  BY <1>1, <1>2, <2>5, <2>6, <2>8, <2>9, <2>10 DEF Selected, shown
<1>3. CASE ~Filtered
  <2>1. entries = allEntries
    <3>1. Len(entries) = Len(allEntries) /\ \A l \in DOMAIN allEntries : entries[l] = allEntries[l]
      BY <1>3 DEF ListsInv, ViewMatchesList
    <3> QED  BY <3>1 DEF ListsInv
  <2>2. CurrentAllIdx = cursor
    BY <1>1, <1>3, <2>1 DEF CurrentAllIdx
  <2> QED  BY <1>1, <1>3, <2>1, <2>2 DEF Selected
<1> QED  BY <1>2, <1>3

LEMMA CurrentIsNumber ==
    ASSUME ListsInv
    PROVE  CurrentAllIdx \in Int
<1>1. CASE entries # <<>>
  BY <1>1, CurrentIsSelected
<1>2. CASE entries = <<>>
  <2>1. cursor = 0
    BY <1>2 DEF ListsInv, ValidCursor
  <2>2. CASE Filtered
    <3>1. Len(Matching(allEntries)) = 0
      <4>1. MatchingSet(allEntries) \in SUBSET DOMAIN allEntries
        BY DEF MatchingSet
      <4>2. Len(Kept(allEntries, MatchingSet(allEntries))) = 0
        BY <1>2, <2>2 DEF ListsInv, ViewMatchesList
      <4> QED  BY <4>1, <4>2, SomePositions DEF ListsInv, Matching
    <3> QED  BY <2>1, <2>2, <3>1 DEF CurrentAllIdx
  <2>3. CASE ~Filtered
    BY <2>1, <2>3 DEF CurrentAllIdx
  <2> QED  BY <2>2, <2>3
<1> QED  BY <1>1, <1>2

\* applyFilter puts the cursor on the entry it is given, if that is shown.
LEMMA CursorFollows ==
    ASSUME allEntries' \in Seq(Entry), Ascends(allEntries'),
           NEW current, NEW i \in DOMAIN allEntries', ApplyFilterFrom(current, i - 1),
           \E k \in DOMAIN entries' : entries'[k].id = allEntries'[i].id
    PROVE  /\ cursor' + 1 \in DOMAIN entries'
           /\ entries'[cursor' + 1].id = allEntries'[i].id
<1>0. i \in Nat /\ (i - 1) + 1 = i /\ i \in 1 .. Len(allEntries') /\ Len(allEntries') \in Nat
  BY ListDomain
<1>1. CASE Filtered'
  <2>. DEFINE S == MatchingSet(allEntries)'
              shown == Matching(allEntries)'
              hits == {k \in DOMAIN shown : shown[k] = (i - 1) + 1}
  <2>1. /\ entries' = [k \in DOMAIN shown |-> allEntries'[shown[k]]]
        /\ cursor' = IF hits = {} THEN 0 ELSE (CHOOSE k \in hits : TRUE) - 1
    BY <1>1 DEF ApplyFilterFrom
  <2>2. S \in SUBSET DOMAIN allEntries'
    BY DEF MatchingSet
  <2>3. shown = Ascending(S)
    BY DEF Matching
  <2>. HIDE DEF S, shown
  <2>4. DOMAIN shown \subseteq Nat /\ \A k \in DOMAIN shown : shown[k] \in DOMAIN allEntries'
    BY <2>2, <2>3, SomePositions
  <2>5. PICK k \in DOMAIN shown : allEntries'[shown[k]].id = allEntries'[i].id
    BY <2>1
  <2>6. shown[k] = i
    BY <2>4, <2>5, IdsDiffer
  <2>7. k \in hits
    BY <1>0, <2>6
  <2>8. PICK h \in hits : cursor' = h - 1
    <3>1. (CHOOSE l \in hits : TRUE) \in hits
      BY <2>7
    <3> QED  BY <2>1, <2>7, <3>1
  <2>9. h \in DOMAIN shown /\ h \in Nat /\ shown[h] = i
    BY <1>0, <2>4
  <2>10. cursor' + 1 = h
    BY <2>8, <2>9
  <2>11. h \in DOMAIN entries' /\ entries'[h] = allEntries'[i]
    BY <2>1, <2>9
  <2> QED  BY <2>10, <2>11
<1>2. CASE ~Filtered'
  <2>. DEFINE n == Len(allEntries')
              wanted == IF i - 1 \in 0 .. (n - 1) THEN i - 1 ELSE current
  <2>1. entries' = allEntries' /\ cursor' = IF n = 0 THEN 0 ELSE IF wanted >= n THEN n - 1 ELSE wanted
    BY <1>2 DEF ApplyFilterFrom
  <2>2. wanted = i - 1 /\ n # 0 /\ ~(i - 1 >= n)
    BY <1>0
  <2>3. cursor' + 1 = i
    BY <1>0, <2>1, <2>2
  <2> QED  BY <2>1, <2>3
<1> QED  BY <1>1, <1>2

SameIds ==
    /\ DOMAIN allEntries' = DOMAIN allEntries
    /\ \A i \in DOMAIN allEntries : allEntries'[i].id = allEntries[i].id

\* An entry that changes and keeps its id is shown as before.
LEMMA StaysShown ==
    ASSUME ListsInv, entries # <<>>, SameIds, UNCHANGED filterVars,
           NEW current, NEW prefer, ApplyFilterFrom(current, prefer)
    PROVE  \E k \in DOMAIN entries' : entries'[k].id = allEntries'[CurrentAllIdx + 1].id
<1>1. UNCHANGED <<Filtered, term>>
  BY DEF Filtered, filterVars
<1>2. CASE Filtered
  <2>1. MatchingSet(allEntries)' = MatchingSet(allEntries)
    BY <1>1 DEF MatchingSet, SameIds
  <2>2. Matching(allEntries)' = Matching(allEntries)
    BY <2>1 DEF Matching
  <2>. DEFINE shown == Matching(allEntries)
  <2>3. entries' = [k \in DOMAIN shown |-> allEntries'[shown[k]]]
    BY <1>1, <1>2, <2>2 DEF ApplyFilterFrom
  <2>. HIDE DEF shown
  <2>4. cursor + 1 \in DOMAIN shown /\ CurrentAllIdx + 1 = shown[cursor + 1]
    BY <1>2, CurrentIsSelected DEF shown
  <2> QED  BY <2>3, <2>4
<1>3. CASE ~Filtered
  <2>1. entries' = allEntries'
    BY <1>1, <1>3 DEF ApplyFilterFrom
  <2> QED  BY <2>1, CurrentIsSelected DEF SameIds
<1> QED  BY <1>2, <1>3
-----------------------------------------------------------------------------
(* What each step does to the lists and to the table.                      *)

LEMMA ListsFiltered ==
    ASSUME NEW current \in Nat, NEW prefer \in Int, ApplyFilterFrom(current, prefer),
           allEntries' \in Seq(Entry), IsTable(rows', lastId'), InSync(allEntries', rows'),
           filterMode' = "off" => term' = NoTerm
    PROVE  ListsInv'
BY Refiltered DEF ListsInv

\* An edit changes neither what a row says of its entry nor what is shown.
LEMMA SetRequestKeeps ==
    ASSUME ListsInv, entries # <<>>, NEW text \in Text, SetRequest(text),
           UNCHANGED <<filterVars, tableVars>>
    PROVE  /\ ListsInv' /\ SameIds
           /\ cursor' = cursor /\ DOMAIN entries' = DOMAIN entries
           /\ entries'[cursor + 1].request = text
           /\ \A k \in DOMAIN entries : entries'[k].id = entries[k].id
           /\ \A k \in DOMAIN entries : k # cursor + 1 => entries'[k] = entries[k]
           /\ allEntries' = allEntries \/ allEntries' = entries'
<1>. DEFINE k == cursor + 1
            e == [entries[k] EXCEPT !.request = text]
<1>1. k \in DOMAIN entries /\ entries[k] \in Entry /\ entries \in Seq(Entry)
  BY CurrentIsSelected DEF Selected, ListsInv
<1>2. /\ e \in Entry /\ e.id = entries[k].id /\ e.flagged = entries[k].flagged /\ e.request = text
      /\ e.sending = entries[k].sending /\ e.response = entries[k].response
      /\ [e EXCEPT !.request = Original(e.id)] = [entries[k] EXCEPT !.request = Original(entries[k].id)]
  BY <1>1 DEF Entry
<1>3. /\ entries' = [entries EXCEPT ![k] = e]
      /\ allEntries' = IF Filtered THEN allEntries ELSE entries'
      /\ cursor' = cursor
  BY DEF SetRequest
<1>. HIDE DEF k, e
<1>4. /\ entries' \in Seq(Entry) /\ Len(entries') = Len(entries) /\ DOMAIN entries' = DOMAIN entries
      /\ entries'[k] = e /\ \A l \in DOMAIN entries : l # k => entries'[l] = entries[l]
  BY <1>1, <1>2, <1>3
<1>5. \A l \in DOMAIN entries : entries'[l].id = entries[l].id
  BY <1>2, <1>4
<1>6. Filtered' = Filtered /\ UNCHANGED <<filterMode, term, rows, lastId>>
  BY DEF Filtered, filterVars, tableVars
<1>7. CASE Filtered
  <2>1. UNCHANGED allEntries /\ SameIds
    BY <1>3, <1>7 DEF SameIds
  <2>. DEFINE shown == Kept(allEntries, MatchingSet(allEntries))
              Unedited(x) == [x EXCEPT !.request = Original(x.id)]
  <2>2. shown' = shown
    BY <1>6, <2>1 DEF MatchingSet
  <2>3. Len(entries) = Len(shown) /\ \A l \in DOMAIN shown : Unedited(entries[l]) = Unedited(shown[l])
    BY <1>7 DEF ListsInv, ViewMatchesList
  <2>4. DOMAIN shown = DOMAIN entries
    <3>1. MatchingSet(allEntries) \in SUBSET DOMAIN allEntries
      BY DEF MatchingSet
    <3>2. shown \in Seq(Entry)
      BY <3>1, SomePositions DEF ListsInv
    <3>. HIDE DEF shown
    <3> QED  BY <1>1, <2>3, <3>2
  <2>5. Unedited(entries'[k]) = Unedited(entries[k])
    BY <1>2, <1>4
  <2>. HIDE DEF Unedited, shown
  <2>6. \A l \in DOMAIN shown : Unedited(entries'[l]) = Unedited(shown[l])
    BY <1>4, <2>3, <2>4, <2>5
  <2>7. Len(entries') = Len(shown)
    BY <1>4, <2>3
  <2>8. ViewMatchesList'
    BY <1>6, <1>7, <2>2, <2>6, <2>7 DEF ViewMatchesList, shown, Unedited
  <2>9. ListsInv'
    BY <1>3, <1>4, <1>6, <2>1, <2>8 DEF ListsInv
  <2> QED  BY <1>2, <1>3, <1>4, <1>5, <2>1, <2>9 DEF k
<1>8. CASE ~Filtered
  <2>1. entries = allEntries
    <3>1. Len(entries) = Len(allEntries) /\ \A l \in DOMAIN allEntries : entries[l] = allEntries[l]
      BY <1>8 DEF ListsInv, ViewMatchesList
    <3> QED  BY <3>1 DEF ListsInv
  <2>2. allEntries' = entries'
    BY <1>3, <1>8
  <2>3. Agrees(e, rows)
    <3>1. Agrees(entries[k], rows)
      BY <1>1, <2>1 DEF ListsInv, InSync
    <3> QED  BY <1>2, <3>1 DEF Agrees
  <2>4. InSync(entries', rows)
    BY <1>1, <1>2, <1>3, <2>1, <2>3, SyncChange DEF ListsInv
  <2>5. ViewMatchesList'
    BY <1>6, <1>8, <2>2 DEF ViewMatchesList
  <2>6. ListsInv'
    BY <1>3, <1>4, <1>6, <2>2, <2>4, <2>5 DEF ListsInv
  <2>7. SameIds
    BY <1>4, <1>5, <2>1, <2>2 DEF SameIds
  <2> QED  BY <1>2, <1>3, <1>4, <1>5, <2>2, <2>6, <2>7 DEF k
<1> QED  BY <1>7, <1>8

LEMMA ListsUnchanged ==
    ASSUME ListsInv, UNCHANGED <<allEntries, entries, rows, lastId, term>>,
           filterMode' = "off" => filterMode = "off", filterMode = "off" => term = NoTerm,
           ValidCursor(cursor', Len(entries))
    PROVE  ListsInv'
<1>1. Filtered' = Filtered
  BY DEF Filtered, ListsInv
<1>2. UNCHANGED MatchingSet(allEntries)
  BY DEF MatchingSet
<1>3. ViewMatchesList'
  BY <1>1, <1>2 DEF ListsInv, ViewMatchesList
<1> QED  BY <1>3 DEF ListsInv

\* An entry is written, and its row if need be.
LEMMA EntryWritten ==
    ASSUME ListsInv, NEW i \in DOMAIN allEntries, NEW e \in Entry, e.id = allEntries[i].id,
           allEntries' = [allEntries EXCEPT ![i] = e],
           DOMAIN rows' = DOMAIN rows, Agrees(e, rows'), rows'[e.id] \in Row,
           \A id \in DOMAIN rows : id # e.id => rows'[id] = rows[id],
           UNCHANGED <<filterVars, lastId>>, NEW prefer \in Int, ApplyFilter(prefer)
    PROVE  ListsInv' /\ SameIds
<1>1. /\ InSync(allEntries', rows') /\ SameIds
      /\ allEntries' \in Seq(Entry)
  BY SyncChange DEF ListsInv, SameIds
<1>2. IsTable(rows', lastId')
  BY DEF ListsInv, IsTable
<1>3. ApplyFilterFrom(cursor, prefer) /\ cursor \in Nat
  BY DEF ApplyFilter, ListsInv, ValidCursor
<1> QED  BY <1>1, <1>2, <1>3, ListsFiltered DEF ListsInv, filterVars

\* The answer is written to the entry at the index, and to its row.
LEMMA SentKeeps ==
    ASSUME PageInv, NEW sent \in BagToSet(inFlight), SentMsg(sent)
    PROVE  /\ ListsInv' /\ SameIds /\ DOMAIN rows' = DOMAIN rows
           /\ \A i \in DOMAIN allEntries : allEntries'[i].request = allEntries[i].request
           /\ \A id \in DOMAIN rows :
                \/ rows'[id] = rows[id]
                \/ \E i \in DOMAIN allEntries :
                     /\ i = sent.index + 1 /\ id = allEntries[i].id
                     /\ rows'[id].response.by = sent.by
                     /\ rows'[id].request = allEntries[i].request
<1>0. ListsInv /\ sent \in [index : Nat, by : Id, to : Text] /\ CurrentAllIdx \in Int
  BY CurrentIsNumber DEF PageInv, MessagesInv
<1>1. UNCHANGED <<filterVars, lastId>> /\ ApplyFilter(CurrentAllIdx)
  BY DEF SentMsg
<1>2. CASE sent.index < Len(allEntries)
  <2>. DEFINE i == sent.index + 1
              e == [allEntries[i] EXCEPT !.sending = FALSE, !.response = [by |-> sent.by, to |-> sent.to]]
  <2>1. i \in DOMAIN allEntries
    <3>1. PICK n \in Nat : n = sent.index
      BY <1>0
    <3>2. Len(allEntries) \in Nat /\ DOMAIN allEntries = 1 .. Len(allEntries)
      BY <1>0, ListDomain DEF ListsInv
    <3> QED  BY <1>2, <3>1, <3>2
  <2>2. allEntries[i] \in Entry /\ allEntries[i].id \in DOMAIN rows
    BY <1>0, <2>1, ListDomain DEF ListsInv, InSync, Covers
  <2>3. [by |-> sent.by, to |-> sent.to] \in Response
    BY <1>0 DEF Response
  <2>4. e \in Entry /\ e.id = allEntries[i].id /\ e.flagged = allEntries[i].flagged
    BY <2>2, <2>3 DEF Entry
  <2>5. allEntries' = [allEntries EXCEPT ![i] = e] /\ rows' = [rows EXCEPT ![e.id] = ToRow(e)]
    BY <1>2 DEF SentMsg
  <2>6. ToRow(e) \in Row /\ ToRow(e).flagged = e.flagged /\ ToRow(e).response = e.response
    BY <2>4 DEF ToRow, Row, Entry
  <2>7. /\ e.request = allEntries[i].request
        /\ ToRow(e).request = allEntries[i].request /\ ToRow(e).response.by = sent.by
    BY <2>2 DEF ToRow, Entry
  <2>. HIDE DEF e, i
  <2>8. /\ DOMAIN rows' = DOMAIN rows /\ rows'[e.id] = ToRow(e)
        /\ \A id \in DOMAIN rows : id # e.id => rows'[id] = rows[id]
    BY <2>2, <2>4, <2>5
  <2>9. Agrees(e, rows')
    BY <2>6, <2>8 DEF Agrees
  <2>10. ListsInv' /\ SameIds
    BY <1>0, <1>1, <2>1, <2>4, <2>5, <2>6, <2>8, <2>9, EntryWritten
  <2>11. \A j \in DOMAIN allEntries : allEntries'[j].request = allEntries[j].request
    BY <2>5, <2>7
  <2>12. \A id \in DOMAIN rows :
           \/ rows'[id] = rows[id]
           \/ /\ id = allEntries[i].id /\ rows'[id].response.by = sent.by
              /\ rows'[id].request = allEntries[i].request
    BY <2>4, <2>7, <2>8
  <2> QED  BY <2>1, <2>8, <2>10, <2>11, <2>12 DEF i
<1>3. CASE ~(sent.index < Len(allEntries))
  <2>1. UNCHANGED <<allEntries, rows>>
    BY <1>3 DEF SentMsg
  <2>2. ApplyFilterFrom(cursor, CurrentAllIdx) /\ cursor \in Nat
    BY <1>0, <1>1 DEF ApplyFilter, ListsInv, ValidCursor
  <2>3. ListsInv'
    BY <1>0, <1>1, <2>1, <2>2, ListsFiltered DEF ListsInv, filterVars
  <2> QED  BY <2>1, <2>3 DEF SameIds
<1> QED  BY <1>2, <1>3

LEMMA SendKeeps ==
    ASSUME PageInv, Send
    PROVE  /\ ListsInv' /\ SameIds
           /\ CurrentAllIdx + 1 \in DOMAIN allEntries
           /\ \A i \in DOMAIN allEntries : allEntries'[i].request = allEntries[i].request
<1>. DEFINE i == CurrentAllIdx + 1
            e == [allEntries[i] EXCEPT !.sending = TRUE, !.response = NoResponse]
<1>0. ListsInv /\ CurrentAllIdx \in Int
  BY CurrentIsNumber DEF PageInv
<1>1. i \in DOMAIN allEntries /\ allEntries[i] \in Entry
  BY <1>0, CurrentIsSelected DEF Send, OnEntry
<1>2. /\ e \in Entry /\ e.id = allEntries[i].id /\ e.sending = TRUE
      /\ e.flagged = allEntries[i].flagged /\ e.request = allEntries[i].request
  BY <1>1 DEF Entry
<1>3. allEntries' = [allEntries EXCEPT ![i] = e] /\ ApplyFilter(CurrentAllIdx)
      /\ UNCHANGED <<filterVars, tableVars>>
  BY <1>1 DEF Send
<1>. HIDE DEF i, e
<1>4. Agrees(e, rows) /\ e.id \in DOMAIN rows
  BY <1>0, <1>1, <1>2 DEF ListsInv, InSync, Covers, Agrees
<1>5. rows[e.id] \in Row
  BY <1>0, <1>4 DEF ListsInv, IsTable
<1>6. ListsInv' /\ SameIds
  BY <1>0, <1>1, <1>2, <1>3, <1>4, <1>5, EntryWritten DEF tableVars
<1>7. \A j \in DOMAIN allEntries : allEntries'[j].request = allEntries[j].request
  BY <1>2, <1>3
<1> QED  BY <1>1, <1>6, <1>7 DEF i

LEMMA FlagKeeps ==
    ASSUME PageInv, Flag
    PROVE  /\ ListsInv' /\ SameIds /\ DOMAIN rows' = DOMAIN rows
           /\ \A i \in DOMAIN allEntries : allEntries'[i].request = allEntries[i].request
           /\ \A id \in DOMAIN rows : /\ rows'[id].request = rows[id].request
                                      /\ rows'[id].response = rows[id].response
<1>. DEFINE i == CurrentAllIdx + 1
            e == [allEntries[i] EXCEPT !.flagged = ~@]
            r == [rows[e.id] EXCEPT !.flagged = ~@]
<1>0. ListsInv /\ CurrentAllIdx \in Int
  BY CurrentIsNumber DEF PageInv
<1>1. i \in DOMAIN allEntries /\ allEntries[i] \in Entry /\ allEntries[i].id \in DOMAIN rows
  BY <1>0, CurrentIsSelected DEF Flag, OnEntry, ListsInv, InSync, Covers
<1>2. rows[allEntries[i].id] \in Row
  BY <1>0, <1>1 DEF ListsInv, IsTable
<1>3. /\ e \in Entry /\ e.id = allEntries[i].id /\ e.sending = allEntries[i].sending
      /\ e.flagged = ~allEntries[i].flagged /\ e.request = allEntries[i].request
      /\ e.response = allEntries[i].response
  BY <1>1 DEF Entry
<1>4. /\ r \in Row /\ r.flagged = ~rows[e.id].flagged /\ r.request = rows[e.id].request
      /\ r.response = rows[e.id].response
  BY <1>2, <1>3 DEF Row
<1>5. /\ allEntries' = [allEntries EXCEPT ![i] = e] /\ ApplyFilter(CurrentAllIdx)
      /\ rows' = [rows EXCEPT ![e.id] = r] /\ UNCHANGED <<filterVars, lastId>>
  BY <1>1, <1>3 DEF Flag
<1>6. Agrees(allEntries[i], rows)
  BY <1>0, <1>1 DEF ListsInv, InSync
<1>. HIDE DEF i, e, r
<1>7. /\ DOMAIN rows' = DOMAIN rows /\ rows'[e.id] = r
      /\ \A id \in DOMAIN rows : id # e.id => rows'[id] = rows[id]
  BY <1>1, <1>3, <1>5
<1>8. Agrees(e, rows')
  BY <1>3, <1>4, <1>6, <1>7 DEF Agrees
<1>9. ListsInv' /\ SameIds
  BY <1>0, <1>1, <1>3, <1>4, <1>5, <1>7, <1>8, EntryWritten
<1>10. \A j \in DOMAIN allEntries : allEntries'[j].request = allEntries[j].request
  BY <1>3, <1>5
<1>11. \A id \in DOMAIN rows : rows'[id].request = rows[id].request /\ rows'[id].response = rows[id].response
  BY <1>4, <1>7
<1> QED  BY <1>7, <1>9, <1>10, <1>11

LEMMA ArrivalKeeps ==
    ASSUME PageInv, SendToReplayMsg
    PROVE  /\ ListsInv'
           /\ allEntries' = Append(allEntries, NewEntry(lastId + 1))
           /\ NewEntry(lastId + 1) \in Entry /\ ~NewEntry(lastId + 1).sending
           /\ DOMAIN rows' = DOMAIN rows \cup {lastId + 1} /\ lastId + 1 \notin DOMAIN rows
           /\ rows'[lastId + 1] = ToRow(NewEntry(lastId + 1))
           /\ \A id \in DOMAIN rows : rows'[id] = rows[id]
<1>. DEFINE n == lastId + 1
            e == NewEntry(n)
<1>0. ListsInv /\ lastId \in Nat /\ MaxEntries \in Nat /\ lastId < MaxEntries
  BY ReplayAssumption DEF PageInv, MessagesInv, ListsInv, IsTable, SendToReplayMsg
<1>1. n \in Id /\ e \in Entry /\ e.id = n /\ ~e.sending /\ e.response = NoResponse /\ e.flagged = FALSE
  <2>1. n \in Id
    BY <1>0 DEF Id
  <2>2. Original(n) \in Text
    BY <2>1 DEF Original, Text
  <2> QED  BY <2>1, <2>2 DEF NewEntry, Entry
<1>2. ToRow(e) \in Row /\ ToRow(e).flagged = e.flagged /\ ToRow(e).response = e.response
  BY <1>1 DEF ToRow, Row, Entry
<1>3. DOMAIN rows \subseteq 1 .. lastId /\ n \notin DOMAIN rows
  BY <1>0 DEF ListsInv, IsTable
<1>4. /\ lastId' = n /\ allEntries' = Append(allEntries, e)
      /\ rows' = [id \in DOMAIN rows \cup {n} |-> IF id = n THEN ToRow(NewEntry(id)) ELSE rows[id]]
      /\ ApplyFilterFrom(cursor, Len(allEntries)) /\ UNCHANGED filterVars
  BY DEF SendToReplayMsg, ApplyFilter
<1>5. /\ DOMAIN rows' = DOMAIN rows \cup {n} /\ rows'[n] = ToRow(e)
      /\ \A id \in DOMAIN rows : rows'[id] = rows[id]
  BY <1>3, <1>4
<1>. HIDE DEF e
<1>6. Agrees(e, rows')
  BY <1>1, <1>2, <1>5 DEF Agrees
<1>7. allEntries \in Seq(Entry) /\ allEntries' \in Seq(Entry) /\ Len(allEntries) \in Nat /\ cursor \in Nat
  BY <1>0, <1>1, <1>4 DEF ListsInv, ValidCursor
<1>8. InSync(allEntries', rows')
  <2>1. InSync(allEntries, rows)
    BY <1>0 DEF ListsInv
  <2>2. InSync(Append(allEntries, e), rows')
    BY <1>0, <1>1, <1>3, <1>5, <1>6, <1>7, <2>1, SyncAppend
  <2> QED  BY <1>4, <2>2
<1>9. IsTable(rows', lastId')
  <2>1. n \in 0 .. MaxEntries /\ DOMAIN rows' \subseteq 1 .. n
    BY <1>0, <1>3, <1>5
  <2>2. \A id \in DOMAIN rows' : rows'[id] \in Row
    BY <1>0, <1>2, <1>5 DEF ListsInv, IsTable
  <2> QED  BY <1>4, <2>1, <2>2 DEF IsTable
<1>10. ListsInv'
  <2>1. filterMode' = "off" => term' = NoTerm
    BY <1>0, <1>4 DEF ListsInv, filterVars
  <2>2. Len(allEntries) \in Int
    BY <1>7
  <2> QED  BY <1>4, <1>7, <1>8, <1>9, <2>1, <2>2, ListsFiltered
<1> QED  BY <1>1, <1>3, <1>4, <1>5, <1>10 DEF e

LEMMA DeleteKeeps ==
    ASSUME PageInv, Delete
    PROVE  /\ ListsInv'
           /\ DOMAIN rows' \subseteq DOMAIN rows /\ DOMAIN rows' # DOMAIN rows
           /\ \A id \in DOMAIN rows' : rows'[id] = rows[id]
           /\ ToSet(allEntries') \subseteq ToSet(allEntries)
<1>. DEFINE n == CurrentAllIdx + 1
            d == allEntries[n].id
<1>0. ListsInv /\ CurrentAllIdx \in Int
  BY CurrentIsNumber DEF PageInv
<1>1. /\ n \in DOMAIN allEntries /\ allEntries \in Seq(Entry)
      /\ DOMAIN allEntries = 1 .. Len(allEntries) /\ Len(allEntries) \in Nat
  BY <1>0, CurrentIsSelected DEF Delete, OnEntry, ListsInv
<1>2. d \in DOMAIN rows
  BY <1>0, <1>1 DEF ListsInv, InSync, Covers
<1>3. /\ rows' = Restrict(rows, DOMAIN rows \ {d}) /\ allEntries' = RemoveAt(allEntries, n)
      /\ UNCHANGED <<filterVars, lastId>>
  BY DEF Delete
<1>4. DOMAIN rows' = DOMAIN rows \ {d} /\ \A id \in DOMAIN rows' : rows'[id] = rows[id]
  BY <1>3 DEF Restrict
<1>. DEFINE last == Len(allEntries) - 1
            f == [k \in 1 .. last |-> IF k < n THEN k ELSE k + 1]
<1>. HIDE DEF n, d
<1>5. /\ allEntries' \in Seq(Entry) /\ Len(allEntries') = last
      /\ \A k \in 1 .. last : allEntries'[k] = IF k < n THEN allEntries[k] ELSE allEntries[k + 1]
  BY <1>1, <1>3, RemovedType
<1>6. DOMAIN allEntries' = 1 .. last /\ last \in Nat
  BY <1>1, <1>5
<1>7. \A k \in 1 .. last : f[k] \in DOMAIN allEntries /\ allEntries'[k] = allEntries[f[k]]
  <2>. SUFFICES ASSUME NEW k \in 1 .. last PROVE f[k] \in DOMAIN allEntries /\ allEntries'[k] = allEntries[f[k]]
    OBVIOUS
  <2>1. CASE k < n
    BY <1>1, <1>5, <2>1
  <2>2. CASE ~(k < n)
    BY <1>1, <1>5, <2>2
  <2> QED  BY <2>1, <2>2
<1>8. \A k, l \in 1 .. last : k < l => f[k] < f[l]
  BY <1>1
<1>9. \A i \in DOMAIN allEntries : allEntries[i].id \in DOMAIN rows' <=> \E k \in 1 .. last : f[k] = i
  <2>. SUFFICES ASSUME NEW i \in DOMAIN allEntries
                PROVE  allEntries[i].id \in DOMAIN rows' <=> \E k \in 1 .. last : f[k] = i
    OBVIOUS
  <2>1. allEntries[i].id \in DOMAIN rows' <=> i # n
    <3>1. allEntries[i].id \in DOMAIN rows
      BY <1>0 DEF ListsInv, InSync, Covers
    <3>2. i # n => allEntries[i].id # d
      BY <1>0, <1>1, IdsDiffer DEF d, ListsInv, InSync
    <3> QED  BY <1>4, <3>1, <3>2 DEF d
  <2>2. CASE i < n
    <3>1. i \in 1 .. last /\ f[i] = i
      BY <1>1, <2>2
    <3> QED  BY <1>1, <2>1, <2>2, <3>1
  <2>3. CASE n < i
    <3>1. i - 1 \in 1 .. last /\ f[i - 1] = i
      BY <1>1, <2>3
    <3> QED  BY <1>1, <2>1, <2>3, <3>1
  <2>4. CASE i = n
    <3>1. \A k \in 1 .. last : f[k] # n
      BY <1>1
    <3> QED  BY <2>1, <2>4, <3>1
  <2> QED  BY <1>1, <2>2, <2>3, <2>4
<1>10. InSync(allEntries', rows')
  <2>1. DOMAIN f = DOMAIN allEntries' /\ DOMAIN allEntries' \subseteq Nat
    BY <1>6
  <2>. HIDE DEF f
  <2>2. InSync(allEntries, rows) /\ DOMAIN rows' \subseteq DOMAIN rows
    BY <1>0, <1>4 DEF ListsInv
  <2>3. Selects(f, allEntries', allEntries)
    BY <1>6, <1>7, <1>8, <2>1 DEF Selects
  <2>4. RowsSelected(f, allEntries, rows', rows)
    BY <1>4, <1>6, <1>9, <2>1, <2>2 DEF RowsSelected
  <2> QED  BY <1>1, <2>2, <2>3, <2>4, SyncSelect
<1>11. IsTable(rows', lastId')
  BY <1>0, <1>3, <1>4 DEF ListsInv, IsTable
<1>12. PICK prefer \in Int : ApplyFilterFrom(cursor, prefer)
  BY <1>0, <1>6, <1>5 DEF Delete, ApplyFilter
<1>13. ListsInv'
  BY <1>0, <1>3, <1>5, <1>10, <1>11, <1>12, ListsFiltered DEF ListsInv, ValidCursor, filterVars
<1>14. ToSet(allEntries') \subseteq ToSet(allEntries)
  <2>. HIDE DEF f
  <2> QED  BY <1>6, <1>7 DEF ToSet
<1> QED  BY <1>2, <1>4, <1>13, <1>14

\* The flagged entries stay, and the flagged rows.
LEMMA DeleteAllKeeps ==
    ASSUME PageInv, DeleteAll
    PROVE  /\ ListsInv'
           /\ DOMAIN rows' \subseteq DOMAIN rows /\ (DOMAIN rows' = DOMAIN rows => entries = <<>>)
           /\ \A id \in DOMAIN rows' : rows'[id] = rows[id]
           /\ ToSet(allEntries') \subseteq ToSet(allEntries)
<1>. DEFINE P == {i \in DOMAIN allEntries : allEntries[i].flagged}
            R == {id \in DOMAIN rows : rows[id].flagged}
            f == IF P = DOMAIN allEntries THEN <<>> ELSE Ascending(P)
<1>0. /\ ListsInv /\ allEntries \in Seq(Entry) /\ InSync(allEntries, rows)
      /\ DOMAIN allEntries = 1 .. Len(allEntries) /\ Len(allEntries) \in Nat
  BY ListDomain DEF PageInv, ListsInv
<1>1. \A i \in DOMAIN allEntries : allEntries[i].id \in DOMAIN rows
                                   /\ allEntries[i].flagged = rows[allEntries[i].id].flagged
  BY <1>0 DEF InSync, Covers, Agrees
<1>2. P = DOMAIN allEntries <=> R = DOMAIN rows
  <2>1. \A id \in DOMAIN rows : \E i \in DOMAIN allEntries : allEntries[i].id = id
    BY <1>0 DEF InSync, Covers
  <2> QED  BY <1>1, <2>1
<1>3. /\ rows' = ExceptFlagged(rows)
      /\ allEntries' = IF \E e \in ToSet(allEntries) : ~e.flagged THEN Kept(allEntries, P) ELSE <<>>
      /\ filterMode' = "off" /\ term' = NoTerm /\ lastId' = lastId
      /\ ApplyFilterFrom(0, -1)
  BY DEF DeleteAll
<1>4. (\E e \in ToSet(allEntries) : ~e.flagged) <=> P # DOMAIN allEntries
  BY DEF ToSet
<1>5. /\ P = DOMAIN allEntries => DOMAIN rows' = {}
      /\ P # DOMAIN allEntries => DOMAIN rows' = R
      /\ \A id \in DOMAIN rows' : rows'[id] = rows[id]
  <2>1. rows' = IF R = DOMAIN rows THEN <<>> ELSE Restrict(rows, R)
    BY <1>3 DEF ExceptFlagged
  <2>2. DOMAIN <<>> = {}
    OBVIOUS
  <2>. HIDE DEF P, R
  <2> QED  BY <1>2, <2>1, <2>2 DEF Restrict
<1>6. P \in SUBSET DOMAIN allEntries
  OBVIOUS
<1>7. /\ DOMAIN Ascending(P) = 1 .. Len(Ascending(P)) /\ Len(Ascending(P)) \in Nat
      /\ \A k \in DOMAIN Ascending(P) : Ascending(P)[k] \in P
      /\ \A k, l \in DOMAIN Ascending(P) : k < l => Ascending(P)[k] < Ascending(P)[l]
      /\ \A i \in P : \E k \in DOMAIN Ascending(P) : Ascending(P)[k] = i
      /\ Kept(allEntries, P) = [k \in DOMAIN Ascending(P) |-> allEntries[Ascending(P)[k]]]
      /\ Kept(allEntries, P) \in Seq(Entry)
  <2>. HIDE DEF P
  <2> QED  BY <1>0, <1>6, SomePositions
<1>8. /\ allEntries' \in Seq(Entry)
      /\ Selects(f, allEntries', allEntries)
      /\ RowsSelected(f, allEntries, rows', rows)
  <2>1. CASE P = DOMAIN allEntries
    <3>1. allEntries' = <<>> /\ f = <<>> /\ DOMAIN rows' = {}
      BY <1>3, <1>4, <1>5, <2>1
    <3>2. DOMAIN <<>> = {} /\ <<>> \in Seq(Entry)
      OBVIOUS
    <3>. HIDE DEF f
    <3> QED  BY <3>1, <3>2 DEF Selects, RowsSelected
  <2>2. CASE P # DOMAIN allEntries
    <3>1. allEntries' = Kept(allEntries, P) /\ f = Ascending(P) /\ DOMAIN rows' = R
      BY <1>3, <1>4, <1>5, <2>2
    <3>. HIDE DEF f
    <3>2. /\ DOMAIN allEntries' = DOMAIN f /\ DOMAIN f \subseteq Nat
          /\ \A k \in DOMAIN f : f[k] \in P /\ allEntries'[k] = allEntries[f[k]]
          /\ \A k, l \in DOMAIN f : k < l => f[k] < f[l]
          /\ \A i \in P : \E k \in DOMAIN f : f[k] = i
      <4>1. allEntries' = [k \in DOMAIN f |-> allEntries[f[k]]]
        BY <1>7, <3>1, Zenon
      <4>2. DOMAIN f \subseteq Nat
        <5>1. DOMAIN f = 1 .. Len(f)
          BY <1>7, <3>1, Zenon
        <5> QED  BY <5>1
      <4>3. /\ \A k \in DOMAIN f : f[k] \in P
            /\ \A k, l \in DOMAIN f : k < l => f[k] < f[l]
            /\ \A i \in P : \E k \in DOMAIN f : f[k] = i
        BY <1>7, <3>1, Zenon
      <4>. HIDE DEF P
      <4> QED  BY <4>1, <4>2, <4>3
    <3>3. allEntries' \in Seq(Entry)
      BY <1>7, <3>1
    <3>4. Selects(f, allEntries', allEntries)
      BY <1>6, <3>2 DEF Selects
    <3>5. \A i \in DOMAIN allEntries : i \in P <=> allEntries[i].id \in R
      BY <1>1
    <3>. HIDE DEF P
    <3>6. RowsSelected(f, allEntries, rows', rows)
      BY <1>5, <1>6, <3>1, <3>2, <3>5 DEF RowsSelected
    <3> QED  BY <3>3, <3>4, <3>6
  <2> QED  BY <2>1, <2>2
<1>. HIDE DEF f
<1>9. InSync(allEntries', rows')
  BY <1>0, <1>8, SyncSelect
<1>10. DOMAIN rows' \subseteq DOMAIN rows
  BY <1>8 DEF RowsSelected
<1>11. IsTable(rows', lastId')
  BY <1>0, <1>3, <1>5, <1>10 DEF ListsInv, IsTable
<1>12. ListsInv'
  BY <1>3, <1>8, <1>9, <1>11, ListsFiltered
<1>13. ToSet(allEntries') \subseteq ToSet(allEntries)
  BY <1>8 DEF ToSet, Selects
<1>14. ASSUME DOMAIN rows' = DOMAIN rows PROVE entries = <<>>
  <2>1. DOMAIN rows = {}
    BY <1>2, <1>5, <1>14
  <2>2. DOMAIN allEntries = {}
    BY <1>1, <2>1
  <2> QED  BY <1>0, <2>2, CurrentIsSelected
<1> QED  BY <1>5, <1>10, <1>12, <1>13, <1>14

LEMMA FilterKeeps ==
    ASSUME PageInv, TypeFilter \/ ClearFilter
    PROVE  ListsInv' /\ UNCHANGED <<allEntries, rows, lastId>> /\ ApplyFilter(CurrentAllIdx)
<1>0. ListsInv /\ CurrentAllIdx \in Int /\ cursor \in Nat
  BY CurrentIsNumber DEF PageInv, ListsInv, ValidCursor
<1>1. /\ UNCHANGED <<allEntries, rows, lastId>> /\ ApplyFilter(CurrentAllIdx)
      /\ filterMode' = "off" => term' = NoTerm
  BY DEF TypeFilter, ClearFilter, tableVars, FilterMode
<1> QED  BY <1>0, <1>1, ListsFiltered DEF ListsInv, ApplyFilter

LEMMA RestartKeeps ==
    ASSUME PageInv, Restart
    PROVE  /\ ListsInv' /\ UNCHANGED <<rows, lastId>>
           /\ \A i \in DOMAIN allEntries' : allEntries'[i].id \in DOMAIN rows
                                            /\ allEntries'[i].request = rows[allEntries'[i].id].request
<1>. DEFINE S == DOMAIN rows
            ids == Ascending(S)
            list == [i \in DOMAIN ids |-> FromRow(ids[i])]
<1>0. ListsInv /\ IsTable(rows, lastId)
  BY DEF PageInv, ListsInv
<1>1. S \in SUBSET Nat /\ IsFiniteSet(S) /\ Cardinality(S) \in Nat /\ S \subseteq Id
  <2>1. lastId \in Nat /\ S \in SUBSET (1 .. lastId) /\ S \subseteq Id
    BY <1>0, ReplayAssumption DEF IsTable, Id
  <2>. HIDE DEF S
  <2> QED  BY <2>1, IdsFinite
<1>2. /\ Start(ids) /\ UNCHANGED <<rows, lastId>>
  BY DEF Restart, tableVars
<1>3. /\ allEntries' = list /\ entries' = list
      /\ cursor' = IF list = <<>> THEN 0 ELSE Len(list) - 1
      /\ filterMode' = "off" /\ term' = NoTerm
  BY <1>2 DEF Start
<1>4. /\ DOMAIN ids = 1 .. Cardinality(S)
      /\ \A k \in DOMAIN ids : ids[k] \in S
      /\ \A k, l \in DOMAIN ids : k < l => ids[k] < ids[l]
      /\ \A id \in S : \E k \in DOMAIN ids : ids[k] = id
  <2>. HIDE DEF S
  <2>1. DOMAIN ids = 1 .. Cardinality(S) /\ \A k \in 1 .. Cardinality(S) : ids[k] = Kth(S, k)
    BY <1>1, AscendingType
  <2>2. \A k, l \in 1 .. Cardinality(S) : k < l => Kth(S, k) < Kth(S, l)
    BY <1>1, KthAscends
  <2>3. \A id \in S : \E k \in 1 .. Cardinality(S) : Kth(S, k) = id
    BY <1>1, KthReaches
  <2>4. \A k \in 1 .. Cardinality(S) : ids[k] \in S
    BY <1>1, <2>1, KthIn
  <2>. HIDE DEF ids
  <2> QED  BY <2>1, <2>2, <2>3, <2>4
<1>5. ASSUME NEW id \in S
      PROVE  /\ FromRow(id) \in Entry /\ FromRow(id).id = id /\ Agrees(FromRow(id), rows)
             /\ FromRow(id).request = rows[id].request
  <2>1. rows[id] \in Row /\ id \in Id
    BY <1>0, <1>1 DEF IsTable
  <2>2. FromRow(id) \in Entry
    BY <2>1 DEF FromRow, Entry, Row
  <2> QED  BY <2>2 DEF FromRow, Agrees
<1>. HIDE DEF ids, S
<1>6. DOMAIN list = DOMAIN ids /\ \A i \in DOMAIN ids : list[i] = FromRow(ids[i])
  OBVIOUS
<1>7. list \in Seq(Entry) /\ Len(list) = Cardinality(S)
  <2>1. list \in [1 .. Cardinality(S) -> Entry]
    BY <1>4, <1>5
  <2> QED  BY <1>1, <2>1
<1>. HIDE DEF list
<1>8. InSync(list, rows)
  BY <1>4, <1>5, <1>6 DEF InSync, Ascends, Covers, S
<1>9. ValidCursor(cursor', Len(list))
  BY <1>1, <1>3, <1>7 DEF ValidCursor
<1>10. ViewMatchesList'
  BY <1>3 DEF ViewMatchesList, Filtered
<1>11. ListsInv'
  BY <1>0, <1>2, <1>3, <1>7, <1>8, <1>9, <1>10 DEF ListsInv
<1>12. \A i \in DOMAIN allEntries' : allEntries'[i].id \in DOMAIN rows
                                     /\ allEntries'[i].request = rows[allEntries'[i].id].request
  BY <1>3, <1>4, <1>5, <1>6 DEF S
<1> QED  BY <1>2, <1>11, <1>12

\* A text that is written is that of the editor, the original or what was
\* typed.
LEMMA EditKeeps ==
    ASSUME PageInv, EditorFinished \/ UndoEdits \/ Escape
    PROVE  /\ ListsInv' /\ SameIds /\ UNCHANGED <<filterVars, tableVars>>
           /\ \/ UNCHANGED listVars
              \/ \E text \in Text : SetRequest(text) /\ entries # <<>>
<1>0. ListsInv
  BY DEF PageInv
<1>1. UNCHANGED <<filterVars, tableVars>>
  BY DEF EditorFinished, UndoEdits, Escape
<1>2. UNCHANGED listVars \/ \E text \in Text : SetRequest(text) /\ entries # <<>>
  <2>1. CASE EditorFinished
    BY <2>1 DEF EditorFinished, PageInv, MessagesInv
  <2>2. CASE UndoEdits
    <3>1. entries # <<>> /\ SetRequest(Original(Selected.id))
      BY <2>2 DEF UndoEdits, OnEntry
    <3>2. Selected.id \in Id
      BY <1>0, <3>1, CurrentIsSelected DEF Entry
    <3>3. Original(Selected.id) \in Text
      BY <3>2 DEF Original, Text
    <3> QED  BY <3>1, <3>3
  <2>3. CASE Escape
    BY <2>3 DEF Escape, EditMode, PageInv, MessagesInv
  <2> QED  BY <2>1, <2>2, <2>3
<1>3. CASE UNCHANGED listVars
  <2>1. UNCHANGED <<allEntries, entries, cursor, rows, lastId, term, filterMode>>
    BY <1>1, <1>3 DEF listVars, filterVars, tableVars
  <2>2. ListsInv'
    BY <1>0, <2>1, ListsUnchanged DEF ListsInv
  <2> QED  BY <1>1, <1>3, <2>1, <2>2 DEF SameIds
<1>4. ASSUME NEW text \in Text, SetRequest(text), entries # <<>> PROVE ListsInv' /\ SameIds
  BY <1>0, <1>1, <1>4, SetRequestKeeps
<1> QED  BY <1>1, <1>2, <1>3, <1>4

\* What else the page does leaves its lists alone.
Quiet ==
    \/ SendToReplayMsgLost
    \/ EditorFailed
    \/ QueueRequest
    \/ Edit
    \/ EditExternal
    \/ MoveCursor
    \/ Filter
    \/ AcceptFilter
    \/ Type
    \/ Navigate
    \/ UNCHANGED vars
    \/ \E id \in Id : \E sent \in SendsOf(id) : SentMsgLost(sent)

LEMMA MovesValid ==
    ASSUME NEW n \in Nat, cursor \in Nat, NEW c \in Moves(n)
    PROVE  ValidCursor(c, n)
<1>1. CASE c \in {cursor - 1, cursor + 1} \cap 0 .. (n - 1)
  <2>1. c \in 0 .. (n - 1)
    BY <1>1
  <2> QED  BY <2>1 DEF ValidCursor
<1>2. CASE c = 0
  BY <1>2 DEF ValidCursor
<1>3. CASE c = CursorGotoBottom(n)
  BY <1>3, GotoBottomValid
<1>4. ASSUME NEW forward \in BOOLEAN, c = CursorMovePage(cursor, n, PerPage, forward)
      PROVE  ValidCursor(c, n)
  <2>1. PerPage \in Int /\ cursor \in Int
    BY ReplayAssumption
  <2> QED  BY <1>4, <2>1, MovePageValid
<1> QED  BY <1>1, <1>2, <1>3, <1>4 DEF Moves

LEMMA QuietKeeps ==
    ASSUME PageInv, Quiet
    PROVE  /\ ListsInv' /\ SameIds /\ UNCHANGED <<allEntries, entries, rows, lastId, term>>
           /\ ~MoveCursor => UNCHANGED cursor
<1>0. ListsInv
  BY DEF PageInv
<1>1. /\ UNCHANGED <<allEntries, entries, rows, lastId, term>>
      /\ filterMode' = "off" => filterMode = "off"
      /\ cursor' = cursor \/ MoveCursor
  <2>1. CASE MoveCursor
    BY <2>1 DEF MoveCursor, filterVars, tableVars
  <2>2. CASE Filter \/ AcceptFilter
    BY <2>2 DEF Filter, AcceptFilter, listVars, tableVars
  <2>3. CASE SendToReplayMsgLost \/ EditorFailed \/ QueueRequest \/ Edit \/ EditExternal
    BY <2>3 DEF SendToReplayMsgLost, EditorFailed, QueueRequest, Edit, EditExternal,
                listVars, filterVars, tableVars
  <2>4. CASE Type \/ Navigate \/ UNCHANGED vars
    BY <2>4 DEF Type, Navigate, listVars, filterVars, tableVars, vars
  <2>5. ASSUME NEW sent, SentMsgLost(sent)
        PROVE  UNCHANGED <<allEntries, entries, rows, lastId, term, filterMode, cursor>>
    BY <2>5 DEF SentMsgLost, listVars, filterVars, tableVars
  <2> QED  BY <2>1, <2>2, <2>3, <2>4, <2>5 DEF Quiet
<1>2. ValidCursor(cursor', Len(entries))
  <2>1. CASE MoveCursor
    <3>1. cursor' \in Moves(Len(entries)) /\ Len(entries) \in Nat /\ cursor \in Nat
      BY <1>0, <2>1, ListDomain DEF MoveCursor, ListsInv, ValidCursor
    <3> QED  BY <3>1, MovesValid
  <2>2. CASE cursor' = cursor
    BY <1>0, <2>2 DEF ListsInv
  <2> QED  BY <1>1, <2>1, <2>2
<1>3. ListsInv'
  BY <1>0, <1>1, <1>2, ListsUnchanged DEF ListsInv
<1>4. SameIds
  BY <1>1 DEF SameIds
<1> QED  BY <1>1, <1>3, <1>4

\* The kinds of steps there are.
LEMMA Steps ==
    ASSUME [Next]_vars
    PROVE  \/ SendToReplayMsg
           \/ \E sent \in BagToSet(inFlight) : sent.by \in Id /\ SentMsg(sent)
           \/ Send
           \/ Flag
           \/ Delete
           \/ DeleteAll
           \/ TypeFilter \/ ClearFilter
           \/ EditorFinished \/ UndoEdits \/ Escape
           \/ Restart
           \/ Quiet
BY DEF Next, Messages, Keys, Deliver, SendsOf, Quiet

LEMMA ListsStep ==
    ASSUME PageInv, [Next]_vars
    PROVE  ListsInv'
<1>1. ASSUME NEW sent \in BagToSet(inFlight), SentMsg(sent) PROVE ListsInv'
  BY <1>1, SentKeeps
<1> QED
  BY <1>1, Steps, ArrivalKeeps, SendKeeps, FlagKeeps, DeleteKeeps, DeleteAllKeeps, FilterKeeps,
     EditKeeps, RestartKeeps, QuietKeeps
-----------------------------------------------------------------------------
(* What is typed and what is under way.                                    *)

LEMMA BagFacts ==
    ASSUME NEW bag, NEW x
    PROVE  /\ BagToSet(BagAdd(bag, x)) = BagToSet(bag) \cup {x}
           /\ BagToSet(BagRemove(bag, x)) \subseteq BagToSet(bag)
BY DEF BagToSet, BagAdd, BagRemove

LEMMA NoneInFlight == BagToSet(EmptyBag) = {}
BY DEF BagToSet, EmptyBag, SetToBag

\* What is sent is the entry under the cursor.
LEMMA SentBySelected ==
    ASSUME PageInv, Send
    PROVE  LET i == CurrentAllIdx + 1
               sent == [index |-> i - 1, by |-> allEntries[i].id, to |-> allEntries[i].request]
           IN  /\ sent \in [index : Nat, by : Id, to : Text]
               /\ sent.index + 1 = i
               /\ BagToSet(inFlight') = BagToSet(inFlight) \cup {sent}
<1>. DEFINE i == CurrentAllIdx + 1
            sent == [index |-> i - 1, by |-> allEntries[i].id, to |-> allEntries[i].request]
<1>1. CurrentAllIdx \in Nat /\ i \in DOMAIN allEntries /\ allEntries[i] \in Entry
  BY CurrentIsSelected DEF PageInv, Send, OnEntry
<1>2. i - 1 \in Nat /\ (i - 1) + 1 = i
  BY <1>1
<1>3. allEntries[i].id \in Id /\ allEntries[i].request \in Text
  BY <1>1 DEF Entry
<1>4. inFlight' = BagAdd(inFlight, sent)
  BY DEF Send
<1>5. BagToSet(inFlight') = BagToSet(inFlight) \cup {sent}
  BY <1>4, BagFacts
<1>. HIDE DEF i
<1> QED  BY <1>2, <1>3, <1>5 DEF i

LEMMA MessagesStep ==
    ASSUME PageInv, [Next]_vars
    PROVE  MessagesInv'
<1>0. ListsInv /\ MessagesInv
  BY DEF PageInv, MessagesInv
<1>. USE DEF listVars, filterVars, editVars, tableVars, messageVars
<1>1. CASE SendToReplayMsg
  BY <1>0, <1>1 DEF SendToReplayMsg, MessagesInv
<1>2. ASSUME NEW sent, SentMsg(sent) \/ SentMsgLost(sent) PROVE MessagesInv'
  <2>1. /\ UNCHANGED <<filterMode, term, editing, textarea, editorResult, queued, lastId, screen>>
        /\ inFlight' = BagRemove(inFlight, sent)
    BY <1>2 DEF SentMsg, SentMsgLost
  <2>2. BagToSet(inFlight') \subseteq BagToSet(inFlight)
    BY <2>1, BagFacts
  <2> QED  BY <1>0, <2>1, <2>2 DEF MessagesInv
<1>3. CASE Send
  <2>1. UNCHANGED <<filterMode, term, editing, textarea, editorResult, queued, lastId, screen>>
    BY <1>3 DEF Send
  <2>2. BagToSet(inFlight)' \subseteq [index : Nat, by : Id, to : Text]
    BY <1>0, <1>3, SentBySelected DEF MessagesInv
  <2> QED  BY <1>0, <2>1, <2>2 DEF MessagesInv
<1>4. CASE Flag \/ Delete \/ DeleteAll
  BY <1>0, <1>4 DEF Flag, Delete, DeleteAll, MessagesInv
<1>5. CASE TypeFilter \/ ClearFilter
  BY <1>0, <1>5 DEF TypeFilter, ClearFilter, MessagesInv
<1>6. CASE EditorFinished \/ UndoEdits \/ Escape
  <2>1. CASE EditorFinished
    BY <1>0, <2>1 DEF EditorFinished, MessagesInv
  <2>2. CASE UndoEdits
    BY <1>0, <2>2 DEF UndoEdits, MessagesInv
  <2>3. CASE Escape
    BY <1>0, <2>3 DEF Escape, MessagesInv
  <2> QED  BY <1>6, <2>1, <2>2, <2>3
<1>7. CASE Restart
  BY <1>0, <1>7, NoneInFlight DEF Restart, Start, MessagesInv
<1>8. CASE Quiet
  <2>1. CASE SendToReplayMsgLost \/ EditorFailed \/ QueueRequest
    <3>1. CASE SendToReplayMsgLost
      BY <1>0, <3>1 DEF SendToReplayMsgLost, MessagesInv
    <3>2. CASE EditorFailed
      BY <1>0, <3>2 DEF EditorFailed, MessagesInv
    <3>3. CASE QueueRequest
      BY <1>0, <3>3 DEF QueueRequest, MessagesInv
    <3> QED  BY <2>1, <3>1, <3>2, <3>3
  <2>2. CASE Edit
    <3>1. Selected.request \in Text
      BY <1>0, <2>2, CurrentIsSelected DEF Edit, OnEntry, Entry
    <3> QED  BY <1>0, <2>2, <3>1 DEF Edit, MessagesInv
  <2>3. CASE EditExternal
    <3>1. Selected.request \in Text
      BY <1>0, <2>3, CurrentIsSelected DEF EditExternal, OnEntry, Entry
    <3>2. \A d \in Drafts : [Selected.request EXCEPT !.says = d] \in Text
      BY <3>1 DEF Text
    <3> QED  BY <1>0, <2>3, <3>1, <3>2 DEF EditExternal, MessagesInv
  <2>4. CASE MoveCursor \/ Filter \/ AcceptFilter
    BY <1>0, <2>4 DEF MoveCursor, Filter, AcceptFilter, MessagesInv
  <2>5. CASE Type
    <3>1. PICK d \in Drafts : textarea' = [textarea EXCEPT !.says = d]
      BY <2>5 DEF Type
    <3>2. textarea \in Text
      BY <1>0, <2>5 DEF Type, EditMode, MessagesInv
    <3>3. textarea' \in Text
      BY <3>1, <3>2 DEF Text
    <3> QED  BY <1>0, <2>5, <3>3 DEF Type, MessagesInv
  <2>6. CASE Navigate
    BY <1>0, <2>6 DEF Navigate, MessagesInv
  <2>7. CASE UNCHANGED vars
    BY <1>0, <2>7 DEF vars, MessagesInv
  <2> QED  BY <1>2, <1>8, <2>1, <2>2, <2>3, <2>4, <2>5, <2>6, <2>7 DEF Quiet
<1> QED  BY <1>1, <1>2, <1>3, <1>4, <1>5, <1>6, <1>7, <1>8, Steps

LEMMA InitialPage == Init => PageInv
<1>. SUFFICES ASSUME Init PROVE PageInv
  OBVIOUS
<1>1. <<>> \in Seq(Entry) /\ Len(<<>>) = 0 /\ DOMAIN <<>> = {}
  OBVIOUS
<1>2. IsTable(<<>>, 0)
  BY <1>1, ReplayAssumption DEF IsTable
<1>3. InSync(<<>>, <<>>)
  BY <1>1 DEF InSync, Ascends, Covers
<1>4. ViewMatchesList
  BY DEF Init, ViewMatchesList, Filtered
<1>5. ListsInv
  BY <1>1, <1>2, <1>3, <1>4 DEF Init, ListsInv, ValidCursor
<1>6. MessagesInv
  BY NoneInFlight DEF Init, MessagesInv
<1> QED  BY <1>5, <1>6 DEF PageInv

\* The lists of the page, its table and what is under way, as above.
THEOREM PageInvariance == Spec => []PageInv
<1>1. Init => PageInv
  BY InitialPage
<1>2. PageInv /\ [Next]_vars => PageInv'
  BY ListsStep, MessagesStep DEF PageInv
<1> QED  BY <1>1, <1>2, PTL DEF Spec

\* Every variable of the page keeps its type, and the cursor is in the list
\* that is shown, for any deletions, filters and arrivals.
THEOREM TypeCorrect == Spec => []TypeOK
<1>1. PageInv => TypeOK
  BY DEF PageInv, ListsInv, MessagesInv, IsTable, TypeOK
<1> QED  BY <1>1, PageInvariance, PTL

\* The table, the list and what the filter shows of it never part.
THEOREM ListsCorrect == Spec => []ListsAgree
<1>1. PageInv => ListsAgree
  BY SyncMirrors DEF PageInv, ListsInv, ListsAgree
<1> QED  BY <1>1, PageInvariance, PTL
-----------------------------------------------------------------------------
(* Answers.                                                                *)

\* The response stored for an entry answers a send of that entry, unless
\* entries are deleted: then the indices that the sends name move.
OwnInv == PageInv /\ SendsNameTheirEntry /\ ResponseOfOwnRequest

LEMMA SendsStillNamed ==
    ASSUME SendsNameTheirEntry, BagToSet(inFlight') \subseteq BagToSet(inFlight),
           \A i \in DOMAIN allEntries : i \in DOMAIN allEntries' /\ allEntries'[i].id = allEntries[i].id
    PROVE  SendsNameTheirEntry'
BY DEF SendsNameTheirEntry

LEMMA OwnStep ==
    ASSUME OwnInv, ~Deletions, [Next]_vars
    PROVE  SendsNameTheirEntry' /\ ResponseOfOwnRequest'
<1>0. PageInv /\ ListsInv /\ SendsNameTheirEntry /\ ResponseOfOwnRequest
  BY DEF OwnInv, PageInv
<1>1. CASE SendToReplayMsg
  <2>1. \A i \in DOMAIN allEntries : i \in DOMAIN allEntries' /\ allEntries'[i] = allEntries[i]
    BY <1>0, <1>1, ArrivalKeeps DEF ListsInv
  <2>2. UNCHANGED inFlight
    BY <1>1 DEF SendToReplayMsg
  <2>3. ASSUME NEW id \in DOMAIN rows', rows'[id].response # NoResponse
        PROVE  rows'[id].response.by = id
    <3>1. CASE id \in DOMAIN rows
      BY <1>0, <1>1, <2>3, <3>1, ArrivalKeeps DEF ResponseOfOwnRequest
    <3>2. CASE id = lastId + 1
      BY <1>0, <1>1, <2>3, <3>2, ArrivalKeeps DEF ToRow, NewEntry
    <3> QED  BY <1>0, <1>1, <3>1, <3>2, ArrivalKeeps
  <2> QED  BY <1>0, <2>1, <2>2, <2>3, SendsStillNamed DEF ResponseOfOwnRequest
<1>2. ASSUME NEW sent \in BagToSet(inFlight), SentMsg(sent)
      PROVE  SendsNameTheirEntry' /\ ResponseOfOwnRequest'
  <2>1. inFlight' = BagRemove(inFlight, sent)
    BY <1>2 DEF SentMsg
  <2>2. SendsNameTheirEntry'
    BY <1>0, <1>2, <2>1, SentKeeps, BagFacts, SendsStillNamed DEF SameIds
  <2>3. sent.index + 1 \in DOMAIN allEntries /\ allEntries[sent.index + 1].id = sent.by
    BY <1>0 DEF SendsNameTheirEntry
  <2>4. \A id \in DOMAIN rows : rows'[id] = rows[id] \/ (id = sent.by /\ rows'[id].response.by = sent.by)
    BY <1>0, <1>2, <2>3, SentKeeps
  <2>5. DOMAIN rows' = DOMAIN rows
    BY <1>0, <1>2, SentKeeps
  <2> QED  BY <1>0, <2>2, <2>4, <2>5 DEF ResponseOfOwnRequest
<1>3. CASE Send
  <2>1. SameIds /\ CurrentAllIdx + 1 \in DOMAIN allEntries /\ UNCHANGED rows
    BY <1>0, <1>3, SendKeeps DEF Send, tableVars
  <2>. DEFINE i == CurrentAllIdx + 1
              sent == [index |-> i - 1, by |-> allEntries[i].id, to |-> allEntries[i].request]
  <2>2. BagToSet(inFlight') = BagToSet(inFlight) \cup {sent} /\ sent.index + 1 = i
    BY <1>0, <1>3, SentBySelected
  <2>3. sent.by = allEntries[i].id
    OBVIOUS
  <2>. HIDE DEF i, sent
  <2>4. SendsNameTheirEntry'
    BY <1>0, <2>1, <2>2, <2>3 DEF SendsNameTheirEntry, SameIds, i
  <2> QED  BY <1>0, <2>1, <2>4 DEF ResponseOfOwnRequest
<1>4. CASE Flag
  <2>1. UNCHANGED inFlight
    BY <1>4 DEF Flag, messageVars
  <2> QED  BY <1>0, <1>4, <2>1, FlagKeeps, SendsStillNamed DEF ResponseOfOwnRequest, SameIds
<1>5. CASE Delete \/ DeleteAll
  BY <1>5 DEF Delete, DeleteAll
<1>6. CASE TypeFilter \/ ClearFilter
  <2>1. UNCHANGED <<allEntries, rows, inFlight>>
    BY <1>6 DEF TypeFilter, ClearFilter, tableVars, messageVars
  <2> QED  BY <1>0, <2>1, SendsStillNamed DEF ResponseOfOwnRequest
<1>7. CASE EditorFinished \/ UndoEdits \/ Escape
  <2>1. UNCHANGED <<rows, inFlight>>
    BY <1>7 DEF EditorFinished, UndoEdits, Escape, tableVars, messageVars
  <2> QED  BY <1>0, <1>7, <2>1, EditKeeps, SendsStillNamed DEF ResponseOfOwnRequest, SameIds
<1>8. CASE Restart
  <2>1. BagToSet(inFlight') = {} /\ UNCHANGED rows
    BY <1>8, NoneInFlight DEF Restart, Start, tableVars
  <2> QED  BY <1>0, <2>1 DEF SendsNameTheirEntry, ResponseOfOwnRequest
<1>9. CASE Quiet
  <2>1. UNCHANGED <<allEntries, rows>>
    BY <1>0, <1>9, QuietKeeps
  <2>2. BagToSet(inFlight') \subseteq BagToSet(inFlight)
    <3>1. UNCHANGED inFlight \/ \E sent : inFlight' = BagRemove(inFlight, sent)
      BY <1>9 DEF Quiet, SendToReplayMsgLost, EditorFailed, QueueRequest, Edit, EditExternal,
                  MoveCursor, Filter, AcceptFilter, Type, Navigate, SentMsgLost, vars, messageVars
    <3> QED  BY <3>1, BagFacts
  <2> QED  BY <1>0, <2>1, <2>2, SendsStillNamed DEF ResponseOfOwnRequest
<1> QED  BY <1>1, <1>2, <1>3, <1>4, <1>5, <1>6, <1>7, <1>8, <1>9, Steps

\* Without deletions an entry only ever shows, and the table only ever stores,
\* the response to its own request.
THEOREM ResponseCorrect == ASSUME ~Deletions PROVE Spec => []ResponseOfOwnRequest
<1>1. Init => OwnInv
  <2>1. Init => SendsNameTheirEntry /\ ResponseOfOwnRequest
    BY NoneInFlight DEF Init, SendsNameTheirEntry, ResponseOfOwnRequest
  <2> QED  BY <2>1, InitialPage DEF OwnInv
<1>2. OwnInv /\ [Next]_vars => OwnInv'
  BY OwnStep, ListsStep, MessagesStep DEF OwnInv, PageInv
<1>3. OwnInv => ResponseOfOwnRequest
  BY DEF OwnInv
<1> QED  BY <1>1, <1>2, <1>3, PTL DEF Spec
-----------------------------------------------------------------------------
(* Edits.                                                                  *)

RequestsOwn(list) == \A i \in DOMAIN list : list[i].request.of = list[i].id
RowsOwn(table) == \A id \in DOMAIN table : table[id].request.of = id

LEMMA OwnLists == EditsStayWithTheirEntry <=> RequestsOwn(allEntries) /\ RequestsOwn(entries)
BY DEF EditsStayWithTheirEntry, RequestsOwn, ToSet

\* What is shown is in the list.
LEMMA ShownAreListed ==
    ASSUME allEntries' \in Seq(Entry), NEW current, NEW prefer, ApplyFilterFrom(current, prefer),
           RequestsOwn(allEntries')
    PROVE  RequestsOwn(entries')
<1>1. CASE Filtered'
  <2>. DEFINE S == MatchingSet(allEntries)'
              shown == Matching(allEntries)'
  <2>1. S \in SUBSET DOMAIN allEntries' /\ shown = Ascending(S)
    BY DEF MatchingSet, Matching
  <2>2. entries' = [k \in DOMAIN shown |-> allEntries'[shown[k]]]
    BY <1>1 DEF ApplyFilterFrom
  <2>. HIDE DEF S, shown
  <2>3. \A k \in DOMAIN shown : shown[k] \in DOMAIN allEntries'
    BY <2>1, SomePositions
  <2> QED  BY <2>2, <2>3 DEF RequestsOwn
<1>2. CASE ~Filtered'
  BY <1>2 DEF ApplyFilterFrom
<1> QED  BY <1>1, <1>2

\* An answer leaves the selection where it is.
LEMMA SentKeepsSelection ==
    ASSUME PageInv, entries # <<>>, NEW sent \in BagToSet(inFlight), SentMsg(sent)
    PROVE  entries' # <<>> /\ Selected'.id = Selected.id
<1>. DEFINE i == CurrentAllIdx + 1
<1>0. ListsInv /\ ListsInv' /\ SameIds
  BY SentKeeps DEF PageInv
<1>1. i \in DOMAIN allEntries /\ CurrentAllIdx \in Nat /\ Selected.id = allEntries[i].id
  BY <1>0, CurrentIsSelected
<1>2. i - 1 = CurrentAllIdx
  BY <1>1
<1>3. ApplyFilterFrom(cursor, CurrentAllIdx) /\ UNCHANGED filterVars
  BY DEF SentMsg, ApplyFilter
<1>4. \E k \in DOMAIN entries' : entries'[k].id = allEntries'[i].id
  BY <1>0, <1>3, StaysShown
<1>5. allEntries' \in Seq(Entry) /\ Ascends(allEntries')
  BY <1>0 DEF ListsInv, InSync
<1>. HIDE DEF i
<1>6. ApplyFilterFrom(cursor, i - 1)
  BY <1>2, <1>3
<1>7. i \in DOMAIN allEntries' /\ allEntries'[i].id = allEntries[i].id
  BY <1>0, <1>1 DEF SameIds
<1>8. /\ cursor' + 1 \in DOMAIN entries'
      /\ entries'[cursor' + 1].id = allEntries'[i].id
  BY <1>4, <1>5, <1>6, <1>7, CursorFollows
<1>9. entries' # <<>>
  BY <1>8
<1> QED  BY <1>1, <1>7, <1>8, <1>9 DEF Selected

\* Nobody is typing, and the editor is not open.
Free == ~editing /\ editorResult = NoText

LEMMA OwnListsNext ==
    EditsStayWithTheirEntry' <=> RequestsOwn(allEntries') /\ RequestsOwn(entries')
BY DEF EditsStayWithTheirEntry, RequestsOwn, ToSet

LEMMA EditsWhileFree ==
    ASSUME RequestsOwn(allEntries'), RequestsOwn(entries'), RowsOwn(rows'), Free'
    PROVE  EditsInv'
BY OwnListsNext DEF EditsInv, RowsOwn, Free

\* A key is handled when nothing is queued and the editor is closed.
LEMMA KeyFound ==
    ASSUME ~Typeahead, KeyHandled
    PROVE  ~queued /\ editorResult = NoText
BY DEF KeyHandled

LEMMA WriteStep ==
    ASSUME PageInv, EditsInv, ~Typeahead, EditorFinished \/ UndoEdits \/ Escape
    PROVE  EditsInv'
<1>0. ListsInv /\ RequestsOwn(allEntries) /\ RequestsOwn(entries) /\ RowsOwn(rows)
  BY OwnLists DEF PageInv, EditsInv, RowsOwn
<1>1. rows' = rows
  BY DEF EditorFinished, UndoEdits, Escape, tableVars
<1>2. Free'
  <2>1. CASE EditorFinished
    BY <2>1 DEF EditorFinished, EditsInv, Free, editVars
  <2>2. CASE UndoEdits
    BY <2>2, KeyFound DEF UndoEdits, OnEntry, NormalMode, KeyMode, Free, editVars, messageVars
  <2>3. CASE Escape
    BY <2>3, KeyFound DEF Escape, EditMode, KeyMode, Free, messageVars
  <2> QED  BY <2>1, <2>2, <2>3
<1>3. \/ UNCHANGED listVars
      \/ \E text \in Text : SetRequest(text) /\ entries # <<>> /\ text.of = Selected.id
  <2>1. CASE EditorFinished
    BY <2>1 DEF EditorFinished, EditsInv, OfSelected, PageInv, MessagesInv
  <2>2. CASE UndoEdits
    <3>1. entries # <<>> /\ SetRequest(Original(Selected.id))
      BY <2>2 DEF UndoEdits, OnEntry
    <3>2. Selected.id \in Id
      BY <1>0, <3>1, CurrentIsSelected DEF Entry
    <3>3. Original(Selected.id) \in Text /\ Original(Selected.id).of = Selected.id
      BY <3>2 DEF Original, Text
    <3> QED  BY <3>1, <3>3
  <2>3. CASE Escape
    BY <2>3 DEF Escape, EditMode, EditsInv, OfSelected, PageInv, MessagesInv
  <2> QED  BY <2>1, <2>2, <2>3
<1>4. CASE UNCHANGED listVars
  BY <1>0, <1>1, <1>2, <1>4, EditsWhileFree DEF listVars
<1>5. ASSUME NEW text \in Text, SetRequest(text), entries # <<>>, text.of = Selected.id PROVE EditsInv'
  <2>1. UNCHANGED <<filterVars, tableVars>>
    BY DEF EditorFinished, UndoEdits, Escape
  <2>2. /\ DOMAIN entries' = DOMAIN entries
        /\ entries'[cursor + 1].request = text
        /\ \A k \in DOMAIN entries : entries'[k].id = entries[k].id
        /\ \A k \in DOMAIN entries : k # cursor + 1 => entries'[k] = entries[k]
        /\ allEntries' = allEntries \/ allEntries' = entries'
    BY <1>0, <1>5, <2>1, SetRequestKeeps
  <2>3. RequestsOwn(entries')
    BY <1>0, <1>5, <2>2 DEF RequestsOwn, Selected
  <2> QED  BY <1>0, <1>1, <1>2, <2>2, <2>3, EditsWhileFree
<1> QED  BY <1>3, <1>4, <1>5

LEMMA QuietStep ==
    ASSUME PageInv, EditsInv, ~Typeahead, Quiet
    PROVE  EditsInv'
<1>0. ListsInv /\ RequestsOwn(allEntries) /\ RequestsOwn(entries) /\ RowsOwn(rows)
  BY OwnLists DEF PageInv, EditsInv, RowsOwn
<1>1. UNCHANGED <<allEntries, entries, rows>> /\ (~MoveCursor => UNCHANGED cursor)
  BY QuietKeeps
<1>2. Free' => EditsInv'
  BY <1>0, <1>1, EditsWhileFree
<1>3. CASE SendToReplayMsgLost
  BY <1>2, <1>3 DEF SendToReplayMsgLost, EditsInv, OfSelected, Free, editVars
<1>4. CASE EditorFailed
  BY <1>2, <1>4 DEF EditorFailed, EditsInv, Free, editVars
<1>5. CASE QueueRequest
  BY <1>2, <1>5, KeyFound DEF QueueRequest, EditsInv, OfSelected, Free, editVars
<1>6. CASE Edit
  <2>1. /\ screen = "replay" /\ ~queued /\ entries # <<>> /\ editorResult = NoText
        /\ textarea' = Selected.request
        /\ UNCHANGED <<screen, queued, editorResult, cursor>>
    BY <1>6, KeyFound DEF Edit, OnEntry, NormalMode, KeyMode, messageVars, listVars
  <2>2. textarea'.of = Selected.id
    BY <1>0, <2>1, CurrentIsSelected DEF RequestsOwn, Selected
  <2>3. OfSelected(textarea)'
    BY <1>1, <2>1, <2>2 DEF OfSelected, Selected
  <2> QED  BY <1>0, <1>1, <2>1, <2>3, OwnListsNext DEF EditsInv, RowsOwn
<1>7. CASE EditExternal
  <2>1. /\ screen = "replay" /\ ~queued /\ entries # <<>> /\ ~editing
        /\ editorResult' \in {Selected.request} \cup {[Selected.request EXCEPT !.says = d] : d \in Drafts}
        /\ UNCHANGED <<screen, queued, editing, cursor>>
    BY <1>7, KeyFound DEF EditExternal, OnEntry, NormalMode, KeyMode, editVars, listVars
  <2>2. Selected.request.of = Selected.id /\ Selected.request \in Text
    BY <1>0, <2>1, CurrentIsSelected DEF RequestsOwn, Selected, Entry
  <2>3. \A d \in Drafts : [Selected.request EXCEPT !.says = d].of = Selected.id
    BY <2>2 DEF Text
  <2>4. editorResult'.of = Selected.id
    BY <2>1, <2>2, <2>3
  <2>5. OfSelected(editorResult)'
    BY <1>1, <2>1, <2>4 DEF OfSelected, Selected
  <2> QED  BY <1>0, <1>1, <2>1, <2>5, OwnListsNext DEF EditsInv, RowsOwn
<1>8. CASE MoveCursor \/ Filter \/ AcceptFilter
  <2>1. Free /\ UNCHANGED <<editing, editorResult>>
    BY <1>8, KeyFound DEF MoveCursor, Filter, AcceptFilter, FilterMode, NormalMode, KeyMode, Free, editVars, messageVars
  <2> QED  BY <1>2, <2>1 DEF Free
<1>9. CASE Type
  <2>1. PICK d \in Drafts : textarea' = [textarea EXCEPT !.says = d]
    BY <1>9 DEF Type
  <2>2. /\ editing /\ editorResult = NoText
        /\ UNCHANGED <<screen, queued, editing, editorResult, cursor>>
    BY <1>9, KeyFound DEF Type, EditMode, KeyMode, messageVars, listVars
  <2>3. textarea \in Text /\ OfSelected(textarea)
    BY <2>2 DEF PageInv, MessagesInv, EditsInv
  <2>4. textarea'.of = textarea.of
    BY <2>1, <2>3 DEF Text
  <2>5. OfSelected(textarea)'
    BY <1>1, <2>2, <2>3, <2>4 DEF OfSelected, Selected
  <2> QED  BY <1>0, <1>1, <2>2, <2>5, OwnListsNext DEF EditsInv, RowsOwn
<1>10. CASE Navigate
  <2>1. Free /\ UNCHANGED <<editing, editorResult>>
    BY <1>10, KeyFound DEF Navigate, EditsInv, OfSelected, Free, editVars, messageVars
  <2> QED  BY <1>2, <2>1 DEF Free
<1>11. CASE UNCHANGED vars
  BY <1>0, <1>11, OwnListsNext DEF vars, listVars, editVars, tableVars, messageVars, EditsInv, RowsOwn, OfSelected, Selected
<1>12. ASSUME NEW sent, SentMsgLost(sent) PROVE EditsInv'
  <2>1. Free /\ UNCHANGED <<editing, editorResult>>
    BY <1>12 DEF SentMsgLost, EditsInv, OfSelected, Free, editVars
  <2> QED  BY <1>2, <2>1 DEF Free
<1> QED
  BY <1>3, <1>4, <1>5, <1>6, <1>7, <1>8, <1>9, <1>10, <1>11, <1>12 DEF Quiet

LEMMA EditsStep ==
    ASSUME PageInv, EditsInv, ~Typeahead, [Next]_vars
    PROVE  EditsInv'
<1>0. /\ ListsInv /\ ListsInv' /\ allEntries' \in Seq(Entry) /\ allEntries \in Seq(Entry)
      /\ RequestsOwn(allEntries) /\ RequestsOwn(entries) /\ RowsOwn(rows)
  BY ListsStep, OwnLists DEF PageInv, EditsInv, ListsInv, RowsOwn
<1>1. \A current, prefer : RequestsOwn(allEntries') /\ ApplyFilterFrom(current, prefer) => RequestsOwn(entries')
  BY <1>0, ShownAreListed
<1>2. SameIds /\ (\A i \in DOMAIN allEntries : allEntries'[i].request = allEntries[i].request)
        => RequestsOwn(allEntries')
  BY <1>0 DEF SameIds, RequestsOwn
<1>3. CASE SendToReplayMsg
  <2>. DEFINE e == NewEntry(lastId + 1)
  <2>1. e.request.of = lastId + 1 /\ e.id = lastId + 1 /\ ToRow(e).request.of = lastId + 1
    BY DEF NewEntry, Original, ToRow
  <2>2. allEntries' = Append(allEntries, e) /\ e \in Entry
    BY <1>3, ArrivalKeeps
  <2>3. RowsOwn(rows')
    BY <1>0, <1>3, <2>1, ArrivalKeeps DEF RowsOwn
  <2>. HIDE DEF e
  <2>4. RequestsOwn(allEntries')
    <3>1. \A i \in DOMAIN Append(allEntries, e) :
            \/ Append(allEntries, e)[i] = e
            \/ i \in DOMAIN allEntries /\ Append(allEntries, e)[i] = allEntries[i]
      <4>. DEFINE n == Len(allEntries)
      <4>1. n \in Nat /\ DOMAIN allEntries = 1 .. n /\ DOMAIN Append(allEntries, e) = 1 .. n + 1
        BY <1>0, <2>2
      <4>2. /\ Append(allEntries, e)[n + 1] = e
            /\ \A i \in 1 .. n : Append(allEntries, e)[i] = allEntries[i]
        BY <1>0, <2>2
      <4>. HIDE DEF n
      <4>3. \A i \in 1 .. n + 1 : i = n + 1 \/ i \in 1 .. n
        BY <4>1
      <4> QED  BY <4>1, <4>2, <4>3
    <3> QED  BY <1>0, <2>1, <2>2, <3>1 DEF RequestsOwn
  <2>5. ApplyFilterFrom(cursor, Len(allEntries))
    BY <1>3 DEF SendToReplayMsg, ApplyFilter
  <2>6. Free'
    BY <1>3 DEF SendToReplayMsg, EditsInv, OfSelected, Free, editVars
  <2> QED  BY <1>1, <2>3, <2>4, <2>5, <2>6, EditsWhileFree
<1>4. ASSUME NEW sent \in BagToSet(inFlight), SentMsg(sent) PROVE EditsInv'
  <2>1. RequestsOwn(allEntries')
    BY <1>2, <1>4, SentKeeps
  <2>2. RequestsOwn(entries')
    BY <1>1, <1>4, <2>1 DEF SentMsg, ApplyFilter
  <2>3. RowsOwn(rows')
    BY <1>0, <1>4, SentKeeps DEF RowsOwn, RequestsOwn
  <2>4. UNCHANGED <<editing, textarea, editorResult, queued, screen>>
    BY <1>4 DEF SentMsg, editVars
  <2>5. editing => OfSelected(textarea)'
    BY <1>4, <2>4, SentKeepsSelection DEF EditsInv, OfSelected
  <2>6. editorResult # NoText => OfSelected(editorResult)'
    BY <1>4, <2>4, SentKeepsSelection DEF EditsInv, OfSelected
  <2> QED  BY <2>1, <2>2, <2>3, <2>4, <2>5, <2>6, OwnListsNext DEF EditsInv, RowsOwn
<1>5. CASE Send \/ Flag
  <2>1. RequestsOwn(allEntries')
    BY <1>2, <1>5, SendKeeps, FlagKeeps
  <2>2. RequestsOwn(entries')
    BY <1>1, <1>5, <2>1 DEF Send, Flag, ApplyFilter
  <2>3. RowsOwn(rows')
    <3>1. CASE Send
      BY <1>0, <3>1 DEF Send, tableVars
    <3>2. CASE Flag
      BY <1>0, <3>2, FlagKeeps DEF RowsOwn
    <3> QED  BY <1>5, <3>1, <3>2
  <2>4. Free'
    BY <1>5, KeyFound DEF Send, Flag, OnEntry, NormalMode, KeyMode, Free, editVars, messageVars
  <2> QED  BY <2>1, <2>2, <2>3, <2>4, EditsWhileFree
<1>6. CASE Delete \/ DeleteAll
  <2>1. /\ ToSet(allEntries') \subseteq ToSet(allEntries)
        /\ DOMAIN rows' \subseteq DOMAIN rows
        /\ \A id \in DOMAIN rows' : rows'[id] = rows[id]
    BY <1>6, DeleteKeeps, DeleteAllKeeps
  <2>2. RequestsOwn(allEntries')
    <3>1. \A e \in ToSet(allEntries) : e.request.of = e.id
      BY <1>0 DEF RequestsOwn, ToSet
    <3>2. \A e \in ToSet(allEntries') : e.request.of = e.id
      BY <2>1, <3>1
    <3> QED  BY <3>2 DEF RequestsOwn, ToSet
  <2>3. \E current, prefer : ApplyFilterFrom(current, prefer)
    BY <1>6 DEF Delete, DeleteAll, ApplyFilter
  <2>4. RowsOwn(rows')
    BY <1>0, <2>1 DEF RowsOwn
  <2>5. Free'
    BY <1>6, KeyFound DEF Delete, DeleteAll, OnEntry, NormalMode, KeyMode, Free, editVars, messageVars
  <2> QED  BY <1>1, <2>2, <2>3, <2>4, <2>5, EditsWhileFree
<1>7. CASE TypeFilter \/ ClearFilter
  <2>1. UNCHANGED <<allEntries, rows>> /\ ApplyFilter(CurrentAllIdx)
    BY <1>7, FilterKeeps
  <2>2. RequestsOwn(entries')
    BY <1>0, <1>1, <2>1 DEF ApplyFilter
  <2>3. Free'
    BY <1>7, KeyFound DEF TypeFilter, ClearFilter, FilterMode, KeyMode, Free, editVars, messageVars
  <2> QED  BY <1>0, <2>1, <2>2, <2>3, EditsWhileFree
<1>8. CASE Restart
  <2>1. RequestsOwn(allEntries') /\ rows' = rows
    BY <1>0, <1>8, RestartKeeps DEF RequestsOwn, RowsOwn
  <2>2. entries' = allEntries' /\ Free'
    BY <1>8 DEF Restart, Start, Free
  <2> QED  BY <1>0, <2>1, <2>2, EditsWhileFree
<1> QED  BY <1>3, <1>4, <1>5, <1>6, <1>7, <1>8, Steps, WriteStep, QuietStep

\* If no key overtakes a message of the program, a text typed for an entry, or
\* written in the editor, ends in that entry, whatever arrives meanwhile.
THEOREM EditsCorrect == ASSUME ~Typeahead PROVE Spec => []EditsStayWithTheirEntry
<1>1. Init => EditsInv
  <2>1. Init => EditsStayWithTheirEntry
    BY DEF Init, EditsStayWithTheirEntry, ToSet
  <2> QED  BY <2>1 DEF Init, EditsInv
<1>2. PageInv /\ EditsInv /\ [Next]_vars => (PageInv /\ EditsInv)'
  BY EditsStep, ListsStep, MessagesStep DEF PageInv
<1>3. EditsInv => EditsStayWithTheirEntry
  BY DEF EditsInv
<1> QED  BY <1>1, <1>2, <1>3, InitialPage, PTL DEF Spec
-----------------------------------------------------------------------------
(* The selection.                                                          *)

LEMMA SelectionStep ==
    ASSUME PageInv, [Next]_vars, screen = "replay", screen' = "replay", entries # <<>>,
           <<filterMode, term, inFlight>> # <<filterMode, term, inFlight>>',
           DOMAIN rows' = DOMAIN rows,
           \E e \in ToSet(entries') : e.id = Selected.id
    PROVE  entries'[cursor' + 1].id = Selected.id
<1>. DEFINE i == CurrentAllIdx + 1
<1>0. ListsInv /\ ListsInv' /\ allEntries' \in Seq(Entry) /\ Ascends(allEntries')
  BY ListsStep DEF PageInv, ListsInv, InSync
<1>1. i \in DOMAIN allEntries /\ CurrentAllIdx \in Nat /\ Selected.id = allEntries[i].id /\ i - 1 = CurrentAllIdx
  BY <1>0, CurrentIsSelected
<1>. HIDE DEF i
<1>2. ASSUME SameIds, NEW current, ApplyFilterFrom(current, CurrentAllIdx)
      PROVE  entries'[cursor' + 1].id = Selected.id
  <2>1. i \in DOMAIN allEntries' /\ allEntries'[i].id = Selected.id
    BY <1>1, <1>2 DEF SameIds
  <2>2. \E k \in DOMAIN entries' : entries'[k].id = allEntries'[i].id
    BY <2>1 DEF ToSet
  <2>3. ApplyFilterFrom(current, i - 1)
    BY <1>1, <1>2
  <2> QED  BY <1>0, <2>1, <2>2, <2>3, CursorFollows
<1>3. CASE SendToReplayMsg
  <2>1. DOMAIN rows' # DOMAIN rows
    BY <1>3, ArrivalKeeps
  <2> QED  BY <2>1
<1>4. ASSUME NEW sent \in BagToSet(inFlight), SentMsg(sent) PROVE entries'[cursor' + 1].id = Selected.id
  BY <1>4, SentKeepsSelection DEF Selected
<1>5. CASE Send \/ Flag
  BY <1>2, <1>5, SendKeeps, FlagKeeps DEF Send, Flag, ApplyFilter
<1>6. CASE Delete \/ DeleteAll
  BY <1>6, DeleteKeeps, DeleteAllKeeps
<1>7. CASE TypeFilter \/ ClearFilter
  BY <1>2, <1>7, FilterKeeps DEF ApplyFilter, SameIds
<1>8. CASE EditorFinished \/ UndoEdits \/ Escape
  BY <1>8 DEF EditorFinished, UndoEdits, Escape, filterVars, messageVars
<1>9. CASE Restart
  BY <1>9 DEF Restart, Start
<1>10. CASE Quiet
  <2>1. CASE MoveCursor
    BY <2>1 DEF MoveCursor, filterVars, messageVars
  <2>2. CASE ~MoveCursor
    BY <1>10, <2>2, QuietKeeps DEF Selected
  <2> QED  BY <2>1, <2>2
<1> QED  BY <1>3, <1>4, <1>5, <1>6, <1>7, <1>8, <1>9, <1>10, Steps

\* Filtering, sends and answers leave the cursor on its entry as long as that
\* entry is shown.
THEOREM SelectionCorrect == Spec => SelectionFollowsEntry
<1>. DEFINE A == (/\ screen = "replay" /\ screen' = "replay" /\ entries # <<>>
                  /\ <<filterMode, term, inFlight>> # <<filterMode, term, inFlight>>'
                  /\ DOMAIN rows' = DOMAIN rows
                  /\ \E e \in ToSet(entries') : e.id = Selected.id)
                 => entries'[cursor' + 1].id = Selected.id
<1>1. PageInv /\ [Next]_vars => A
  BY SelectionStep
<1>. HIDE DEF A
<1>2. Spec => [][A]_vars
  BY <1>1, PageInvariance, PTL DEF Spec
<1> QED  BY <1>2 DEF A, SelectionFollowsEntry
=============================================================================
