--------------------------- MODULE HistoryPageProofs ---------------------------
(***************************************************************************)
(* Theorems about HistoryPage for any number of entries, commands under    *)
(* way, keys and terms: the types of the page, and what its cursor points  *)
(* at, whatever order the messages of old and new commands come in; then   *)
(* about HistoryDB, the tables behind the page, for any flows and reports. *)
(***************************************************************************)
EXTENDS HistoryPage, HistoryDB, ListFacts, TLAPS

\* What the items are does not matter to the cursor.
IsSeq(l) == l \in Seq(ToSet(l))

\* Every handler that indexes the list with the cursor finds an entry there,
\* unless the list is empty.
CursorOnEntry == cursor \in Nat /\ (entries # <<>> => cursor < Len(entries))

\* Whatever the commands under way have read is a list.
JobsOf(js) == IsSeq(js) /\ \A i \in DOMAIN js : IsSeq(js[i].list)

IInv ==
    /\ lastId \in Nat /\ rows \subseteq 1 .. lastId
    /\ IsSeq(entries)
    /\ CursorOnEntry
    /\ JobsOf(jobs)
-----------------------------------------------------------------------------
(* Sequences.                                                              *)

LEMMA SeqIsSeq ==
    ASSUME NEW S, NEW s \in Seq(S)
    PROVE  IsSeq(s)
<1>1. s \in [1 .. Len(s) -> ToSet(s)]
  BY DEF ToSet
<1> QED  BY <1>1 DEF IsSeq

LEMMA FunctionIsSeq ==
    ASSUME NEW n \in Nat, NEW f, DOMAIN f = 1 .. n, f = [k \in 1 .. n |-> f[k]]
    PROVE  IsSeq(f)
<1>1. f \in [1 .. n -> ToSet(f)]
  BY DEF ToSet
<1> QED  BY <1>1 DEF IsSeq

LEMMA EmptyIsSeq == IsSeq(<<>>)
<1>1. <<>> \in Seq({})
  OBVIOUS
<1> QED  BY <1>1, SeqIsSeq

LEMMA AppendIsSeq ==
    ASSUME NEW s, IsSeq(s), NEW x
    PROVE  /\ IsSeq(Append(s, x))
           /\ Len(Append(s, x)) = Len(s) + 1
           /\ \A i \in DOMAIN Append(s, x) : Append(s, x)[i] = x \/ \E j \in DOMAIN s : Append(s, x)[i] = s[j]
<1>. DEFINE S == ToSet(s) \cup {x}
<1>1. s \in Seq(S)
  BY DEF IsSeq
<1>. HIDE DEF S
<1>2. x \in S
  BY DEF S
<1>3. Append(s, x) \in Seq(S) /\ Len(Append(s, x)) = Len(s) + 1
  BY <1>1, <1>2
<1>4. ASSUME NEW i \in DOMAIN Append(s, x) PROVE Append(s, x)[i] = x \/ \E j \in DOMAIN s : Append(s, x)[i] = s[j]
  BY <1>1, <1>2, <1>3
<1> QED  BY <1>3, <1>4, SeqIsSeq

LEMMA ReplaceIsSeq ==
    ASSUME NEW s, IsSeq(s), NEW i \in DOMAIN s, NEW x
    PROVE  LET r == [s EXCEPT ![i] = x]
           IN  /\ IsSeq(r)
               /\ Len(r) = Len(s)
               /\ DOMAIN r = DOMAIN s
               /\ \A k \in DOMAIN r : r[k] = x \/ r[k] = s[k]
<1>. DEFINE S == ToSet(s) \cup {x}
            r == [s EXCEPT ![i] = x]
<1>1. s \in Seq(S) /\ x \in S
  BY DEF IsSeq
<1>. HIDE DEF S
<1>2. r \in Seq(S) /\ Len(r) = Len(s)
  BY <1>1
<1>3. DOMAIN r = DOMAIN s /\ \A k \in DOMAIN r : r[k] = x \/ r[k] = s[k]
  OBVIOUS
<1>4. IsSeq(r)
  BY <1>2, SeqIsSeq
<1> QED  BY <1>2, <1>3, <1>4

LEMMA RemoveIsSeq ==
    ASSUME NEW s, IsSeq(s), NEW i \in DOMAIN s
    PROVE  /\ IsSeq(RemoveAt(s, i))
           /\ \A k \in DOMAIN RemoveAt(s, i) : \E j \in DOMAIN s : RemoveAt(s, i)[k] = s[j]
<1>1. s \in Seq(ToSet(s)) /\ i \in 1 .. Len(s)
  BY DEF IsSeq
<1>2. SubSeq(s, 1, i-1) \in Seq(ToSet(s)) /\ SubSeq(s, i+1, Len(s)) \in Seq(ToSet(s))
  BY <1>1
<1>3. RemoveAt(s, i) \in Seq(ToSet(s))
  BY <1>2 DEF RemoveAt
<1>4. ASSUME NEW k \in DOMAIN RemoveAt(s, i) PROVE RemoveAt(s, i)[k] \in ToSet(s)
  BY <1>3
<1> QED  BY <1>3, <1>4, SeqIsSeq DEF ToSet
-----------------------------------------------------------------------------
(* Commands.                                                               *)

LEMMA ListingIsSeq ==
    ASSUME NEW S, IsFiniteSet(S), NEW newestFirst
    PROVE  IsSeq(Listing(S, newestFirst))
<1>. DEFINE n == Cardinality(S)
            f == Listing(S, newestFirst)
<1>1. n \in Nat
  BY FS_CardinalityType
<1>2. DOMAIN f = 1 .. n /\ f = [k \in 1 .. n |-> f[k]]
  BY Zenon DEF Listing
<1>. HIDE DEF n, f
<1>3. IsSeq(f)
  BY <1>1, <1>2, FunctionIsSeq
<1> QED  BY <1>3 DEF f

LEMMA QueriesAreSeqs ==
    ASSUME IInv, NEW t
    PROVE  IsSeq(ListEntries) /\ IsSeq(SearchEntries(t)) /\ IsSeq(QueryEntries(t))
<1>1. IsFiniteSet(rows) /\ IsFiniteSet(rows \cap t)
  <2>1. IsFiniteSet(1 .. lastId)
    BY FS_Interval DEF IInv
  <2> QED  BY <2>1, FS_Subset DEF IInv
<1> QED  BY <1>1, ListingIsSeq DEF ListEntries, SearchEntries, QueryEntries

LEMMA IssueGrows ==
    ASSUME IInv, NEW cmd, NEW t, Issue(cmd, t)
    PROVE  JobsOf(jobs') /\ Len(jobs') >= Len(jobs)
<1>. DEFINE job == NewJob(cmd, t)
<1>1. IsSeq(job.list)
  BY EmptyIsSeq DEF NewJob
<1>. HIDE DEF job
<1>2. jobs' = Append(jobs, job)
  BY DEF Issue, job
<1>3. /\ IsSeq(jobs') /\ Len(jobs') = Len(jobs) + 1
      /\ \A i \in DOMAIN jobs' : jobs'[i] = job \/ \E j \in DOMAIN jobs : jobs'[i] = jobs[j]
  BY <1>2, AppendIsSeq DEF IInv, JobsOf
<1>4. Len(jobs) \in Nat
  BY DEF IInv, JobsOf, IsSeq
<1> QED  BY <1>1, <1>3, <1>4 DEF IInv, JobsOf

LEMMA RefreshGrows ==
    ASSUME IInv, NEW k, NEW t, RefreshCmd(k, t) \/ UNCHANGED jobs
    PROVE  JobsOf(jobs') /\ Len(jobs') >= Len(jobs)
<1>1. CASE UNCHANGED jobs
  BY <1>1 DEF IInv, JobsOf, IsSeq
<1> QED  BY <1>1, IssueGrows DEF RefreshCmd

LEMMA RunGrows ==
    ASSUME IInv, NEW i, Run(i) \/ QueryFails(i)
    PROVE  JobsOf(jobs') /\ Len(jobs') >= Len(jobs)
<1>0. i \in DOMAIN jobs
  BY DEF Run, QueryFails
<1>1. PICK l, x : IsSeq(l) /\ x.list = l /\ jobs' = [jobs EXCEPT ![i] = x]
  <2>. DEFINE Done(d, l) == [cmd |-> jobs[i].cmd, text |-> jobs[i].text, done |-> d, list |-> l]
  <2>1. \A d, l : Done(d, l).list = l
    OBVIOUS
  <2>2. \E d, l : IsSeq(l) /\ jobs' = [jobs EXCEPT ![i] = Done(d, l)]
    <3>1. CASE Run(i)
      BY <3>1, QueriesAreSeqs, EmptyIsSeq, Zenon DEF Run
    <3>2. CASE QueryFails(i)
      BY <3>2, EmptyIsSeq, Zenon DEF QueryFails
    <3> QED  BY <3>1, <3>2
  <2> QED  BY <2>1, <2>2, Zenon
<1>2. /\ IsSeq(jobs') /\ Len(jobs') = Len(jobs) /\ DOMAIN jobs' = DOMAIN jobs
      /\ \A k \in DOMAIN jobs' : jobs'[k] = x \/ jobs'[k] = jobs[k]
  <2>1. IsSeq(jobs)
    BY DEF IInv, JobsOf
  <2>. DEFINE r == [jobs EXCEPT ![i] = x]
  <2>2. IsSeq(r) /\ Len(r) = Len(jobs) /\ DOMAIN r = DOMAIN jobs
        /\ \A k \in DOMAIN r : r[k] = x \/ r[k] = jobs[k]
    BY <1>0, <2>1, ReplaceIsSeq
  <2>3. jobs' = r
    BY <1>1
  <2>. HIDE DEF r
  <2> QED  BY <2>2, <2>3
<1>3. Len(jobs) \in Nat
  BY DEF IInv, JobsOf, IsSeq
<1> QED  BY <1>1, <1>2, <1>3 DEF IInv, JobsOf
-----------------------------------------------------------------------------
(* Messages.                                                               *)

\* An entry that was selected and is listed is found again.
LEMMA AnchoredFinds ==
    ASSUME NEW l, IsSeq(l), HasID(l, SelectedID), NEW otherwise
    PROVE  /\ Anchored(l, otherwise) \in 0 .. Len(l) - 1
           /\ l[Anchored(l, otherwise) + 1].id = SelectedID
<1>. DEFINE k == CHOOSE k \in DOMAIN l : l[k].id = SelectedID
<1>1. k \in DOMAIN l /\ l[k].id = SelectedID
  BY DEF HasID
<1>2. Anchored(l, otherwise) = k - 1
  BY DEF Anchored
<1>. HIDE DEF k
<1>3. k \in 1 .. Len(l)
  BY <1>1 DEF IsSeq
<1> QED  BY <1>1, <1>2, <1>3

LEMMA AnchoredValid ==
    ASSUME NEW l, IsSeq(l), NEW otherwise, ValidCursor(otherwise, Len(l))
    PROVE  ValidCursor(Anchored(l, otherwise), Len(l))
<1>1. CASE HasID(l, SelectedID)
  <2>1. Len(l) \in Nat
    BY DEF IsSeq
  <2> QED  BY <1>1, <2>1, AnchoredFinds DEF ValidCursor
<1>2. CASE ~HasID(l, SelectedID)
  BY <1>2 DEF Anchored
<1> QED  BY <1>1, <1>2

\* A valid cursor is on an entry if there is one.
LEMMA ValidOnEntry ==
    ASSUME NEW l, IsSeq(l), NEW c, ValidCursor(c, Len(l))
    PROVE  c \in Nat /\ (l # <<>> => c < Len(l))
<1>1. Len(l) \in Nat /\ (l # <<>> => Len(l) > 0)
  BY DEF IsSeq
<1> QED  BY <1>1 DEF ValidCursor

\* A new list keeps the selection.
LEMMA ListReplaced ==
    ASSUME NEW l, IsSeq(l), NEW otherwise, ValidCursor(otherwise, Len(l)),
           entries' = l, cursor' = Anchored(l, otherwise)
    PROVE  /\ IsSeq(entries') /\ CursorOnEntry'
           /\ HasID(entries', SelectedID) => SelectedID' = SelectedID
<1>1. CursorOnEntry'
  BY AnchoredValid, ValidOnEntry DEF CursorOnEntry
<1>2. ASSUME HasID(l, SelectedID) PROVE SelectedID' = SelectedID
  <2>1. cursor' \in 0 .. Len(l) - 1 /\ entries'[cursor' + 1].id = SelectedID
    BY <1>2, AnchoredFinds
  <2>2. cursor' < Len(entries')
    <3>1. Len(l) \in Nat
      BY DEF IsSeq
    <3> QED  BY <2>1, <3>1
  <2>3. SelectedID' = IF cursor' < Len(entries') THEN entries'[cursor' + 1].id ELSE 0
    BY DEF SelectedID, OnEntry
  <2> QED  BY <2>1, <2>2, <2>3
<1> QED  BY <1>1, <1>2

LEMMA DeliverKeeps ==
    ASSUME IInv, NEW i, Deliver(i)
    PROVE  IInv' /\ (OnEntry /\ HasID(entries', SelectedID) => SelectedID' = SelectedID)
<1>. DEFINE l == jobs[i].list
<1>1. IsSeq(l) /\ i \in DOMAIN jobs /\ UNCHANGED table
  BY DEF Deliver, IInv, JobsOf
<1>2. JobsOf(jobs')
  BY <1>1, RemoveIsSeq DEF Deliver, IInv, JobsOf
<1>3. IsSeq(entries') /\ CursorOnEntry' /\ (OnEntry /\ HasID(entries', SelectedID) => SelectedID' = SelectedID)
  <2>1. CASE UNCHANGED list
    BY <2>1 DEF list, IInv, CursorOnEntry, SelectedID, OnEntry
  <2>2. CASE EntriesLoaded(l)
    <3>. DEFINE otherwise == IF cursor < Len(l) THEN cursor ELSE CursorGotoBottom(Len(l))
    <3>1. ValidCursor(otherwise, Len(l))
      <4>1. Len(l) \in Nat /\ cursor \in Nat
        BY <1>1 DEF IsSeq, IInv, CursorOnEntry
      <4> QED  BY <4>1, GotoBottomValid DEF ValidCursor
    <3>2. CASE entries' = l /\ cursor' = Anchored(l, otherwise)
      BY <1>1, <3>1, <3>2, ListReplaced
    <3> QED  BY <2>1, <2>2, <3>2 DEF EntriesLoaded
  <2>3. CASE SearchResult(l)
    <3>1. ValidCursor(0, Len(l))
      BY DEF ValidCursor
    <3> QED  BY <1>1, <2>3, <3>1, ListReplaced DEF SearchResult
  <2>4. CASE SearchErr
    <3>1. entries' = <<>> /\ cursor' = cursor
      BY <2>4 DEF SearchErr
    <3> QED  BY <3>1, EmptyIsSeq DEF IInv, CursorOnEntry, HasID
  <2> QED  BY <2>1, <2>2, <2>3, <2>4 DEF Deliver
<1> QED  BY <1>1, <1>2, <1>3 DEF IInv, table
-----------------------------------------------------------------------------
(* Keys, ticks and statements: they add commands and take none away.       *)

LEMMA MoveCursorValid ==
    ASSUME IInv, MoveCursor
    PROVE  CursorOnEntry'
<1>1. Len(entries) \in Nat /\ (entries # <<>> => Len(entries) > 0) /\ cursor \in Nat /\ PerPage \in Int
  BY HistoryPageAssumption DEF IInv, IsSeq, CursorOnEntry
<1>2. entries' = entries
  BY DEF MoveCursor
<1>3. CASE cursor > 0 /\ cursor' = cursor - 1
  BY <1>1, <1>2, <1>3 DEF IInv, CursorOnEntry
<1>4. CASE cursor < Len(entries) - 1 /\ cursor' = cursor + 1
  BY <1>1, <1>2, <1>4 DEF CursorOnEntry
<1>5. CASE cursor' \in {0, CursorGotoBottom(Len(entries))}
  BY <1>1, <1>2, <1>5, GotoBottomValid DEF CursorOnEntry, ValidCursor
<1>6. ASSUME NEW forward \in BOOLEAN, cursor' = CursorMovePage(cursor, Len(entries), PerPage, forward)
      PROVE  CursorOnEntry'
  BY <1>1, <1>2, <1>6, MovePageValid DEF CursorOnEntry, ValidCursor
<1> QED  BY <1>3, <1>4, <1>5, <1>6 DEF MoveCursor

LEMMA KeyKeeps ==
    ASSUME IInv, Keys
    PROVE  IInv' /\ Len(jobs') >= Len(jobs)
<1>1. JobsOf(jobs') /\ Len(jobs') >= Len(jobs)
  BY IssueGrows, RefreshGrows
  DEF Keys, Escape, ClearSearch, Enter, Type, OpenSearch, MoveCursor, Flag, DeleteSelected, DeleteAll
<1>2. lastId' = lastId /\ rows' \subseteq rows
  BY DEF Keys, Escape, Enter, Type, OpenSearch, MoveCursor, Flag, DeleteSelected, DeleteAll, Delete, table
<1>3. IsSeq(entries') /\ CursorOnEntry'
  <2>1. CASE MoveCursor
    <3>1. entries' = entries
      BY <2>1 DEF MoveCursor
    <3> QED  BY <2>1, <3>1, MoveCursorValid DEF IInv
  <2>2. CASE UNCHANGED list
    BY <2>2 DEF list, IInv, CursorOnEntry
  <2> QED  BY <2>1, <2>2 DEF Keys, Escape, Enter, Type, OpenSearch, Flag, DeleteSelected, DeleteAll
<1> QED  BY <1>1, <1>2, <1>3 DEF IInv

LEMMA OtherKeeps ==
    ASSUME IInv,
           EntrySaved \/ Tick \/ LeavePage \/ EnterPage \/ OpenOverlay \/ CloseOverlay \/ UNCHANGED vars
    PROVE  IInv' /\ Len(jobs') >= Len(jobs)
<1>1. JobsOf(jobs') /\ Len(jobs') >= Len(jobs)
  BY RefreshGrows DEF EntrySaved, Tick, LeavePage, EnterPage, OpenOverlay, CloseOverlay, vars
<1>2. lastId' \in Nat /\ rows' \subseteq 1 .. lastId'
  <2>1. CASE EntrySaved
    <3>1. lastId' = lastId + 1 /\ rows' = rows \cup {lastId'}
      BY <2>1 DEF EntrySaved
    <3> QED  BY <3>1 DEF IInv
  <2>2. CASE UNCHANGED table
    BY <2>2 DEF IInv, table
  <2> QED  BY <2>1, <2>2 DEF Tick, LeavePage, EnterPage, OpenOverlay, CloseOverlay, vars
<1>3. UNCHANGED list
  BY DEF EntrySaved, Tick, LeavePage, EnterPage, OpenOverlay, CloseOverlay, vars
<1> QED  BY <1>1, <1>2, <1>3 DEF list, IInv, CursorOnEntry

LEMMA RunKeeps ==
    ASSUME IInv, NEW i, Run(i) \/ QueryFails(i)
    PROVE  IInv' /\ Len(jobs') >= Len(jobs)
<1>1. UNCHANGED <<table, list>>
  BY DEF Run, QueryFails
<1> QED  BY <1>1, RunGrows DEF table, list, IInv, CursorOnEntry
-----------------------------------------------------------------------------
LEMMA Invariance == Spec => []IInv
<1>1. Init => IInv
  BY EmptyIsSeq DEF Init, IInv, CursorOnEntry, JobsOf
<1>2. IInv /\ [Next]_vars => IInv'
  BY DeliverKeeps, KeyKeeps, OtherKeeps, RunKeeps DEF Next
<1> QED  BY <1>1, <1>2, PTL DEF Spec

\* No key of the page indexes beyond its list, whatever lists have replaced
\* each other and however many entries were saved and deleted meanwhile.
THEOREM CursorCorrect == Spec => []CursorOnEntry
BY Invariance, PTL DEF IInv

\* Whatever message replaces the list, a selection that is still listed stays.
THEOREM SelectionCorrect == Spec => SelectionFollowsEntry
<1>. DEFINE Follows == Len(jobs') < Len(jobs) /\ OnEntry /\ HasID(entries', SelectedID)
                         => SelectedID' = SelectedID
<1>1. IInv /\ [Next]_vars => [Follows]_vars
  <2>. SUFFICES ASSUME IInv, Next, Len(jobs') < Len(jobs), OnEntry, HasID(entries', SelectedID)
                PROVE  SelectedID' = SelectedID
    OBVIOUS
  <2>1. ASSUME Len(jobs') >= Len(jobs) PROVE FALSE
    <3>1. Len(jobs) \in Nat
      BY DEF IInv, JobsOf, IsSeq
    <3>2. Len(jobs') \in Nat
      OBVIOUS
    <3> QED  BY <2>1, <3>1, <3>2
  <2>2. \E i \in 1 .. MaxJobs : Deliver(i)
    BY <2>1, KeyKeeps, OtherKeeps, RunKeeps DEF Next
  <2> QED  BY <2>2, DeliverKeeps
<1> QED  BY <1>1, Invariance, PTL DEF Spec, SelectionFollowsEntry
-----------------------------------------------------------------------------
(* Types.                                                                  *)

\* What a query has read while no id beyond n was given.
RowUpTo(n) == [id : 1 .. n, flagged : BOOLEAN]
JobUpTo(n) == [cmd : {"load", "search", "sql"}, text : Text, done : {"no", "yes", "failed"},
               list : Seq(RowUpTo(n))]

LEMMA ListingTyped ==
    ASSUME NEW n \in Nat, NEW S \in SUBSET (1 .. n), NEW newestFirst
    PROVE  Listing(S, newestFirst) \in Seq(RowUpTo(n))
<1>. DEFINE c == Cardinality(S)
            Row(id) == [id |-> id, flagged |-> id \in flagged]
            IdAt(k) == Kth(S, IF newestFirst THEN c + 1 - k ELSE k)
<1>1. IsFiniteSet(S) /\ S \in SUBSET Nat
  <2>1. IsFiniteSet(1 .. n)
    BY FS_Interval
  <2>2. IsFiniteSet(S)
    BY <2>1, FS_Subset
  <2> QED  BY <2>2
<1>2. c \in Nat
  BY <1>1, FS_CardinalityType
<1>3. ASSUME NEW k \in 1 .. c PROVE IdAt(k) \in 1 .. n
  <2>1. (IF newestFirst THEN c + 1 - k ELSE k) \in 1 .. c
    BY <1>2
  <2>2. \A j \in 1 .. c : Kth(S, j) \in S
    BY <1>1, KthIn
  <2>3. IdAt(k) \in S
    BY <2>1, <2>2, Zenon
  <2>. HIDE DEF IdAt
  <2> QED  BY <2>3
<1>4. ASSUME NEW id \in 1 .. n PROVE Row(id) \in RowUpTo(n)
  <2>1. ASSUME NEW b \in BOOLEAN PROVE [id |-> id, flagged |-> b] \in RowUpTo(n)
    BY DEF RowUpTo
  <2>2. (id \in flagged) \in BOOLEAN
    OBVIOUS
  <2> QED  BY <2>1, <2>2, Zenon
<1>5. Listing(S, newestFirst) = [k \in 1 .. c |-> Row(IdAt(k))]
  BY Zenon DEF Listing
<1>. HIDE DEF Row, IdAt, c
<1>6. \A k \in 1 .. c : Row(IdAt(k)) \in RowUpTo(n)
  BY <1>3, <1>4
<1> QED  BY <1>2, <1>5, <1>6

JobsTyped(js) == js \in Seq(JobUpTo(lastId)) /\ Len(js) <= MaxJobs

TableTyped ==
    /\ lastId \in 0 .. MaxEntries
    /\ rows \subseteq 1 .. lastId /\ flagged \subseteq rows

PageTyped ==
    /\ entries \in Seq(RowUpTo(lastId))
    /\ kind \in Kind /\ accepted \in BOOLEAN /\ text \in Text /\ searchErr \in Error

AppTyped ==
    /\ page \in {"history", "other"} /\ {overlay, ticking} \subseteq BOOLEAN
    /\ keys \in 0 .. MaxKeys

\* A result that is under way lists no id the table has not given yet, so it
\* can be shown whenever it comes.
Typed == TableTyped /\ PageTyped /\ JobsTyped(jobs) /\ AppTyped

LEMMA SeqOfSubset ==
    ASSUME NEW S, NEW T, S \subseteq T
    PROVE  Seq(S) \subseteq Seq(T)
OBVIOUS

LEMMA TypedSuffices ==
    ASSUME Typed, CursorOnEntry
    PROVE  TypeOK
<1>1. lastId \in 0 .. MaxEntries /\ MaxEntries \in Nat
  BY HistoryPageAssumption DEF Typed, TableTyped
<1>2. RowUpTo(lastId) \subseteq [id : Id, flagged : BOOLEAN]
  BY <1>1 DEF RowUpTo, Id
<1>3. Seq(RowUpTo(lastId)) \subseteq Seq([id : Id, flagged : BOOLEAN])
  BY <1>2, SeqOfSubset
<1>4. JobUpTo(lastId) \subseteq Job
  BY <1>3, Zenon DEF JobUpTo, Job
<1>5. jobs \in Seq(Job) /\ Len(jobs) <= MaxJobs
  BY <1>4 DEF Typed, JobsTyped
<1> QED  BY <1>5 DEF Typed, TableTyped, PageTyped, AppTyped, RowUpTo, CursorOnEntry, TypeOK

\* The commands, and what is listed, when the proxy saves entries.
LEMMA TypesGrow ==
    ASSUME NEW n \in Nat, NEW m \in Nat, n <= m
    PROVE  Seq(RowUpTo(n)) \subseteq Seq(RowUpTo(m)) /\ Seq(JobUpTo(n)) \subseteq Seq(JobUpTo(m))
<1>1. RowUpTo(n) \subseteq RowUpTo(m)
  BY DEF RowUpTo
<1>2. Seq(RowUpTo(n)) \subseteq Seq(RowUpTo(m))
  BY <1>1
<1>3. JobUpTo(n) \subseteq JobUpTo(m)
  BY <1>2, Zenon DEF JobUpTo
<1> QED  BY <1>2, <1>3

LEMMA IssueTyped ==
    ASSUME JobsTyped(jobs), NEW cmd \in {"load", "search", "sql"}, NEW t \in Text, Issue(cmd, t),
           UNCHANGED lastId
    PROVE  JobsTyped(jobs)'
<1>. DEFINE S == JobUpTo(lastId)
<1>1. NewJob(cmd, t) \in S
  <2>1. <<>> \in Seq(RowUpTo(lastId))
    OBVIOUS
  <2> QED  BY <2>1, Zenon DEF NewJob, JobUpTo
<1>2. jobs \in Seq(S) /\ Len(jobs) < MaxJobs /\ jobs' = Append(jobs, NewJob(cmd, t)) /\ MaxJobs \in Nat
  BY HistoryPageAssumption DEF JobsTyped, Issue
<1>3. lastId' = lastId
  OBVIOUS
<1>. HIDE DEF S
<1>4. jobs' \in Seq(S) /\ Len(jobs') <= MaxJobs
  BY <1>1, <1>2
<1> QED  BY <1>3, <1>4 DEF JobsTyped, S

LEMMA RefreshTyped ==
    ASSUME Typed, RefreshCmd(kind, text) \/ UNCHANGED jobs, UNCHANGED lastId
    PROVE  JobsTyped(jobs)'
<1>1. CASE UNCHANGED jobs
  BY <1>1 DEF Typed, JobsTyped
<1>2. NoText \in Text /\ text \in Text
  BY DEF Typed, PageTyped, Text
<1> QED  BY <1>1, <1>2, IssueTyped DEF Typed, RefreshCmd

LEMMA QueriesTyped ==
    ASSUME TableTyped, NEW t
    PROVE  {ListEntries, SearchEntries(t), QueryEntries(t)} \subseteq Seq(RowUpTo(lastId))
<1>1. rows \in SUBSET (1 .. lastId) /\ rows \cap t \in SUBSET (1 .. lastId) /\ lastId \in Nat
  <2>1. lastId \in Nat
    BY HistoryPageAssumption DEF TableTyped
  <2> QED  BY <2>1 DEF TableTyped
<1> QED  BY <1>1, ListingTyped DEF ListEntries, SearchEntries, QueryEntries

LEMMA RunTyped ==
    ASSUME Typed, NEW i, Run(i) \/ QueryFails(i)
    PROVE  JobsTyped(jobs)'
<1>. DEFINE S == JobUpTo(lastId)
            R == Seq(RowUpTo(lastId))
            D == {"yes", "failed"}
            Done(d, l) == [cmd |-> jobs[i].cmd, text |-> jobs[i].text, done |-> d, list |-> l]
<1>1. i \in DOMAIN jobs /\ lastId' = lastId
  BY DEF Run, QueryFails, table
<1>2. jobs \in Seq(S) /\ jobs[i] \in S
  BY <1>1 DEF Typed, JobsTyped
<1>3. <<>> \in R
  OBVIOUS
<1>4. PICK d \in D, l \in R : jobs' = [jobs EXCEPT ![i] = Done(d, l)]
  <2>1. CASE Run(i)
    <3>1. {ListEntries, SearchEntries(jobs[i].text), QueryEntries(jobs[i].text)} \subseteq R
      BY QueriesTyped DEF Typed
    <3>. HIDE DEF R
    <3> QED  BY <1>3, <2>1, <3>1, Zenon DEF Run
  <2>2. CASE QueryFails(i)
    <3>. HIDE DEF R
    <3> QED  BY <1>3, <2>2, Zenon DEF QueryFails
  <2> QED  BY <2>1, <2>2
<1>5. Done(d, l) \in S
  <2>1. jobs[i].cmd \in {"load", "search", "sql"} /\ jobs[i].text \in Text
    BY <1>2, Zenon DEF JobUpTo
  <2>2. d \in {"no", "yes", "failed"}
    OBVIOUS
  <2> QED  BY <2>1, <2>2, Zenon DEF JobUpTo
<1>. HIDE DEF S, Done
<1>6. jobs' \in Seq(S) /\ Len(jobs') = Len(jobs)
  BY <1>1, <1>2, <1>4, <1>5
<1> QED  BY <1>1, <1>6 DEF Typed, JobsTyped, S

LEMMA RunStep ==
    ASSUME Typed, NEW i, Run(i) \/ QueryFails(i)
    PROVE  Typed'
<1>1. TableTyped' /\ PageTyped' /\ AppTyped'
  <2>1. UNCHANGED <<table, list, search, app>>
    BY DEF Run, QueryFails
  <2>2. keys' \in 0 .. MaxKeys
    BY HistoryPageAssumption DEF Run, QueryFails, Typed, AppTyped
  <2> QED  BY <2>1, <2>2 DEF Typed, TableTyped, PageTyped, AppTyped, table, list, search, app
<1> QED  BY <1>1, RunTyped DEF Typed

LEMMA DeliverStep ==
    ASSUME Typed, NEW i, Deliver(i)
    PROVE  Typed'
<1>. DEFINE l == jobs[i].list
            S == JobUpTo(lastId)
<1>1. i \in DOMAIN jobs /\ jobs' = RemoveAt(jobs, i) /\ UNCHANGED <<table, app, keys>>
  BY DEF Deliver
<1>2. jobs \in Seq(S) /\ l \in Seq(RowUpTo(lastId))
  <2>1. jobs \in Seq(S) /\ jobs[i] \in S
    BY <1>1 DEF Typed, JobsTyped
  <2> QED  BY <2>1, Zenon DEF JobUpTo
<1>3. lastId' = lastId /\ TableTyped' /\ AppTyped'
  BY <1>1 DEF table, app, Typed, TableTyped, AppTyped
<1>4. JobsTyped(jobs)'
  <2>. HIDE DEF S
  <2>1. i \in 1 .. Len(jobs) /\ Len(jobs) \in Nat
    BY <1>1, <1>2
  <2>2. /\ SubSeq(jobs, 1, i-1) \in Seq(S) /\ SubSeq(jobs, i+1, Len(jobs)) \in Seq(S)
        /\ Len(SubSeq(jobs, 1, i-1)) = i - 1
        /\ Len(SubSeq(jobs, i+1, Len(jobs))) = Len(jobs) - i
    BY <1>2, <2>1
  <2>3. jobs' \in Seq(S) /\ Len(jobs') = Len(jobs) - 1
    <3>. DEFINE s == SubSeq(jobs, 1, i-1)
                t == SubSeq(jobs, i+1, Len(jobs))
    <3>1. s \in Seq(S) /\ t \in Seq(S) /\ Len(s) = i - 1 /\ Len(t) = Len(jobs) - i
      BY <2>2
    <3>2. jobs' = s \o t
      BY <1>1 DEF RemoveAt
    <3>. HIDE DEF s, t
    <3>3. s \o t \in Seq(S) /\ Len(s \o t) = Len(s) + Len(t)
      BY <3>1
    <3> QED  BY <2>1, <3>1, <3>2, <3>3
  <2>4. Len(jobs) <= MaxJobs /\ MaxJobs \in Nat
    BY HistoryPageAssumption DEF Typed, JobsTyped
  <2> QED  BY <1>3, <2>1, <2>3, <2>4 DEF JobsTyped, S
<1>5. PageTyped'
  <2>0. <<>> \in Seq(RowUpTo(lastId))
    OBVIOUS
  <2>. USE DEF Typed, PageTyped
  <2>1. CASE UNCHANGED <<list, search>>
    BY <1>3, <2>1 DEF list, search
  <2>2. CASE EntriesLoaded(l)
    BY <1>2, <1>3, <2>2 DEF EntriesLoaded, list, search
  <2>3. CASE SearchResult(l)
    <3>1. accepted' \in BOOLEAN
      BY <2>3, Zenon DEF SearchResult
    <3> QED  BY <1>2, <1>3, <2>3, <3>1 DEF SearchResult, Error
  <2>4. CASE SearchErr
    BY <1>3, <2>0, <2>4 DEF SearchErr, Error
  <2> QED  BY <2>1, <2>2, <2>3, <2>4 DEF Deliver
<1> QED  BY <1>3, <1>4, <1>5 DEF Typed

LEMMA KeyStep ==
    ASSUME Typed, Keys
    PROVE  Typed'
<1>0. keys \in Nat /\ MaxKeys \in Nat /\ keys < MaxKeys /\ keys' = keys + 1 /\ UNCHANGED app
  BY HistoryPageAssumption
  DEF Keys, Escape, Enter, SearchMode, Type, OpenSearch, NormalMode, MoveCursor, Flag, DeleteSelected,
      DeleteAll, KeyOnPage, Press, Typed, AppTyped
<1>1. AppTyped'
  BY <1>0 DEF app, Typed, AppTyped
<1>2. lastId' = lastId
  BY DEF Keys, Escape, Enter, Type, OpenSearch, MoveCursor, Flag, DeleteSelected, DeleteAll, Delete, table
<1>3. NoText \in Text
  BY DEF Text
<1>4. TableTyped'
  <2>1. rows' \subseteq rows /\ flagged' \subseteq rows'
    BY DEF Keys, Escape, Enter, Type, OpenSearch, MoveCursor, Flag, DeleteSelected, DeleteAll, Delete, table,
           Typed, TableTyped
  <2> QED  BY <1>2, <2>1 DEF Typed, TableTyped
<1>5. PageTyped'
  <2>1. entries' = entries
    BY DEF Keys, Escape, Enter, Type, OpenSearch, MoveCursor, Flag, DeleteSelected, DeleteAll, list
  <2>2. kind' \in Kind /\ accepted' \in BOOLEAN /\ text' \in Text /\ searchErr' \in Error
    BY <1>3 DEF Keys, Escape, Enter, Type, OpenSearch, MoveCursor, Flag, DeleteSelected, DeleteAll,
       ClearSearch, search, Kind, Error, Typed, PageTyped
  <2> QED  BY <1>2, <2>1, <2>2 DEF Typed, PageTyped
<1>6. JobsTyped(jobs)'
  <2>1. text \in Text
    BY DEF Typed, PageTyped
  <2>2. JobsTyped(jobs)
    BY DEF Typed
  <2>3. \/ RefreshCmd(kind, text) \/ UNCHANGED jobs
        \/ \E cmd \in {"load", "search", "sql"}, t \in Text : Issue(cmd, t)
    BY <1>3, <2>1
    DEF Keys, Escape, Enter, Type, OpenSearch, MoveCursor, Flag, DeleteSelected, DeleteAll, ClearSearch
  <2> QED  BY <1>2, <2>2, <2>3, RefreshTyped, IssueTyped
<1> QED  BY <1>1, <1>4, <1>5, <1>6 DEF Typed

LEMMA OtherStep ==
    ASSUME Typed,
           EntrySaved \/ Tick \/ LeavePage \/ EnterPage \/ OpenOverlay \/ CloseOverlay \/ UNCHANGED vars
    PROVE  Typed'
<1>1. CASE EntrySaved
  <2>1. /\ lastId < MaxEntries /\ lastId' = lastId + 1 /\ rows' = rows \cup {lastId'}
        /\ UNCHANGED <<flagged, list, search, jobs, app, keys>>
    BY <1>1 DEF EntrySaved
  <2>2. lastId \in Nat /\ MaxEntries \in Nat
    BY HistoryPageAssumption DEF Typed, TableTyped
  <2>3. TableTyped'
    BY <2>1, <2>2 DEF Typed, TableTyped
  <2>4. Seq(RowUpTo(lastId)) \subseteq Seq(RowUpTo(lastId')) /\ Seq(JobUpTo(lastId)) \subseteq Seq(JobUpTo(lastId'))
    BY <2>1, <2>2, TypesGrow
  <2>5. PageTyped' /\ JobsTyped(jobs)' /\ AppTyped'
    BY <2>1, <2>4 DEF Typed, PageTyped, JobsTyped, AppTyped, list, search, app
  <2> QED  BY <2>3, <2>5 DEF Typed
<1>2. CASE Tick \/ LeavePage \/ EnterPage \/ OpenOverlay \/ CloseOverlay \/ UNCHANGED vars
  <2>1. UNCHANGED <<table, list, search>>
    BY <1>2 DEF Tick, LeavePage, EnterPage, OpenOverlay, CloseOverlay, vars
  <2>2. TableTyped' /\ PageTyped'
    BY <2>1 DEF table, list, search, Typed, TableTyped, PageTyped
  <2>3. JobsTyped(jobs)'
    BY <1>2, <2>1, RefreshTyped DEF table, Tick, LeavePage, EnterPage, OpenOverlay, CloseOverlay, vars
  <2>4. AppTyped'
    <3>1. keys' \in 0 .. MaxKeys
      BY <1>2, HistoryPageAssumption
      DEF Tick, LeavePage, EnterPage, OpenOverlay, CloseOverlay, vars, Press, Typed, AppTyped
    <3> QED  BY <1>2, <3>1
    DEF Tick, LeavePage, EnterPage, OpenOverlay, CloseOverlay, vars, app, Press, Typed, AppTyped
  <2> QED  BY <2>2, <2>3, <2>4 DEF Typed
<1> QED  BY <1>1, <1>2

\* The state has its types: the list and the results under way hold entries
\* the table has given, whatever was deleted since they were read, and the
\* cursor is on one of them.
THEOREM TypeCorrect == Spec => []TypeOK
<1>1. Init => Typed
  <2>1. <<>> \in Seq(RowUpTo(0)) /\ <<>> \in Seq(JobUpTo(0)) /\ Len(<<>>) = 0
    OBVIOUS
  <2>2. NoText \in Text
    BY DEF Text
  <2>. SUFFICES ASSUME Init PROVE Typed
    OBVIOUS
  <2>3. TableTyped
    BY HistoryPageAssumption DEF Init, TableTyped
  <2>4. PageTyped
    BY <2>1, <2>2 DEF Init, PageTyped, Kind, Error
  <2>5. JobsTyped(jobs)
    BY <2>1, HistoryPageAssumption DEF Init, JobsTyped
  <2>6. AppTyped
    <3>1. overlay \in BOOLEAN /\ ticking \in BOOLEAN /\ page \in {"history", "other"}
      BY Zenon DEF Init
    <3>2. keys \in 0 .. MaxKeys
      BY HistoryPageAssumption DEF Init
    <3> QED  BY <3>1, <3>2 DEF AppTyped
  <2> QED  BY <2>3, <2>4, <2>5, <2>6 DEF Typed
<1>2. Typed /\ [Next]_vars => Typed'
  BY RunStep, DeliverStep, KeyStep, OtherStep DEF Next
<1>3. Typed /\ CursorOnEntry => TypeOK
  BY TypedSuffices
<1> QED  BY <1>1, <1>2, <1>3, CursorCorrect, PTL DEF Spec
-----------------------------------------------------------------------------
(* The database behind the page.                                           *)

\* Who is past the search for a duplicate holds the mutex, and the search is
\* still right: nothing was inserted meanwhile.
Guarded ==
    /\ \A f \in Flow : At(f, "check") => dedupMu = f
    /\ \A f \in Flow : skipDuplicates /\ At(f, "insert") =>
          dedupMu = f /\ ~Stored(RequestOf[f])

\* Rows come from calls that ended well.
RowsSaved == \A id \in DOMAIN entryRows : At(entryRows[id], "saved")

\* Between the count and the deletion of everything, what is unflagged is new.
Counted ==
    bulk.op = "deleteAll" =>
        /\ bulk.upTo <= lastEntry
        /\ ~bulk.unflagged => \A id \in UnflaggedEntries : id > bulk.upTo
-----------------------------------------------------------------------------
\* Every variable of HistoryDB keeps its type, for any flows and reports.
THEOREM StoreTypeCorrect == DBSpec => []DBTypeOK
<1>. USE HistoryAssumption
<1>1. DBInit => DBTypeOK
  BY DEF DBInit, DBTypeOK, PC, Bulk, Idle, Actor
<1>2. DBTypeOK /\ [DBNext]_dbVars => DBTypeOK'
  <2>. SUFFICES ASSUME DBTypeOK, [DBNext]_dbVars PROVE DBTypeOK'
    OBVIOUS
  <2>. USE DEF DBTypeOK
  <2>. USE DEF entryVars, findingVars, goroutines, tables
  <2>1. ASSUME NEW f \in Flow, Submit(f) \/ LockDedup(f) \/ HasDuplicate(f) \/ InsertFails(f)
        PROVE  DBTypeOK'
    BY <2>1 DEF Submit, LockDedup, HasDuplicate, InsertFails, At, Goto, Lock, Unlock,
                PC, Ended, Actor
  <2>2. ASSUME NEW f \in Flow, InsertEntry(f) PROVE DBTypeOK'
    <3>1. pc' \in [Actor -> PC] /\ dedupMu' \in Actor \cup {Nobody}
      BY <2>2 DEF InsertEntry, At, Goto, Unlock, PC, Ended, Actor
    <3>2. /\ lastEntry' \in Nat
          /\ DOMAIN entryRows' \subseteq 1..lastEntry' /\ flaggedEntries' \subseteq DOMAIN entryRows'
          /\ \A id \in DOMAIN entryRows' : entryRows'[id] \in Flow
      BY <2>2 DEF InsertEntry
    <3>. QED
      BY <2>2, <3>1, <3>2 DEF InsertEntry
  <2>3. ASSUME NEW r \in Report, LockFindings(r) \/ UpsertFinding(r) \/ UpsertFails(r)
        PROVE  DBTypeOK'
    BY <2>3 DEF LockFindings, UpsertFinding, UpsertFails, At, Goto, Lock, Unlock, PC, Ended, Actor
  <2>4. ASSUME NEW id \in DOMAIN entryRows, ToggleFlag(id) \/ DeleteEntry(id) PROVE DBTypeOK'
    BY <2>4 DEF ToggleFlag, DeleteEntry, KeepOnly, Toggled
  <2>5. CASE CountUnflagged \/ CountActive
    <3>1. ASSUME NEW u \in BOOLEAN PROVE [op |-> "deleteAll", unflagged |-> u, upTo |-> lastEntry] \in Bulk
      BY DEF Bulk
    <3>2. ASSUME NEW u \in BOOLEAN PROVE [op |-> "dismissAll", upTo |-> 0, unflagged |-> u] \in Bulk
      BY DEF Bulk
    <3>3. bulk' \in Bulk
      BY <2>5, <3>1, <3>2 DEF CountUnflagged, CountActive
    <3>. QED
      BY <2>5, <3>3 DEF CountUnflagged, CountActive
  <2>6. CASE DeleteAllExceptFlagged
    BY <2>6 DEF DeleteAllExceptFlagged, KeepOnly, Bulk, Idle
  <2>7. ASSUME NEW k \in findings, ToggleFindingFlag(k) \/ DismissFinding(k) PROVE DBTypeOK'
    BY <2>7 DEF ToggleFindingFlag, DismissFinding, Toggled
  <2>8. CASE DismissAllFindings
    BY <2>8 DEF DismissAllFindings, Bulk, Idle
  <2>9. CASE BulkFails
    BY <2>9 DEF BulkFails, Bulk, Idle
  <2>10. CASE Restart
    <3>1. pc' \in [Actor -> PC]
      BY <2>10 DEF Restart, PC, Ended
    <3>. QED
      BY <2>10, <3>1 DEF Restart, Bulk, Idle
  <2>11. CASE UNCHANGED dbVars
    BY <2>11 DEF dbVars
  <2>. QED
    BY <2>1, <2>2, <2>3, <2>4, <2>5, <2>6, <2>7, <2>8, <2>9, <2>10, <2>11
    DEF DBNext, Goroutine, EventLoop
<1>. QED
  BY <1>1, <1>2, PTL DEF DBSpec
-----------------------------------------------------------------------------
(* The inductive invariant of the rest.                                    *)

LedgerOK == Guarded /\ RowsSaved /\ DuplicatesWereStored /\ Counted

LEMMA CheckStep ==
    ASSUME DBTypeOK, LedgerOK, NEW f \in Flow,
           Submit(f) \/ LockDedup(f) \/ HasDuplicate(f) \/ InsertFails(f)
    PROVE  LedgerOK'
<1>. USE HistoryAssumption DEF DBTypeOK, LedgerOK, At, Goto, tables, entryVars, findingVars, Actor
<1>0. /\ UNCHANGED <<entryVars, bulk>>
      /\ skipDuplicates' = skipDuplicates
      /\ pc[f] \notin Ended
      /\ pc' = [pc EXCEPT ![f] = pc'[f]]
  BY DEF Submit, LockDedup, HasDuplicate, InsertFails, Ended
<1>1. Guarded'
  BY <1>0 DEF Guarded, Submit, LockDedup, HasDuplicate, InsertFails, Lock, Unlock, Stored
<1>2. RowsSaved'
  BY <1>0 DEF RowsSaved, Ended
<1>3. DuplicatesWereStored'
  <2>1. ASSUME pc'[f] = "duplicate"
        PROVE  \E g \in Flow : g # f /\ At(g, "saved") /\ RequestOf[g] = RequestOf[f]
    BY <1>0, <2>1 DEF Submit, LockDedup, HasDuplicate, InsertFails, Stored, RowsSaved, Ended
  <2>. QED
    BY <1>0, <2>1 DEF DuplicatesWereStored, Ended
<1>4. Counted'
  BY <1>0 DEF Counted, UnflaggedEntries
<1>. QED
  BY <1>1, <1>2, <1>3, <1>4

LEMMA InsertStep ==
    ASSUME DBTypeOK, LedgerOK, NEW f \in Flow, InsertEntry(f)
    PROVE  LedgerOK'
<1>. USE HistoryAssumption DEF DBTypeOK, LedgerOK, At, Goto, Actor
<1>1. Guarded'
  <2>1. ASSUME NEW g \in Flow, pc'[g] = "check" PROVE dedupMu' = g
    BY <2>1 DEF Guarded, InsertEntry, Unlock
  <2>2. ASSUME NEW g \in Flow, skipDuplicates', pc'[g] = "insert" PROVE FALSE
    BY <2>2 DEF Guarded, InsertEntry
  <2>. QED
    BY <2>1, <2>2 DEF Guarded
<1>2. RowsSaved'
  BY DEF RowsSaved, InsertEntry
<1>3. DuplicatesWereStored'
  BY DEF DuplicatesWereStored, InsertEntry
<1>4. Counted'
  BY DEF Counted, InsertEntry, UnflaggedEntries, Bulk
<1>. QED
  BY <1>1, <1>2, <1>3, <1>4

\* Findings share the mutex with the entries and nothing else.
LEMMA ReportStep ==
    ASSUME DBTypeOK, LedgerOK, NEW r \in Report,
           LockFindings(r) \/ UpsertFinding(r) \/ UpsertFails(r)
    PROVE  LedgerOK'
<1>. USE HistoryAssumption DEF DBTypeOK, LedgerOK, At, Goto, tables, entryVars, findingVars, Actor
<1>1. /\ UNCHANGED <<entryVars, bulk>>
      /\ skipDuplicates' = skipDuplicates
      /\ \A f \in Flow : pc'[f] = pc[f]
      /\ \A f \in Flow : dedupMu = f => dedupMu' = f
  BY DEF LockFindings, UpsertFinding, UpsertFails, Lock, Unlock
<1>. QED
  BY <1>1 DEF Guarded, RowsSaved, DuplicatesWereStored, Counted, Stored, UnflaggedEntries

LEMMA EventLoopStep ==
    ASSUME DBTypeOK, LedgerOK, EventLoop
    PROVE  LedgerOK'
<1>. USE HistoryAssumption DEF DBTypeOK, LedgerOK, At, Actor
<1>1. /\ UNCHANGED <<lastEntry, goroutines>>
      /\ DOMAIN entryRows' \subseteq DOMAIN entryRows
      /\ \A id \in DOMAIN entryRows' : entryRows'[id] = entryRows[id]
  BY DEF EventLoop, ToggleFlag, DeleteEntry, CountUnflagged, DeleteAllExceptFlagged,
         ToggleFindingFlag, DismissFinding, CountActive, DismissAllFindings, BulkFails,
         KeepOnly, tables, entryVars, DBTypeOK
<1>2. Guarded'
  BY <1>1 DEF Guarded, Stored, goroutines
<1>3. RowsSaved' /\ DuplicatesWereStored'
  BY <1>1 DEF RowsSaved, DuplicatesWereStored, goroutines
<1>4. Counted'
  <2>1. CASE CountUnflagged
    <3>1. bulk'.upTo = lastEntry /\ bulk'.unflagged = (UnflaggedEntries # {})
      BY <2>1, Zenon DEF CountUnflagged
    <3>2. UnflaggedEntries' = UnflaggedEntries /\ lastEntry' = lastEntry
      BY <2>1 DEF CountUnflagged, UnflaggedEntries, tables, entryVars
    <3>. QED
      <4>1. bulk'.upTo <= lastEntry'
        BY <3>1, <3>2
      <4>2. ~bulk'.unflagged => UnflaggedEntries' = {}
        BY <3>1, <3>2, Zenon
      <4>. QED
        BY <4>1, <4>2 DEF Counted
  <2>2. CASE bulk'.op # "deleteAll"
    BY <2>2 DEF Counted
  <2>3. ASSUME CountActive PROVE bulk'.op # "deleteAll"
    <3>1. bulk'.op = "dismissAll"
      BY <2>3, Zenon DEF CountActive
    <3>. QED
      BY <3>1
  <2>4. ASSUME NEW id \in DOMAIN entryRows, ToggleFlag(id) \/ DeleteEntry(id)
        PROVE  bulk'.op # "deleteAll"
    BY <2>4 DEF ToggleFlag, DeleteEntry, BulkIdle
  <2>5. ASSUME NEW k \in findings, ToggleFindingFlag(k) \/ DismissFinding(k)
        PROVE  bulk'.op # "deleteAll"
    BY <2>5 DEF ToggleFindingFlag, DismissFinding, BulkIdle
  <2>6. ASSUME DeleteAllExceptFlagged \/ DismissAllFindings \/ BulkFails
        PROVE  bulk'.op # "deleteAll"
    BY <2>6 DEF DeleteAllExceptFlagged, DismissAllFindings, BulkFails, Idle
  <2>. QED
    BY <2>1, <2>2, <2>3, <2>4, <2>5, <2>6 DEF EventLoop
<1>. QED
  BY <1>2, <1>3, <1>4

LEMMA RestartStep ==
    ASSUME DBTypeOK, LedgerOK, Restart
    PROVE  LedgerOK'
<1>. USE HistoryAssumption DEF DBTypeOK, LedgerOK, At, Actor, Restart, tables, entryVars
<1>1. \A f \in Flow : /\ pc'[f] \notin {"check", "insert"}
                      /\ pc[f] = "saved" => pc'[f] = "saved"
                      /\ pc'[f] = "duplicate" => pc[f] = "duplicate"
  BY DEF Ended
<1>2. Guarded' /\ RowsSaved' /\ DuplicatesWereStored'
  BY <1>1 DEF Guarded, RowsSaved, DuplicatesWereStored
<1>3. Counted'
  BY DEF Counted, Idle
<1>. QED
  BY <1>2, <1>3

\* The invariant that ties the mutex, the goroutines and the rows together.
THEOREM LedgerCorrect == DBSpec => []LedgerOK
<1>. USE HistoryAssumption
<1>1. DBInit => LedgerOK
  BY DEF DBInit, LedgerOK, Guarded, RowsSaved, DuplicatesWereStored, Counted, Idle, At, Actor
<1>2. DBTypeOK /\ LedgerOK /\ [DBNext]_dbVars => LedgerOK'
  <2>. SUFFICES ASSUME DBTypeOK, LedgerOK, [DBNext]_dbVars PROVE LedgerOK'
    OBVIOUS
  <2>1. ASSUME NEW a \in Actor, Goroutine(a) PROVE LedgerOK'
    BY <2>1, CheckStep, InsertStep, ReportStep DEF Goroutine
  <2>2. CASE UNCHANGED dbVars
    BY <2>2 DEF dbVars, tables, entryVars, goroutines, LedgerOK, Guarded, RowsSaved, DuplicatesWereStored, Counted, At,
                Stored, UnflaggedEntries
  <2>. QED
    BY <2>1, <2>2, EventLoopStep, RestartStep DEF DBNext
<1>. QED
  BY <1>1, <1>2, StoreTypeCorrect, PTL DEF DBSpec
-----------------------------------------------------------------------------
\* A flow is skipped as a duplicate only if its request was stored.
THEOREM DuplicatesCorrect == DBSpec => []DuplicatesWereStored
BY LedgerCorrect, PTL DEF LedgerOK

\* With skip_duplicates, InsertIfNotDuplicate adds no second entry for a
\* request, however many goroutines save at the same time.
THEOREM NoDuplicateCorrect == DBSpec => NoDuplicateSaved
<1>. DEFINE NoDup == skipDuplicates =>
                        \A id \in DOMAIN entryRows' \ DOMAIN entryRows :
                            ~Stored(RequestOf[entryRows'[id]])
<1>1. DBTypeOK /\ LedgerOK /\ [DBNext]_dbVars => [NoDup]_dbVars
  <2>. SUFFICES ASSUME DBTypeOK, LedgerOK, DBNext PROVE NoDup
    OBVIOUS
  <2>1. ASSUME NEW f \in Flow, InsertEntry(f) PROVE NoDup
    BY <2>1, HistoryAssumption DEF InsertEntry, LedgerOK, Guarded, At
  <2>2. CASE DOMAIN entryRows' \subseteq DOMAIN entryRows
    BY <2>2
  <2>. QED
    BY <2>1, <2>2
    DEF DBNext, Goroutine, EventLoop, Submit, LockDedup, HasDuplicate, InsertFails,
        LockFindings, UpsertFinding, UpsertFails, ToggleFlag, DeleteEntry, CountUnflagged,
        DeleteAllExceptFlagged, ToggleFindingFlag, DismissFinding, CountActive,
        DismissAllFindings, BulkFails, Restart, KeepOnly, DBTypeOK, tables, entryVars
<1>. QED
  BY <1>1, StoreTypeCorrect, LedgerCorrect, PTL DEF DBSpec, NoDuplicateSaved

\* A flagged entry goes with DeleteAll only if nothing unflagged was there
\* when the event loop counted.
THEOREM FlaggedCorrect == DBSpec => FlaggedGoLast
<1>. DEFINE FlaggedLast == bulk.op = "deleteAll" =>
                      \A id \in flaggedEntries \ DOMAIN entryRows' :
                          \A other \in UnflaggedEntries : other > bulk.upTo
<1>1. DBTypeOK /\ LedgerOK /\ [DBNext]_dbVars => [FlaggedLast]_dbVars
  <2>. SUFFICES ASSUME DBTypeOK, LedgerOK, DBNext, bulk.op = "deleteAll" PROVE FlaggedLast
    OBVIOUS
  <2>1. CASE DeleteAllExceptFlagged
    BY <2>1 DEF DeleteAllExceptFlagged, LedgerOK, Counted, KeepOnly, Bulk, DBTypeOK
  <2>2. CASE DOMAIN entryRows \subseteq DOMAIN entryRows'
    BY <2>2 DEF DBTypeOK
  <2>. QED
    BY <2>1, <2>2
    DEF DBNext, Goroutine, EventLoop, Submit, LockDedup, HasDuplicate, InsertEntry,
        InsertFails, LockFindings, UpsertFinding, UpsertFails, ToggleFlag, DeleteEntry,
        CountUnflagged, ToggleFindingFlag, DismissFinding, CountActive,
        DismissAllFindings, BulkFails, Restart, BulkIdle, tables, entryVars
<1>. QED
  BY <1>1, StoreTypeCorrect, LedgerCorrect, PTL DEF DBSpec, FlaggedGoLast

\* A dismissed finding is never shown again, whatever plugins report and
\* however often the program is restarted.
THEOREM DismissedCorrect == DBSpec => DismissedForGood
<1>1. DBNext => dismissed \subseteq dismissed'
  BY DEF DBNext, Goroutine, EventLoop, Submit, LockDedup, HasDuplicate, InsertEntry,
         InsertFails, LockFindings, UpsertFinding, UpsertFails, ToggleFlag, DeleteEntry,
         CountUnflagged, DeleteAllExceptFlagged, ToggleFindingFlag, DismissFinding,
         CountActive, DismissAllFindings, BulkFails, Restart, tables, findingVars
<1>. QED
  BY <1>1, PTL DEF DBSpec, DismissedForGood
=============================================================================
