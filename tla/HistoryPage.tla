------------------------------ MODULE HistoryPage ------------------------------
(***************************************************************************)
(* The History page (internal/ui/history): the list, the cursor and the    *)
(* two searches, over the table that the proxy writes meanwhile (HistoryDB *)
(* has its statements).                                                    *)
(*                                                                         *)
(* A command (LoadEntriesCmd, SearchCmd, SQLCmd) runs in a goroutine: it   *)
(* reads the table at one moment and its message arrives at another, in    *)
(* any order with the messages of the other commands.  The app             *)
(* (internal/ui/app/update.go) gives EntriesLoadedMsg to this page always, *)
(* the messages of searches only while the page is shown, and nothing at   *)
(* all while an overlay is open.                                           *)
(***************************************************************************)
EXTENDS Integers, Sequences, FiniteSets, SequencesExt, ListCursor, Positions

CONSTANTS
    MaxEntries,  \* bound: entries the proxy saves
    MaxKeys,     \* bound: keys pressed on the page, page changes, queries that fail
    MaxJobs,     \* bound: commands under way
    Terms,       \* texts a person types, each the set of ids it matches
    NoText,      \* the empty text
    PerPage      \* rows the list shows

ASSUME HistoryPageAssumption ==
    /\ MaxEntries \in Nat /\ MaxKeys \in Nat /\ MaxJobs \in Nat /\ PerPage \in Nat \ {0}
    /\ Terms \subseteq SUBSET (1 .. MaxEntries)
    /\ NoText \notin Terms

VARIABLES
    rows, flagged, lastId,  \* the table: ids, those flagged, the last one given
    entries, cursor,        \* Model.entries, with the flags as they were read
    kind, accepted, text,   \* searchKind, searchAccepted, the search input
    searchErr,              \* the error that is drawn in place of the list
    jobs,                   \* the commands under way, in the order of their issue
    page, overlay,          \* what the app shows
    ticking,                \* the chain of ticks has not ended
    keys                    \* keys pressed so far

table  == <<rows, flagged, lastId>>
list   == <<entries, cursor>>
search == <<kind, accepted, text, searchErr>>
app    == <<page, overlay, ticking>>
vars   == <<table, list, search, jobs, app, keys>>

Id   == 1 .. MaxEntries
Text == Terms \cup {NoText}
Kind == {"off", "fulltext", "sql"}

\* No error, that of the search that is open, or one that came when none was.
Error == {"none", "own", "stray"}

\* A command, and the list it has read once it is done.
Job == [cmd : {"load", "search", "sql"}, text : Text,
        done : {"no", "yes", "failed"}, list : Seq([id : Id, flagged : BOOLEAN])]

Init ==
    /\ rows = {} /\ flagged = {} /\ lastId = 0
    /\ entries = <<>> /\ cursor = 0
    /\ kind = "off" /\ accepted = FALSE /\ text = NoText /\ searchErr = "none"
    /\ jobs = <<>>
    /\ page = "other" /\ overlay = FALSE /\ ticking = TRUE
    /\ keys = 0
-----------------------------------------------------------------------------
(***************************************************************************)
(* Statements and commands.                                                *)
(***************************************************************************)
\* The rows with the ids S as a query returns them: ORDER BY id DESC, or, for
\* a condition that does not order, in the order of the table.
Listing(S, newestFirst) ==
    LET n == Cardinality(S)
        Row(id) == [id |-> id, flagged |-> id \in flagged]
    IN  [k \in 1 .. n |-> Row(Kth(S, IF newestFirst THEN n + 1 - k ELSE k))]

ListEntries == Listing(rows, TRUE)
SearchEntries(term) == IF term = NoText THEN ListEntries ELSE Listing(rows \cap term, TRUE)
QueryEntries(where) == Listing(rows \cap where, FALSE)

NewJob(cmd, t) == [cmd |-> cmd, text |-> t, done |-> "no", list |-> <<>>]
Issue(cmd, t) ==
    /\ Len(jobs) < MaxJobs
    /\ jobs' = Append(jobs, NewJob(cmd, t))

\* Mistake: a refresh resets the search that is active.
RefreshCmdLoads(k, t) == Issue("load", NoText)

\* A refresh repeats the search that is active, but not a query.
RefreshCmd(k, t) ==
    \/ k = "off" /\ Issue("load", NoText)
    \/ k = "fulltext" /\ Issue("search", t)
    \/ k = "sql" /\ UNCHANGED jobs

\* The goroutine of a command reads the table.  A condition that is empty is
\* an error of syntax.
Run(i) ==
    /\ i \in DOMAIN jobs /\ jobs[i].done = "no"
    /\ LET j == jobs[i]
           Done(d, l) ==
               jobs' = [jobs EXCEPT ![i] = [cmd |-> j.cmd, text |-> j.text, done |-> d, list |-> l]]
       IN  \/ j.cmd = "load" /\ Done("yes", ListEntries)
           \/ j.cmd = "search" /\ Done("yes", SearchEntries(j.text))
           \/ j.cmd = "sql" /\ j.text = NoText /\ Done("failed", <<>>)
           \/ j.cmd = "sql" /\ j.text # NoText /\ Done("yes", QueryEntries(j.text))
    /\ UNCHANGED <<table, list, search, app, keys>>

\* The file cannot be read: a load that fails delivers an empty list.
QueryFails(i) ==
    /\ keys < MaxKeys /\ keys' = keys + 1
    /\ i \in DOMAIN jobs /\ jobs[i].done = "no"
    /\ LET j == jobs[i]
           Done(d) ==
               jobs' = [jobs EXCEPT ![i] = [cmd |-> j.cmd, text |-> j.text, done |-> d, list |-> <<>>]]
       IN  \/ j.cmd = "load" /\ Done("yes")
           \/ j.cmd # "load" /\ Done("failed")
    /\ UNCHANGED <<table, list, search, app>>

\* The proxy saves a flow.
EntrySaved ==
    /\ lastId < MaxEntries
    /\ lastId' = lastId + 1
    /\ rows' = rows \cup {lastId'}
    /\ UNCHANGED <<flagged, list, search, jobs, app, keys>>
-----------------------------------------------------------------------------
(***************************************************************************)
(* Messages.                                                               *)
(***************************************************************************)
OnEntry == cursor < Len(entries)
SelectedID == IF OnEntry THEN entries[cursor + 1].id ELSE 0
HasID(l, id) == \E k \in DOMAIN l : l[k].id = id

\* Mistake: the cursor stays where it is, as an index.
AnchoredByIndex(l, otherwise) == IF cursor < Len(l) THEN cursor ELSE otherwise

\* Where the entry that was selected is in the list l, or else "otherwise".
Anchored(l, otherwise) ==
    IF HasID(l, SelectedID) THEN (CHOOSE k \in DOMAIN l : l[k].id = SelectedID) - 1
    ELSE otherwise

\* Background loads are ignored while a search is active.
EntriesLoaded(l) ==
    /\ IF kind # "off" /\ (accepted \/ text # NoText)
       THEN UNCHANGED list
       ELSE /\ entries' = l
            /\ cursor' = Anchored(l, IF cursor < Len(l) THEN cursor ELSE CursorGotoBottom(Len(l)))
    /\ UNCHANGED search

\* Mistake: the cursor is left beyond the results.
SearchResultUnmoved(l) ==
    /\ entries' = l /\ UNCHANGED cursor
    /\ searchErr' = "none"
    /\ accepted' = (accepted \/ kind = "sql")
    /\ UNCHANGED <<kind, text>>

\* Mistake: the error of an earlier search is not taken away.
SearchResultUnderError(l) ==
    /\ entries' = l
    /\ cursor' = Anchored(l, 0)
    /\ accepted' = (accepted \/ kind = "sql")
    /\ UNCHANGED <<kind, text, searchErr>>

SearchResult(l) ==
    /\ entries' = l
    /\ cursor' = Anchored(l, 0)
    /\ searchErr' = "none"
    /\ accepted' = (accepted \/ kind = "sql")
    /\ UNCHANGED <<kind, text>>

SearchErr ==
    /\ entries' = <<>>
    /\ searchErr' = IF kind = "off" THEN "stray" ELSE "own"
    /\ UNCHANGED <<cursor, kind, accepted, text>>

Deliver(i) ==
    /\ i \in DOMAIN jobs /\ jobs[i].done # "no"
    /\ jobs' = RemoveAt(jobs, i)
    /\ LET j == jobs[i]
           lost == overlay \/ (j.cmd # "load" /\ page # "history")
       IN  \/ lost /\ UNCHANGED <<list, search>>
           \/ ~lost /\ j.cmd = "load" /\ EntriesLoaded(j.list)
           \/ ~lost /\ j.cmd # "load" /\ j.done = "yes" /\ SearchResult(j.list)
           \/ ~lost /\ j.done = "failed" /\ SearchErr
    /\ UNCHANGED <<table, app, keys>>

\* Every two seconds.  An overlay takes the tick, and no other one follows.
Tick ==
    /\ ticking
    /\ \/ overlay /\ ticking' = FALSE /\ UNCHANGED jobs
       \/ ~overlay /\ page = "history" /\ RefreshCmd(kind, text) /\ UNCHANGED ticking
    /\ UNCHANGED <<table, list, search, page, overlay, keys>>
-----------------------------------------------------------------------------
(***************************************************************************)
(* Keys.                                                                   *)
(***************************************************************************)
Press == keys < MaxKeys /\ keys' = keys + 1
KeyOnPage == Press /\ page = "history" /\ ~overlay

IsEditing == kind # "off" /\ ~accepted
SearchMode == KeyOnPage /\ IsEditing
NormalMode == KeyOnPage /\ ~IsEditing

\* clearSearch
ClearSearch ==
    /\ kind' = "off" /\ accepted' = FALSE /\ text' = NoText /\ searchErr' = "none"
    /\ Issue("load", NoText)

\* While the search is typed, and when it is accepted.
Escape ==
    /\ KeyOnPage /\ kind # "off"
    /\ ClearSearch
    /\ UNCHANGED <<table, list, app>>

Enter ==
    /\ SearchMode
    /\ \/ kind = "sql" /\ Issue("sql", text) /\ UNCHANGED accepted
       \/ kind = "fulltext" /\ accepted' = TRUE /\ UNCHANGED jobs
    /\ UNCHANGED <<table, list, kind, text, searchErr, app>>

\* Results filter as one types; a query waits for Enter.
Type(t) ==
    /\ SearchMode
    /\ text' = t
    /\ IF kind = "fulltext" THEN Issue("search", t) ELSE UNCHANGED jobs
    /\ UNCHANGED <<table, list, kind, accepted, searchErr, app>>

\* Filter and SqlQuery open a search, or go back to the one that is accepted.
OpenSearch(k) ==
    /\ NormalMode
    /\ kind' = k /\ accepted' = FALSE /\ searchErr' = "none"
    /\ IF kind = k THEN UNCHANGED <<text, jobs>>
       ELSE text' = NoText /\ Issue("load", NoText)
    /\ UNCHANGED <<table, list, app>>

\* Up, Down, GotoTop, GotoBottom, PrevPage and NextPage.
MoveCursor ==
    /\ NormalMode
    /\ LET n == Len(entries)
       IN  \/ cursor > 0 /\ cursor' = cursor - 1
           \/ cursor < n - 1 /\ cursor' = cursor + 1
           \/ cursor' \in {0, CursorGotoBottom(n)}
           \/ \E forward \in BOOLEAN : cursor' = CursorMovePage(cursor, n, PerPage, forward)
    /\ UNCHANGED <<table, entries, search, jobs, app>>

\* The row may have gone since it was read.
Flag ==
    /\ NormalMode /\ entries # <<>>
    /\ flagged' = CASE SelectedID \in flagged -> flagged \ {SelectedID}
                    [] SelectedID \in rows \ flagged -> flagged \cup {SelectedID}
                    [] OTHER -> flagged
    /\ RefreshCmd(kind, text)
    /\ UNCHANGED <<rows, lastId, list, search, app>>

Delete(ids) ==
    /\ rows' = rows \ ids
    /\ flagged' = flagged \ ids
    /\ UNCHANGED lastId

DeleteSelected ==
    /\ NormalMode /\ entries # <<>>
    /\ Delete({SelectedID})
    /\ Issue("load", NoText)
    /\ UNCHANGED <<list, search, app>>

\* The ids DeleteAll takes: without a search what DeleteAllExceptFlagged
\* takes (whose two statements HistoryDB separates), with one the entries
\* listed, by the flags that are listed.
ToDelete ==
    IF kind = "off" THEN IF rows \ flagged # {} THEN rows \ flagged ELSE rows
    ELSE LET listed == ToSet(entries)
             unflagged == {e \in listed : ~e.flagged}
         IN  {e.id : e \in IF unflagged # {} THEN unflagged ELSE listed}

DeleteAll ==
    /\ NormalMode
    /\ Delete(ToDelete)
    /\ ClearSearch
    /\ UNCHANGED <<list, app>>
-----------------------------------------------------------------------------
(***************************************************************************)
(* The app around the page.                                                *)
(***************************************************************************)
\* By a shortcut, or when the replay or the diff page opens by itself.
LeavePage ==
    /\ Press /\ ~overlay /\ page = "history"
    /\ page' = "other"
    /\ UNCHANGED <<table, list, search, jobs, overlay, ticking>>

EnterPage ==
    /\ Press /\ ~overlay /\ page = "other"
    /\ page' = "history"
    /\ RefreshCmd(kind, text)
    /\ UNCHANGED <<table, list, search, overlay, ticking>>

\* Copy and CopyAs: of what is selected, here or on another page.
OpenOverlay ==
    /\ Press /\ ~overlay
    /\ page = "history" => ~IsEditing /\ OnEntry
    /\ overlay' = TRUE
    /\ UNCHANGED <<table, list, search, jobs, page, ticking>>

CloseOverlay ==
    /\ overlay /\ overlay' = FALSE
    /\ UNCHANGED <<table, list, search, jobs, page, ticking, keys>>

Keys ==
    \/ Escape
    \/ Enter
    \/ \E t \in Text : Type(t)
    \/ \E k \in {"fulltext", "sql"} : OpenSearch(k)
    \/ MoveCursor
    \/ Flag
    \/ DeleteSelected
    \/ DeleteAll

Next ==
    \/ EntrySaved
    \/ \E i \in 1 .. MaxJobs : Run(i) \/ QueryFails(i) \/ Deliver(i)
    \/ Tick
    \/ Keys
    \/ LeavePage
    \/ EnterPage
    \/ OpenOverlay
    \/ CloseOverlay

Spec == Init /\ [][Next]_vars

\* Every command ends and its message comes (the first of them does, hence
\* each in its turn), and the clock goes on.
FairSpec == Spec /\ WF_vars(Run(1)) /\ WF_vars(Deliver(1)) /\ WF_vars(Tick)
-----------------------------------------------------------------------------
(***************************************************************************)
(* Properties.                                                             *)
(***************************************************************************)
\* The state has its types; every handler that indexes the list with the
\* cursor finds an entry there unless the list is empty.
TypeOK ==
    /\ lastId \in 0 .. MaxEntries
    /\ rows \subseteq 1 .. lastId /\ flagged \subseteq rows
    /\ entries \in Seq([id : 1 .. lastId, flagged : BOOLEAN])
    /\ cursor \in Nat
    /\ entries # <<>> => cursor < Len(entries)
    /\ kind \in Kind /\ accepted \in BOOLEAN /\ text \in Text /\ searchErr \in Error
    /\ jobs \in Seq(Job) /\ Len(jobs) <= MaxJobs
    /\ page \in {"history", "other"} /\ {overlay, ticking} \subseteq BOOLEAN
    /\ keys \in 0 .. MaxKeys

\* "new entries are prepended; a pure index-based cursor would silently jump
\* to a different entry" (the comment in EntriesLoadedMsg): whatever message
\* replaces the list, the selection stays on its entry if that is listed.
SelectionFollowsEntry ==
    [][Len(jobs') < Len(jobs) /\ OnEntry /\ HasID(entries', SelectedID)
         => SelectedID' = SelectedID]_vars

\* What the person asked to see: the whole table, or what matches the text.
Asked == IF kind = "fulltext" THEN SearchEntries(text) ELSE ListEntries

\* Once the person and the proxy stop, the page comes to draw the list that was
\* asked for (not an error in its place), with the flags and without the
\* deleted rows of the table, in whatever order old and new results arrive;
\* unless a tick met an overlay, or an SQL query is shown, which nothing
\* repeats, or the error of a search came after that search was left, which
\* nothing takes away: EntriesLoadedMsg leaves searchErr alone.
ShowsWhatIsAsked ==
    <>[](ticking /\ page = "history" /\ ~overlay /\ kind # "sql" /\ searchErr # "stray"
           => searchErr = "none" /\ entries = Asked)

\* "press : to open it, then Enter to run" (docs/history.md): the query that
\* is being typed is accepted only by the result of a query.
SqlRunsOnEnter ==
    [][kind = "sql" /\ ~accepted /\ accepted' => \E i \in DOMAIN jobs : jobs[i].cmd = "sql"]_vars
=============================================================================
