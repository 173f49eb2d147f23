----------------------------- MODULE FindingsPage -----------------------------
(***************************************************************************)
(* The Findings page (internal/ui/findings) and its table, as HistoryDB    *)
(* leaves it: findings are added, flagged and dismissed, never deleted, so *)
(* their ids are 1 .. lastId.  AppShell says which of the page's actions   *)
(* the app lets happen.                                                    *)
(***************************************************************************)
EXTENDS Integers, Sequences, FiniteSets, SequencesExt, ListCursor, Positions

CONSTANTS
    MaxFindings, \* bound: findings that plugins report
    MaxLoads,    \* bound: RefreshCmds under way
    PerPages     \* numbers of rows the list may have, as the window is resized

ASSUME FindingsAssumption ==
    /\ MaxFindings \in Nat /\ MaxLoads \in Nat \ {0}
    /\ PerPages \subseteq Nat \ {0} /\ PerPages # {}

VARIABLES
    lastId, dismissed, flagged,  \* the table
    findings, cursor,            \* Model.findings, by their ids
    hasUnread, knownCount,
    pager,                       \* pager.PerPage, .Page and .TotalPages
    loads                        \* the RefreshCmds under way, in order of issue

findingTable == <<lastId, dismissed, flagged>>
listed       == <<findings, cursor, pager>>
unread       == <<hasUnread, knownCount>>
findingsVars == <<findingTable, listed, unread, loads>>

Load == [done : BOOLEAN, list : Seq(1 .. MaxFindings)]
NewLoad == [done |-> FALSE, list |-> <<>>]

\* The app's Init issues the first load.
FindingsInit ==
    /\ lastId = 0 /\ dismissed = {} /\ flagged = {}
    /\ findings = <<>> /\ cursor = 0
    /\ hasUnread = FALSE /\ knownCount = 0
    /\ \E perPage \in PerPages : pager = [perPage |-> perPage, page |-> 0, total |-> 0]
    /\ loads = <<NewLoad>>
-----------------------------------------------------------------------------
\* SELECT ... WHERE dismissed = 0 ORDER BY id ASC
LoadFindings == Ascending((1 .. lastId) \ dismissed)

RefreshCmd ==
    /\ Len(loads) < MaxLoads
    /\ loads' = Append(loads, NewLoad)

\* A plugin reports a finding that is not in the table.
Report ==
    /\ lastId < MaxFindings
    /\ lastId' = lastId + 1
    /\ UNCHANGED <<dismissed, flagged, listed, unread, loads>>

\* The goroutine of the i-th command reads the table.
RunLoad(i) ==
    /\ i \in DOMAIN loads /\ ~loads[i].done
    /\ loads' = [loads EXCEPT ![i] = [done |-> TRUE, list |-> LoadFindings]]
    /\ UNCHANGED <<findingTable, listed, unread>>

\* The message of the i-th command has come, or its query has failed.
EndLoad(i) ==
    /\ i \in DOMAIN loads
    /\ loads' = RemoveAt(loads, i)

PagesOf(n, perPage) == (n + perPage - 1) \div perPage

\* ClearUnread, of the list that is shown.
ClearUnread(list) ==
    /\ hasUnread' = FALSE
    /\ knownCount' = Len(list)

\* Mistake: the cursor is not moved into a list that became shorter.
FindingsLoadedUnclamped(list, shown) ==
    /\ findings' = list
    /\ UNCHANGED cursor
    /\ pager' = [pager EXCEPT !.page  = IF list = <<>> THEN 0 ELSE @,
                              !.total = PagesOf(Len(list), pager.perPage)]
    /\ IF shown THEN ClearUnread(list)
       ELSE hasUnread' = (hasUnread \/ Len(list) > knownCount) /\ UNCHANGED knownCount

\* FindingsLoadedMsg: the cursor stays where it is, as an index, and the page
\* of the pager as well, unless nothing is left.  The app marks the findings
\* as known if this page is shown.
FindingsLoaded(list, shown) ==
    /\ findings' = list
    /\ cursor' = IF cursor >= Len(list) THEN CursorGotoBottom(Len(list)) ELSE cursor
    /\ pager' = [pager EXCEPT !.page  = IF list = <<>> THEN 0 ELSE @,
                              !.total = PagesOf(Len(list), pager.perPage)]
    /\ IF shown THEN ClearUnread(list)
       ELSE hasUnread' = (hasUnread \/ Len(list) > knownCount) /\ UNCHANGED knownCount
-----------------------------------------------------------------------------
(* Keys of the page, and the size of its list.                             *)

GoTo(c, p) ==
    /\ cursor' = c
    /\ pager' = [pager EXCEPT !.page = p]

\* pager.PrevPage and NextPage stop at the first and at the last page.
Up ==
    /\ cursor > 0
    /\ GoTo(cursor - 1, IF cursor - 1 < pager.page * pager.perPage /\ pager.page > 0
                        THEN pager.page - 1 ELSE pager.page)

Down ==
    /\ cursor < Len(findings) - 1
    /\ GoTo(cursor + 1, IF cursor + 1 >= (pager.page + 1) * pager.perPage /\ pager.page # pager.total - 1
                        THEN pager.page + 1 ELSE pager.page)

Jump ==
    \/ GoTo(0, 0)
    \/ GoTo(CursorGotoBottom(Len(findings)), CursorGotoBottom(pager.total))
    \/ \E forward \in BOOLEAN :
         LET c == CursorMovePage(cursor, Len(findings), pager.perPage, forward)
         IN  GoTo(c, c \div pager.perPage)

MoveCursor ==
    /\ Up \/ Down \/ Jump
    /\ UNCHANGED <<findingTable, findings, unread, loads>>

Selected == findings[cursor + 1]

Flag ==
    /\ findings # <<>>
    /\ flagged' = IF Selected \in flagged THEN flagged \ {Selected} ELSE flagged \cup {Selected}
    /\ RefreshCmd
    /\ UNCHANGED <<lastId, dismissed, listed, unread>>

Dismiss ==
    /\ findings # <<>>
    /\ dismissed' = dismissed \cup {Selected}
    /\ RefreshCmd
    /\ UNCHANGED <<lastId, flagged, listed, unread>>

\* DismissAllFindings, whose two statements HistoryDB separates.
DismissAll ==
    /\ dismissed' = IF (1 .. lastId) \ (dismissed \cup flagged) # {}
                    THEN dismissed \cup ((1 .. lastId) \ flagged) ELSE 1 .. lastId
    /\ RefreshCmd
    /\ UNCHANGED <<lastId, flagged, listed, unread>>

\* recalcSizes: neither the page nor the number of pages follows.
Resize(perPage) ==
    /\ pager' = [pager EXCEPT !.perPage = perPage]
    /\ UNCHANGED <<findingTable, findings, cursor, unread, loads>>
-----------------------------------------------------------------------------
\* PageBounds: the first and the last of the positions that are drawn.
PageBounds ==
    LET start == pager.page * pager.perPage
        end   == IF start + pager.perPage <= Len(findings) THEN start + pager.perPage ELSE Len(findings)
    IN  [start |-> start, end |-> IF end < start THEN start ELSE end]

\* The list, its cursor and its table fit together: a key never indexes beyond
\* the list.
FindingsTypeOK ==
    /\ lastId \in 0 .. MaxFindings
    /\ dismissed \subseteq 1 .. lastId /\ flagged \subseteq 1 .. lastId
    /\ findings \in Seq(1 .. lastId)
    /\ cursor \in Nat /\ (findings # <<>> => cursor < Len(findings))
    /\ hasUnread \in BOOLEAN /\ knownCount \in 0 .. MaxFindings
    /\ pager \in [perPage : PerPages, page : Nat, total : Nat]
    /\ loads \in Seq(Load) /\ Len(loads) <= MaxLoads

\* "PageBounds returns clamped start/end indices for rendering a paginated
\* list" (internal/util/util.go:40).  It is not true here: a window that grows,
\* or a reload that shortens the list, leaves the pager on a page that no
\* longer exists.
BoundsInList == PageBounds.end <= Len(findings)
=============================================================================
