---------------------------- MODULE AppShellProofs ----------------------------
(***************************************************************************)
(* Theorems about AppShell, for any number of findings, loads, pages, keys *)
(* and notifications.                                                      *)
(***************************************************************************)
EXTENDS AppShell, ListFacts, TLAPS

\* FindingsLoadedMsg sets the mark only if the page is not shown, and the app
\* clears it whenever it shows the page: loads that were issued on other pages
\* and arrive later do not bring it back.
THEOREM NoMarkCorrect == Spec => []NoMarkWhileShown
<1>1. Init => NoMarkWhileShown
  BY DEF Init, FindingsInit, NoMarkWhileShown
<1>2. NoMarkWhileShown /\ [Next]_vars => NoMarkWhileShown'
  <2>. SUFFICES ASSUME NoMarkWhileShown, [Next]_vars PROVE NoMarkWhileShown'
    OBVIOUS
  <2>. USE DEF NoMarkWhileShown, shellVars, noticeVars, findingsVars, unread, listed, findingTable
  <2>1. CASE Reported
    BY <2>1 DEF Reported, Report
  <2>2. CASE Notify \/ NotificationMsg \/ \E id \in timers : DismissMsg(id)
    BY <2>2 DEF Notify, NotificationMsg, DismissMsg
  <2>3. CASE Tick
    BY <2>3 DEF Tick
  <2>4. ASSUME NEW i, Running(i) \/ Loaded(i) \/ LoadFails(i) PROVE NoMarkWhileShown'
    BY <2>4 DEF Running, RunLoad, Loaded, FindingsLoaded, ClearUnread, LoadFails
  <2>5. ASSUME NEW p \in Page, SwitchPage(p) PROVE NoMarkWhileShown'
    BY <2>5 DEF SwitchPage, ClearUnread
  <2>6. CASE FindingsKey
    BY <2>6 DEF FindingsKey, MoveCursor, Flag, Dismiss, DismissAll
  <2>7. CASE CopyFinding \/ OpenOverlay \/ OverlayFilter \/ OverlayEscape \/ OverlayEnter
    BY <2>7 DEF CopyFinding, OpenOverlay, OverlayFilter, OverlayEscape, OverlayEnter
  <2>8. ASSUME NEW perPage \in PerPages, Resized(perPage) PROVE NoMarkWhileShown'
    BY <2>8 DEF Resized, Resize
  <2>9. CASE UNCHANGED vars
    BY <2>9 DEF vars
  <2> QED  BY <2>1, <2>2, <2>3, <2>4, <2>5, <2>6, <2>7, <2>8, <2>9 DEF Next, Keys
<1> QED  BY <1>1, <1>2, PTL DEF Spec
-----------------------------------------------------------------------------
(* Types.                                                                  *)

\* What a load has read while no id beyond n was given.
LoadUpTo(n) == [done : BOOLEAN, list : {s \in Seq(1 .. n) : Len(s) <= n}]

TableInv ==
    /\ lastId \in 0 .. MaxFindings
    /\ dismissed \subseteq 1 .. lastId /\ flagged \subseteq 1 .. lastId

ListInv ==
    /\ findings \in Seq(1 .. lastId) /\ Len(findings) <= lastId
    /\ cursor \in Nat /\ (findings # <<>> => cursor < Len(findings))
    /\ hasUnread \in BOOLEAN /\ knownCount \in 0 .. lastId
    /\ pager \in [perPage : PerPages, page : Nat, total : Nat]

LoadsInv == loads \in Seq(LoadUpTo(lastId)) /\ Len(loads) <= MaxLoads

FindingsInv == TableInv /\ ListInv /\ LoadsInv

ShellInv ==
    /\ page \in Page
    /\ overlay \in BOOLEAN /\ filtering \in BOOLEAN /\ ticking \in BOOLEAN
    /\ presses \in 0 .. MaxPresses

NoticeInv ==
    /\ coming \in Nat /\ nextID \in Nat /\ nextID + coming <= MaxNotices
    /\ queue \in Seq(timers) /\ timers \subseteq 0 .. nextID - 1

Constants == MaxFindings \in Nat /\ MaxLoads \in Nat /\ MaxPresses \in Nat /\ MaxNotices \in Nat

LEMMA ConstantsAreNumbers == Constants
BY FindingsAssumption, ShellAssumption DEF Constants

LEMMA SeqOfMore ==
    ASSUME NEW S, NEW T, S \subseteq T
    PROVE  Seq(S) \subseteq Seq(T)
OBVIOUS

LEMMA LoadsGrow ==
    ASSUME NEW n \in Nat, NEW m \in Nat, n <= m
    PROVE  Seq(1 .. n) \subseteq Seq(1 .. m) /\ Seq(LoadUpTo(n)) \subseteq Seq(LoadUpTo(m))
<1>1. Seq(1 .. n) \subseteq Seq(1 .. m)
  <2>1. 1 .. n \subseteq 1 .. m
    OBVIOUS
  <2> QED  BY <2>1, SeqOfMore
<1>2. {s \in Seq(1 .. n) : Len(s) <= n} \subseteq {s \in Seq(1 .. m) : Len(s) <= m}
  <2>. SUFFICES ASSUME NEW s \in Seq(1 .. n), Len(s) <= n PROVE s \in Seq(1 .. m) /\ Len(s) <= m
    OBVIOUS
  <2>1. Len(s) \in Nat
    OBVIOUS
  <2> QED  BY <1>1, <2>1
<1>3. LoadUpTo(n) \subseteq LoadUpTo(m)
  BY <1>2, Zenon DEF LoadUpTo
<1> QED  BY <1>1, <1>3, SeqOfMore

LEMMA LoadFindingsType ==
    ASSUME TableInv
    PROVE  LoadFindings \in Seq(1 .. lastId) /\ Len(LoadFindings) <= lastId
<1>. DEFINE S == (1 .. lastId) \ dismissed
<1>1. lastId \in Nat
  BY ConstantsAreNumbers DEF TableInv, Constants
<1>2. IsFiniteSet(1 .. lastId) /\ Cardinality(1 .. lastId) = lastId
  BY <1>1, FS_Interval
<1>3. S \in SUBSET (1 .. lastId) /\ S \in SUBSET Nat
  OBVIOUS
<1>4. IsFiniteSet(S) /\ Cardinality(S) <= lastId
  BY <1>2, <1>3, FS_Subset
<1>5. LoadFindings = Ascending(S)
  BY DEF LoadFindings
<1>. HIDE DEF S
<1>6. Ascending(S) \in Seq(S) /\ Len(Ascending(S)) = Cardinality(S)
  BY <1>3, <1>4, AscendingType
<1>7. Seq(S) \subseteq Seq(1 .. lastId)
  BY <1>3, SeqOfMore
<1> QED  BY <1>4, <1>5, <1>6, <1>7

LEMMA RefreshKeeps ==
    ASSUME LoadsInv, RefreshCmd, lastId' = lastId, lastId \in Nat
    PROVE  LoadsInv'
<1>1. NewLoad \in LoadUpTo(lastId)
  <2>1. <<>> \in {s \in Seq(1 .. lastId) : Len(s) <= lastId}
    OBVIOUS
  <2> QED  BY <2>1 DEF NewLoad, LoadUpTo
<1>2. /\ Append(loads, NewLoad) \in Seq(LoadUpTo(lastId))
      /\ Len(Append(loads, NewLoad)) = Len(loads) + 1
  BY <1>1 DEF LoadsInv
<1>3. Len(loads) \in Nat /\ MaxLoads \in Nat
  BY ConstantsAreNumbers DEF LoadsInv, Constants
<1> QED  BY <1>2, <1>3 DEF RefreshCmd, LoadsInv

LEMMA EndLoadKeeps ==
    ASSUME LoadsInv, NEW i, EndLoad(i), lastId' = lastId
    PROVE  LoadsInv' /\ loads[i] \in LoadUpTo(lastId)
<1>1. i \in DOMAIN loads /\ loads' = RemoveAt(loads, i)
  BY DEF EndLoad
<1>2. RemoveAt(loads, i) \in Seq(LoadUpTo(lastId)) /\ Len(RemoveAt(loads, i)) = Len(loads) - 1
  BY <1>1, RemovedType DEF LoadsInv
<1>3. Len(loads) \in Nat /\ MaxLoads \in Nat
  BY ConstantsAreNumbers DEF LoadsInv, Constants
<1> QED  BY <1>1, <1>2, <1>3 DEF LoadsInv

LEMMA RunLoadKeeps ==
    ASSUME FindingsInv, NEW i, RunLoad(i)
    PROVE  LoadsInv'
<1>1. /\ i \in DOMAIN loads /\ lastId' = lastId
      /\ loads' = [loads EXCEPT ![i] = [done |-> TRUE, list |-> LoadFindings]]
  BY DEF RunLoad, findingTable
<1>2. [done |-> TRUE, list |-> LoadFindings] \in LoadUpTo(lastId)
  <2>1. LoadFindings \in {s \in Seq(1 .. lastId) : Len(s) <= lastId}
    BY LoadFindingsType DEF FindingsInv
  <2> QED  BY <2>1 DEF LoadUpTo
<1>3. loads' \in Seq(LoadUpTo(lastId)) /\ Len(loads') = Len(loads)
  BY <1>1, <1>2 DEF FindingsInv, LoadsInv
<1> QED  BY <1>1, <1>3 DEF FindingsInv, LoadsInv

LEMMA PagesType ==
    ASSUME NEW n \in Nat, NEW perPage \in PerPages
    PROVE  PagesOf(n, perPage) \in Nat
<1>1. perPage \in Nat \ {0}
  BY FindingsAssumption
<1> QED  BY <1>1 DEF PagesOf

\* A reload: the list may have become shorter, or empty.
LEMMA LoadedKeeps ==
    ASSUME ListInv, lastId \in Nat, lastId' = lastId, NEW shown,
           NEW list \in Seq(1 .. lastId), Len(list) <= lastId, FindingsLoaded(list, shown)
    PROVE  ListInv'
<1>1. Len(list) \in Nat /\ (list = <<>> <=> Len(list) = 0)
  OBVIOUS
<1>2. /\ findings' = list
      /\ cursor' = IF cursor >= Len(list) THEN CursorGotoBottom(Len(list)) ELSE cursor
      /\ pager' = [pager EXCEPT !.page  = IF list = <<>> THEN 0 ELSE @,
                                !.total = PagesOf(Len(list), pager.perPage)]
  BY DEF FindingsLoaded
<1>3. cursor' \in Nat /\ (findings' # <<>> => cursor' < Len(findings'))
  BY <1>1, <1>2 DEF ListInv, CursorGotoBottom
<1>4. pager' \in [perPage : PerPages, page : Nat, total : Nat]
  <2>1. pager.perPage \in PerPages
    BY DEF ListInv
  <2>2. PagesOf(Len(list), pager.perPage) \in Nat
    BY <1>1, <2>1, PagesType
  <2> QED  BY <1>2, <2>2 DEF ListInv
<1>5. hasUnread' \in BOOLEAN /\ knownCount' \in 0 .. lastId
  <2>1. CASE ClearUnread(list)
    <3>1. knownCount' = Len(list) /\ hasUnread' = FALSE
      BY <2>1 DEF ClearUnread
    <3>2. hasUnread' \in BOOLEAN
      BY <3>1
    <3> QED  BY <1>1, <3>1, <3>2
  <2>2. CASE hasUnread' = (hasUnread \/ Len(list) > knownCount) /\ UNCHANGED knownCount
    <3>1. knownCount' \in 0 .. lastId
      BY <2>2 DEF ListInv
    <3>2. hasUnread' \in BOOLEAN
      BY <2>2
    <3> QED  BY <3>1, <3>2
  <2> QED  BY <2>1, <2>2 DEF FindingsLoaded
<1> QED  BY <1>2, <1>3, <1>4, <1>5 DEF ListInv

\* The keys that move the cursor.
LEMMA MoveCursorKeeps ==
    ASSUME ListInv, lastId \in Nat, MoveCursor
    PROVE  ListInv'
<1>1. /\ findings \in Seq(1 .. lastId) /\ Len(findings) \in Nat /\ cursor \in Nat
      /\ (findings = <<>> <=> Len(findings) = 0) /\ (findings # <<>> => cursor < Len(findings))
      /\ pager \in [perPage : PerPages, page : Nat, total : Nat]
      /\ pager.perPage \in Nat \ {0} /\ pager.page \in Nat /\ pager.total \in Nat
  <2>1. /\ findings \in Seq(1 .. lastId) /\ cursor \in Nat
        /\ (findings # <<>> => cursor < Len(findings))
        /\ pager \in [perPage : PerPages, page : Nat, total : Nat]
    BY DEF ListInv
  <2>2. pager.perPage \in Nat \ {0} /\ pager.page \in Nat /\ pager.total \in Nat
    BY <2>1, FindingsAssumption
  <2>3. Len(findings) \in Nat /\ (findings = <<>> <=> Len(findings) = 0)
    BY <2>1
  <2> QED  BY <2>1, <2>2, <2>3
<1>2. UNCHANGED <<findings, hasUnread, knownCount, lastId>>
  BY DEF MoveCursor, findingTable, unread
<1>3. ASSUME NEW c \in Nat, NEW p \in Nat, GoTo(c, p), findings # <<>> => c < Len(findings)
      PROVE  ListInv'
  <2>1. cursor' = c /\ pager' \in [perPage : PerPages, page : Nat, total : Nat]
    BY <1>1, <1>3 DEF GoTo
  <2> QED  BY <1>2, <1>3, <2>1 DEF ListInv
<1>4. CASE Up
  BY <1>1, <1>3, <1>4 DEF Up
<1>5. CASE Down
  BY <1>1, <1>3, <1>5 DEF Down
<1>6. CASE Jump
  <2>1. CASE GoTo(0, 0)
    BY <1>1, <1>3, <2>1
  <2>2. CASE GoTo(CursorGotoBottom(Len(findings)), CursorGotoBottom(pager.total))
    BY <1>1, <1>3, <2>2 DEF CursorGotoBottom
  <2>3. ASSUME NEW forward \in BOOLEAN,
               GoTo(CursorMovePage(cursor, Len(findings), pager.perPage, forward),
                    CursorMovePage(cursor, Len(findings), pager.perPage, forward) \div pager.perPage)
        PROVE  ListInv'
    <3>. DEFINE c == CursorMovePage(cursor, Len(findings), pager.perPage, forward)
    <3>1. ValidCursor(c, Len(findings))
      BY <1>1, MovePageValid
    <3>. HIDE DEF c
    <3>2. c \in Nat /\ (findings # <<>> => c < Len(findings))
      BY <1>1, <3>1 DEF ValidCursor
    <3>3. c \div pager.perPage \in Nat
      BY <1>1, <3>2
    <3> QED  BY <1>3, <2>3, <3>2, <3>3 DEF c
  <2> QED  BY <1>6, <2>1, <2>2, <2>3 DEF Jump
<1> QED  BY <1>4, <1>5, <1>6 DEF MoveCursor

LEMMA FindingsStep ==
    FindingsInv /\ [Next]_vars => FindingsInv'
<1>. SUFFICES ASSUME FindingsInv, [Next]_vars PROVE FindingsInv'
  OBVIOUS
<1>. USE DEF FindingsInv, shellVars, noticeVars, findingsVars, unread, listed, findingTable
<1>0. lastId \in Nat /\ MaxFindings \in Nat /\ lastId <= MaxFindings
  BY ConstantsAreNumbers DEF TableInv, Constants
<1>1. ASSUME UNCHANGED findingsVars PROVE FindingsInv'
  BY <1>1 DEF TableInv, ListInv, LoadsInv
<1>2. CASE Reported
  <2>1. /\ lastId < MaxFindings /\ lastId' = lastId + 1
        /\ UNCHANGED <<dismissed, flagged, findings, cursor, pager, hasUnread, knownCount, loads>>
    BY <1>2 DEF Reported, Report
  <2>2. TableInv'
    BY <1>0, <2>1 DEF TableInv
  <2>3. /\ Seq(1 .. lastId) \subseteq Seq(1 .. lastId')
        /\ Seq(LoadUpTo(lastId)) \subseteq Seq(LoadUpTo(lastId'))
    BY <1>0, <2>1, LoadsGrow
  <2>4. findings' \in Seq(1 .. lastId') /\ Len(findings') <= lastId'
    <3>1. Len(findings) \in Nat /\ Len(findings) <= lastId /\ findings \in Seq(1 .. lastId)
      BY DEF ListInv
    <3> QED  BY <1>0, <2>1, <2>3, <3>1
  <2>5. ListInv'
    BY <1>0, <2>1, <2>4 DEF ListInv
  <2> QED  BY <2>1, <2>2, <2>3, <2>5 DEF LoadsInv
<1>3. CASE Tick
  <2>1. UNCHANGED <<findingTable, listed, unread>> /\ (RefreshCmd \/ loads' = loads)
    BY <1>3 DEF Tick
  <2> QED  BY <1>0, <2>1, RefreshKeeps DEF TableInv, ListInv, LoadsInv
<1>4. ASSUME NEW i, Running(i) PROVE FindingsInv'
  <2>1. RunLoad(i) /\ UNCHANGED <<findingTable, listed, unread>>
    BY <1>4 DEF Running, RunLoad
  <2> QED  BY <2>1, RunLoadKeeps DEF TableInv, ListInv
<1>5. ASSUME NEW i, Loaded(i) PROVE FindingsInv'
  <2>1. EndLoad(i) /\ UNCHANGED <<lastId, dismissed, flagged>>
    BY <1>5 DEF Loaded
  <2>2. LoadsInv' /\ loads[i] \in LoadUpTo(lastId)
    BY <2>1, EndLoadKeeps
  <2>3. loads[i].list \in Seq(1 .. lastId) /\ Len(loads[i].list) <= lastId
    BY <2>2 DEF LoadUpTo
  <2>4. ListInv'
    <3>1. CASE overlay
      BY <1>5, <2>1, <3>1 DEF Loaded, ListInv
    <3>2. CASE ~overlay
      <4>1. FindingsLoaded(loads[i].list, page = "Findings")
        BY <1>5, <3>2 DEF Loaded
      <4> QED  BY <1>0, <2>1, <2>3, <4>1, LoadedKeeps
    <3> QED  BY <3>1, <3>2
  <2> QED  BY <2>1, <2>2, <2>4 DEF TableInv
<1>6. ASSUME NEW i, LoadFails(i) PROVE FindingsInv'
  <2>1. EndLoad(i) /\ UNCHANGED <<findingTable, listed, unread>>
    BY <1>6 DEF LoadFails
  <2> QED  BY <2>1, EndLoadKeeps DEF TableInv, ListInv
<1>7. ASSUME NEW p \in Page, SwitchPage(p) PROVE FindingsInv'
  <2>1. /\ UNCHANGED <<findingTable, listed>>
        /\ \/ ClearUnread(findings) /\ RefreshCmd
           \/ UNCHANGED <<unread, loads>>
    BY <1>7 DEF SwitchPage
  <2>2. CASE ClearUnread(findings) /\ RefreshCmd
    <3>1. hasUnread' = FALSE /\ knownCount' = Len(findings) /\ Len(findings) \in Nat
      BY <2>2 DEF ClearUnread, ListInv
    <3>2. hasUnread' \in BOOLEAN
      BY <3>1
    <3>3. knownCount' \in 0 .. lastId'
      BY <1>0, <2>1, <3>1 DEF ListInv
    <3>4. ListInv'
      BY <2>1, <3>2, <3>3 DEF ListInv
    <3> QED  BY <1>0, <2>1, <2>2, <3>4, RefreshKeeps DEF TableInv
  <2>3. CASE UNCHANGED <<unread, loads>>
    BY <1>1, <2>1, <2>3
  <2> QED  BY <2>1, <2>2, <2>3
<1>8. CASE FindingsKey
  <2>1. CASE MoveCursor
    <3>1. ListInv' /\ UNCHANGED <<findingTable, loads>>
      BY <1>0, <2>1, MoveCursorKeeps DEF MoveCursor
    <3> QED  BY <3>1 DEF TableInv, LoadsInv
  <2>2. ASSUME findings # <<>> PROVE Selected \in 1 .. lastId
    <3>1. findings \in Seq(1 .. lastId) /\ ValidCursor(cursor, Len(findings))
      BY <2>2 DEF ListInv, ValidCursor
    <3> QED  BY <2>2, <3>1, UnderTheCursor DEF Selected
  <2>3. CASE Flag \/ Dismiss \/ DismissAll
    <3>1. UNCHANGED <<lastId, listed, unread>> /\ RefreshCmd
      BY <2>3 DEF Flag, Dismiss, DismissAll
    <3>2. dismissed' \subseteq 1 .. lastId /\ flagged' \subseteq 1 .. lastId
      <4>1. CASE Flag
        BY <2>2, <4>1 DEF Flag, TableInv
      <4>2. CASE Dismiss
        BY <2>2, <4>2 DEF Dismiss, TableInv
      <4>3. CASE DismissAll
        BY <4>3 DEF DismissAll, TableInv
      <4> QED  BY <2>3, <4>1, <4>2, <4>3
    <3>3. TableInv' /\ ListInv'
      BY <3>1, <3>2 DEF TableInv, ListInv
    <3> QED  BY <1>0, <3>1, <3>3, RefreshKeeps
  <2> QED  BY <1>8, <2>1, <2>3 DEF FindingsKey
<1>9. ASSUME NEW perPage \in PerPages, Resized(perPage) PROVE FindingsInv'
  <2>1. /\ pager' = [pager EXCEPT !.perPage = perPage]
        /\ UNCHANGED <<findingTable, findings, cursor, unread, loads>>
    BY <1>9 DEF Resized, Resize
  <2> QED  BY <2>1 DEF TableInv, ListInv, LoadsInv
<1>10. CASE Notify \/ NotificationMsg \/ (\E id \in timers : DismissMsg(id)) \/ CopyFinding
            \/ OpenOverlay \/ OverlayFilter \/ OverlayEscape \/ OverlayEnter \/ UNCHANGED vars
  BY <1>1, <1>10 DEF Notify, NotificationMsg, DismissMsg, CopyFinding, OpenOverlay, OverlayFilter,
                     OverlayEscape, OverlayEnter, vars
<1> QED
  BY <1>2, <1>3, <1>4, <1>5, <1>6, <1>7, <1>8, <1>9, <1>10 DEF Next, Keys

LEMMA ShellStep ==
    ShellInv /\ [Next]_vars => ShellInv'
<1>. SUFFICES ASSUME ShellInv, [Next]_vars PROVE ShellInv'
  OBVIOUS
<1>. USE DEF ShellInv, shellVars, noticeVars
<1>0. MaxPresses \in Nat
  BY ConstantsAreNumbers DEF Constants
<1>1. ASSUME presses < MaxPresses, presses' = presses + 1 PROVE presses' \in 0 .. MaxPresses
  BY <1>0, <1>1
<1>2. CASE Reported \/ Notify \/ NotificationMsg \/ (\E id \in timers : DismissMsg(id)) \/ UNCHANGED vars
  BY <1>2 DEF Reported, Notify, NotificationMsg, DismissMsg, vars
<1>3. CASE Tick
  BY <1>3 DEF Tick
<1>4. ASSUME NEW i, Running(i) \/ Loaded(i) \/ LoadFails(i) PROVE ShellInv'
  BY <1>1, <1>4 DEF Running, Loaded, LoadFails
<1>5. ASSUME NEW p \in Page, SwitchPage(p) PROVE ShellInv'
  BY <1>1, <1>5 DEF SwitchPage, Key, Press
<1>6. CASE FindingsKey \/ CopyFinding \/ OpenOverlay \/ OverlayEscape \/ OverlayEnter
  BY <1>1, <1>6 DEF FindingsKey, CopyFinding, OpenOverlay, OverlayEscape, OverlayEnter, Key, Press, InOverlay
<1>7. CASE OverlayFilter
  <2>1. filtering' = ~filtering /\ UNCHANGED <<page, overlay, ticking>> /\ presses' \in 0 .. MaxPresses
    BY <1>1, <1>7 DEF OverlayFilter, InOverlay, Press
  <2>2. filtering' \in BOOLEAN
    BY <2>1
  <2> QED  BY <2>1, <2>2
<1>8. ASSUME NEW perPage, Resized(perPage) PROVE ShellInv'
  BY <1>1, <1>8 DEF Resized, Press
<1> QED  BY <1>2, <1>3, <1>4, <1>5, <1>6, <1>7, <1>8 DEF Next, Keys

\* A notification leaves the queue when its own timer fires.
LEMMA NoticeStep ==
    NoticeInv /\ [Next]_vars => NoticeInv'
<1>. SUFFICES ASSUME NoticeInv, [Next]_vars PROVE NoticeInv'
  OBVIOUS
<1>. USE DEF NoticeInv, noticeVars
<1>0. MaxNotices \in Nat
  BY ConstantsAreNumbers DEF Constants
<1>1. ASSUME UNCHANGED noticeVars PROVE NoticeInv'
  BY <1>1
<1>2. ASSUME Announce, UNCHANGED <<queue, nextID, timers>> PROVE NoticeInv'
  BY <1>0, <1>2 DEF Announce
<1>3. CASE NotificationMsg
  <2>1. /\ coming > 0 /\ coming' = coming - 1 /\ queue' = Append(queue, nextID)
        /\ nextID' = nextID + 1 /\ timers' = timers \cup {nextID}
    BY <1>3 DEF NotificationMsg
  <2>2. timers' \subseteq 0 .. nextID' - 1
    BY <2>1
  <2>3. queue' \in Seq(timers')
    <3>1. queue \in Seq(timers') /\ nextID \in timers'
      BY <2>1, SeqOfMore
    <3> QED  BY <2>1, <3>1
  <2> QED  BY <1>0, <2>1, <2>2, <2>3
<1>4. ASSUME NEW id \in timers, DismissMsg(id) PROVE NoticeInv'
  <2>. DEFINE S == {k \in DOMAIN queue : queue[k] # id}
  <2>1. timers' = timers \ {id} /\ queue' = Kept(queue, S) /\ UNCHANGED <<coming, nextID>>
    BY <1>4 DEF DismissMsg, QueueWithout
  <2>2. S \in SUBSET DOMAIN queue /\ \A k \in S : queue[k] \in timers \ {id}
    OBVIOUS
  <2>. HIDE DEF S
  <2>3. /\ Kept(queue, S) \in Seq(timers) /\ Len(Kept(queue, S)) = Cardinality(S)
        /\ Cardinality(S) \in Nat
        /\ \A k \in 1 .. Cardinality(S) : Kth(S, k) \in S /\ Kept(queue, S)[k] = queue[Kth(S, k)]
    BY <2>2, KeptType
  <2>4. \A k \in 1 .. Len(Kept(queue, S)) : Kept(queue, S)[k] \in timers'
    BY <2>1, <2>2, <2>3
  <2>5. Kept(queue, S) \in Seq(timers')
    BY <2>3, <2>4
  <2> QED  BY <2>1, <2>5
<1>5. CASE Reported \/ Tick \/ (\E i \in DOMAIN loads : Running(i) \/ Loaded(i) \/ LoadFails(i))
  BY <1>1, <1>5 DEF Reported, Tick, Running, Loaded, LoadFails
<1>6. CASE Notify \/ CopyFinding \/ OverlayEnter
  <2>1. CASE Announce
    BY <1>2, <1>6, <2>1 DEF Notify, CopyFinding, OverlayEnter
  <2>2. CASE UNCHANGED coming
    BY <1>1, <1>6, <2>2 DEF Notify, CopyFinding, OverlayEnter
  <2> QED  BY <1>6, <2>1, <2>2 DEF Notify, CopyFinding, OverlayEnter
<1>7. CASE FindingsKey \/ OpenOverlay \/ OverlayFilter \/ OverlayEscape \/ (\E p \in Page : SwitchPage(p))
           \/ (\E perPage \in PerPages : Resized(perPage))
  BY <1>1, <1>7 DEF FindingsKey, OpenOverlay, OverlayFilter, OverlayEscape, SwitchPage, Resized
<1>8. CASE UNCHANGED vars
  BY <1>1, <1>8 DEF vars
<1> QED  BY <1>3, <1>4, <1>5, <1>6, <1>7, <1>8 DEF Next, Keys

\* The cursor of the Findings page is on a finding whatever order loads,
\* dismissals and keys come in, what is listed is in the table, and every
\* notification that is queued has its own timer still to come.
THEOREM TypeCorrect == Spec => []TypeOK
<1>1. Init => FindingsInv /\ ShellInv /\ NoticeInv
  <2>. SUFFICES ASSUME Init PROVE FindingsInv /\ ShellInv /\ NoticeInv
    OBVIOUS
  <2>0. Constants
    BY ConstantsAreNumbers
  <2>1. TableInv
    BY <2>0 DEF Init, FindingsInit, TableInv, Constants
  <2>2. ListInv
    <3>1. /\ findings = <<>> /\ cursor = 0 /\ hasUnread = FALSE /\ knownCount = 0 /\ lastId = 0
          /\ \E perPage \in PerPages : pager = [perPage |-> perPage, page |-> 0, total |-> 0]
      BY DEF Init, FindingsInit
    <3>2. pager \in [perPage : PerPages, page : Nat, total : Nat]
      BY <3>1
    <3>3. hasUnread \in BOOLEAN
      BY <3>1
    <3>4. findings \in Seq(1 .. lastId) /\ Len(findings) <= lastId
      BY <3>1
    <3>5. knownCount \in 0 .. lastId /\ cursor \in Nat
      BY <3>1
    <3> QED  BY <3>1, <3>2, <3>3, <3>4, <3>5 DEF ListInv
  <2>3. loads \in Seq(LoadUpTo(lastId))
    <3>1. <<>> \in {s \in Seq(1 .. 0) : Len(s) <= 0}
      OBVIOUS
    <3>2. NewLoad \in LoadUpTo(0)
      BY <3>1 DEF NewLoad, LoadUpTo
    <3> QED  BY <3>2 DEF Init, FindingsInit
  <2>4. Len(loads) <= MaxLoads
    BY FindingsAssumption DEF Init, FindingsInit
  <2>5. ShellInv
    <3>1. presses \in 0 .. MaxPresses
      BY <2>0 DEF Init, Constants
    <3>2. overlay \in BOOLEAN /\ filtering \in BOOLEAN /\ ticking \in BOOLEAN
      BY Zenon DEF Init
    <3> QED  BY <3>1, <3>2 DEF Init, ShellInv
  <2>6. NoticeInv
    BY <2>0 DEF Init, NoticeInv, Constants
  <2> QED  BY <2>1, <2>2, <2>3, <2>4, <2>5, <2>6 DEF FindingsInv, LoadsInv
<1>2. FindingsInv /\ ShellInv /\ NoticeInv => TypeOK
  <2>. SUFFICES ASSUME FindingsInv, ShellInv, NoticeInv PROVE TypeOK
    OBVIOUS
  <2>1. lastId \in Nat /\ MaxFindings \in Nat /\ lastId <= MaxFindings
    BY ConstantsAreNumbers DEF FindingsInv, TableInv, Constants
  <2>2. LoadUpTo(MaxFindings) \subseteq Load
    BY Zenon DEF LoadUpTo, Load
  <2>3. loads \in Seq(Load) /\ Len(loads) <= MaxLoads
    BY <2>1, <2>2, LoadsGrow, SeqOfMore DEF FindingsInv, LoadsInv
  <2>4. knownCount \in 0 .. MaxFindings
    BY <2>1 DEF FindingsInv, ListInv
  <2>5. FindingsTypeOK
    BY <2>3, <2>4 DEF FindingsTypeOK, FindingsInv, TableInv, ListInv
  <2>6. overlay \in BOOLEAN /\ filtering \in BOOLEAN /\ ticking \in BOOLEAN
    BY DEF ShellInv
  <2>7. {overlay, filtering, ticking} \subseteq BOOLEAN
    BY <2>6, Zenon
  <2> QED  BY <2>5, <2>7 DEF TypeOK, ShellInv, NoticeInv
<1> QED  BY <1>1, <1>2, FindingsStep, ShellStep, NoticeStep, PTL DEF Spec
=============================================================================
