------------------------------- MODULE AppShell -------------------------------
(***************************************************************************)
(* internal/ui/app around its pages: what is shown, who gets a message,    *)
(* the chain of ticks, the two copy overlays and the notifications         *)
(* (internal/ui/components), with the Findings page as the page that is    *)
(* modelled in full.  The messages of the other pages are in their own     *)
(* modules, and the end of the program is in PluginManager.                *)
(*                                                                         *)
(* Notifications and the broker's messages are handled first; then an      *)
(* overlay, if one is open, takes whatever comes; then the app's own cases *)
(* and the page that is shown have their turn.                             *)
(***************************************************************************)
EXTENDS FindingsPage

CONSTANTS
    Page,       \* the pages of this instance
    Copyable,   \* those of which a request can be copied
    MaxPresses, \* bound: keys pressed, and queries that fail
    MaxNotices  \* bound: notifications

ASSUME ShellAssumption ==
    /\ "Findings" \in Page
    /\ Copyable \subseteq Page \ {"Findings"}
    /\ MaxPresses \in Nat /\ MaxNotices \in Nat

VARIABLES
    page,          \* Model.page
    overlay,       \* copyAs or copy, which are alike, is open
    filtering,     \* a filter is being typed in the overlay's list
    ticking,       \* a tick is under way
    coming,        \* NotificationMsgs under way
    queue, nextID, \* notifications.Model
    timers,        \* the ids whose DismissMsg is to come
    presses

shellVars  == <<page, overlay, filtering, ticking>>
noticeVars == <<coming, queue, nextID, timers>>
vars == <<findingsVars, shellVars, noticeVars, presses>>

Init ==
    /\ FindingsInit
    /\ page \in Page \ {"Findings"}
    /\ overlay = FALSE /\ filtering = FALSE
    /\ ticking = TRUE
    /\ coming = 0 /\ queue = <<>> /\ nextID = 0 /\ timers = {}
    /\ presses = 0
-----------------------------------------------------------------------------
(* Notifications.                                                          *)

\* Bound: every notification counts, shown or not.
Announce ==
    /\ nextID + coming < MaxNotices
    /\ coming' = coming + 1

\* A plugin notifies, or a request goes to the replay page.
Notify ==
    /\ Announce
    /\ UNCHANGED <<findingsVars, shellVars, queue, nextID, timers, presses>>

NotificationMsg ==
    /\ coming > 0 /\ coming' = coming - 1
    /\ queue' = Append(queue, nextID)
    /\ nextID' = nextID + 1
    /\ timers' = timers \cup {nextID}
    /\ UNCHANGED <<findingsVars, shellVars, presses>>

\* The notifications in the queue but one.
QueueWithout(id) == Kept(queue, {k \in DOMAIN queue : queue[k] # id})

\* Mistake: an overlay takes it like any other message.
DismissMsgUnderOverlay(id) ==
    /\ id \in timers /\ timers' = timers \ {id}
    /\ queue' = IF ~overlay THEN QueueWithout(id) ELSE queue
    /\ UNCHANGED <<findingsVars, shellVars, coming, nextID, presses>>

\* After four seconds.
DismissMsg(id) ==
    /\ id \in timers /\ timers' = timers \ {id}
    /\ queue' = QueueWithout(id)
    /\ UNCHANGED <<findingsVars, shellVars, coming, nextID, presses>>
-----------------------------------------------------------------------------
(* Messages.                                                               *)

\* Every two seconds, on every page, findings are loaded and the next tick is
\* set.  An overlay takes the tick, and no other one follows.
Tick ==
    /\ ticking
    /\ \/ ~overlay /\ RefreshCmd /\ UNCHANGED ticking
       \/ overlay /\ ticking' = FALSE /\ UNCHANGED loads
    /\ UNCHANGED <<findingTable, listed, unread, page, overlay, filtering, noticeVars, presses>>

Running(i) ==
    /\ RunLoad(i)
    /\ UNCHANGED <<shellVars, noticeVars, presses>>

\* Mistake: the message goes to the page that is shown.
LoadedIfShown(i) ==
    /\ i \in DOMAIN loads /\ loads[i].done
    /\ EndLoad(i)
    /\ IF overlay \/ page # "Findings" THEN UNCHANGED <<listed, unread>>
       ELSE FindingsLoaded(loads[i].list, TRUE)
    /\ UNCHANGED <<findingTable, shellVars, noticeVars, presses>>

\* FindingsLoadedMsg reaches the Findings page whatever page is shown, but not
\* past an overlay.
Loaded(i) ==
    /\ i \in DOMAIN loads /\ loads[i].done
    /\ EndLoad(i)
    /\ IF overlay THEN UNCHANGED <<listed, unread>>
       ELSE FindingsLoaded(loads[i].list, page = "Findings")
    /\ UNCHANGED <<findingTable, shellVars, noticeVars, presses>>

\* The query fails: its message changes nothing.
LoadFails(i) ==
    /\ presses < MaxPresses /\ presses' = presses + 1
    /\ EndLoad(i)
    /\ UNCHANGED <<findingTable, listed, unread, shellVars, noticeVars>>

Reported ==
    /\ Report
    /\ UNCHANGED <<shellVars, noticeVars, presses>>
-----------------------------------------------------------------------------
(* Keys.                                                                   *)

Press == presses < MaxPresses /\ presses' = presses + 1

\* A key that no overlay takes.  (A page in which one edits takes its keys
\* too: then none of the following happens.)
Key == Press /\ ~overlay

\* A shortcut; another page than Findings also opens by itself, when a diff is
\* ready or a request goes to the replay page.
SwitchPage(p) ==
    /\ Key
    /\ page' = p
    /\ IF p = "Findings" THEN ClearUnread(findings) /\ RefreshCmd ELSE UNCHANGED <<unread, loads>>
    /\ UNCHANGED <<findingTable, listed, overlay, filtering, ticking, noticeVars>>

FindingsKey ==
    /\ Key /\ page = "Findings"
    /\ MoveCursor \/ Flag \/ Dismiss \/ DismissAll
    /\ UNCHANGED <<shellVars, noticeVars>>

\* Copy on the Findings page needs no overlay.
CopyFinding ==
    /\ Key /\ page = "Findings" /\ findings # <<>>
    /\ Announce
    /\ UNCHANGED <<findingsVars, shellVars, queue, nextID, timers>>

\* Copy and CopyAs, of the request that is selected on the page.
OpenOverlay ==
    /\ Key /\ page \in Copyable
    /\ overlay' = TRUE /\ filtering' = FALSE
    /\ UNCHANGED <<findingsVars, page, ticking, noticeVars>>

InOverlay == Press /\ overlay

\* The filter of the overlay's list is opened, accepted or given up; only
\* without one does Escape close the overlay.
OverlayFilter ==
    /\ InOverlay
    /\ filtering' = ~filtering
    /\ UNCHANGED <<findingsVars, page, overlay, ticking, noticeVars>>

OverlayEscape ==
    /\ InOverlay /\ ~filtering
    /\ overlay' = FALSE
    /\ UNCHANGED <<findingsVars, page, filtering, ticking, noticeVars>>

\* Enter copies what is selected; a filter may have left nothing to select.
OverlayEnter ==
    /\ InOverlay
    /\ overlay' = FALSE /\ filtering' = FALSE
    /\ Announce \/ (filtering /\ UNCHANGED coming)
    /\ UNCHANGED <<findingsVars, page, ticking, queue, nextID, timers>>

\* The window, and the help of the page, which takes rows from the list.  It
\* is handled under an overlay too.
Resized(perPage) ==
    /\ Press
    /\ Resize(perPage)
    /\ UNCHANGED <<shellVars, noticeVars>>

Keys ==
    \/ \E p \in Page : SwitchPage(p)
    \/ FindingsKey
    \/ CopyFinding
    \/ OpenOverlay
    \/ OverlayFilter
    \/ OverlayEscape
    \/ OverlayEnter
    \/ \E perPage \in PerPages : Resized(perPage)

Next ==
    \/ Reported
    \/ Notify
    \/ NotificationMsg
    \/ \E id \in timers : DismissMsg(id)
    \/ Tick
    \/ \E i \in DOMAIN loads : Running(i) \/ Loaded(i) \/ LoadFails(i)
    \/ Keys

Spec == Init /\ [][Next]_vars

\* Commands end and their messages come (the first does, hence each in its
\* turn), clocks go on, and nothing is assumed of the person.
FairSpec ==
    /\ Spec
    /\ WF_vars(Running(1)) /\ WF_vars(Loaded(1)) /\ WF_vars(Tick)
    /\ WF_vars(NotificationMsg)
    /\ \A id \in 0 .. MaxNotices - 1 : WF_vars(DismissMsg(id))
-----------------------------------------------------------------------------
(* Properties.                                                             *)

\* The state has its types, the cursor of the Findings page is on a finding,
\* and every notification that is queued has its timer still to come.
TypeOK ==
    /\ FindingsTypeOK
    /\ page \in Page
    /\ {overlay, filtering, ticking} \subseteq BOOLEAN
    /\ coming \in Nat /\ nextID \in Nat /\ nextID + coming <= MaxNotices
    /\ queue \in Seq(timers) /\ timers \subseteq 0 .. nextID - 1
    /\ presses \in 0 .. MaxPresses

\* Once the person and the plugins stop, the Findings page comes to show the
\* findings that are not dismissed, in whatever order old and new loads came
\* and however many an overlay took, unless a tick met an overlay.
FindingsReachTheUser == <>[](ticking => findings = LoadFindings)

\* A notification that is shown goes, even if an overlay is opened meanwhile
\* and never closed, and whatever notifications come after it.
NotificationsGo ==
    \A id \in 0 .. MaxNotices - 1 : id \in ToSet(queue) ~> id \notin ToSet(queue)

\* The mark of unseen findings is never set while they are shown, though loads
\* issued on other pages arrive at any time.
NoMarkWhileShown == page = "Findings" => ~hasUnread
=============================================================================
