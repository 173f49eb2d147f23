------------------------------ MODULE ReplayPage ------------------------------
(***************************************************************************)
(* The Replay page (internal/ui/replay/{model,update}.go) with its table   *)
(* replay_entries (internal/db/replay.go), the sends under way and what    *)
(* the app does with its messages (internal/ui/app/update.go).             *)
(*                                                                         *)
(* The page keeps allEntries, and shows entries: the same slice when no    *)
(* filter applies, a copy of the matching entries when one does.  A send   *)
(* runs in a goroutine and its result, sentMsg, names the entry by its     *)
(* index in allEntries.                                                    *)
(***************************************************************************)
EXTENDS Integers, Sequences, FiniteSets, SequencesExt, Bags, BagsExt, ListCursor, Positions

CONSTANTS
    MaxEntries,          \* bound: requests sent to replay in a behaviour
    Drafts,              \* texts a person types
    Terms,               \* filter texts: each the set of entries it matches
    NoText, NoResponse, NoTerm,
    PerPage,             \* rows the list shows
    SwitchToPageOnSend,  \* config replay.switch_to_page_on_send
    Deletions,           \* whether entries are deleted in this instance
    Typeahead            \* whether a key can overtake a message of the program

ASSUME ReplayAssumption ==
    /\ MaxEntries \in Nat /\ PerPage \in Nat \ {0}
    /\ {SwitchToPageOnSend, Deletions, Typeahead} \subseteq BOOLEAN
    /\ "original" \notin Drafts
    /\ Terms \subseteq SUBSET (1..MaxEntries)

VARIABLES
    allEntries,    \* Model.allEntries
    entries,       \* Model.entries, what is shown
    cursor,
    filterMode,    \* filterActive and filterAccepted
    term,          \* the filter's text
    editing, textarea,
    rows,          \* table replay_entries, by id
    lastId,        \* its AUTOINCREMENT counter
    queued,        \* a SendToReplayMsg is under way
    inFlight,      \* the sends under way, each with the index it will name
    editorResult,  \* what $EDITOR will bring back
    screen         \* what gets the app's messages: this page, another, an overlay

listVars == <<allEntries, entries, cursor>>
filterVars == <<filterMode, term>>
editVars == <<editing, textarea>>
tableVars == <<rows, lastId>>
messageVars == <<queued, inFlight, editorResult>>
vars == <<listVars, filterVars, editVars, tableVars, messageVars, screen>>

\* An entry's id is its DBID.  Insertion into the table is taken to succeed.
Id == 1..MaxEntries
Text == [of : Id, says : {"original"} \cup Drafts]
Original(id) == [of |-> id, says |-> "original"]

\* A response: to which entry's send, and to which text.
Response == [by : Id, to : Text]

Entry == [id : Id, request : Text, response : Response \cup {NoResponse},
          sending : BOOLEAN, flagged : BOOLEAN]
Row == [request : Text, response : Response \cup {NoResponse}, flagged : BOOLEAN]

NewEntry(id) == [id |-> id, request |-> Original(id), response |-> NoResponse,
                 sending |-> FALSE, flagged |-> FALSE]
ToRow(e) == [request |-> e.request, response |-> e.response, flagged |-> e.flagged]
FromRow(id) == [id |-> id, request |-> rows[id].request,
                response |-> rows[id].response, sending |-> FALSE,
                flagged |-> rows[id].flagged]

-----------------------------------------------------------------------------
(* The filtered view.                                                      *)

Filtered == filterMode # "off" /\ term # NoTerm

\* The indices, from 1, of the entries that match.
MatchingSet(list) == {i \in DOMAIN list : list[i].id \in term}
Matching(list) == Ascending(MatchingSet(list))

\* currentAllIdx.  entryIndices is nil without a filter, and when nothing
\* matches, which the code does not distinguish.
CurrentAllIdx ==
    IF Filtered /\ cursor < Len(Matching(allEntries))
    THEN Matching(allEntries)[cursor + 1] - 1
    ELSE IF cursor < Len(allEntries) THEN cursor ELSE -1

\* applyFilter, of the new list under the new filter, with the cursor where it
\* is or moved there in the same handler.
ApplyFilterFrom(current, prefer) ==
    IF Filtered'
    THEN LET shown == Matching(allEntries)'
             hits == {k \in DOMAIN shown : shown[k] = prefer + 1}
         IN  /\ entries' = [k \in DOMAIN shown |-> allEntries'[shown[k]]]
             /\ cursor' = IF hits = {} THEN 0 ELSE (CHOOSE k \in hits : TRUE) - 1
    ELSE LET n == Len(allEntries')
             wanted == IF prefer \in 0..(n - 1) THEN prefer ELSE current
         IN  /\ entries' = allEntries'
             /\ cursor' = IF n = 0 THEN 0 ELSE IF wanted >= n THEN n - 1 ELSE wanted

ApplyFilter(prefer) == ApplyFilterFrom(cursor, prefer)

Selected == entries[cursor + 1]

\* m.entries[m.cursor].RequestRaw = text: without a filter the two slices share
\* their elements, with one the copy alone is changed.
SetRequest(text) ==
    /\ entries' = [entries EXCEPT ![cursor + 1].request = text]
    /\ allEntries' = IF Filtered THEN allEntries ELSE entries'
    /\ UNCHANGED cursor

-----------------------------------------------------------------------------
(* A process starts: SetDB reads the table and the cursor is on the newest *)
(* entry.                                                                  *)

Start(ids) ==
    LET list == [i \in DOMAIN ids |-> FromRow(ids[i])]
    IN  /\ allEntries' = list /\ entries' = list
        /\ cursor' = IF list = <<>> THEN 0 ELSE Len(list) - 1
        /\ filterMode' = "off" /\ term' = NoTerm
        /\ editing' = FALSE /\ textarea' = NoText
        /\ queued' = FALSE /\ inFlight' = EmptyBag /\ editorResult' = NoText
        /\ screen' = "other"

Init ==
    /\ rows = <<>> /\ lastId = 0
    /\ allEntries = <<>> /\ entries = <<>> /\ cursor = 0
    /\ filterMode = "off" /\ term = NoTerm
    /\ editing = FALSE /\ textarea = NoText
    /\ queued = FALSE /\ inFlight = EmptyBag /\ editorResult = NoText
    /\ screen = "other"

\* The program is quit or killed, and the project opened again.
Restart ==
    /\ Start(Ascending(DOMAIN rows))
    /\ UNCHANGED tableVars

-----------------------------------------------------------------------------
(* Messages.                                                               *)

\* A key is handled after the messages the program has sent itself, unless it
\* overtakes them: both come from goroutines of their own.
KeyHandled == Typeahead \/ (~queued /\ editorResult = NoText)

\* The key of another page that sends its request to replay.
QueueRequest ==
    /\ screen = "other" /\ KeyHandled
    /\ ~queued /\ lastId < MaxEntries
    /\ queued' = TRUE
    /\ UNCHANGED <<listVars, filterVars, editVars, tableVars, inFlight>>
    /\ UNCHANGED <<editorResult, screen>>

SendToReplayMsg ==
    /\ queued /\ screen # "overlay"
    /\ queued' = FALSE
    /\ lastId' = lastId + 1
    /\ rows' = [id \in DOMAIN rows \cup {lastId'} |->
                  IF id = lastId' THEN ToRow(NewEntry(id)) ELSE rows[id]]
    /\ allEntries' = Append(allEntries, NewEntry(lastId'))
    /\ UNCHANGED <<filterVars, editVars, inFlight, editorResult>>
    /\ ApplyFilter(Len(allEntries))
    /\ screen' = IF SwitchToPageOnSend THEN "replay" ELSE screen

\* An overlay that is open gets the message and ignores it.
SendToReplayMsgLost ==
    /\ queued /\ screen = "overlay"
    /\ queued' = FALSE
    /\ UNCHANGED <<listVars, filterVars, editVars, tableVars, inFlight>>
    /\ UNCHANGED <<editorResult, screen>>

\* Mistake: the answer is shown and not stored.
SentMsgUnsaved(sent) ==
    /\ screen = "replay"
    /\ inFlight' = BagRemove(inFlight, sent)
    /\ allEntries' = [i \in DOMAIN allEntries |->
          IF i = sent.index + 1
          THEN [allEntries[i] EXCEPT !.sending = FALSE,
                       !.response = [by |-> sent.by, to |-> sent.to]]
          ELSE allEntries[i]]
    /\ UNCHANGED <<filterVars, editVars, tableVars, queued, editorResult, screen>>
    /\ ApplyFilter(CurrentAllIdx)

\* Mistake: the entry stays marked as sending.
SentMsgStillSending(sent) ==
    /\ screen = "replay"
    /\ inFlight' = BagRemove(inFlight, sent)
    /\ IF sent.index < Len(allEntries)
       THEN LET i == sent.index + 1
                e == [allEntries[i] EXCEPT
                         !.response = [by |-> sent.by, to |-> sent.to]]
            IN  /\ allEntries' = [allEntries EXCEPT ![i] = e]
                /\ rows' = [rows EXCEPT ![e.id] = ToRow(e)]
       ELSE UNCHANGED <<allEntries, rows>>
    /\ UNCHANGED <<filterVars, editVars, lastId, queued, editorResult, screen>>
    /\ ApplyFilter(CurrentAllIdx)

\* A send has ended, with a response or an error: whatever entry is now at its
\* index takes it, in memory and in the table.
SentMsg(sent) ==
    /\ screen = "replay"
    /\ inFlight' = BagRemove(inFlight, sent)
    /\ IF sent.index < Len(allEntries)
       THEN LET i == sent.index + 1
                e == [allEntries[i] EXCEPT !.sending = FALSE,
                         !.response = [by |-> sent.by, to |-> sent.to]]
            IN  /\ allEntries' = [allEntries EXCEPT ![i] = e]
                /\ rows' = [rows EXCEPT ![e.id] = ToRow(e)]
       ELSE UNCHANGED <<allEntries, rows>>
    /\ UNCHANGED <<filterVars, editVars, lastId, queued, editorResult, screen>>
    /\ ApplyFilter(CurrentAllIdx)

\* The app hands sentMsg to the page that is shown, or to the overlay.
SentMsgLost(sent) ==
    /\ screen # "replay"
    /\ inFlight' = BagRemove(inFlight, sent)
    /\ UNCHANGED <<listVars, filterVars, editVars, tableVars, queued>>
    /\ UNCHANGED <<editorResult, screen>>

\* The same of the editor's text; an empty one is ignored.
EditorFinished ==
    /\ editorResult # NoText
    /\ editorResult' = NoText
    /\ IF screen = "replay" /\ entries # <<>>
       THEN SetRequest(editorResult) ELSE UNCHANGED listVars
    /\ UNCHANGED <<filterVars, editVars, tableVars, queued, inFlight, screen>>

EditorFailed ==
    /\ editorResult # NoText
    /\ editorResult' = NoText
    /\ UNCHANGED <<listVars, filterVars, editVars, tableVars, queued, inFlight>>
    /\ UNCHANGED screen

-----------------------------------------------------------------------------
(* Keys.                                                                   *)

KeyMode == screen = "replay" /\ KeyHandled
FilterMode == KeyMode /\ ~editing /\ filterMode = "typing"
NormalMode == KeyMode /\ ~editing /\ filterMode # "typing"
OnEntry == NormalMode /\ entries # <<>>

\* Mistake: the index among the entries shown is the one that is sent along.
SendShownIndex ==
    /\ OnEntry
    /\ ~Selected.sending
    /\ LET i == CurrentAllIdx + 1
       IN  /\ allEntries' = [allEntries EXCEPT ![i].sending = TRUE,
                                               ![i].response = NoResponse]
           /\ inFlight' = BagAdd(inFlight, [index |-> cursor,
                              by |-> allEntries[i].id, to |-> allEntries[i].request])
    /\ UNCHANGED <<filterVars, editVars, tableVars, queued, editorResult, screen>>
    /\ ApplyFilter(CurrentAllIdx)

\* The entry in allEntries is sent, as it is there.
Send ==
    /\ OnEntry
    /\ ~Selected.sending
    /\ LET i == CurrentAllIdx + 1
       IN  /\ allEntries' = [allEntries EXCEPT ![i].sending = TRUE,
                                               ![i].response = NoResponse]
           /\ inFlight' = BagAdd(inFlight, [index |-> i - 1,
                              by |-> allEntries[i].id, to |-> allEntries[i].request])
    /\ UNCHANGED <<filterVars, editVars, tableVars, queued, editorResult, screen>>
    /\ ApplyFilter(CurrentAllIdx)

\* Mistake: the index among the entries shown is used for all entries.
EditUnmapped ==
    /\ OnEntry
    /\ textarea' = allEntries[cursor + 1].request
    /\ editing' = TRUE
    /\ UNCHANGED <<listVars, filterVars, tableVars, messageVars, screen>>

Edit ==
    /\ OnEntry
    /\ textarea' = Selected.request
    /\ editing' = TRUE
    /\ UNCHANGED <<listVars, filterVars, tableVars, messageVars, screen>>

\* Bound: one editor at a time.  With the response focused a copy is opened
\* to read, which changes nothing.
EditExternal ==
    /\ OnEntry
    /\ editorResult = NoText
    /\ editorResult' \in {Selected.request}
          \cup {[Selected.request EXCEPT !.says = d] : d \in Drafts}
    /\ UNCHANGED <<listVars, filterVars, editVars, tableVars, queued, inFlight>>
    /\ UNCHANGED screen

UndoEdits ==
    /\ OnEntry
    /\ SetRequest(Original(Selected.id))
    /\ UNCHANGED <<filterVars, editVars, tableVars, messageVars, screen>>

Flag ==
    /\ OnEntry
    /\ LET i == CurrentAllIdx + 1
       IN  /\ allEntries' = [allEntries EXCEPT ![i].flagged = ~@]
           /\ rows' = [rows EXCEPT ![allEntries[i].id].flagged = ~@]
    /\ UNCHANGED <<filterVars, editVars, lastId, messageVars, screen>>
    /\ ApplyFilter(CurrentAllIdx)

Delete ==
    /\ Deletions
    /\ OnEntry
    /\ rows' = Restrict(rows, DOMAIN rows \ {allEntries[CurrentAllIdx + 1].id})
    /\ allEntries' = RemoveAt(allEntries, CurrentAllIdx + 1)
    /\ UNCHANGED <<filterVars, editVars, lastId, messageVars, screen>>
    /\ ApplyFilter(IF CurrentAllIdx >= Len(allEntries') THEN Len(allEntries') - 1
                   ELSE CurrentAllIdx)

\* DeleteAllReplayEntriesExceptFlagged: the unflagged rows, or all if there
\* are none.
ExceptFlagged(table) ==
    LET flagged == {id \in DOMAIN table : table[id].flagged}
    IN  IF flagged = DOMAIN table THEN <<>> ELSE Restrict(table, flagged)

\* The table, then its mirror in memory; the filter is cleared.
DeleteAll ==
    /\ Deletions
    /\ NormalMode
    /\ rows' = ExceptFlagged(rows)
    /\ allEntries' = IF \E e \in ToSet(allEntries) : ~e.flagged
                     THEN Kept(allEntries, {i \in DOMAIN allEntries : allEntries[i].flagged}) ELSE <<>>
    /\ filterMode' = "off" /\ term' = NoTerm
    /\ UNCHANGED <<editVars, lastId, messageVars, screen>>
    /\ ApplyFilterFrom(0, -1)

\* Up, Down, GotoTop, GotoBottom, PrevPage, NextPage.
Moves(n) ==
    ({cursor - 1, cursor + 1} \cap 0..(n - 1))
        \cup {0, CursorGotoBottom(n)}
        \cup {CursorMovePage(cursor, n, PerPage, forward) : forward \in BOOLEAN}

MoveCursor ==
    /\ NormalMode
    /\ cursor' \in Moves(Len(entries))
    /\ UNCHANGED <<allEntries, entries, filterVars, editVars, tableVars>>
    /\ UNCHANGED <<messageVars, screen>>

Filter ==
    /\ NormalMode
    /\ filterMode' = "typing"
    /\ UNCHANGED <<listVars, term, editVars, tableVars, messageVars, screen>>

TypeFilter ==
    /\ FilterMode
    /\ term' \in {NoTerm} \cup Terms
    /\ UNCHANGED <<allEntries, filterMode, editVars, tableVars>>
    /\ UNCHANGED <<messageVars, screen>>
    /\ ApplyFilter(CurrentAllIdx)

AcceptFilter ==
    /\ FilterMode
    /\ filterMode' = "accepted"
    /\ UNCHANGED <<listVars, term, editVars, tableVars, messageVars, screen>>

\* Mistake: the cursor is not moved with its entry.
ClearFilterUnmoved ==
    /\ KeyMode /\ ~editing
    /\ filterMode # "off"
    /\ filterMode' = "off" /\ term' = NoTerm
    /\ UNCHANGED <<allEntries, editVars, tableVars, messageVars, screen>>
    /\ ApplyFilter(-1)

\* Escape, while the filter is typed or after it was accepted.
ClearFilter ==
    /\ KeyMode /\ ~editing
    /\ filterMode # "off"
    /\ filterMode' = "off" /\ term' = NoTerm
    /\ UNCHANGED <<allEntries, editVars, tableVars, messageVars, screen>>
    /\ ApplyFilter(CurrentAllIdx)

EditMode == KeyMode /\ editing

Type ==
    /\ EditMode
    /\ \E d \in Drafts : textarea' = [textarea EXCEPT !.says = d]
    /\ UNCHANGED <<listVars, filterVars, editing, tableVars, messageVars, screen>>

\* Leaving edit mode writes the text to the entry under the cursor.  What stays
\* in the text area is never read again.
Escape ==
    /\ EditMode
    /\ IF entries # <<>> THEN SetRequest(textarea) ELSE UNCHANGED listVars
    /\ editing' = FALSE /\ textarea' = NoText
    /\ UNCHANGED <<filterVars, tableVars, messageVars, screen>>

\* Another page or an overlay, or back, by keys that are text while a text is
\* edited; another page also opens by itself then, if its message (DiffReadyMsg)
\* was overtaken.
Navigate ==
    /\ KeyHandled
    /\ screen' \in {"replay", "other", "overlay"} \ {screen}
    /\ screen = "replay" /\ (editing \/ filterMode = "typing") =>
          Typeahead /\ screen' = "other"
    /\ UNCHANGED <<listVars, filterVars, editVars, tableVars, messageVars>>

-----------------------------------------------------------------------------
SendsOf(id) == {sent \in BagToSet(inFlight) : sent.by = id}

Deliver(id) == \E sent \in SendsOf(id) : SentMsg(sent) \/ SentMsgLost(sent)

Messages ==
    \/ SendToReplayMsg
    \/ SendToReplayMsgLost
    \/ \E id \in Id : Deliver(id)
    \/ EditorFinished
    \/ EditorFailed

Keys ==
    \/ QueueRequest
    \/ Send
    \/ Edit
    \/ EditExternal
    \/ UndoEdits
    \/ Flag
    \/ Delete
    \/ DeleteAll
    \/ MoveCursor
    \/ Filter
    \/ TypeFilter
    \/ AcceptFilter
    \/ ClearFilter
    \/ Type
    \/ Escape
    \/ Navigate

Next == Messages \/ Keys \/ Restart

Spec == Init /\ [][Next]_vars

\* A send ends, if only by the client's timeout of 30 seconds, and the event
\* loop handles its message; nothing is assumed of the person.
FairSpec == Spec /\ \A id \in Id : WF_vars(Deliver(id))

-----------------------------------------------------------------------------
(* Properties.                                                             *)

\* Every variable ranges over what the code can store in it, and
\* m.entries[m.cursor] never indexes out of range, whatever deletions, filters
\* and arrivals came before.
TypeOK ==
    /\ allEntries \in Seq(Entry) /\ entries \in Seq(Entry)
    /\ ValidCursor(cursor, Len(entries))
    /\ filterMode \in {"off", "typing", "accepted"}
    /\ term \in {NoTerm} \cup Terms
    /\ editing \in BOOLEAN /\ queued \in BOOLEAN
    /\ {textarea, editorResult} \subseteq Text \cup {NoText}
    /\ lastId \in 0..MaxEntries
    /\ DOMAIN rows \subseteq 1..lastId
    /\ \A id \in DOMAIN rows : rows[id] \in Row
    /\ BagToSet(inFlight) \subseteq [index : Nat, by : Id, to : Text]
    /\ screen \in {"replay", "other", "overlay"}

\* "filtered view; equals allEntries when no filter" (model.go:50): what is
\* shown is what matches, in order, with its flag, its response and whether it
\* is being sent; only an edit may be in the copy alone.
ViewMatchesList ==
    LET shown == IF Filtered THEN Kept(allEntries, MatchingSet(allEntries))
                 ELSE allEntries
        unedited(e) == [e EXCEPT !.request = Original(e.id)]
    IN  /\ Len(entries) = Len(shown)
        /\ \A k \in DOMAIN shown :
              IF Filtered THEN unedited(entries[k]) = unedited(shown[k])
              ELSE entries[k] = shown[k]

\* "Mirror the DB logic in memory" (update.go:279): the list is the table, in
\* order, with the same flags, and an answer that is shown survives a restart.
DatabaseMirrorsList ==
    /\ [i \in DOMAIN allEntries |-> allEntries[i].id]
          = Ascending(DOMAIN rows)
    /\ \A e \in ToSet(allEntries) :
          /\ e.flagged = rows[e.id].flagged
          /\ ~e.sending => e.response = rows[e.id].response

\* The three copies of the entries, the table, the list and what the filter
\* shows of it, never part.
ListsAgree == DatabaseMirrorsList /\ ViewMatchesList

\* Filtering, sends and answers leave the cursor on its entry as long as the
\* entry is still shown: a key acts on the entry the person had selected.
SelectionFollowsEntry ==
    [][(/\ screen = "replay" /\ screen' = "replay" /\ entries # <<>>
        /\ <<filterMode, term, inFlight>> # <<filterMode, term, inFlight>>'
        /\ DOMAIN rows' = DOMAIN rows
        /\ \E e \in ToSet(entries') : e.id = Selected.id)
       => entries'[cursor' + 1].id = Selected.id]_vars

\* The response an entry shows, and the one stored for it, answer a send of
\* that entry.  Without deletions it is true.
ResponseOfOwnRequest ==
    \A id \in DOMAIN rows :
        rows[id].response # NoResponse => rows[id].response.by = id

\* A text typed for an entry ends in that entry.  (No key overtakes a message
\* of the program.)
EditsStayWithTheirEntry ==
    \A e \in ToSet(allEntries) \cup ToSet(entries) : e.request.of = e.id

Sending(id) == \E e \in ToSet(allEntries) : e.id = id /\ e.sending

\* If the person stays on the page, every send under way ends there.  (No
\* deletions.)
AnsweredWhileWatched ==
    \A id \in Id :
        (SendsOf(id) # {} /\ [](screen = "replay")) ~> ~Sending(id)

\* "ResponseRaw string // filled after send" (model.go:33), wherever the
\* person is when the response comes.
FilledAfterSend == \A id \in Id : Sending(id) ~> ~Sending(id)
=============================================================================
