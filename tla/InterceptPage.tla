---------------------------- MODULE InterceptPage ----------------------------
(***************************************************************************)
(* The Intercept page (internal/ui/intercept/{model,update,helpers}.go)    *)
(* composed with the proxy and the broker of InterceptBroker: the sets of  *)
(* flows the broker's page holds become two lists with a cursor each, and  *)
(* every decision comes from a key or from a switch.                       *)
(*                                                                         *)
(* bubbletea runs one Update at a time, so each key and each message is    *)
(* one step; goroutines and watchers interleave with them.                 *)
(***************************************************************************)
EXTENDS Naturals, Sequences, FiniteSets, SequencesExt, ListCursor

CONSTANTS
    Flow, AutoForward, Rewritten, QueueSize, NoFlow,  \* as in InterceptBroker
    Drafts,          \* texts a person types
    Parsed,          \* texts that only come out of a parser
    Parse,           \* Parse[text]: what the flow says after parsing text into it
    Foreign,         \* what a flow becomes when the text of another is applied
    NoText,          \* an empty view, or no editor result under way
    PerPage,         \* rows a list shows
    ExternalEditor   \* whether $EDITOR is used in this instance

\* The variables of InterceptBroker, without the two sets that the lists of
\* the page implement.
VARIABLES
    pc, request, response, fate, database, sent,
    incoming, arrived, decision,
    incomingResponse, arrivedResponse, responseDecision,
    captureResponse,  \* also Model.captureResponse: both change together
    outOfScope, droppedFlows, history

VARIABLES
    queue, cursor,                  \* requests shown, and the one selected
    responseQueue, responseCursor,  \* the same of responses
    focusedPanel,                   \* which of the two lists has the keys
    interceptEnabled,
    pendingEdits,                   \* saved edits of requests not yet decided
    pendingResponseEdits,           \* and of responses
    editing,                        \* the text area has the keys
    textarea,                       \* the text in it
    body,                           \* the text in the body view
    editorResult,                   \* what $EDITOR will bring back
    onPage,                         \* the app shows this page (app.Model.page)
    hasUnread                       \* the sidebar announces new requests

hookVars == <<pc, fate, database, sent>>
flowVars == <<hookVars, request, response>>
channelVars == <<incoming, incomingResponse>>
markVars == <<outOfScope, droppedFlows, history>>
systemVars == <<flowVars, channelVars, markVars, arrived, decision,
                arrivedResponse, responseDecision, captureResponse>>
requestList == <<queue, cursor, pendingEdits>>
responseList == <<responseQueue, responseCursor, pendingResponseEdits>>
modeVars == <<focusedPanel, interceptEnabled, editing, textarea, editorResult>>
appVars == <<onPage, hasUnread>>
pageVars == <<requestList, responseList, modeVars, appVars, body>>
vars == <<systemVars, pageVars>>

Edits == Drafts \cup Parsed \cup {Foreign}

B == INSTANCE InterceptBroker WITH
        held <- ToSet(queue), heldResponses <- ToSet(responseQueue)

ASSUME PageAssumption ==
    /\ B!BrokerAssumption
    /\ Foreign \notin Drafts \cup Parsed
    /\ DOMAIN Parse = B!RequestText \cup B!ResponseText
    /\ \A text \in DOMAIN Parse : Parse[text] \in Parsed \cup {text}
    /\ PerPage \in Nat \ {0}
    /\ ExternalEditor \in BOOLEAN

-----------------------------------------------------------------------------
(* Texts.  A text on the screen is the flow it was made from, the side of  *)
(* the flow, and what it says.                                             *)

Panel == {"request", "response"}
Text == [of : Flow, side : Panel, says : B!RequestText \cup B!ResponseText]

Original(f, side) ==
    [of |-> f, side |-> side,
     says |-> IF side = "request" THEN request[f] ELSE response[f]]

\* What parseRawRequest and parseRawResponse leave in flow f.  Even a text
\* nobody changed need not come out as it went in: of repeated headers the
\* last one is kept, line ends of the body become LF and its last ones are
\* cut off, and a response gets its Content-Length anew.
Applied(f, side, text) ==
    IF text.of = f /\ text.side = side THEN Parse[text.says] ELSE Foreign

onResponses == captureResponse /\ focusedPanel = "response"

List == IF onResponses THEN responseQueue ELSE queue
Side == IF onResponses THEN "response" ELSE "request"
SavedEdits == IF onResponses THEN pendingResponseEdits ELSE pendingEdits

\* The item under the cursor of the focused list.
Selected == List[(IF onResponses THEN responseCursor ELSE cursor) + 1]

\* The text of the selected item: its saved edit if it has one.
CurrentRaw ==
    IF List = <<>> THEN NoText
    ELSE IF Selected \in DOMAIN SavedEdits THEN SavedEdits[Selected]
    ELSE Original(Selected, Side)

\* An edit map without the flows of S, and with one more entry.
Without(edits, S) == Restrict(edits, DOMAIN edits \ S)
With(edits, f, text) ==
    [g \in DOMAIN edits \cup {f} |-> IF g = f THEN text ELSE edits[g]]

RefreshBody == body' = CurrentRaw'

-----------------------------------------------------------------------------
Init ==
    /\ queue = <<>> /\ responseQueue = <<>>
    /\ B!Init
    /\ cursor = 0 /\ responseCursor = 0
    /\ focusedPanel = "request"
    /\ interceptEnabled \in BOOLEAN
    /\ pendingEdits = <<>> /\ pendingResponseEdits = <<>>
    /\ editing = FALSE
    /\ textarea = NoText /\ body = NoText /\ editorResult = NoText
    /\ onPage = TRUE /\ hasUnread = FALSE

-----------------------------------------------------------------------------
(* Messages of the watchers.                                               *)

\* Mistake: a request is held whatever the switch says.
RequestArrivedUnswitched ==
    /\ arrived # NoFlow
    /\ arrived' = NoFlow
    /\ queue' = Append(queue, arrived)
    /\ hasUnread' = ~onPage
    /\ UNCHANGED <<flowVars, channelVars, markVars, arrivedResponse, decision>>
    /\ UNCHANGED <<responseDecision, captureResponse, cursor, pendingEdits>>
    /\ UNCHANGED <<responseList, modeVars, onPage>>
    /\ IF queue = <<>> /\ ~onResponses THEN RefreshBody ELSE UNCHANGED body

\* Mistake: the newest request is put first.
RequestArrivedFirst ==
    /\ arrived # NoFlow /\ interceptEnabled
    /\ arrived' = NoFlow
    /\ queue' = <<arrived>> \o queue
    /\ hasUnread' = ~onPage
    /\ UNCHANGED <<flowVars, channelVars, markVars, arrivedResponse, decision>>
    /\ UNCHANGED <<responseDecision, captureResponse, cursor, pendingEdits>>
    /\ UNCHANGED <<responseList, modeVars, onPage>>
    /\ RefreshBody

\* Interception off: the request is forwarded at once.  Otherwise it joins
\* the list, and the app clears the mark if the page is the one shown.
RequestArrived ==
    /\ arrived # NoFlow
    /\ arrived' = NoFlow
    /\ \/ /\ ~interceptEnabled
          /\ decision[arrived] = "none"
          /\ decision' = [decision EXCEPT ![arrived] = "forward"]
          /\ hasUnread' = (hasUnread /\ ~onPage)
          /\ UNCHANGED queue
       \/ /\ interceptEnabled
          /\ queue' = Append(queue, arrived)
          /\ hasUnread' = ~onPage
          /\ UNCHANGED decision
    /\ UNCHANGED <<flowVars, channelVars, markVars, arrivedResponse>>
    /\ UNCHANGED <<responseDecision, captureResponse, cursor, pendingEdits>>
    /\ UNCHANGED <<responseList, modeVars, onPage>>
    /\ IF interceptEnabled /\ queue = <<>> /\ ~onResponses
       THEN RefreshBody ELSE UNCHANGED body

\* A response joins the list whatever captureResponse has become meanwhile.
ResponseArrived ==
    /\ arrivedResponse # NoFlow
    /\ arrivedResponse' = NoFlow
    /\ responseQueue' = Append(responseQueue, arrivedResponse)
    /\ UNCHANGED <<flowVars, channelVars, markVars, arrived, decision>>
    /\ UNCHANGED <<responseDecision, captureResponse, requestList>>
    /\ UNCHANGED <<responseCursor, pendingResponseEdits, modeVars, appVars>>
    /\ IF responseQueue = <<>> /\ onResponses
       THEN RefreshBody ELSE UNCHANGED body

-----------------------------------------------------------------------------
(* Decisions.                                                              *)

\* Mistake: the saved edits of decided requests are kept.
DecideRequestsRemembered(S, d) ==
    /\ decision' = [f \in Flow |-> IF f \in S THEN d ELSE decision[f]]
    /\ UNCHANGED <<request, response, responseDecision, responseList>>
    /\ UNCHANGED pendingEdits

\* Mistake: a dropped request takes its saved edit as well.
DecideRequestsRewritten(S, d) ==
    /\ decision' = [f \in Flow |-> IF f \in S THEN d ELSE decision[f]]
    /\ request' = [f \in Flow |->
          IF f \in S \cap DOMAIN pendingEdits
          THEN Applied(f, "request", pendingEdits[f]) ELSE request[f]]
    /\ pendingEdits' = Without(pendingEdits, S)
    /\ UNCHANGED <<response, responseDecision, responseList>>

\* Broker.Decide for the requests in S, which first take their saved edits
\* when they are forwarded.
DecideRequests(S, d) ==
    /\ \A f \in S : decision[f] = "none"
    /\ decision' = [f \in Flow |-> IF f \in S THEN d ELSE decision[f]]
    /\ request' = [f \in Flow |->
          IF d = "forward" /\ f \in S \cap DOMAIN pendingEdits
          THEN Applied(f, "request", pendingEdits[f]) ELSE request[f]]
    /\ pendingEdits' = Without(pendingEdits, S)
    /\ UNCHANGED <<response, responseDecision, responseList>>

DecideResponses(S, d) ==
    /\ \A f \in S : responseDecision[f] = "none"
    /\ responseDecision' =
          [f \in Flow |-> IF f \in S THEN d ELSE responseDecision[f]]
    /\ response' = [f \in Flow |->
          IF d = "forward" /\ f \in S \cap DOMAIN pendingResponseEdits
          THEN Applied(f, "response", pendingResponseEdits[f]) ELSE response[f]]
    /\ pendingResponseEdits' = Without(pendingResponseEdits, S)
    /\ UNCHANGED <<request, decision, requestList>>

applyAndDecide(d) ==
    /\ queue # <<>>
    /\ DecideRequests({queue[cursor + 1]}, d)
    /\ queue' = RemoveAt(queue, cursor + 1)
    /\ cursor' = CursorAfterRemoval(cursor, Len(queue) - 1)

applyAndDecideResponse(d) ==
    /\ responseQueue # <<>>
    /\ DecideResponses({responseQueue[responseCursor + 1]}, d)
    /\ responseQueue' = RemoveAt(responseQueue, responseCursor + 1)
    /\ responseCursor' =
          CursorAfterRemoval(responseCursor, Len(responseQueue) - 1)

\* for len(m.queue) > 0 { m.applyAndDecide(d) }
applyAndDecideAll(d) ==
    /\ queue # <<>>
    /\ DecideRequests(ToSet(queue), d)
    /\ queue' = <<>> /\ cursor' = 0

applyAndDecideAllResponses(d) ==
    /\ responseQueue # <<>>
    /\ DecideResponses(ToSet(responseQueue), d)
    /\ responseQueue' = <<>> /\ responseCursor' = 0

-----------------------------------------------------------------------------
(* Keys, when the page is shown and the text area does not have them.      *)

NormalMode == onPage /\ ~editing

\* Forward, ForwardAll, Drop and DropAll, on the focused list.
DecideKey(d, all) ==
    /\ NormalMode
    /\ IF onResponses
       THEN IF all THEN applyAndDecideAllResponses(d) ELSE applyAndDecideResponse(d)
       ELSE IF all THEN applyAndDecideAll(d) ELSE applyAndDecide(d)
    /\ UNCHANGED <<hookVars, channelVars, markVars, arrived, arrivedResponse>>
    /\ UNCHANGED <<captureResponse, modeVars, appVars>>
    /\ RefreshBody

\* Mistake: as CaptureResponse does, requests are forwarded without edits.
ToggleInterceptUnedited ==
    /\ NormalMode
    /\ interceptEnabled' = ~interceptEnabled
    /\ UNCHANGED <<flowVars, channelVars, markVars, arrived, arrivedResponse>>
    /\ UNCHANGED <<captureResponse, responseDecision>>
    /\ UNCHANGED <<responseList, focusedPanel, editing, textarea>>
    /\ UNCHANGED <<editorResult, appVars, pendingEdits>>
    /\ IF interceptEnabled /\ queue # <<>>
       THEN /\ queue' = <<>> /\ cursor' = 0
            /\ decision' = [f \in Flow |-> IF f \in ToSet(queue) THEN "forward"
                                           ELSE decision[f]]
            /\ RefreshBody
       ELSE UNCHANGED <<queue, cursor, decision, body>>

\* Switching interception off forwards every request, saved edits included.
ToggleIntercept ==
    /\ NormalMode
    /\ interceptEnabled' = ~interceptEnabled
    /\ UNCHANGED <<hookVars, channelVars, markVars, arrived, arrivedResponse>>
    /\ UNCHANGED <<captureResponse, focusedPanel, editing, textarea>>
    /\ UNCHANGED <<editorResult, appVars>>
    /\ IF interceptEnabled /\ queue # <<>>
       THEN applyAndDecideAll("forward") /\ RefreshBody
       ELSE UNCHANGED <<request, response, decision, responseDecision,
                        requestList, responseList, body>>

\* Switching capture off forwards every response as it was received: saved
\* edits are neither applied nor forgotten.
CaptureResponse ==
    /\ NormalMode
    /\ captureResponse' = ~captureResponse
    /\ \/ /\ ~captureResponse
          /\ UNCHANGED <<responseDecision, responseQueue, responseCursor>>
          /\ UNCHANGED focusedPanel
       \/ /\ captureResponse
          /\ \A f \in ToSet(responseQueue) : responseDecision[f] = "none"
          /\ responseDecision' = [f \in Flow |->
                IF f \in ToSet(responseQueue) THEN "forward"
                ELSE responseDecision[f]]
          /\ responseQueue' = <<>> /\ responseCursor' = 0
          /\ focusedPanel' = "request"
    /\ UNCHANGED <<flowVars, channelVars, markVars, arrived, decision>>
    /\ UNCHANGED <<arrivedResponse, requestList, pendingResponseEdits>>
    /\ UNCHANGED <<interceptEnabled, editing, textarea, editorResult, appVars>>
    /\ RefreshBody

\* Mistake: the body view keeps the text of the other list.
CycleFocusStale ==
    /\ NormalMode /\ captureResponse
    /\ focusedPanel' = IF focusedPanel = "request" THEN "response" ELSE "request"
    /\ UNCHANGED <<systemVars, requestList, responseList, interceptEnabled>>
    /\ UNCHANGED <<editing, textarea, editorResult, appVars, body>>

CycleFocus ==
    /\ NormalMode
    /\ captureResponse
    /\ focusedPanel' = IF focusedPanel = "request" THEN "response" ELSE "request"
    /\ UNCHANGED <<systemVars, requestList, responseList, interceptEnabled>>
    /\ UNCHANGED <<editing, textarea, editorResult, appVars>>
    /\ RefreshBody

\* Up and Down, which do nothing at the ends, GotoTop, GotoBottom, PrevPage
\* and NextPage.
Moves(c, n) ==
    ({c - 1, c + 1} \cap 0..(n - 1))
        \cup {0, CursorGotoBottom(n)}
        \cup {CursorMovePage(c, n, PerPage, forward) : forward \in BOOLEAN}

MoveCursor ==
    /\ NormalMode
    /\ IF onResponses
       THEN /\ responseCursor' \in Moves(responseCursor, Len(responseQueue))
            /\ UNCHANGED cursor
       ELSE /\ cursor' \in Moves(cursor, Len(queue))
            /\ UNCHANGED responseCursor
    /\ UNCHANGED <<systemVars, queue, responseQueue, pendingEdits>>
    /\ UNCHANGED <<pendingResponseEdits, modeVars, appVars>>
    /\ RefreshBody

UndoEdits ==
    /\ NormalMode
    /\ List # <<>>
    /\ IF onResponses
       THEN /\ pendingResponseEdits' = Without(pendingResponseEdits, {Selected})
            /\ UNCHANGED pendingEdits
       ELSE /\ pendingEdits' = Without(pendingEdits, {Selected})
            /\ UNCHANGED pendingResponseEdits
    /\ UNCHANGED <<systemVars, queue, cursor, responseQueue, responseCursor>>
    /\ UNCHANGED <<modeVars, appVars>>
    /\ RefreshBody

-----------------------------------------------------------------------------
(* Editing.                                                                *)

\* $EDITOR is started on a text and will bring it back, changed or not.
\* Bound: one editor at a time.
OpenExternalEditor(text) ==
    /\ ExternalEditor
    /\ editorResult = NoText
    /\ editorResult' \in {text} \cup {[text EXCEPT !.says = d] : d \in Drafts}
    /\ UNCHANGED <<systemVars, requestList, responseList, appVars, body>>
    /\ UNCHANGED <<focusedPanel, interceptEnabled, editing, textarea>>

Edit ==
    /\ NormalMode
    /\ List # <<>>
    /\ textarea' = CurrentRaw
    /\ editing' = TRUE
    /\ UNCHANGED <<systemVars, requestList, responseList, appVars, body>>
    /\ UNCHANGED <<focusedPanel, interceptEnabled, editorResult>>

\* A text above maxInlineEditBytes goes to $EDITOR instead.
EditLong == NormalMode /\ List # <<>> /\ OpenExternalEditor(CurrentRaw)

\* The editor is started on the flow, not on its saved edit.
EditExternal ==
    /\ NormalMode
    /\ List # <<>>
    /\ OpenExternalEditor(Original(Selected, Side))

\* The result reaches the page if the page is still the active one and no
\* overlay takes it; a failed or emptied edit changes nothing.
EditorFinished ==
    /\ editorResult # NoText
    /\ editorResult' = NoText
    /\ \/ /\ onPage
          /\ textarea' = editorResult
          /\ body' = editorResult
       \/ UNCHANGED <<textarea, body>>
    /\ UNCHANGED <<systemVars, requestList, responseList, appVars>>
    /\ UNCHANGED <<focusedPanel, interceptEnabled, editing>>

EditMode == onPage /\ editing

Type ==
    /\ EditMode
    /\ \E d \in Drafts : textarea' = [textarea EXCEPT !.says = d]
    /\ UNCHANGED <<systemVars, requestList, responseList, appVars, body>>
    /\ UNCHANGED <<focusedPanel, interceptEnabled, editing, editorResult>>

\* saveCurrentEdit: the text becomes the saved edit of the selected item.
Escape ==
    /\ EditMode
    /\ IF List = <<>> THEN UNCHANGED <<pendingEdits, pendingResponseEdits>>
       ELSE IF onResponses
       THEN /\ pendingResponseEdits' = With(pendingResponseEdits, Selected, textarea)
            /\ UNCHANGED pendingEdits
       ELSE /\ pendingEdits' = With(pendingEdits, Selected, textarea)
            /\ UNCHANGED pendingResponseEdits
    /\ editing' = FALSE
    /\ body' = textarea
    /\ UNCHANGED <<systemVars, queue, cursor, responseQueue, responseCursor>>
    /\ UNCHANGED <<focusedPanel, interceptEnabled, textarea, editorResult>>
    /\ UNCHANGED appVars

-----------------------------------------------------------------------------
(* The app around the page (internal/ui/app/update.go).                    *)

\* A window size, the help key or the sidebar: recalcSizes redraws the body.
Resize ==
    /\ UNCHANGED <<systemVars, requestList, responseList, modeVars, appVars>>
    /\ RefreshBody

\* Another page is selected, or opens by itself when a diff is ready or a
\* request is sent to replay; in the latter case the children are resized.
LeavePage ==
    /\ onPage
    /\ onPage' = FALSE
    /\ UNCHANGED <<systemVars, requestList, responseList, modeVars, hasUnread>>
    /\ UNCHANGED body \/ RefreshBody

EnterPage ==
    /\ ~onPage
    /\ onPage' = TRUE
    /\ hasUnread' = FALSE
    /\ UNCHANGED <<systemVars, requestList, responseList, modeVars, body>>

-----------------------------------------------------------------------------
Proxy(f) == UNCHANGED pageVars /\ B!Goroutine(f)
Hooks(f) == UNCHANGED pageVars /\ B!AsyncHooks(f)
TakeRequest == UNCHANGED pageVars /\ B!TakeRequest
TakeResponse == UNCHANGED pageVars /\ B!TakeResponse

Keys ==
    \/ \E d \in B!Decision, all \in BOOLEAN : DecideKey(d, all)
    \/ ToggleIntercept
    \/ CaptureResponse
    \/ CycleFocus
    \/ MoveCursor
    \/ UndoEdits
    \/ Edit
    \/ EditExternal
    \/ EditLong
    \/ Type
    \/ Escape

Next ==
    \/ \E f \in Flow : Proxy(f) \/ Hooks(f)
    \/ TakeRequest
    \/ TakeResponse
    \/ RequestArrived
    \/ ResponseArrived
    \/ EditorFinished
    \/ Keys
    \/ Resize
    \/ LeavePage
    \/ EnterPage

Spec == Init /\ [][Next]_vars

\* The scheduler runs what can run and the event loop handles every message;
\* nothing is assumed of the person.
Fairness ==
    /\ \A f \in Flow : WF_vars(Proxy(f))
    /\ WF_vars(TakeRequest) /\ WF_vars(TakeResponse)
    /\ WF_vars(RequestArrived) /\ WF_vars(ResponseArrived)

FairSpec == Spec /\ Fairness

-----------------------------------------------------------------------------
(* Properties.                                                             *)

\* Every variable of the page ranges over what the code can store in it, and
\* m.queue[m.cursor] and m.responseQueue[m.responseCursor] never index out of
\* range, whatever removals, arrivals and switches came before.
TypeOK ==
    /\ queue \in Seq(Flow) /\ responseQueue \in Seq(Flow)
    /\ ValidCursor(cursor, Len(queue))
    /\ ValidCursor(responseCursor, Len(responseQueue))
    /\ focusedPanel \in Panel
    /\ {interceptEnabled, editing, onPage, hasUnread} \subseteq BOOLEAN
    /\ DOMAIN pendingEdits \subseteq Flow
    /\ DOMAIN pendingResponseEdits \subseteq Flow
    /\ {textarea, body, editorResult} \subseteq Text \cup {NoText}
    /\ B!TypeOK

\* What the person reads is what a Forward would parse and send: the body
\* view shows the saved edit of the selected item, or the item as it is.
BodyShowsWhatForwardSends == ~editing => body = CurrentRaw

\* A saved edit was made from the flow it is saved for, although flows come
\* and go while the text area is open; and no edit of a request outlives the
\* request's stay in the list.
EditsStayWithTheirFlow ==
    /\ DOMAIN pendingEdits \subseteq ToSet(queue)
    /\ \A f \in DOMAIN pendingEdits :
          pendingEdits[f].of = f /\ pendingEdits[f].side = "request"
    /\ \A f \in DOMAIN pendingResponseEdits :
          /\ pendingResponseEdits[f].of = f
          /\ pendingResponseEdits[f].side = "response"

\* Requests are shown in the order in which they were put on the channel, and
\* removals from the middle of the list do not disturb it.
Line == queue \o (IF arrived = NoFlow THEN <<>> ELSE <<arrived>>) \o incoming

ArrivalOrderKept ==
    [][\A i, j \in DOMAIN Line : i < j =>
          \A k, l \in DOMAIN Line' :
              Line'[k] = Line[i] /\ Line'[l] = Line[j] => k < l]_vars

\* A request the page forwards says what its saved edit parses to, whichever
\* key or switch forwards it.  A dropped one, and any other, is left as it
\* was, but for plugins: they do not write to a request that waits.
RequestEditsSent ==
    [][\A f \in Flow :
          IF decision[f] = "none" /\ decision'[f] = "forward"
             /\ f \in DOMAIN pendingEdits
          THEN request'[f] = Parse[pendingEdits[f].says]
          ELSE \/ request'[f] = request[f]
               \/ pc[f] # "waitRequest" /\ request'[f] \in Rewritten]_vars

\* The two lists are a correct implementation of the broker's abstract page:
\* whatever is proved of InterceptBroker holds of this composition.
PageImplementsBroker == B!Spec

\* Once interception is off and stays off, every request blocked in Hold is
\* released, with nobody at the keyboard.
InterceptOffReleases ==
    \A f \in Flow :
        (pc[f] = "waitRequest" /\ []~interceptEnabled)
            ~> pc[f] # "waitRequest"

\* "Inspect and modify them (even with your favorite editor) before
\* forwarding." (README.md:55): a request forwarded while the body view shows
\* it goes upstream as the text shown is parsed.
ForwardSendsWhatIsShown ==
    [][\A f \in Flow :
          (/\ decision[f] = "none" /\ decision'[f] = "forward"
           /\ f \in ToSet(queue)
           /\ body # NoText /\ body.of = f /\ body.side = "request")
          => request'[f] = Parse[body.says]]_vars
=============================================================================
