--------------------------- MODULE InterceptBroker ---------------------------
(***************************************************************************)
(* The proxy addon (internal/proxy/proxy.go) and the broker                *)
(* (internal/intercept/broker.go, cmd.go) that hands flows to the terminal *)
(* page and waits for its decisions.                                       *)
(*                                                                         *)
(* Every flow is served by a goroutine of its own: the library calls the   *)
(* addon's Request hook, performs the round trip, and calls the Response   *)
(* hook.  Inside the hooks the goroutine may put the flow on a bounded     *)
(* channel and block on the flow's decision channel, whose buffer is 1.    *)
(* On the other side one watcher command per direction takes a flow off    *)
(* the channel and brings it to the page; the page here is the least it    *)
(* can be, the sets of flows it holds, and any non-empty part of them may  *)
(* be decided at a time.  InterceptPage replaces it by the real one.       *)
(*                                                                         *)
(* Plugins see the same flow and may write to it (internal/plugins/lua.go, *)
(* manager.go): the synchronous ones inside the hooks, the asynchronous    *)
(* ones from goroutines that race with everything that follows.            *)
(***************************************************************************)
EXTENDS Naturals, Sequences, FiniteSets, Functions

CONSTANTS
    Flow,         \* the flows that cross the proxy
    AutoForward,  \* <<f, text>>: f's request, as it then reads, has a target
                  \* that matches an auto_forward_regex
    Edits,        \* texts a person may replace a request or a response by
    Rewritten,    \* what they read after a plugin wrote to them
    QueueSize,    \* capacity of the two channels (intercept.queue_size)
    NoFlow        \* "the watcher has delivered what it took"

\* A text stands for who wrote it last.  Before anyone touched it a request
\* is "original" and a response what the server or the proxy made it.
NotEdited == {"original", "none", "upstream", "failed", "placeholder"}

ASSUME BrokerAssumption ==
    /\ Edits \cap NotEdited = {}
    /\ Rewritten \cap (Edits \cup NotEdited) = {}
    /\ QueueSize \in Nat \ {0}
    /\ NoFlow \notin Flow

VARIABLES
    pc,                \* where each flow's goroutine is
    request,           \* request[f]: f.Request as it would go upstream
    response,          \* response[f]: f.Response, "none" for nil
    incoming,          \* the channel Broker.Incoming
    arrived,           \* the request in the watcher's RequestArrivedMsg
    held,              \* requests the page shows and has not decided
    decision,          \* decision[f]: content of the request's decision channel
    incomingResponse,  \* the channel Broker.IncomingResponse
    arrivedResponse,   \* the response in the watcher's ResponseArrivedMsg
    heldResponses,     \* responses the page shows and has not decided
    responseDecision,  \* content of the response's decision channel
    captureResponse,   \* Broker.captureResponse
    outOfScope,        \* Broker.outOfScope
    droppedFlows,      \* Broker.droppedFlows
    history,           \* entries of the history database
    database,          \* Broker.database is set: db.Open worked at startup
    fate,              \* what was decided of the request
    sent               \* history variable: the request that went upstream

pluginVars == <<database, sent>>
flowVars == <<pc, request, response, fate, pluginVars>>
requestVars == <<incoming, arrived, held, decision>>
responseVars ==
    <<incomingResponse, arrivedResponse, heldResponses, responseDecision>>
brokerVars == <<captureResponse, outOfScope, droppedFlows, history>>
vars == <<flowVars, requestVars, responseVars, brokerVars>>

Verdict == {"drop", "forward", "intercept"}  \* what the plugins answer
Decision == {"drop", "forward"}              \* what the page answers

RequestText == {"original"} \cup Edits \cup Rewritten
ResponseText ==
    {"none", "upstream", "failed", "placeholder"} \cup Edits \cup Rewritten

Entry == [flow : Flow, request : RequestText, response : ResponseText]

\* "unhooked" and "done" are the two ways a goroutine ends: the library
\* answered the client without, or after, the Response hook.
PC == {"start", "hold", "waitRequest", "replied", "upstream",
       "responseHook", "holdResponse", "sendResponse", "waitResponse",
       "save", "saveThenDrop", "unhooked", "done"}

Finished(f) == pc[f] \in {"unhooked", "done"}

Goto(f, where) == pc' = [pc EXCEPT ![f] = where]

\* What plugins may leave of a text.  Without a database the program runs on
\* and has loaded none (internal/ui/app/model.go).
AfterHooks(text) == {text} \cup (IF database THEN Rewritten ELSE {})

\* Mistake: the asynchronous hooks are started before Hold.
HooksStartedEarly(f) == pc[f] # "start"

\* go RunAsyncOnRequest has been reached: after a plugin's "forward" or after
\* Hold, whatever it returned, and not after a plugin's "drop".
HooksStarted(f) == fate[f] \notin {"undecided", "pluginDrop"}

Init ==
    /\ pc = [f \in Flow |-> "start"]
    /\ request = [f \in Flow |-> "original"]
    /\ response = [f \in Flow |-> "none"]
    /\ fate = [f \in Flow |-> "undecided"]
    /\ database \in BOOLEAN
    /\ sent = [f \in Flow |-> "none"]
    /\ incoming = <<>> /\ incomingResponse = <<>>
    /\ arrived = NoFlow /\ arrivedResponse = NoFlow
    /\ held = {} /\ heldResponses = {}
    /\ decision = [f \in Flow |-> "none"]
    /\ responseDecision = [f \in Flow |-> "none"]
    /\ captureResponse \in BOOLEAN
    /\ outOfScope = {} /\ droppedFlows = {}
    /\ history = {}

-----------------------------------------------------------------------------
(* The goroutine of flow f: interceptAddon.Request and Broker.Hold.        *)

\* The synchronous plugins are asked first, and may write to the request
\* whatever they answer.  A drop is answered by the placeholder; a drop or a
\* forward never reaches the broker.
RequestHook(f, verdict) ==
    /\ pc[f] = "start"
    /\ database \/ verdict = "intercept"
    /\ \E text \in AfterHooks(request[f]) :
          request' = [request EXCEPT ![f] = text]
    /\ \/ /\ verdict = "drop"
          /\ response' = [response EXCEPT ![f] = "placeholder"]
          /\ fate' = [fate EXCEPT ![f] = "pluginDrop"]
          /\ Goto(f, "replied")
       \/ /\ verdict = "forward"
          /\ fate' = [fate EXCEPT ![f] = "pluginForward"]
          /\ Goto(f, "upstream")
          /\ UNCHANGED response
       \/ /\ verdict = "intercept"
          /\ Goto(f, "hold")
          /\ UNCHANGED <<response, fate>>
    /\ UNCHANGED <<pluginVars, requestVars, responseVars, brokerVars>>

\* isAutoForwarded looks at the target the plugins have left.
HoldAutoForwarded(f) ==
    /\ pc[f] = "hold"
    /\ <<f, request[f]>> \in AutoForward
    /\ outOfScope' = outOfScope \cup {f}
    /\ fate' = [fate EXCEPT ![f] = "auto"]
    /\ Goto(f, "upstream")
    /\ UNCHANGED <<request, response, pluginVars, requestVars, responseVars>>
    /\ UNCHANGED <<captureResponse, droppedFlows, history>>

\* Mistake: a send that does not wait for room in the channel.
HoldSendUnbounded(f) ==
    /\ pc[f] = "hold" /\ <<f, request[f]>> \notin AutoForward
    /\ incoming' = Append(incoming, f)
    /\ Goto(f, "waitRequest")
    /\ UNCHANGED <<request, response, fate, pluginVars, arrived, held>>
    /\ UNCHANGED <<decision, responseVars, brokerVars>>

\* b.Incoming <- p: blocks while the channel is full.
HoldSend(f) ==
    /\ pc[f] = "hold"
    /\ <<f, request[f]>> \notin AutoForward
    /\ Len(incoming) < QueueSize
    /\ incoming' = Append(incoming, f)
    /\ Goto(f, "waitRequest")
    /\ UNCHANGED <<request, response, fate, pluginVars, arrived, held>>
    /\ UNCHANGED <<decision, responseVars, brokerVars>>

\* d := <-p.decision, and what Hold and the Request hook do with it.
HoldReturn(f) ==
    /\ pc[f] = "waitRequest"
    /\ decision[f] \in Decision
    /\ decision' = [decision EXCEPT ![f] = "none"]
    /\ \/ /\ decision[f] = "drop"
          /\ droppedFlows' = droppedFlows \cup {f}
          /\ response' = [response EXCEPT ![f] = "placeholder"]
          /\ fate' = [fate EXCEPT ![f] = "userDrop"]
          /\ Goto(f, "replied")
       \/ /\ decision[f] = "forward"
          /\ fate' = [fate EXCEPT ![f] = "userForward"]
          /\ Goto(f, "upstream")
          /\ UNCHANGED <<droppedFlows, response>>
    /\ UNCHANGED <<request, pluginVars, incoming, arrived, held, responseVars>>
    /\ UNCHANGED <<captureResponse, outOfScope, history>>

-----------------------------------------------------------------------------
(* The library between the two hooks (external).                           *)

\* A flow that has a response after the Request hook is answered with it;
\* whether the Response hook still runs is left open.
Reply(f) ==
    /\ pc[f] = "replied"
    /\ \E next \in {"responseHook", "unhooked"} : Goto(f, next)
    /\ UNCHANGED <<request, response, fate, pluginVars>>
    /\ UNCHANGED <<requestVars, responseVars, brokerVars>>

\* The server answers; a body above the streaming limit skips the Response
\* hook.  Or the round trip fails and the library answers by itself.
RoundTrip(f) ==
    /\ pc[f] = "upstream"
    /\ sent' = [sent EXCEPT ![f] = request[f]]
    /\ \/ /\ response' = [response EXCEPT ![f] = "upstream"]
          /\ \E next \in {"responseHook", "unhooked"} : Goto(f, next)
       \/ /\ response' = [response EXCEPT ![f] = "failed"]
          /\ Goto(f, "unhooked")
    /\ UNCHANGED <<request, fate, database>>
    /\ UNCHANGED <<requestVars, responseVars, brokerVars>>

-----------------------------------------------------------------------------
(* interceptAddon.Response, Broker.HoldResponse and Broker.SaveEntry.      *)

\* The synchronous plugins are handed the response and the request, and may
\* write to both.
ResponseHook(f, verdict) ==
    /\ pc[f] = "responseHook"
    /\ database \/ verdict = "intercept"
    /\ \E text \in AfterHooks(request[f]) :
          request' = [request EXCEPT ![f] = text]
    /\ \E text \in AfterHooks(response[f]) :
          response' = [response EXCEPT ![f] = text]
    /\ \/ verdict = "drop" /\ Goto(f, "saveThenDrop")
       \/ verdict = "forward" /\ Goto(f, "save")
       \/ verdict = "intercept" /\ Goto(f, "holdResponse")
    /\ UNCHANGED <<fate, pluginVars, requestVars, responseVars, brokerVars>>

\* The atomic flag is read once: what the page does to it afterwards does
\* not reach a goroutine that is already past this point.
HoldResponse(f) ==
    /\ pc[f] = "holdResponse"
    /\ Goto(f, IF f \notin outOfScope /\ captureResponse
               THEN "sendResponse" ELSE "save")
    /\ UNCHANGED <<request, response, fate, pluginVars>>
    /\ UNCHANGED <<requestVars, responseVars, brokerVars>>

HoldResponseSend(f) ==
    /\ pc[f] = "sendResponse"
    /\ Len(incomingResponse) < QueueSize
    /\ incomingResponse' = Append(incomingResponse, f)
    /\ Goto(f, "waitResponse")
    /\ UNCHANGED <<request, response, fate, pluginVars, requestVars, brokerVars>>
    /\ UNCHANGED <<arrivedResponse, heldResponses, responseDecision>>

HoldResponseReturn(f) ==
    /\ pc[f] = "waitResponse"
    /\ responseDecision[f] \in Decision
    /\ responseDecision' = [responseDecision EXCEPT ![f] = "none"]
    /\ Goto(f, IF responseDecision[f] = "drop" THEN "saveThenDrop" ELSE "save")
    /\ UNCHANGED <<request, response, fate, pluginVars, requestVars, brokerVars>>
    /\ UNCHANGED <<incomingResponse, arrivedResponse, heldResponses>>

\* What SaveEntry does of the response after and besides the entry.
EndResponseHook(f) ==
    /\ pc[f] \in {"save", "saveThenDrop"}
    /\ response' = IF pc[f] = "saveThenDrop"
                   THEN [response EXCEPT ![f] = "placeholder"] ELSE response
    /\ Goto(f, "done")
    /\ UNCHANGED <<request, fate, pluginVars, requestVars, responseVars>>
    /\ UNCHANGED captureResponse

\* What SaveEntry would add, made of the given response.
Added(f, accepted, resp) ==
    IF accepted /\ f \notin outOfScope \cup droppedFlows
    THEN {[flow |-> f, request |-> request[f], response |-> resp]} ELSE {}

\* Mistake: the entry is made after the dropped response was replaced.
SaveEntryLate(f, accepted) ==
    /\ EndResponseHook(f)
    /\ outOfScope' = outOfScope \ {f} /\ droppedFlows' = droppedFlows \ {f}
    /\ history' = history \cup Added(f, accepted /\ database, response'[f])

\* Mistake: Load instead of LoadAndDelete.
SaveEntryMarked(f, accepted) ==
    /\ EndResponseHook(f)
    /\ UNCHANGED <<outOfScope, droppedFlows>>
    /\ history' = history \cup Added(f, accepted /\ database, response[f])

\* Mistake: dropped flows are stored like any other.
SaveEntryDropped(f, accepted) ==
    /\ EndResponseHook(f)
    /\ outOfScope' = outOfScope \ {f} /\ droppedFlows' = droppedFlows \ {f}
    /\ history' = history \cup {[flow |-> f, request |-> request[f],
                                 response |-> response[f]]}

\* Without a database nothing is stored and the marks stay.  Otherwise
\* out-of-scope and dropped flows lose their mark and are not stored; any
\* other flow is stored unless a plugin vetoes it, it is a duplicate or the
\* database fails ("accepted" is FALSE).  The hook then replaces a dropped
\* response, after the entry was made from the one received.
SaveEntry(f, accepted) ==
    /\ EndResponseHook(f)
    /\ \/ /\ database
          /\ outOfScope' = outOfScope \ {f}
          /\ droppedFlows' = IF f \in outOfScope THEN droppedFlows
                                                 ELSE droppedFlows \ {f}
          /\ history' = history \cup Added(f, accepted, response[f])
       \/ /\ ~database
          /\ UNCHANGED <<outOfScope, droppedFlows, history>>

-----------------------------------------------------------------------------
(* The asynchronous plugins.  Each hook runs in a goroutine nobody waits   *)
(* for and writes to the flow the proxy goes on with, in several steps: a  *)
(* reader between two of them finds a text of Rewritten as well.           *)

AsyncOnRequest(f) ==
    /\ HooksStarted(f)
    /\ \E text \in AfterHooks(request[f]) :
          request' = [request EXCEPT ![f] = text]
    /\ UNCHANGED <<pc, response, fate, pluginVars>>
    /\ UNCHANGED <<requestVars, responseVars, brokerVars>>

\* Started at every end of interceptAddon.Response.
AsyncOnResponse(f) ==
    /\ pc[f] = "done"
    /\ \E text \in AfterHooks(request[f]) :
          request' = [request EXCEPT ![f] = text]
    /\ \E text \in AfterHooks(response[f]) :
          response' = [response EXCEPT ![f] = text]
    /\ UNCHANGED <<pc, fate, pluginVars>>
    /\ UNCHANGED <<requestVars, responseVars, brokerVars>>

-----------------------------------------------------------------------------
(* The watcher commands: WaitForRequest and WaitForResponse.  A watcher    *)
(* takes one flow and is armed again only when its message was handled.    *)

\* Mistake: a watcher armed again before its message was handled.
TakeRequestEager ==
    /\ incoming # <<>>
    /\ arrived' = Head(incoming)
    /\ incoming' = Tail(incoming)
    /\ UNCHANGED <<flowVars, held, decision, responseVars, brokerVars>>

TakeRequest ==
    /\ arrived = NoFlow
    /\ incoming # <<>>
    /\ arrived' = Head(incoming)
    /\ incoming' = Tail(incoming)
    /\ UNCHANGED <<flowVars, held, decision, responseVars, brokerVars>>

TakeResponse ==
    /\ arrivedResponse = NoFlow
    /\ incomingResponse # <<>>
    /\ arrivedResponse' = Head(incomingResponse)
    /\ incomingResponse' = Tail(incomingResponse)
    /\ UNCHANGED <<flowVars, requestVars, heldResponses, responseDecision>>
    /\ UNCHANGED brokerVars

-----------------------------------------------------------------------------
(* The page.  Broker.Decide sends on a channel of capacity 1: it would     *)
(* block the whole terminal if the channel still held a decision.          *)

RequestHeld ==
    /\ arrived # NoFlow
    /\ arrived' = NoFlow
    /\ held' = held \cup {arrived}
    /\ UNCHANGED <<flowVars, incoming, decision, responseVars, brokerVars>>

\* Interception is switched off: the request is forwarded on arrival.
RequestPassed ==
    /\ arrived # NoFlow
    /\ decision[arrived] = "none"
    /\ arrived' = NoFlow
    /\ decision' = [decision EXCEPT ![arrived] = "forward"]
    /\ UNCHANGED <<flowVars, incoming, held, responseVars, brokerVars>>

ResponseHeld ==
    /\ arrivedResponse # NoFlow
    /\ arrivedResponse' = NoFlow
    /\ heldResponses' = heldResponses \cup {arrivedResponse}
    /\ UNCHANGED <<flowVars, requestVars, incomingResponse, responseDecision>>
    /\ UNCHANGED brokerVars

\* Mistake: a dropped request is taken off the page and not decided.
DecideRequestsSilent(S, d, texts) ==
    /\ S # {} /\ S \subseteq held
    /\ held' = held \ S
    /\ decision' = [f \in Flow |-> IF f \in S /\ d = "forward" THEN d
                                  ELSE decision[f]]
    /\ UNCHANGED <<flowVars, incoming, arrived>>
    /\ UNCHANGED <<responseVars, brokerVars>>

\* The requests in S get decision d; those in "texts" are first rewritten.
DecideRequests(S, d, texts) ==
    /\ S # {} /\ S \subseteq held
    /\ \A f \in S : decision[f] = "none"
    /\ held' = held \ S
    /\ decision' = [f \in Flow |-> IF f \in S THEN d ELSE decision[f]]
    /\ request' = [f \in Flow |-> IF d = "forward" /\ f \in DOMAIN texts
                                  THEN texts[f] ELSE request[f]]
    /\ UNCHANGED <<pc, response, fate, pluginVars, incoming, arrived>>
    /\ UNCHANGED <<responseVars, brokerVars>>

DecideResponses(S, d, texts) ==
    /\ S # {} /\ S \subseteq heldResponses
    /\ \A f \in S : responseDecision[f] = "none"
    /\ heldResponses' = heldResponses \ S
    /\ responseDecision' =
          [f \in Flow |-> IF f \in S THEN d ELSE responseDecision[f]]
    /\ response' = [f \in Flow |-> IF d = "forward" /\ f \in DOMAIN texts
                                   THEN texts[f] ELSE response[f]]
    /\ UNCHANGED <<pc, request, fate, pluginVars>>
    /\ UNCHANGED <<incomingResponse, arrivedResponse>>
    /\ UNCHANGED <<requestVars, brokerVars>>

\* Switching capture off forwards every response held, as it was received.
ToggleCaptureResponse ==
    /\ captureResponse' = ~captureResponse
    /\ \/ /\ ~captureResponse
          /\ UNCHANGED responseVars
       \/ /\ captureResponse
          /\ \A f \in heldResponses : responseDecision[f] = "none"
          /\ heldResponses' = {}
          /\ responseDecision' =
                [f \in Flow |-> IF f \in heldResponses THEN "forward"
                                ELSE responseDecision[f]]
          /\ UNCHANGED <<incomingResponse, arrivedResponse>>
    /\ UNCHANGED <<flowVars, requestVars, outOfScope, droppedFlows, history>>

-----------------------------------------------------------------------------
Goroutine(f) ==
    \/ \E verdict \in Verdict : RequestHook(f, verdict)
    \/ HoldAutoForwarded(f)
    \/ HoldSend(f)
    \/ HoldReturn(f)
    \/ Reply(f)
    \/ RoundTrip(f)
    \/ \E verdict \in Verdict : ResponseHook(f, verdict)
    \/ HoldResponse(f)
    \/ HoldResponseSend(f)
    \/ HoldResponseReturn(f)
    \/ \E accepted \in BOOLEAN : SaveEntry(f, accepted)

AsyncHooks(f) == AsyncOnRequest(f) \/ AsyncOnResponse(f)

Watcher == TakeRequest \/ TakeResponse

\* Partial functions from the flows of S to edits.
Rewrites(S) == UNION {[T -> Edits] : T \in SUBSET S}

Page ==
    \/ RequestHeld
    \/ RequestPassed
    \/ ResponseHeld
    \/ \E S \in SUBSET held, d \in Decision :
          \E texts \in Rewrites(S) : DecideRequests(S, d, texts)
    \/ \E S \in SUBSET heldResponses, d \in Decision :
          \E texts \in Rewrites(S) : DecideResponses(S, d, texts)
    \/ ToggleCaptureResponse

Next ==
    \/ \E f \in Flow : Goroutine(f) \/ AsyncHooks(f)
    \/ Watcher
    \/ Page

Spec == Init /\ [][Next]_vars

\* The Go scheduler runs every goroutine and every command that can run, and
\* the terminal handles every message.  Nothing is asked of asynchronous
\* hooks, which nobody waits for.  That the person decides every flow
\* held is an assumption about the environment.
DecideOne(f) ==
    \E d \in Decision :
        \/ \E texts \in Rewrites({f}) : DecideRequests({f}, d, texts)
        \/ \E texts \in Rewrites({f}) : DecideResponses({f}, d, texts)

Fairness ==
    /\ \A f \in Flow : WF_vars(Goroutine(f)) /\ WF_vars(DecideOne(f))
    /\ WF_vars(TakeRequest) /\ WF_vars(TakeResponse)
    /\ WF_vars(RequestHeld \/ RequestPassed) /\ WF_vars(ResponseHeld)

FairSpec == Spec /\ Fairness

\* The promises of FlowGate, read off the broker's state.
Gate == INSTANCE FlowGate WITH
            recorded <- {e.flow : e \in history},
            answered <- {f \in Flow : Finished(f)}

-----------------------------------------------------------------------------
(* Properties.                                                             *)

\* Every variable ranges over what the code can store in it, and the two
\* channels respect their capacity.
TypeOK ==
    /\ pc \in [Flow -> PC]
    /\ request \in [Flow -> RequestText]
    /\ response \in [Flow -> ResponseText]
    /\ fate \in [Flow -> Gate!Fate \cup {"undecided"}]
    /\ database \in BOOLEAN
    /\ sent \in [Flow -> RequestText \cup {"none"}]
    /\ incoming \in Seq(Flow) /\ Len(incoming) <= QueueSize
    /\ incomingResponse \in Seq(Flow) /\ Len(incomingResponse) <= QueueSize
    /\ arrived \in Flow \cup {NoFlow}
    /\ arrivedResponse \in Flow \cup {NoFlow}
    /\ held \subseteq Flow /\ heldResponses \subseteq Flow
    /\ decision \in [Flow -> Decision \cup {"none"}]
    /\ responseDecision \in [Flow -> Decision \cup {"none"}]
    /\ captureResponse \in BOOLEAN
    /\ outOfScope \subseteq Flow /\ droppedFlows \subseteq Flow
    /\ history \subseteq Entry

AtMostOne(a, b, c, d) ==
    /\ a => ~b /\ ~c /\ ~d
    /\ b => ~c /\ ~d
    /\ c => ~d

\* The goroutines in "waiting" are those whose flow is in the channel, in the
\* watcher's message, on the page or has a decision in its slot, and no flow
\* is in two of these places, nor twice in the channel.
HandledOnce(waiting, channel, message, shown, slot) ==
    /\ IsInjective(channel)
    /\ \A f \in Flow :
          /\ f \in waiting <=> \/ f \in Range(channel) \/ message = f
                               \/ f \in shown \/ slot[f] # "none"
          /\ AtMostOne(f \in Range(channel), message = f,
                       f \in shown, slot[f] # "none")

Waiting(where) == {f \in Flow : pc[f] = where}

\* A goroutine blocked in Hold can always be reached by a decision: its
\* request is in the channel, in the watcher's message, on the page, or
\* already decided; never in two of them, and in none once it has moved on.
NoRequestLost ==
    HandledOnce(Waiting("waitRequest"), incoming, arrived, held, decision)

\* The same of a goroutine blocked in HoldResponse.
NoResponseLost ==
    HandledOnce(Waiting("waitResponse"), incomingResponse, arrivedResponse,
                heldResponses, responseDecision)

\* Both at once: no goroutine the proxy has blocked can be forgotten.
NoFlowLost == NoRequestLost /\ NoResponseLost

\* Broker.Decide and Broker.DecideResponse run in the terminal's only event
\* loop; the decision channel of any flow the page can decide is empty, so
\* the send never blocks it.
DecideNeverBlocks ==
    /\ \A f \in (held \cup {arrived}) \ {NoFlow} : decision[f] = "none"
    /\ \A f \in (heldResponses \cup {arrivedResponse}) \ {NoFlow} :
          responseDecision[f] = "none"

\* An entry of the history shows the request that went upstream, unless a
\* plugin has written to it since, and the response the proxy had in hand,
\* never the 502 of a response dropped after it was received; only a flow a
\* plugin dropped has an entry without having been sent, and a flow has at
\* most one entry ("must be called after HoldResponse and before modifying
\* f.Response", Broker.SaveEntry).
HistoryTruthful ==
    \A e \in history :
        /\ \/ e.request \in {sent[e.flow]} \cup Rewritten
           \/ sent[e.flow] = "none" /\ fate[e.flow] = "pluginDrop"
        /\ response[e.flow] \in {e.response, "placeholder"} \cup Rewritten
        /\ e.response = "placeholder" => fate[e.flow] = "pluginDrop"
        /\ \A o \in history : o.flow = e.flow => o = e

\* What a person reads is what a decision is about: from the moment a request
\* or a response is put on its channel until it is decided nobody writes to
\* it, although asynchronous hooks write to flows at any time.
HeldTextsStay ==
    [][\A f \in Flow :
          /\ pc[f] = "waitRequest" /\ decision'[f] = "none" =>
                request'[f] = request[f] \/ pc'[f] # "waitRequest"
          /\ pc[f] = "waitResponse" /\ responseDecision'[f] = "none" =>
                response'[f] = response[f] \/ pc'[f] # "waitResponse"]_vars

\* A flow that was auto-forwarded is never shown: the mark Hold left is still
\* there when HoldResponse looks for it.
AutoForwardUnseen ==
    \A f \in Flow :
        fate[f] = "auto" => pc[f] \notin {"sendResponse", "waitResponse"}

\* With a database, Broker.outOfScope and Broker.droppedFlows keep nothing of
\* a flow whose Response hook has run: the maps do not grow with the traffic
\* they see through to the end.  (Without one SaveEntry returns before it
\* looks at them, and they do.)
MarksReclaimed ==
    database => \A f \in Flow :
        pc[f] = "done" => f \notin outOfScope \cup droppedFlows

\* The broker keeps the promises of FlowGate: fates are final, dropped and
\* auto-forwarded flows stay out of the history, entries precede answers.
ImplementsGate == Gate!Spec

\* Nothing in the chain of hooks, channels and watchers can wait for ever:
\* with a person who decides what is held, every flow that entered the proxy
\* is answered.
EveryFlowFinishes == \A f \in Flow : pc[f] # "start" ~> Finished(f)
=============================================================================
