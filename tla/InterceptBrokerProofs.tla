------------------------ MODULE InterceptBrokerProofs ------------------------
(***************************************************************************)
(* What TLAPS proves of InterceptBroker, for any set of flows, any channel *)
(* capacity, any auto_forward_regex, any edits and any plugins.            *)
(***************************************************************************)
EXTENDS InterceptBroker, SequenceTheorems, TLAPS

-----------------------------------------------------------------------------
(* Type correctness.                                                       *)

LEMMA GoroutineTypeOK ==
    ASSUME TypeOK, NEW f \in Flow, Goroutine(f)
    PROVE  TypeOK'
<1> USE BrokerAssumption
    DEF TypeOK, flowVars, pluginVars, requestVars, responseVars, brokerVars, Goto, PC,
        ResponseText, RequestText, Gate!Fate, Decision, AfterHooks
<1>1. ASSUME NEW verdict \in Verdict, RequestHook(f, verdict)
      PROVE  TypeOK'
  BY <1>1, SMTT(30) DEF RequestHook
<1>2. CASE HoldAutoForwarded(f)
  BY <1>2 DEF HoldAutoForwarded
<1>3. CASE HoldSend(f)
  <2>1. Append(incoming, f) \in Seq(Flow) /\ Len(Append(incoming, f)) = Len(incoming) + 1
    OBVIOUS
  <2> QED  BY <1>3, <2>1 DEF HoldSend
<1>4. CASE HoldReturn(f)
  <2>1. /\ \E next \in PC : pc' = [pc EXCEPT ![f] = next]
        /\ \E text \in ResponseText : response' \in
              {response, [response EXCEPT ![f] = text]}
        /\ \E final \in Gate!Fate : fate' = [fate EXCEPT ![f] = final]
        /\ droppedFlows' \subseteq Flow
        /\ decision' = [decision EXCEPT ![f] = "none"]
    BY <1>4 DEF HoldReturn
  <2> HIDE DEF PC, RequestText, ResponseText, Gate!Fate, Decision
  <2>2. pc' \in [Flow -> PC]
    BY <2>1
  <2>3. response' \in [Flow -> ResponseText]
    BY <2>1
  <2>4. fate' \in [Flow -> Gate!Fate \cup {"undecided"}]
    BY <2>1
  <2>5. decision' \in [Flow -> Decision \cup {"none"}]
    BY <2>1
  <2> QED  BY <1>4, <2>1, <2>2, <2>3, <2>4, <2>5 DEF HoldReturn
<1>5. CASE Reply(f)
  BY <1>5 DEF Reply
<1>6. CASE RoundTrip(f)
  <2>1. sent' \in [Flow -> RequestText \cup {"none"}]
    BY <1>6 DEF RoundTrip
  <2>2. response' \in [Flow -> ResponseText]
    <3>1. \E text \in ResponseText : response' = [response EXCEPT ![f] = text]
      BY <1>6 DEF RoundTrip
    <3> QED  BY <3>1
  <2>3. pc' \in [Flow -> PC]
    <3>1. \E next \in PC : pc' = [pc EXCEPT ![f] = next]
      BY <1>6 DEF RoundTrip
    <3> QED  BY <3>1
  <2> HIDE DEF PC, RequestText, ResponseText, Gate!Fate
  <2> QED  BY <1>6, <2>1, <2>2, <2>3 DEF RoundTrip
<1>7. ASSUME NEW verdict \in Verdict, ResponseHook(f, verdict)
      PROVE  TypeOK'
  BY <1>7 DEF ResponseHook, Verdict
<1>8. CASE HoldResponse(f)
  BY <1>8 DEF HoldResponse
<1>9. CASE HoldResponseSend(f)
  <2>1. /\ Append(incomingResponse, f) \in Seq(Flow)
        /\ Len(Append(incomingResponse, f)) = Len(incomingResponse) + 1
    OBVIOUS
  <2> QED  BY <1>9, <2>1 DEF HoldResponseSend
<1>10. CASE HoldResponseReturn(f)
  BY <1>10 DEF HoldResponseReturn
<1>11. ASSUME NEW accepted \in BOOLEAN, SaveEntry(f, accepted)
       PROVE  TypeOK'
  <2>1. Added(f, accepted, response[f]) \subseteq Entry
    BY DEF Added, Entry
  <2> QED  BY <1>11, <2>1 DEF SaveEntry, EndResponseHook
<1> QED
  BY <1>1, <1>2, <1>3, <1>4, <1>5, <1>6, <1>7, <1>8, <1>9, <1>10, <1>11
  DEF Goroutine

LEMMA HooksTypeOK ==
    ASSUME TypeOK, NEW f \in Flow, AsyncHooks(f)
    PROVE  TypeOK'
BY DEF AsyncHooks, AsyncOnRequest, AsyncOnResponse, AfterHooks, RequestText,
       ResponseText, TypeOK, flowVars, pluginVars, requestVars, responseVars,
       brokerVars

LEMMA WatcherTypeOK ==
    ASSUME TypeOK, Watcher
    PROVE  TypeOK'
<1> USE DEF TypeOK, flowVars, pluginVars, requestVars, responseVars, brokerVars
<1>1. CASE TakeRequest
  <2>1. /\ Head(incoming) \in Flow /\ Tail(incoming) \in Seq(Flow)
        /\ Len(Tail(incoming)) = Len(incoming) - 1 /\ Len(incoming) \in Nat
    BY <1>1 DEF TakeRequest
  <2> QED  BY <1>1, <2>1, BrokerAssumption DEF TakeRequest
<1>2. CASE TakeResponse
  <2>1. /\ Head(incomingResponse) \in Flow /\ Tail(incomingResponse) \in Seq(Flow)
        /\ Len(Tail(incomingResponse)) = Len(incomingResponse) - 1
        /\ Len(incomingResponse) \in Nat
    BY <1>2 DEF TakeResponse
  <2> QED  BY <1>2, <2>1, BrokerAssumption DEF TakeResponse
<1> QED  BY <1>1, <1>2 DEF Watcher

LEMMA PageTypeOK ==
    ASSUME TypeOK, Page
    PROVE  TypeOK'
<1> USE BrokerAssumption DEF TypeOK, flowVars, pluginVars, requestVars, responseVars, brokerVars
<1>1. CASE RequestHeld
  BY <1>1 DEF RequestHeld
<1>2. CASE RequestPassed
  BY <1>2 DEF RequestPassed, Decision
<1>3. CASE ResponseHeld
  BY <1>3 DEF ResponseHeld
<1>4. ASSUME NEW S \in SUBSET held, NEW d \in Decision, NEW texts \in Rewrites(S),
             DecideRequests(S, d, texts)
      PROVE  TypeOK'
  <2>1. PICK T \in SUBSET S : texts \in [T -> Edits]
    BY <1>4 DEF Rewrites
  <2>2. \A g \in DOMAIN texts : texts[g] \in RequestText
    BY <2>1 DEF RequestText
  <2>3. request' \in [Flow -> RequestText]
    BY <1>4, <2>2 DEF DecideRequests
  <2>4. decision' \in [Flow -> Decision \cup {"none"}]
    BY <1>4 DEF DecideRequests
  <2> QED  BY <1>4, <2>3, <2>4 DEF DecideRequests
<1>5. ASSUME NEW S \in SUBSET heldResponses, NEW d \in Decision,
             NEW texts \in Rewrites(S), DecideResponses(S, d, texts)
      PROVE  TypeOK'
  <2>1. PICK T \in SUBSET S : texts \in [T -> Edits]
    BY <1>5 DEF Rewrites
  <2>2. \A g \in DOMAIN texts : texts[g] \in ResponseText
    BY <2>1 DEF ResponseText
  <2>3. response' \in [Flow -> ResponseText]
    BY <1>5, <2>2 DEF DecideResponses
  <2>4. responseDecision' \in [Flow -> Decision \cup {"none"}]
    BY <1>5 DEF DecideResponses
  <2> QED  BY <1>5, <2>3, <2>4 DEF DecideResponses
<1>6. CASE ToggleCaptureResponse
  BY <1>6 DEF ToggleCaptureResponse, Decision
<1> QED  BY <1>1, <1>2, <1>3, <1>4, <1>5, <1>6 DEF Page

LEMMA InitTypeOK == Init => TypeOK
BY BrokerAssumption
DEF Init, TypeOK, PC, RequestText, ResponseText, Gate!Fate, Entry

LEMMA StepTypeOK ==
    ASSUME TypeOK, [Next]_vars
    PROVE  TypeOK'
<1>1. ASSUME NEW f \in Flow, Goroutine(f)  PROVE TypeOK'
  BY <1>1, GoroutineTypeOK
<1>2. CASE Watcher
  BY <1>2, WatcherTypeOK
<1>3. CASE Page
  BY <1>3, PageTypeOK
<1>5. ASSUME NEW f \in Flow, AsyncHooks(f)  PROVE TypeOK'
  BY <1>5, HooksTypeOK
<1>4. CASE UNCHANGED vars
  BY <1>4 DEF TypeOK, vars, flowVars, pluginVars, requestVars, responseVars, brokerVars
<1> QED  BY <1>1, <1>2, <1>3, <1>4, <1>5 DEF Next

\* Every variable keeps its type, and the two channels their capacity.
THEOREM TypeCorrect == Spec => []TypeOK
<1>1. TypeOK /\ [Next]_vars => TypeOK'
  BY StepTypeOK
<1> QED  BY <1>1, InitTypeOK, PTL DEF Spec

-----------------------------------------------------------------------------
(* The way of a flow from its goroutine to the page and back.  Each lemma  *)
(* is about one step of it and serves both directions.                     *)

LEMMA AppendChannel ==
    ASSUME NEW c \in Seq(Flow), NEW f \in Flow, f \notin Range(c), IsInjective(c)
    PROVE  /\ IsInjective(Append(c, f))
           /\ Range(Append(c, f)) = Range(c) \cup {f}
<1> DEFINE d == Append(c, f)
<1>1. /\ DOMAIN c = 1..Len(c) /\ DOMAIN d = 1..(Len(c) + 1) /\ Len(c) \in Nat
      /\ \A i \in 1..Len(c) : d[i] = c[i]
      /\ d[Len(c) + 1] = f
  OBVIOUS
<1> HIDE DEF d
<1>2. \A i \in 1..Len(c) : d[i] # f
  BY <1>1 DEF Range
<1>3. IsInjective(d)
  BY <1>1, <1>2 DEF IsInjective
<1>4. Range(d) = Range(c) \cup {f}
  BY <1>1 DEF Range
<1> QED  BY <1>3, <1>4 DEF d

LEMMA TailChannel ==
    ASSUME NEW c \in Seq(Flow), c # <<>>, IsInjective(c)
    PROVE  /\ IsInjective(Tail(c))
           /\ Head(c) \in Flow
           /\ Head(c) \notin Range(Tail(c))
           /\ Range(c) = Range(Tail(c)) \cup {Head(c)}
<1> DEFINE t == Tail(c)
<1>1. /\ Len(c) \in Nat \ {0} /\ DOMAIN c = 1..Len(c) /\ Head(c) = c[1]
      /\ DOMAIN t = 1..(Len(c) - 1)
      /\ \A i \in 1..(Len(c) - 1) : t[i] = c[i + 1]
      /\ Head(c) \in Flow
  BY HeadTailProperties
<1> HIDE DEF t
<1>2. IsInjective(t)
  BY <1>1, SMTT(30) DEF IsInjective
<1>3. Head(c) \notin Range(t)
  BY <1>1 DEF IsInjective, Range
<1>4. Range(c) \subseteq Range(t) \cup {Head(c)}
  <2> SUFFICES ASSUME NEW i \in 1..Len(c), i # 1  PROVE c[i] \in Range(t)
    BY <1>1 DEF Range
  <2>1. i - 1 \in 1..(Len(c) - 1) /\ t[i - 1] = c[i]
    BY <1>1
  <2> QED  BY <1>1, <2>1 DEF Range
<1>5. Range(t) \cup {Head(c)} \subseteq Range(c)
  BY <1>1 DEF Range
<1> QED  BY <1>1, <1>2, <1>3, <1>4, <1>5 DEF t

LEMMA SendKeeps ==
    ASSUME NEW W, NEW c \in Seq(Flow), NEW m, NEW H, NEW s,
           HandledOnce(W, c, m, H, s), NEW f \in Flow, f \notin W
    PROVE  HandledOnce(W \cup {f}, Append(c, f), m, H, s)
<1>1. f \notin Range(c) /\ IsInjective(c)
  BY DEF HandledOnce
<1>2. /\ IsInjective(Append(c, f))
      /\ Range(Append(c, f)) = Range(c) \cup {f}
  BY <1>1, AppendChannel
<1> QED  BY <1>2 DEF HandledOnce, AtMostOne

LEMMA TakeKeeps ==
    ASSUME NEW W, NEW c \in Seq(Flow), NEW H, NEW s, c # <<>>,
           HandledOnce(W, c, NoFlow, H, s)
    PROVE  HandledOnce(W, Tail(c), Head(c), H, s)
<1>1. /\ IsInjective(Tail(c)) /\ Head(c) \in Flow
      /\ Head(c) \notin Range(Tail(c))
      /\ Range(c) = Range(Tail(c)) \cup {Head(c)}
  BY TailChannel DEF HandledOnce
<1> QED  BY <1>1, BrokerAssumption DEF HandledOnce, AtMostOne

LEMMA HoldKeeps ==
    ASSUME NEW W, NEW c, NEW m \in Flow, NEW H, NEW s,
           HandledOnce(W, c, m, H, s)
    PROVE  HandledOnce(W, c, NoFlow, H \cup {m}, s)
BY BrokerAssumption DEF HandledOnce, AtMostOne

LEMMA PassKeeps ==
    ASSUME NEW W, NEW c, NEW m \in Flow, NEW H,
           NEW s \in [Flow -> Decision \cup {"none"}], NEW d \in Decision,
           HandledOnce(W, c, m, H, s)
    PROVE  HandledOnce(W, c, NoFlow, H, [s EXCEPT ![m] = d])
BY BrokerAssumption DEF HandledOnce, AtMostOne, Decision

LEMMA DecideKeeps ==
    ASSUME NEW W, NEW c, NEW m, NEW H, NEW S \in SUBSET H,
           NEW s \in [Flow -> Decision \cup {"none"}], NEW d \in Decision,
           HandledOnce(W, c, m, H, s),
           NEW t, t = [f \in Flow |-> IF f \in S THEN d ELSE s[f]]
    PROVE  HandledOnce(W, c, m, H \ S, t)
BY DEF HandledOnce, AtMostOne, Decision

LEMMA ReturnKeeps ==
    ASSUME NEW W, NEW c, NEW m, NEW H,
           NEW s \in [Flow -> Decision \cup {"none"}],
           NEW f \in Flow, s[f] # "none", HandledOnce(W, c, m, H, s)
    PROVE  HandledOnce(W \ {f}, c, m, H, [s EXCEPT ![f] = "none"])
BY DEF HandledOnce, AtMostOne

\* A goroutine that moves between two places where it does not wait leaves
\* the waiting goroutines as they are.
LEMMA WaitingUnchanged ==
    ASSUME TypeOK, NEW f \in Flow, NEW from, NEW to, NEW where,
           pc[f] = from, Goto(f, to), from # where, to # where
    PROVE  Waiting(where)' = Waiting(where)
BY DEF TypeOK, Goto, Waiting

LEMMA WaitingEnters ==
    ASSUME TypeOK, NEW f \in Flow, NEW where, Goto(f, where)
    PROVE  Waiting(where)' = Waiting(where) \cup {f}
BY DEF TypeOK, Goto, Waiting

LEMMA WaitingLeaves ==
    ASSUME TypeOK, NEW f \in Flow, NEW to, NEW where, Goto(f, to), to # where
    PROVE  Waiting(where)' = Waiting(where) \ {f}
BY DEF TypeOK, Goto, Waiting

\* Steps of a goroutine that neither begin nor end a wait.
LEMMA OtherStepsRouted ==
    ASSUME TypeOK, NoFlowLost, NEW f \in Flow, NEW from \in PC, NEW to \in PC,
           pc[f] = from, Goto(f, to),
           {from, to} \cap {"waitRequest", "waitResponse"} = {},
           UNCHANGED <<requestVars, responseVars>>
    PROVE  NoFlowLost'
<1>1. /\ Waiting("waitRequest")' = Waiting("waitRequest")
      /\ Waiting("waitResponse")' = Waiting("waitResponse")
  BY WaitingUnchanged
<1> QED
  BY <1>1 DEF NoFlowLost, NoRequestLost, NoResponseLost, requestVars, responseVars

LEMMA GoroutineRouted ==
    ASSUME TypeOK, NoFlowLost, NEW f \in Flow, Goroutine(f)
    PROVE  NoFlowLost'
<1> USE DEF PC
<1>1. ASSUME NEW verdict \in Verdict, RequestHook(f, verdict)
      PROVE  NoFlowLost'
  BY <1>1, OtherStepsRouted DEF RequestHook
<1>2. CASE HoldAutoForwarded(f)
  BY <1>2, OtherStepsRouted DEF HoldAutoForwarded
<1>3. CASE HoldSend(f)
  <2>1. /\ Waiting("waitRequest")' = Waiting("waitRequest") \cup {f}
        /\ Waiting("waitResponse")' = Waiting("waitResponse")
    BY <1>3, WaitingEnters, WaitingUnchanged DEF HoldSend
  <2>2. f \notin Waiting("waitRequest")
    BY <1>3 DEF HoldSend, Waiting
  <2>3. HandledOnce(Waiting("waitRequest") \cup {f}, Append(incoming, f),
                    arrived, held, decision)
    BY <2>2, SendKeeps DEF NoFlowLost, NoRequestLost, TypeOK
  <2> QED
    BY <1>3, <2>1, <2>3
    DEF HoldSend, NoFlowLost, NoRequestLost, NoResponseLost, responseVars
<1>4. CASE HoldReturn(f)
  <2>1. /\ Waiting("waitRequest")' = Waiting("waitRequest") \ {f}
        /\ Waiting("waitResponse")' = Waiting("waitResponse")
    BY <1>4, WaitingLeaves, WaitingUnchanged DEF HoldReturn
  <2>2. HandledOnce(Waiting("waitRequest") \ {f}, incoming, arrived, held,
                    [decision EXCEPT ![f] = "none"])
    BY <1>4, ReturnKeeps
    DEF HoldReturn, Decision, NoFlowLost, NoRequestLost, TypeOK
  <2> QED
    BY <1>4, <2>1, <2>2
    DEF HoldReturn, NoFlowLost, NoRequestLost, NoResponseLost, responseVars
<1>5. CASE Reply(f)
  BY <1>5, OtherStepsRouted DEF Reply
<1>6. CASE RoundTrip(f)
  BY <1>6, OtherStepsRouted DEF RoundTrip
<1>7. ASSUME NEW verdict \in Verdict, ResponseHook(f, verdict)
      PROVE  NoFlowLost'
  BY <1>7, OtherStepsRouted DEF ResponseHook
<1>8. CASE HoldResponse(f)
  BY <1>8, OtherStepsRouted DEF HoldResponse
<1>9. CASE HoldResponseSend(f)
  <2>1. /\ Waiting("waitResponse")' = Waiting("waitResponse") \cup {f}
        /\ Waiting("waitRequest")' = Waiting("waitRequest")
    BY <1>9, WaitingEnters, WaitingUnchanged DEF HoldResponseSend
  <2>2. f \notin Waiting("waitResponse")
    BY <1>9 DEF HoldResponseSend, Waiting
  <2>3. HandledOnce(Waiting("waitResponse") \cup {f},
                    Append(incomingResponse, f),
                    arrivedResponse, heldResponses, responseDecision)
    BY <2>2, SendKeeps DEF NoFlowLost, NoResponseLost, TypeOK
  <2> QED
    BY <1>9, <2>1, <2>3
    DEF HoldResponseSend, NoFlowLost, NoRequestLost, NoResponseLost, requestVars
<1>10. CASE HoldResponseReturn(f)
  <2>1. /\ Waiting("waitResponse")' = Waiting("waitResponse") \ {f}
        /\ Waiting("waitRequest")' = Waiting("waitRequest")
    BY <1>10, WaitingLeaves, WaitingUnchanged DEF HoldResponseReturn
  <2>2. HandledOnce(Waiting("waitResponse") \ {f}, incomingResponse,
                    arrivedResponse, heldResponses,
                    [responseDecision EXCEPT ![f] = "none"])
    BY <1>10, ReturnKeeps
    DEF HoldResponseReturn, Decision, NoFlowLost, NoResponseLost, TypeOK
  <2> QED
    BY <1>10, <2>1, <2>2
    DEF HoldResponseReturn, NoFlowLost, NoRequestLost, NoResponseLost, requestVars
<1>11. ASSUME NEW accepted \in BOOLEAN, SaveEntry(f, accepted)
       PROVE  NoFlowLost'
  BY <1>11, OtherStepsRouted DEF SaveEntry, EndResponseHook
<1> QED
  BY <1>1, <1>2, <1>3, <1>4, <1>5, <1>6, <1>7, <1>8, <1>9, <1>10, <1>11
  DEF Goroutine

LEMMA HooksRouted ==
    ASSUME NoFlowLost, NEW f \in Flow, AsyncHooks(f)
    PROVE  NoFlowLost'
BY DEF AsyncHooks, AsyncOnRequest, AsyncOnResponse, NoFlowLost, NoRequestLost,
       NoResponseLost, HandledOnce, Waiting, requestVars, responseVars

LEMMA WatcherRouted ==
    ASSUME TypeOK, NoFlowLost, Watcher
    PROVE  NoFlowLost'
<1> USE DEF NoFlowLost, NoRequestLost, NoResponseLost, Waiting, TypeOK,
            flowVars, pluginVars, requestVars, responseVars
<1>1. CASE TakeRequest
  BY <1>1, TakeKeeps DEF TakeRequest
<1>2. CASE TakeResponse
  BY <1>2, TakeKeeps DEF TakeResponse
<1> QED  BY <1>1, <1>2 DEF Watcher

LEMMA PageRouted ==
    ASSUME TypeOK, NoFlowLost, Page
    PROVE  NoFlowLost'
<1> USE DEF flowVars, pluginVars, requestVars, responseVars
<1>a. /\ HandledOnce(Waiting("waitRequest"), incoming, arrived, held, decision)
      /\ decision \in [Flow -> Decision \cup {"none"}]
  BY DEF NoFlowLost, NoRequestLost, TypeOK
<1>b. /\ HandledOnce(Waiting("waitResponse"), incomingResponse, arrivedResponse,
                     heldResponses, responseDecision)
      /\ responseDecision \in [Flow -> Decision \cup {"none"}]
  BY DEF NoFlowLost, NoResponseLost, TypeOK
<1>1. CASE RequestHeld
  <2>1. /\ Waiting("waitRequest")' = Waiting("waitRequest")
        /\ Waiting("waitResponse")' = Waiting("waitResponse")
    BY <1>1 DEF RequestHeld, Waiting
  <2>2. arrived \in Flow
    BY <1>1 DEF RequestHeld, TypeOK
  <2>3. HandledOnce(Waiting("waitRequest"), incoming, NoFlow,
                    held \cup {arrived}, decision)
    BY <1>a, <2>2, HoldKeeps
  <2> QED  BY <1>1, <2>1, <2>3 DEF RequestHeld,
           NoFlowLost, NoRequestLost, NoResponseLost
<1>2. CASE RequestPassed
  <2>1. /\ Waiting("waitRequest")' = Waiting("waitRequest")
        /\ Waiting("waitResponse")' = Waiting("waitResponse")
    BY <1>2 DEF RequestPassed, Waiting
  <2>2. arrived \in Flow /\ "forward" \in Decision
    BY <1>2 DEF RequestPassed, TypeOK, Decision
  <2>3. HandledOnce(Waiting("waitRequest"), incoming, NoFlow, held,
                    [decision EXCEPT ![arrived] = "forward"])
    BY <1>a, <2>2, PassKeeps
  <2> QED  BY <1>2, <2>1, <2>3 DEF RequestPassed,
           NoFlowLost, NoRequestLost, NoResponseLost
<1>3. CASE ResponseHeld
  <2>1. /\ Waiting("waitRequest")' = Waiting("waitRequest")
        /\ Waiting("waitResponse")' = Waiting("waitResponse")
    BY <1>3 DEF ResponseHeld, Waiting
  <2>2. arrivedResponse \in Flow
    BY <1>3 DEF ResponseHeld, TypeOK
  <2>3. HandledOnce(Waiting("waitResponse"), incomingResponse, NoFlow,
                    heldResponses \cup {arrivedResponse}, responseDecision)
    BY <1>b, <2>2, HoldKeeps
  <2> QED  BY <1>3, <2>1, <2>3 DEF ResponseHeld,
           NoFlowLost, NoRequestLost, NoResponseLost
<1>4. ASSUME NEW S \in SUBSET held, NEW d \in Decision, NEW texts,
             DecideRequests(S, d, texts)
      PROVE  NoFlowLost'
  <2>1. /\ Waiting("waitRequest")' = Waiting("waitRequest")
        /\ Waiting("waitResponse")' = Waiting("waitResponse")
    BY <1>4 DEF DecideRequests, Waiting
  <2>2. HandledOnce(Waiting("waitRequest"), incoming, arrived, held \ S,
                    decision')
    <3>1. decision' = [f \in Flow |-> IF f \in S THEN d ELSE decision[f]]
      BY <1>4 DEF DecideRequests
    <3> QED  BY <1>a, <3>1, DecideKeeps
  <2> QED  BY <1>4, <2>1, <2>2 DEF DecideRequests,
           NoFlowLost, NoRequestLost, NoResponseLost
<1>5. ASSUME NEW S \in SUBSET heldResponses, NEW d \in Decision, NEW texts,
             DecideResponses(S, d, texts)
      PROVE  NoFlowLost'
  <2>1. /\ Waiting("waitRequest")' = Waiting("waitRequest")
        /\ Waiting("waitResponse")' = Waiting("waitResponse")
    BY <1>5 DEF DecideResponses, Waiting
  <2>2. HandledOnce(Waiting("waitResponse"), incomingResponse,
           arrivedResponse, heldResponses \ S, responseDecision')
    <3>1. responseDecision' =
             [f \in Flow |-> IF f \in S THEN d ELSE responseDecision[f]]
      BY <1>5 DEF DecideResponses
    <3> QED  BY <1>b, <3>1, DecideKeeps
  <2> QED  BY <1>5, <2>1, <2>2 DEF DecideResponses,
           NoFlowLost, NoRequestLost, NoResponseLost
<1>6. CASE ToggleCaptureResponse
  <2>1. /\ Waiting("waitRequest")' = Waiting("waitRequest")
        /\ Waiting("waitResponse")' = Waiting("waitResponse")
    BY <1>6 DEF ToggleCaptureResponse, Waiting
  <2>2. CASE ~captureResponse
    BY <1>6, <2>1, <2>2
    DEF ToggleCaptureResponse, NoFlowLost, NoRequestLost, NoResponseLost
  <2>3. CASE captureResponse
    <3>1. "forward" \in Decision /\ heldResponses \ heldResponses = {}
      BY DEF Decision
    <3>2. HandledOnce(Waiting("waitResponse"), incomingResponse,
             arrivedResponse, heldResponses \ heldResponses, responseDecision')
      <4>1. responseDecision' = [f \in Flow |-> IF f \in heldResponses
                                  THEN "forward" ELSE responseDecision[f]]
        BY <1>6, <2>3 DEF ToggleCaptureResponse
      <4> QED  BY <1>b, <3>1, <4>1, DecideKeeps
    <3> QED
      BY <1>6, <2>1, <2>3, <3>1, <3>2
      DEF ToggleCaptureResponse, NoFlowLost, NoRequestLost, NoResponseLost
  <2> QED  BY <2>2, <2>3
<1> QED  BY <1>1, <1>2, <1>3, <1>4, <1>5, <1>6 DEF Page

LEMMA InitRouted == Init => NoFlowLost
BY BrokerAssumption
DEF Init, NoFlowLost, NoRequestLost, NoResponseLost, HandledOnce, AtMostOne,
    Waiting, IsInjective, Range

LEMMA StepRouted ==
    ASSUME TypeOK, NoFlowLost, [Next]_vars
    PROVE  NoFlowLost'
<1>1. ASSUME NEW f \in Flow, Goroutine(f)  PROVE NoFlowLost'
  BY <1>1, GoroutineRouted
<1>2. CASE Watcher
  BY <1>2, WatcherRouted
<1>3. CASE Page
  BY <1>3, PageRouted
<1>4. CASE UNCHANGED vars
  BY <1>4 DEF NoFlowLost, NoRequestLost, NoResponseLost, HandledOnce, Waiting,
              vars, flowVars, pluginVars, requestVars, responseVars
<1>5. ASSUME NEW f \in Flow, AsyncHooks(f)  PROVE NoFlowLost'
  BY <1>5, HooksRouted
<1> QED  BY <1>1, <1>2, <1>3, <1>4, <1>5 DEF Next

\* No flow is lost or doubled between its goroutine and the page, in either
\* direction, whatever the interleaving.
THEOREM NothingLost == Spec => []NoFlowLost
<1>1. TypeOK /\ NoFlowLost /\ [Next]_vars => NoFlowLost'
  BY StepRouted
<1> QED  BY <1>1, InitRouted, TypeCorrect, PTL DEF Spec

\* The event loop of the terminal is never blocked by a decision channel:
\* a flow on the page, or on its way to it, is in no other place, and its
\* decision channel is one of those.
THEOREM DecideNeverBlocksCorrect == Spec => []DecideNeverBlocks
<1>1. TypeOK /\ NoFlowLost => DecideNeverBlocks
  BY DEF TypeOK, NoFlowLost, NoRequestLost, NoResponseLost, HandledOnce, AtMostOne,
         DecideNeverBlocks
<1> QED  BY <1>1, TypeCorrect, NothingLost, PTL

-----------------------------------------------------------------------------
(* The marks (Broker.outOfScope, Broker.droppedFlows) and the history.     *)

\* Where a goroutine is, what was decided of its request, and the marks Hold
\* leaves for SaveEntry go together.  Without a database the marks stay.
Marked ==
    \A f \in Flow :
        /\ fate[f] = "undecided" <=> pc[f] \in {"start", "hold", "waitRequest"}
        /\ pc[f] = "replied" => fate[f] \in {"pluginDrop", "userDrop"}
        /\ fate[f] = "auto" => pc[f] \notin {"sendResponse", "waitResponse"}
        /\ f \in outOfScope <=>
              fate[f] = "auto" /\ (pc[f] = "done" => ~database)
        /\ f \in droppedFlows <=>
              fate[f] = "userDrop" /\ (pc[f] = "done" => ~database)

BeforeTrip == {"start", "hold", "waitRequest", "upstream"}

\* A placeholder that no response was exchanged for yet stems from the
\* Request hook, and so does the answer of a flow that was never sent.  What
\* was sent is the request, unless a plugin has written to it since.
Traced ==
    \A f \in Flow :
        /\ response[f] = "placeholder" /\ pc[f] # "done" =>
              fate[f] \in {"pluginDrop", "userDrop"}
        /\ pc[f] \in BeforeTrip \cup {"replied"} => sent[f] = "none"
        /\ sent[f] = "none" =>
              pc[f] \in BeforeTrip \/ fate[f] \in {"pluginDrop", "userDrop"}
        /\ sent[f] # "none" => request[f] \in {sent[f]} \cup Rewritten

\* The history holds finished flows as they went out.
Recorded ==
    /\ \A e \in history :
          /\ pc[e.flow] = "done"
          /\ fate[e.flow] \in Gate!Fate \ Gate!Unrecorded
    /\ HistoryTruthful

Ledger == Marked /\ Traced /\ Recorded

-----------------------------------------------------------------------------
(* Goroutines, marks and entries stay in step.                            *)

LEMMA GoroutineMarked ==
    ASSUME TypeOK, Marked, NEW f \in Flow, Goroutine(f)
    PROVE  Marked'
<1> USE DEF TypeOK, Marked, Goto, flowVars, pluginVars, brokerVars
<1>1. ASSUME NEW verdict \in Verdict, RequestHook(f, verdict)
      PROVE  Marked'
  BY <1>1 DEF RequestHook
<1>2. CASE HoldAutoForwarded(f)
  BY <1>2 DEF HoldAutoForwarded
<1>3. CASE HoldSend(f)
  BY <1>3 DEF HoldSend
<1>4. CASE HoldReturn(f)
  BY <1>4 DEF HoldReturn
<1>5. CASE Reply(f)
  BY <1>5 DEF Reply
<1>6. CASE RoundTrip(f)
  BY <1>6 DEF RoundTrip
<1>7. ASSUME NEW verdict \in Verdict, ResponseHook(f, verdict)
      PROVE  Marked'
  BY <1>7 DEF ResponseHook
<1>8. CASE HoldResponse(f)
  BY <1>8 DEF HoldResponse
<1>9. CASE HoldResponseSend(f)
  BY <1>9 DEF HoldResponseSend
<1>10. CASE HoldResponseReturn(f)
  BY <1>10 DEF HoldResponseReturn
<1>11. ASSUME NEW accepted \in BOOLEAN, SaveEntry(f, accepted)
       PROVE  Marked'
  BY <1>11, SMTT(30) DEF SaveEntry, EndResponseHook
<1> QED
  BY <1>1, <1>2, <1>3, <1>4, <1>5, <1>6, <1>7, <1>8, <1>9, <1>10, <1>11
  DEF Goroutine

\* Hooks, watchers and the page leave alone what the marks depend on.
LEMMA OthersMarked ==
    ASSUME Marked,
           (\E f \in Flow : AsyncHooks(f)) \/ Watcher \/ Page \/ UNCHANGED vars
    PROVE  Marked'
<1>1. UNCHANGED <<pc, fate, database, outOfScope, droppedFlows>>
  BY DEF AsyncHooks, AsyncOnRequest, AsyncOnResponse, Watcher, Page, TakeRequest,
         TakeResponse, RequestHeld, RequestPassed, ResponseHeld, DecideRequests,
         DecideResponses, ToggleCaptureResponse, vars, flowVars, pluginVars,
         brokerVars
<1> QED  BY <1>1 DEF Marked

LEMMA HooksLeave ==
    ASSUME NEW text
    PROVE  AfterHooks(text) \subseteq {text} \cup Rewritten
BY DEF AfterHooks

LEMMA GoroutineTraced ==
    ASSUME TypeOK, Marked, Traced, NEW f \in Flow, Goroutine(f)
    PROVE  Traced'
<1> USE DEF TypeOK, Traced, BeforeTrip, Goto, pluginVars
<1>a. /\ fate[f] = "undecided" <=> pc[f] \in {"start", "hold", "waitRequest"}
      /\ pc[f] = "replied" => fate[f] \in {"pluginDrop", "userDrop"}
  BY DEF Marked
<1>b. "placeholder" \notin Rewritten /\ "none" \notin RequestText
  BY BrokerAssumption DEF NotEdited, RequestText
<1>1. ASSUME NEW verdict \in Verdict, RequestHook(f, verdict)
      PROVE  Traced'
  BY <1>1, <1>a DEF RequestHook
<1>2. CASE HoldAutoForwarded(f)
  BY <1>2, <1>a DEF HoldAutoForwarded
<1>3. CASE HoldSend(f)
  BY <1>3 DEF HoldSend
<1>4. CASE HoldReturn(f)
  BY <1>4, <1>a DEF HoldReturn
<1>5. CASE Reply(f)
  BY <1>5, <1>a DEF Reply
<1>6. CASE RoundTrip(f)
  BY <1>6, <1>b DEF RoundTrip
<1>7. ASSUME NEW verdict \in Verdict, ResponseHook(f, verdict)
      PROVE  Traced'
  <2>1. PICK text \in AfterHooks(request[f]) :
           request' = [request EXCEPT ![f] = text]
    BY <1>7 DEF ResponseHook
  <2>2. PICK answer \in AfterHooks(response[f]) :
           response' = [response EXCEPT ![f] = answer]
    BY <1>7 DEF ResponseHook
  <2>3. /\ text \in {request[f]} \cup Rewritten
        /\ answer \in {response[f]} \cup Rewritten
    BY HooksLeave
  <2> QED  BY <1>7, <1>b, <2>1, <2>2, <2>3 DEF ResponseHook
<1>8. CASE HoldResponse(f)
  BY <1>8 DEF HoldResponse
<1>9. CASE HoldResponseSend(f)
  BY <1>9 DEF HoldResponseSend
<1>10. CASE HoldResponseReturn(f)
  BY <1>10 DEF HoldResponseReturn
<1>11. ASSUME NEW accepted \in BOOLEAN, SaveEntry(f, accepted)
       PROVE  Traced'
  BY <1>11 DEF SaveEntry, EndResponseHook
<1> QED
  BY <1>1, <1>2, <1>3, <1>4, <1>5, <1>6, <1>7, <1>8, <1>9, <1>10, <1>11
  DEF Goroutine

LEMMA HooksTraced ==
    ASSUME TypeOK, Marked, Traced, NEW f \in Flow, AsyncHooks(f)
    PROVE  Traced'
<1> USE DEF TypeOK, Traced, BeforeTrip, pluginVars
<1>a. "placeholder" \notin Rewritten
  BY BrokerAssumption DEF NotEdited
<1>1. CASE AsyncOnRequest(f)
  <2>1. PICK text \in AfterHooks(request[f]) :
           request' = [request EXCEPT ![f] = text]
    BY <1>1 DEF AsyncOnRequest
  <2>2. text \in {request[f]} \cup Rewritten
    BY HooksLeave
  <2> QED  BY <1>1, <2>1, <2>2 DEF AsyncOnRequest
<1>2. CASE AsyncOnResponse(f)
  <2>1. PICK text \in AfterHooks(request[f]) :
           request' = [request EXCEPT ![f] = text]
    BY <1>2 DEF AsyncOnResponse
  <2>2. text \in {request[f]} \cup Rewritten
    BY HooksLeave
  <2>3. PICK answer : response' = [response EXCEPT ![f] = answer]
    BY <1>2 DEF AsyncOnResponse
  <2> QED  BY <1>2, <2>1, <2>2, <2>3 DEF AsyncOnResponse
<1> QED  BY <1>1, <1>2 DEF AsyncHooks

LEMMA OthersTraced ==
    ASSUME TypeOK, NoFlowLost, Traced, Watcher \/ Page \/ UNCHANGED vars
    PROVE  Traced'
<1> USE DEF TypeOK, Traced, flowVars, pluginVars
<1>1. CASE UNCHANGED flowVars
  BY <1>1
<1>2. CASE Watcher \/ UNCHANGED vars
  BY <1>1, <1>2 DEF Watcher, TakeRequest, TakeResponse, vars
<1>3. CASE RequestHeld \/ RequestPassed \/ ResponseHeld \/ ToggleCaptureResponse
  BY <1>1, <1>3
  DEF RequestHeld, RequestPassed, ResponseHeld, ToggleCaptureResponse
<1>4. ASSUME NEW S \in SUBSET held, NEW d \in Decision, NEW texts \in Rewrites(S),
             DecideRequests(S, d, texts)
      PROVE  Traced'
  <2>1. DOMAIN texts \subseteq S
    BY DEF Rewrites
  <2>2. \A g \in S : pc[g] = "waitRequest"
    BY DEF NoFlowLost, NoRequestLost, HandledOnce, Waiting
  <2>3. \A g \in Flow : sent[g] # "none" => request'[g] = request[g]
    BY <1>4, <2>1, <2>2 DEF DecideRequests, BeforeTrip
  <2> QED  BY <1>4, <2>3 DEF DecideRequests
<1>5. ASSUME NEW S \in SUBSET heldResponses, NEW d \in Decision,
             NEW texts \in Rewrites(S), DecideResponses(S, d, texts)
      PROVE  Traced'
  <2>1. PICK T \in SUBSET S : texts \in [T -> Edits]
    BY DEF Rewrites
  <2>2. \A g \in Flow : response'[g] = "placeholder" => response[g] = "placeholder"
    BY <1>5, <2>1, BrokerAssumption DEF DecideResponses, NotEdited
  <2> QED  BY <1>5, <2>2 DEF DecideResponses
<1> QED  BY <1>2, <1>3, <1>4, <1>5 DEF Page

\* A step that adds no entry, and leaves finished flows alone but for what a
\* plugin writes, leaves the entries true.
LEMMA EntriesStay ==
    ASSUME TypeOK, Recorded, UNCHANGED history,
           \A f \in Flow : pc[f] = "done" =>
              /\ pc'[f] = pc[f] /\ fate'[f] = fate[f] /\ sent'[f] = sent[f]
              /\ response'[f] \in {response[f]} \cup Rewritten
    PROVE  Recorded'
<1>1. \A e \in history : e.flow \in Flow /\ pc[e.flow] = "done"
  BY DEF Recorded, TypeOK, Entry
<1> QED  BY <1>1 DEF Recorded, HistoryTruthful

LEMMA GoroutineRecorded ==
    ASSUME TypeOK, Marked, Traced, Recorded, NEW f \in Flow, Goroutine(f)
    PROVE  Recorded'
<1> USE DEF TypeOK, Goto, flowVars, pluginVars, brokerVars
<1>1. ASSUME NEW verdict \in Verdict, RequestHook(f, verdict)
      PROVE  Recorded'
  BY <1>1, EntriesStay DEF RequestHook
<1>2. CASE HoldAutoForwarded(f)
  BY <1>2, EntriesStay DEF HoldAutoForwarded
<1>3. CASE HoldSend(f)
  BY <1>3, EntriesStay DEF HoldSend
<1>4. CASE HoldReturn(f)
  BY <1>4, EntriesStay DEF HoldReturn
<1>5. CASE Reply(f)
  BY <1>5, EntriesStay DEF Reply
<1>6. CASE RoundTrip(f)
  BY <1>6, EntriesStay DEF RoundTrip
<1>7. ASSUME NEW verdict \in Verdict, ResponseHook(f, verdict)
      PROVE  Recorded'
  BY <1>7, EntriesStay DEF ResponseHook
<1>8. CASE HoldResponse(f)
  BY <1>8, EntriesStay DEF HoldResponse
<1>9. CASE HoldResponseSend(f)
  BY <1>9, EntriesStay DEF HoldResponseSend
<1>10. CASE HoldResponseReturn(f)
  BY <1>10, EntriesStay DEF HoldResponseReturn
<1>11. ASSUME NEW accepted \in BOOLEAN, SaveEntry(f, accepted)
       PROVE  Recorded'
  <2>1. /\ pc[f] \in {"save", "saveThenDrop"}
        /\ pc' = [pc EXCEPT ![f] = "done"]
        /\ response' = response
             \/ response' = [response EXCEPT ![f] = "placeholder"]
        /\ UNCHANGED <<request, fate, sent>>
        /\ history' = history \/ history' = history \cup Added(f, accepted, response[f])
    BY <1>11 DEF SaveEntry, EndResponseHook
  <2>2. \A g \in Flow \ {f} : pc'[g] = pc[g] /\ response'[g] = response[g]
    BY <2>1
  <2>3. \A e \in history : e.flow \in Flow \ {f}
    BY <2>1 DEF Recorded, Entry
  <2>5. CASE UNCHANGED history
    BY <2>1, <2>2, <2>5, EntriesStay
  <2>6. CASE history' # history
    <3> DEFINE new == [flow |-> f, request |-> request[f],
                       response |-> response[f]]
    <3>1. /\ f \notin outOfScope \cup droppedFlows
          /\ history' = history \cup {new}
      BY <2>1, <2>6 DEF Added
    <3>2. fate[f] \in Gate!Fate \ Gate!Unrecorded
      BY <3>1, <2>1 DEF Marked, Gate!Fate, Gate!Unrecorded
    <3>3. /\ response[f] = "placeholder" => fate[f] = "pluginDrop"
          /\ \/ request[f] \in {sent[f]} \cup Rewritten
             \/ sent[f] = "none" /\ fate[f] = "pluginDrop"
      BY <3>2, <2>1 DEF Traced, BeforeTrip, Gate!Unrecorded
    <3>4. /\ new.flow = f
          /\ \/ new.request \in {sent'[f]} \cup Rewritten
             \/ sent'[f] = "none" /\ fate'[f] = "pluginDrop"
          /\ response'[f] \in {new.response, "placeholder"} \cup Rewritten
          /\ new.response = "placeholder" => fate'[f] = "pluginDrop"
      BY <2>1, <3>3
    <3> HIDE DEF new
    <3>5. \A e \in history' :
             /\ pc'[e.flow] = "done"
             /\ fate'[e.flow] \in Gate!Fate \ Gate!Unrecorded
      BY <2>1, <2>2, <2>3, <3>1, <3>2, <3>4 DEF Recorded
    <3>6. HistoryTruthful'
      BY <2>1, <2>2, <2>3, <3>1, <3>4 DEF Recorded, HistoryTruthful
    <3> QED  BY <3>5, <3>6 DEF Recorded
  <2> QED  BY <2>5, <2>6
<1> QED
  BY <1>1, <1>2, <1>3, <1>4, <1>5, <1>6, <1>7, <1>8, <1>9, <1>10, <1>11
  DEF Goroutine

LEMMA HooksRecorded ==
    ASSUME TypeOK, Recorded, NEW f \in Flow, AsyncHooks(f)
    PROVE  Recorded'
<1> USE DEF TypeOK, pluginVars, brokerVars
<1>1. CASE AsyncOnRequest(f)
  BY <1>1, EntriesStay DEF AsyncOnRequest
<1>2. CASE AsyncOnResponse(f)
  <2>1. PICK answer \in AfterHooks(response[f]) :
           response' = [response EXCEPT ![f] = answer]
    BY <1>2 DEF AsyncOnResponse
  <2>2. answer \in {response[f]} \cup Rewritten
    BY HooksLeave
  <2>3. \A g \in Flow : response'[g] \in {response[g]} \cup Rewritten
    BY <2>1, <2>2
  <2> QED  BY <1>2, <2>3, EntriesStay DEF AsyncOnResponse
<1> QED  BY <1>1, <1>2 DEF AsyncHooks

LEMMA OthersRecorded ==
    ASSUME TypeOK, NoFlowLost, Recorded, Watcher \/ Page \/ UNCHANGED vars
    PROVE  Recorded'
<1> USE DEF TypeOK, flowVars, pluginVars, brokerVars
<1>1. ASSUME UNCHANGED <<flowVars, history>>
      PROVE  Recorded'
  BY <1>1, EntriesStay
<1>2. CASE Watcher \/ UNCHANGED vars
  BY <1>1, <1>2 DEF Watcher, TakeRequest, TakeResponse, vars
<1>3. CASE RequestHeld \/ RequestPassed \/ ResponseHeld \/ ToggleCaptureResponse
  BY <1>1, <1>3
  DEF RequestHeld, RequestPassed, ResponseHeld, ToggleCaptureResponse
<1>4. ASSUME NEW S \in SUBSET held, NEW d \in Decision, NEW texts \in Rewrites(S),
             DecideRequests(S, d, texts)
      PROVE  Recorded'
  BY <1>4, EntriesStay DEF DecideRequests
<1>5. ASSUME NEW S \in SUBSET heldResponses, NEW d \in Decision,
             NEW texts \in Rewrites(S), DecideResponses(S, d, texts)
      PROVE  Recorded'
  <2>1. DOMAIN texts \subseteq S
    BY DEF Rewrites
  <2>2. \A g \in S : pc[g] = "waitResponse"
    BY DEF NoFlowLost, NoResponseLost, HandledOnce, Waiting
  <2>3. \A g \in Flow : pc[g] = "done" => response'[g] = response[g]
    BY <1>5, <2>1, <2>2 DEF DecideResponses
  <2> QED  BY <1>5, <2>3, EntriesStay DEF DecideResponses
<1> QED  BY <1>2, <1>3, <1>4, <1>5 DEF Page

LEMMA StepLedger ==
    ASSUME TypeOK, NoFlowLost, Ledger, [Next]_vars
    PROVE  Ledger'
<1>1. ASSUME NEW f \in Flow, Goroutine(f)  PROVE Ledger'
  BY <1>1, GoroutineMarked, GoroutineTraced, GoroutineRecorded DEF Ledger
<1>2. ASSUME NEW f \in Flow, AsyncHooks(f)  PROVE Ledger'
  BY <1>2, OthersMarked, HooksTraced, HooksRecorded DEF Ledger
<1>3. CASE Watcher \/ Page \/ UNCHANGED vars
  BY <1>3, OthersMarked, OthersTraced, OthersRecorded DEF Ledger
<1> QED  BY <1>1, <1>2, <1>3 DEF Next

LEMMA InitLedger == Init => Ledger
BY BrokerAssumption
DEF Init, Ledger, Marked, Traced, BeforeTrip, Recorded, HistoryTruthful

\* Goroutines, marks, texts and history agree in every reachable state,
\* whatever plugins write and whether or not there is a database.
THEOREM LedgerCorrect == Spec => []Ledger
<1>1. TypeOK /\ NoFlowLost /\ Ledger /\ [Next]_vars => Ledger'
  BY StepLedger
<1> QED  BY <1>1, InitLedger, TypeCorrect, NothingLost, PTL DEF Spec

-----------------------------------------------------------------------------
(* What a flow says while it waits.                                        *)

\* The page has decided flow f's request, or will never see it.
Decided(f) ==
    /\ pc[f] \notin {"start", "hold"}
    /\ pc[f] = "waitRequest" => decision[f] # "none"

\* The page has decided flow f's response, or will never see it again.
Past(f) ==
    \/ pc[f] \in {"save", "saveThenDrop", "done"}
    \/ pc[f] = "waitResponse" /\ responseDecision[f] # "none"

\* The goroutine of a flow held on either side is blocked and its decision
\* channel is empty.
LEMMA HeldWaits ==
    ASSUME TypeOK, NoFlowLost, NEW f \in Flow
    PROVE  /\ f \in held => pc[f] = "waitRequest" /\ decision[f] = "none"
           /\ f \in heldResponses =>
                 pc[f] = "waitResponse" /\ responseDecision[f] = "none"
           /\ arrived = f =>
                 pc[f] = "waitRequest" /\ decision[f] = "none" /\ f \notin held
           /\ arrivedResponse = f => f \notin heldResponses
BY DEF TypeOK, NoFlowLost, NoRequestLost, NoResponseLost, HandledOnce, AtMostOne,
       Waiting

\* No asynchronous hook runs on a flow whose request waits for the page, and
\* none that writes to a response before the Response hook is over.
LEMMA HooksSpare ==
    ASSUME TypeOK, Marked, NEW g \in Flow, AsyncHooks(g), NEW f \in Flow
    PROVE  /\ UNCHANGED <<pc, requestVars, responseVars>>
           /\ pc[f] \in {"start", "hold", "waitRequest"} => request'[f] = request[f]
           /\ pc[f] # "done" => response'[f] = response[f]
<1> USE DEF TypeOK, Marked
<1>1. CASE AsyncOnRequest(g)
  BY <1>1 DEF AsyncOnRequest, HooksStarted
<1>2. CASE AsyncOnResponse(g)
  BY <1>2 DEF AsyncOnResponse
<1> QED  BY <1>1, <1>2 DEF AsyncHooks

\* What a step may do to flow f: what is decided stays decided, and neither
\* its request nor its response is written while the page holds it.
Respects(f) ==
    /\ Decided(f) => Decided(f)'
    /\ f \in held =>
          Decided(f)' \/ (f \in held' /\ request'[f] = request[f])
    /\ Past(f) => Past(f)'
    /\ f \in heldResponses =>
          Past(f)' \/ (f \in heldResponses' /\ response'[f] = response[f])

\* What a step may do to a flow that waits, wherever it waits.
Keeps(f) ==
    /\ pc[f] = "waitRequest" /\ decision'[f] = "none" =>
          request'[f] = request[f] \/ pc'[f] # "waitRequest"
    /\ pc[f] = "waitResponse" /\ responseDecision'[f] = "none" =>
          response'[f] = response[f] \/ pc'[f] # "waitResponse"

LEMMA GoroutineRespects ==
    ASSUME TypeOK, NoFlowLost, NEW g \in Flow, Goroutine(g), NEW f \in Flow
    PROVE  Respects(f) /\ Keeps(f)
<1>1. /\ f \in held => pc[f] = "waitRequest" /\ decision[f] = "none"
      /\ f \in heldResponses => pc[f] = "waitResponse" /\ responseDecision[f] = "none"
  BY HeldWaits
<1>. USE <1>1 DEF requestVars, responseVars, brokerVars, pluginVars, Goto, TypeOK,
                  Decided, Past, Respects, Keeps
<1>2. ASSUME NEW verdict \in Verdict, RequestHook(g, verdict)
      PROVE  Respects(f) /\ Keeps(f)
  <2>1. PICK text : request' = [request EXCEPT ![g] = text]
    BY <1>2 DEF RequestHook
  <2> QED  BY <1>2, <2>1 DEF RequestHook
<1>3. CASE HoldAutoForwarded(g)
  BY <1>3 DEF HoldAutoForwarded
<1>4. CASE HoldSend(g)
  BY <1>4 DEF HoldSend
<1>5. CASE HoldReturn(g)
  BY <1>5 DEF HoldReturn
<1>6. CASE Reply(g)
  BY <1>6 DEF Reply
<1>7. CASE RoundTrip(g)
  BY <1>7 DEF RoundTrip
<1>8. ASSUME NEW verdict \in Verdict, ResponseHook(g, verdict)
      PROVE  Respects(f) /\ Keeps(f)
  <2>1. PICK text : request' = [request EXCEPT ![g] = text]
    BY <1>8 DEF ResponseHook
  <2>2. PICK answer : response' = [response EXCEPT ![g] = answer]
    BY <1>8 DEF ResponseHook
  <2> QED  BY <1>8, <2>1, <2>2 DEF ResponseHook
<1>9. CASE HoldResponse(g)
  BY <1>9 DEF HoldResponse
<1>10. CASE HoldResponseSend(g)
  BY <1>10 DEF HoldResponseSend
<1>11. CASE HoldResponseReturn(g)
  BY <1>11 DEF HoldResponseReturn, Decision
<1>12. ASSUME NEW accepted \in BOOLEAN, SaveEntry(g, accepted)
       PROVE  Respects(f) /\ Keeps(f)
  BY <1>12 DEF SaveEntry, EndResponseHook
<1>. QED
  BY <1>2, <1>3, <1>4, <1>5, <1>6, <1>7, <1>8, <1>9, <1>10, <1>11, <1>12 DEF Goroutine

LEMMA HooksRespect ==
    ASSUME TypeOK, NoFlowLost, Marked, NEW g \in Flow, AsyncHooks(g), NEW f \in Flow
    PROVE  Respects(f) /\ Keeps(f)
<1>1. /\ f \in held => pc[f] = "waitRequest" /\ decision[f] = "none"
      /\ f \in heldResponses => pc[f] = "waitResponse" /\ responseDecision[f] = "none"
  BY HeldWaits
<1> QED
  BY <1>1, HooksSpare
  DEF requestVars, responseVars, Decided, Past, Respects, Keeps

LEMMA OthersRespect ==
    ASSUME TypeOK, NoFlowLost, Watcher \/ Page \/ UNCHANGED vars, NEW f \in Flow
    PROVE  Respects(f) /\ Keeps(f)
<1>1. /\ f \in held => pc[f] = "waitRequest" /\ decision[f] = "none"
      /\ f \in heldResponses => pc[f] = "waitResponse" /\ responseDecision[f] = "none"
  BY HeldWaits
<1>. USE <1>1 DEF flowVars, pluginVars, requestVars, responseVars, brokerVars, TypeOK,
                  Decided, Past, Respects, Keeps
<1>2. CASE Watcher \/ UNCHANGED vars
  BY <1>2 DEF Watcher, TakeRequest, TakeResponse, vars
<1>3. CASE RequestHeld \/ RequestPassed \/ ResponseHeld
  BY <1>3 DEF RequestHeld, RequestPassed, ResponseHeld
<1>4. ASSUME NEW S \in SUBSET held, NEW d \in Decision, NEW texts \in Rewrites(S),
             DecideRequests(S, d, texts)
      PROVE  Respects(f) /\ Keeps(f)
  <2>1. DOMAIN texts \subseteq S
    BY DEF Rewrites
  <2> QED  BY <1>4, <2>1 DEF DecideRequests, Decision
<1>5. ASSUME NEW S \in SUBSET heldResponses, NEW d \in Decision,
             NEW texts \in Rewrites(S), DecideResponses(S, d, texts)
      PROVE  Respects(f) /\ Keeps(f)
  <2>1. DOMAIN texts \subseteq S
    BY DEF Rewrites
  <2> QED  BY <1>5, <2>1 DEF DecideResponses, Decision
<1>6. CASE ToggleCaptureResponse
  BY <1>6 DEF ToggleCaptureResponse
<1> QED  BY <1>2, <1>3, <1>4, <1>5, <1>6 DEF Page

LEMMA StepRespects ==
    ASSUME TypeOK, NoFlowLost, Marked, [Next]_vars, NEW f \in Flow
    PROVE  Respects(f) /\ Keeps(f)
BY GoroutineRespects, HooksRespect, OthersRespect DEF Next

\* Whatever plugins write to other flows, or to this one before and after, a
\* request or a response that waits for its decision stays as it is.
THEOREM HeldTextsCorrect == Spec => HeldTextsStay
<1>1. TypeOK /\ NoFlowLost /\ Ledger /\ [Next]_vars
      => [\A f \in Flow :
            /\ pc[f] = "waitRequest" /\ decision'[f] = "none" =>
                  request'[f] = request[f] \/ pc'[f] # "waitRequest"
            /\ pc[f] = "waitResponse" /\ responseDecision'[f] = "none" =>
                  response'[f] = response[f] \/ pc'[f] # "waitResponse"]_vars
  BY StepRespects DEF Ledger, Keeps
<1> QED
  BY <1>1, TypeCorrect, NothingLost, LedgerCorrect, PTL DEF Spec, HeldTextsStay

-----------------------------------------------------------------------------
(* What follows from the ledger.                                           *)

\* Every entry of the history is the exchange as it took place, but for what
\* plugins write to the flow after it was sent.
THEOREM HistoryCorrect == Spec => []HistoryTruthful
<1>1. Ledger => HistoryTruthful
  BY DEF Ledger, Recorded
<1> QED  BY <1>1, LedgerCorrect, PTL

\* An auto-forwarded flow is never shown.
THEOREM AutoForwardCorrect == Spec => []AutoForwardUnseen
<1>1. Ledger => AutoForwardUnseen
  BY DEF Ledger, Marked, AutoForwardUnseen
<1> QED  BY <1>1, LedgerCorrect, PTL

\* With a database, the marks of a flow are gone when its Response hook has
\* run.
THEOREM MarksCorrect == Spec => []MarksReclaimed
<1>1. Ledger => MarksReclaimed
  BY DEF Ledger, Marked, MarksReclaimed
<1> QED  BY <1>1, LedgerCorrect, PTL

-----------------------------------------------------------------------------
(* The refinement.  The steps of the page and of the watchers are stutters *)
(* of FlowGate; a goroutine's are stutters, a Judge or an answer.          *)

RecordedFlows == {e.flow : e \in history}
AnsweredFlows == {f \in Flow : Finished(f)}

\* A step that neither judges, nor records, nor answers.
LEMMA Stutters ==
    ASSUME UNCHANGED <<fate, history>>, AnsweredFlows' = AnsweredFlows
    PROVE  UNCHANGED Gate!gateVars
BY DEF Gate!gateVars, AnsweredFlows

LEMMA Judges ==
    ASSUME NEW f \in Flow, NEW verdict \in Gate!Fate, fate[f] = "undecided",
           fate' = [fate EXCEPT ![f] = verdict], UNCHANGED history,
           AnsweredFlows' = AnsweredFlows
    PROVE  Gate!Next
BY DEF Gate!Next, Gate!Judge, AnsweredFlows

LEMMA Answers ==
    ASSUME NEW f \in Flow, fate[f] \in Gate!Fate, f \notin AnsweredFlows,
           AnsweredFlows' = AnsweredFlows \cup {f}, UNCHANGED fate,
           \/ UNCHANGED history
           \/ /\ RecordedFlows' = RecordedFlows \cup {f}
              /\ f \notin RecordedFlows
              /\ fate[f] \notin Gate!Unrecorded
    PROVE  Gate!Next
<1>1. CASE UNCHANGED history
  BY <1>1 DEF Gate!Next, Gate!Answer, AnsweredFlows
<1>2. CASE RecordedFlows' = RecordedFlows \cup {f} /\ f \notin RecordedFlows
           /\ fate[f] \notin Gate!Unrecorded
  BY <1>2 DEF Gate!Next, Gate!RecordAndAnswer, AnsweredFlows, RecordedFlows
<1> QED  BY <1>1, <1>2

\* Where a goroutine goes decides whether its flow counts as answered.
LEMMA Answering ==
    ASSUME TypeOK, NEW f \in Flow, NEW to, Goto(f, to), ~Finished(f)
    PROVE  /\ f \notin AnsweredFlows
           /\ to \in {"unhooked", "done"} =>
                 AnsweredFlows' = AnsweredFlows \cup {f}
           /\ to \notin {"unhooked", "done"} => AnsweredFlows' = AnsweredFlows
BY DEF TypeOK, Goto, Finished, AnsweredFlows

LEMMA GoroutineRefines ==
    ASSUME TypeOK, Ledger, NEW f \in Flow, Goroutine(f)
    PROVE  Gate!Next \/ UNCHANGED Gate!gateVars
<1> USE DEF flowVars, pluginVars, brokerVars, Finished
<1>a. /\ fate[f] = "undecided" <=> pc[f] \in {"start", "hold", "waitRequest"}
      /\ fate[f] # "undecided" => fate[f] \in Gate!Fate
  BY DEF Ledger, Marked, TypeOK
<1>1. ASSUME NEW verdict \in Verdict, RequestHook(f, verdict)
      PROVE  Gate!Next \/ UNCHANGED Gate!gateVars
  <2>1. "pluginDrop" \in Gate!Fate /\ "pluginForward" \in Gate!Fate
    BY DEF Gate!Fate
  <2> QED  BY <1>1, <1>a, <2>1, Answering, Judges, Stutters DEF RequestHook
<1>2. CASE HoldAutoForwarded(f)
  <2>1. "auto" \in Gate!Fate
    BY DEF Gate!Fate
  <2>2. AnsweredFlows' = AnsweredFlows
    BY <1>2, Answering DEF HoldAutoForwarded
  <2>3. /\ fate[f] = "undecided" /\ UNCHANGED history
        /\ fate' = [fate EXCEPT ![f] = "auto"]
    BY <1>2, <1>a DEF HoldAutoForwarded
  <2> QED  BY <2>1, <2>2, <2>3, Judges
<1>3. CASE HoldSend(f)
  BY <1>3, Answering, Stutters DEF HoldSend
<1>4. CASE HoldReturn(f)
  <2>1. "userDrop" \in Gate!Fate /\ "userForward" \in Gate!Fate
    BY DEF Gate!Fate
  <2> QED  BY <1>4, <1>a, <2>1, Answering, Judges DEF HoldReturn
<1>5. CASE Reply(f)
  BY <1>5, <1>a, Answering, Answers, Stutters DEF Reply
<1>6. CASE RoundTrip(f)
  BY <1>6, <1>a, Answering, Answers, Stutters DEF RoundTrip
<1>7. ASSUME NEW verdict \in Verdict, ResponseHook(f, verdict)
      PROVE  Gate!Next \/ UNCHANGED Gate!gateVars
  BY <1>7, Answering, Stutters DEF ResponseHook
<1>8. CASE HoldResponse(f)
  BY <1>8, Answering, Stutters DEF HoldResponse
<1>9. CASE HoldResponseSend(f)
  BY <1>9, Answering, Stutters DEF HoldResponseSend
<1>10. CASE HoldResponseReturn(f)
  BY <1>10, Answering, Stutters DEF HoldResponseReturn
<1>11. ASSUME NEW accepted \in BOOLEAN, SaveEntry(f, accepted)
       PROVE  Gate!Next \/ UNCHANGED Gate!gateVars
  <2>1. /\ pc[f] \in {"save", "saveThenDrop"} /\ Goto(f, "done")
        /\ UNCHANGED fate
        /\ \/ UNCHANGED history
           \/ history' = history \cup Added(f, accepted, response[f])
    BY <1>11 DEF SaveEntry, EndResponseHook
  <2>2. f \notin AnsweredFlows /\ AnsweredFlows' = AnsweredFlows \cup {f}
    BY <2>1, Answering
  <2>3. CASE UNCHANGED history
    BY <2>1, <2>2, <2>3, <1>a, Answers
  <2>4. CASE history' # history
    <3> DEFINE new == [flow |-> f, request |-> request[f],
                       response |-> response[f]]
    <3>1. f \notin outOfScope \cup droppedFlows /\ history' = history \cup {new}
      BY <2>1, <2>4 DEF Added
    <3>2. fate[f] \notin Gate!Unrecorded
      BY <3>1, <2>1 DEF Ledger, Marked, Gate!Unrecorded
    <3>3. RecordedFlows' = RecordedFlows \cup {f}
      <4>1. new.flow = f
        OBVIOUS
      <4> HIDE DEF new
      <4>2. \A g : g \in RecordedFlows' <=> g \in RecordedFlows \cup {f}
        BY <3>1, <4>1 DEF RecordedFlows
      <4> QED  BY <4>2
    <3>4. f \notin RecordedFlows
      BY <2>1 DEF RecordedFlows, Ledger, Recorded
    <3> QED  BY <2>1, <2>2, <3>2, <3>3, <3>4, <1>a, Answers
  <2> QED  BY <2>3, <2>4
<1> QED
  BY <1>1, <1>2, <1>3, <1>4, <1>5, <1>6, <1>7, <1>8, <1>9, <1>10, <1>11
  DEF Goroutine

LEMMA OthersRefine ==
    ASSUME (\E f \in Flow : AsyncHooks(f)) \/ Watcher \/ Page
    PROVE  UNCHANGED Gate!gateVars
<1>1. UNCHANGED <<pc, fate, history>>
  BY DEF AsyncHooks, AsyncOnRequest, AsyncOnResponse, Watcher, Page, TakeRequest, TakeResponse, RequestHeld, RequestPassed,
         ResponseHeld, DecideRequests, DecideResponses, ToggleCaptureResponse,
         flowVars, pluginVars, brokerVars
<1>2. AnsweredFlows' = AnsweredFlows
  BY <1>1 DEF AnsweredFlows, Finished
<1> QED  BY <1>1, <1>2, Stutters

\* The broker and the proxy addon keep the promises of FlowGate, with any
\* number of flows.
THEOREM GateImplemented == Spec => ImplementsGate
<1>1. Init => Gate!Init
  BY DEF Init, Gate!Init, Finished
<1>2. TypeOK /\ Ledger /\ [Next]_vars => [Gate!Next]_Gate!gateVars
  <2> SUFFICES ASSUME TypeOK, Ledger, [Next]_vars
               PROVE  Gate!Next \/ UNCHANGED Gate!gateVars
    OBVIOUS
  <2>1. ASSUME NEW f \in Flow, Goroutine(f)
        PROVE  Gate!Next \/ UNCHANGED Gate!gateVars
    BY <2>1, GoroutineRefines
  <2>2. CASE (\E f \in Flow : AsyncHooks(f)) \/ Watcher \/ Page
    BY <2>2, OthersRefine
  <2>3. CASE UNCHANGED vars
    <3>1. UNCHANGED <<pc, fate, history>>
      BY <2>3 DEF vars, flowVars, pluginVars, brokerVars
    <3>2. AnsweredFlows' = AnsweredFlows
      BY <3>1 DEF AnsweredFlows, Finished
    <3> QED  BY <3>1, <3>2, Stutters
  <2> QED  BY <2>1, <2>2, <2>3 DEF Next
<1> QED
  BY <1>1, <1>2, TypeCorrect, LedgerCorrect, PTL DEF Spec, ImplementsGate, Gate!Spec
=============================================================================
