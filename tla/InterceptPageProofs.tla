-------------------------- MODULE InterceptPageProofs --------------------------
(***************************************************************************)
(* What TLAPS proves of InterceptPage, that is of the page, the broker and *)
(* the proxy together, for any set of flows, any channel capacity and any  *)
(* texts.  The page implements the broker's abstract page, so that all     *)
(* that InterceptBrokerProofs shows holds of the composition as well; and  *)
(* all that the runs check of its lists, its edits and what it shows, but  *)
(* for what must eventually happen, is proved from one invariant, PageInv. *)
(***************************************************************************)
EXTENDS InterceptPage, ListFacts, SequenceTheorems, TLAPS

\* The proofs of the broker, read of the page's lists.
P == INSTANCE InterceptBrokerProofs WITH
        held <- ToSet(queue), heldResponses <- ToSet(responseQueue)

-----------------------------------------------------------------------------
(* Lists in which nothing is twice.                                        *)

LEMMA AppendToList ==
    ASSUME NEW S, NEW s \in Seq(S), NEW x \in S, x \notin ToSet(s), IsInjective(s)
    PROVE  /\ Append(s, x) \in Seq(S) /\ Len(Append(s, x)) = Len(s) + 1
           /\ Append(s, x) # <<>>
           /\ \A i \in 1 .. Len(s) : Append(s, x)[i] = s[i]
           /\ ToSet(Append(s, x)) = ToSet(s) \cup {x}
           /\ IsInjective(Append(s, x))
<1>. DEFINE t == Append(s, x)
<1>1. /\ t \in Seq(S) /\ DOMAIN s = 1 .. Len(s) /\ DOMAIN t = 1 .. (Len(s) + 1)
      /\ Len(s) \in Nat /\ Len(t) = Len(s) + 1 /\ t # <<>>
      /\ \A i \in 1 .. Len(s) : t[i] = s[i]
      /\ t[Len(s) + 1] = x
  OBVIOUS
<1>. HIDE DEF t
<1>2. \A i \in 1 .. Len(s) : s[i] # x
  BY <1>1 DEF ToSet
<1>3. IsInjective(t)
  BY <1>1, <1>2 DEF IsInjective
<1>4. ToSet(t) = ToSet(s) \cup {x}
  BY <1>1 DEF ToSet
<1> QED  BY <1>1, <1>3, <1>4 DEF t

LEMMA RemoveFromList ==
    ASSUME NEW S, NEW s \in Seq(S), NEW n \in 1 .. Len(s), IsInjective(s)
    PROVE  /\ RemoveAt(s, n) \in Seq(S) /\ Len(RemoveAt(s, n)) = Len(s) - 1
           /\ \A i \in 1 .. Len(s) - 1 : RemoveAt(s, n)[i] = IF i < n THEN s[i] ELSE s[i + 1]
           /\ ToSet(RemoveAt(s, n)) = ToSet(s) \ {s[n]}
           /\ IsInjective(RemoveAt(s, n))
<1>. DEFINE u == SubSeq(s, 1, n - 1)
            v == SubSeq(s, n + 1, Len(s))
            t == u \o v
<1>1. u \in Seq(S) /\ Len(u) = n - 1 /\ \A i \in 1 .. n - 1 : u[i] = s[i]
  OBVIOUS
<1>2. v \in Seq(S) /\ Len(v) = Len(s) - n /\ \A i \in 1 .. Len(s) - n : v[i] = s[n + i]
  OBVIOUS
<1>. HIDE DEF u, v
<1>3. /\ t \in Seq(S) /\ Len(t) = Len(s) - 1 /\ DOMAIN t = 1 .. (Len(s) - 1)
      /\ \A i \in 1 .. Len(s) - 1 : t[i] = IF i < n THEN s[i] ELSE s[i + 1]
  <2>1. /\ t \in Seq(S) /\ Len(t) = Len(u) + Len(v)
        /\ \A i \in 1 .. Len(u) + Len(v) : t[i] = IF i <= Len(u) THEN u[i] ELSE v[i - Len(u)]
    BY <1>1, <1>2, ConcatProperties
  <2>. HIDE DEF t
  <2>2. ASSUME NEW i \in 1 .. Len(s) - 1 PROVE t[i] = IF i < n THEN s[i] ELSE s[i + 1]
    <3>a. i \in 1 .. Len(u) + Len(v) /\ Len(u) = n - 1
      BY <1>1, <1>2
    <3>b. t[i] = IF i <= Len(u) THEN u[i] ELSE v[i - Len(u)]
      BY <2>1, <3>a
    <3>1. CASE i < n
      BY <1>1, <3>a, <3>b, <3>1
    <3>2. CASE i >= n
      <4>1. i - (n - 1) \in 1 .. Len(s) - n /\ n + (i - (n - 1)) = i + 1
        BY <3>2
      <4>2. t[i] = v[i - (n - 1)]
        BY <3>a, <3>b, <3>2
      <4> QED  BY <1>2, <3>2, <4>1, <4>2
    <3> QED  BY <3>1, <3>2
  <2> QED  BY <1>1, <1>2, <2>1, <2>2
<1>. HIDE DEF t
<1>4. DOMAIN s = 1 .. Len(s) /\ Len(s) \in Nat
  OBVIOUS
<1>. DEFINE old(i) == IF i < n THEN i ELSE i + 1
<1>5. \A i \in 1 .. Len(s) - 1 : old(i) \in 1 .. Len(s) /\ old(i) # n /\ t[i] = s[old(i)]
  BY <1>3, <1>4
<1>6. /\ IsInjective(t)
      /\ \A i \in 1 .. Len(s) - 1 : t[i] \in ToSet(s) \ {s[n]}
  <2>1. ASSUME NEW i \in 1 .. Len(s) - 1, NEW j \in 1 .. Len(s) - 1, t[i] = t[j] PROVE i = j
    <3>1. old(i) = old(j)
      BY <1>4, <1>5, <2>1 DEF IsInjective
    <3> QED  BY <3>1
  <2>. HIDE DEF old
  <2>2. \A i \in 1 .. Len(s) - 1 : t[i] \in ToSet(s) /\ t[i] # s[n]
    BY <1>4, <1>5 DEF IsInjective, ToSet
  <2> QED  BY <1>3, <2>1, <2>2 DEF IsInjective
<1>7. ASSUME NEW i \in 1 .. Len(s), i # n PROVE s[i] \in ToSet(t)
  <2>1. CASE i < n
    BY <1>3, <2>1 DEF ToSet
  <2>2. CASE i > n
    <3>1. i - 1 \in 1 .. Len(s) - 1 /\ t[i - 1] = s[i]
      BY <1>3, <2>2
    <3> QED  BY <1>3, <3>1 DEF ToSet
  <2> QED  BY <1>7, <2>1, <2>2
<1>8. ToSet(t) = ToSet(s) \ {s[n]}
  BY <1>3, <1>4, <1>6, <1>7 DEF ToSet
<1> QED  BY <1>3, <1>6, <1>8 DEF t, u, v, RemoveAt

LEMMA EmptyList ==
    /\ ToSet(<<>>) = {} /\ IsInjective(<<>>) /\ \A S : <<>> \in Seq(S)
BY DEF ToSet, IsInjective

-----------------------------------------------------------------------------
(* The broker behind the page.  B is the broker as the page uses it, P is  *)
(* the same with its proofs.                                               *)

LEMMA Assumed == P!BrokerAssumption
BY PageAssumption DEF B!BrokerAssumption, P!BrokerAssumption, B!NotEdited, P!NotEdited

LEMMA SameGoroutine ==
    ASSUME NEW f \in Flow, B!Goroutine(f)
    PROVE  P!Goroutine(f)
BY DEF B!Goroutine, P!Goroutine, B!RequestHook, P!RequestHook,
    B!HoldAutoForwarded, P!HoldAutoForwarded, B!HoldSend, P!HoldSend,
    B!HoldReturn, P!HoldReturn, B!Reply, P!Reply, B!RoundTrip,
    P!RoundTrip, B!ResponseHook, P!ResponseHook, B!HoldResponse,
    P!HoldResponse, B!HoldResponseSend, P!HoldResponseSend,
    B!HoldResponseReturn, P!HoldResponseReturn, B!SaveEntry, P!SaveEntry,
    B!EndResponseHook, P!EndResponseHook, B!Added, P!Added, B!Goto,
    P!Goto, B!AfterHooks, P!AfterHooks, B!Verdict, P!Verdict, B!Decision,
    P!Decision, B!flowVars, P!flowVars, B!pluginVars, P!pluginVars,
    B!requestVars, P!requestVars, B!responseVars, P!responseVars,
    B!brokerVars, P!brokerVars

LEMMA SameHooks ==
    ASSUME NEW f \in Flow, B!AsyncHooks(f)
    PROVE  P!AsyncHooks(f)
BY DEF B!AsyncHooks, P!AsyncHooks, B!AsyncOnRequest, P!AsyncOnRequest,
    B!AsyncOnResponse, P!AsyncOnResponse, B!HooksStarted, P!HooksStarted,
    B!AfterHooks, P!AfterHooks, B!pluginVars, P!pluginVars,
    B!requestVars, P!requestVars, B!responseVars, P!responseVars,
    B!brokerVars, P!brokerVars

LEMMA SameWatcher == (B!TakeRequest <=> P!TakeRequest) /\ (B!TakeResponse <=> P!TakeResponse)
BY DEF B!TakeRequest, P!TakeRequest, B!TakeResponse, P!TakeResponse,
    B!flowVars, P!flowVars, B!pluginVars, P!pluginVars, B!requestVars,
    P!requestVars, B!responseVars, P!responseVars, B!brokerVars, P!brokerVars

LEMMA SameType == B!TypeOK <=> P!TypeOK
BY DEF B!TypeOK, P!TypeOK, B!PC, P!PC, B!RequestText, P!RequestText,
    B!ResponseText, P!ResponseText, B!Decision, P!Decision, B!Entry,
    P!Entry, B!Gate!Fate, P!Gate!Fate

LEMMA SameSpec == B!Spec <=> P!Spec
<1>1. B!Init <=> P!Init
  BY DEF B!Init, P!Init
<1>2. B!Next <=> P!Next
  BY DEF B!Next, P!Next, B!Goroutine, P!Goroutine, B!Watcher, P!Watcher,
      B!Page, P!Page, B!RequestHook, P!RequestHook, B!HoldAutoForwarded,
      P!HoldAutoForwarded, B!HoldSend, P!HoldSend, B!HoldReturn,
      P!HoldReturn, B!Reply, P!Reply, B!RoundTrip, P!RoundTrip,
      B!ResponseHook, P!ResponseHook, B!HoldResponse, P!HoldResponse,
      B!HoldResponseSend, P!HoldResponseSend, B!HoldResponseReturn,
      P!HoldResponseReturn, B!SaveEntry, P!SaveEntry, B!EndResponseHook,
      P!EndResponseHook, B!Added, P!Added, B!TakeRequest, P!TakeRequest,
      B!TakeResponse, P!TakeResponse, B!RequestHeld, P!RequestHeld,
      B!RequestPassed, P!RequestPassed, B!ResponseHeld, P!ResponseHeld,
      B!DecideRequests, P!DecideRequests, B!DecideResponses,
      P!DecideResponses, B!ToggleCaptureResponse, P!ToggleCaptureResponse,
      B!Goto, P!Goto, B!Rewrites, P!Rewrites, B!Decision, P!Decision,
      B!Verdict, P!Verdict, B!AsyncHooks, P!AsyncHooks, B!AsyncOnRequest,
      P!AsyncOnRequest, B!AsyncOnResponse, P!AsyncOnResponse,
      B!HooksStarted, P!HooksStarted, B!AfterHooks, P!AfterHooks,
      B!pluginVars, P!pluginVars, B!flowVars, P!flowVars, B!requestVars,
      P!requestVars, B!responseVars, P!responseVars, B!brokerVars,
      P!brokerVars
<1>3. [B!Next]_B!vars <=> [P!Next]_P!vars
  BY <1>2 DEF B!vars, P!vars, B!flowVars, P!flowVars, B!pluginVars, P!pluginVars, B!requestVars, P!requestVars,
      B!responseVars, P!responseVars, B!brokerVars, P!brokerVars
<1> QED  BY <1>1, <1>3, PTL DEF B!Spec, P!Spec

-----------------------------------------------------------------------------
(* The invariant of the page.                                              *)

\* The texts the page may show, save or apply: what a person typed, what the
\* flow they were made from says for as long as it is on the page, and
\* anything once that flow was decided.
Known == {t \in Text :
    /\ t.side = "request" =>
          \/ t.says \in Drafts
          \/ t.of \in ToSet(queue) /\ t.says = request[t.of]
          \/ P!Decided(t.of)
    /\ t.side = "response" =>
          \/ t.says \in Drafts
          \/ t.of \in ToSet(responseQueue) /\ t.says = response[t.of]
          \/ P!Past(t.of)}

ListsOK ==
    /\ queue \in Seq(Flow) /\ IsInjective(queue)
    /\ ValidCursor(cursor, Len(queue))
    /\ responseQueue \in Seq(Flow) /\ IsInjective(responseQueue)
    /\ ValidCursor(responseCursor, Len(responseQueue))

ModesOK ==
    /\ focusedPanel \in Panel
    /\ interceptEnabled \in BOOLEAN /\ editing \in BOOLEAN
    /\ onPage \in BOOLEAN /\ hasUnread \in BOOLEAN

EditsOK ==
    /\ DOMAIN pendingEdits \subseteq ToSet(queue)
    /\ \A f \in DOMAIN pendingEdits : pendingEdits[f] \in Known
    /\ DOMAIN pendingResponseEdits \subseteq Flow
    /\ \A f \in DOMAIN pendingResponseEdits : pendingResponseEdits[f] \in Known

ViewsOK ==
    /\ textarea \in Known \cup {NoText}
    /\ body \in Known \cup {NoText}
    /\ editorResult \in Known \cup {NoText}
    /\ editing => textarea \in Known

BrokerInv == P!TypeOK /\ P!NoFlowLost /\ P!Ledger

\* The broker's own invariants are part of it: what the page does to a flow
\* is right because of what the broker knows of the flow.
PageInv == BrokerInv /\ ListsOK /\ ModesOK /\ EditsOK /\ ViewsOK

-----------------------------------------------------------------------------
(* Every step of the page is a step of the broker's page, or none.         *)

\* What is applied to a flow is one of the broker's edits, or what the text
\* says already.
LEMMA Parsing ==
    ASSUME NEW t \in Text, NEW f, NEW side
    PROVE  Applied(f, side, t) \in Edits \/ (t.of = f /\ Applied(f, side, t) = t.says)
<1>1. t.says \in DOMAIN Parse
  BY PageAssumption DEF Text
<1>2. Parse[t.says] \in Parsed \cup {t.says}
  BY <1>1, PageAssumption
<1> QED  BY <1>2 DEF Applied, Edits

LEMMA DecidedRequests ==
    ASSUME BrokerInv, ListsOK, EditsOK,
           NEW S \in SUBSET ToSet(queue), S # {}, NEW d \in P!Decision,
           DecideRequests(S, d), ToSet(queue') = ToSet(queue) \ S,
           UNCHANGED <<hookVars, channelVars, markVars, arrived, arrivedResponse>>,
           UNCHANGED captureResponse
    PROVE  P!Next
<1>. DEFINE text(f) == Applied(f, "request", pendingEdits[f])
            T == {f \in S \cap DOMAIN pendingEdits : text(f) \in Edits}
            texts == [f \in T |-> text(f)]
<1>1. ASSUME NEW f \in S \cap DOMAIN pendingEdits, f \notin T  PROVE text(f) = request[f]
  <2>0. f \in Flow
    BY DEF BrokerInv, P!TypeOK
  <2>1. ~P!Decided(f)
    BY <2>0, Assumed, P!HeldWaits DEF BrokerInv, P!Decided
  <2>2. pendingEdits[f] \in Known
    BY DEF EditsOK
  <2>3. text(f) \notin Edits
    BY <1>1
  <2>4. /\ pendingEdits[f].of = f /\ text(f) = pendingEdits[f].says
        /\ pendingEdits[f].side = "request"
    BY <2>2, <2>3, Parsing DEF Known, Applied, Edits
  <2> QED  BY <2>1, <2>2, <2>3, <2>4 DEF Known, Edits
<1>2. texts \in P!Rewrites(S)
  <2>1. texts \in [T -> Edits] /\ T \in SUBSET S
    OBVIOUS
  <2> QED  BY <2>1, Zenon DEF P!Rewrites
<1>3. request' = [f \in Flow |-> IF d = "forward" /\ f \in DOMAIN texts
                                 THEN texts[f] ELSE request[f]]
  <2>1. \A f \in Flow : (IF d = "forward" /\ f \in S \cap DOMAIN pendingEdits
                         THEN text(f) ELSE request[f])
                      = (IF d = "forward" /\ f \in DOMAIN texts
                         THEN texts[f] ELSE request[f])
    BY <1>1
  <2> QED  BY <2>1 DEF DecideRequests
<1>. HIDE DEF texts
<1>4. P!DecideRequests(S, d, texts)
  BY <1>3 DEF DecideRequests, P!DecideRequests, responseList, channelVars, markVars,
              hookVars, P!pluginVars, P!responseVars, P!brokerVars
<1> QED  BY <1>2, <1>4 DEF P!Next, P!Page

LEMMA DecidedResponses ==
    ASSUME BrokerInv, ListsOK, EditsOK,
           NEW S \in SUBSET ToSet(responseQueue), S # {}, NEW d \in P!Decision,
           DecideResponses(S, d), ToSet(responseQueue') = ToSet(responseQueue) \ S,
           UNCHANGED <<hookVars, channelVars, markVars, arrived, arrivedResponse>>,
           UNCHANGED captureResponse
    PROVE  P!Next
<1>. DEFINE text(f) == Applied(f, "response", pendingResponseEdits[f])
            T == {f \in S \cap DOMAIN pendingResponseEdits : text(f) \in Edits}
            texts == [f \in T |-> text(f)]
<1>1. ASSUME NEW f \in S \cap DOMAIN pendingResponseEdits, f \notin T
      PROVE  text(f) = response[f]
  <2>0. f \in Flow
    BY DEF BrokerInv, P!TypeOK
  <2>1. ~P!Past(f)
    BY <2>0, Assumed, P!HeldWaits DEF BrokerInv, P!Past
  <2>2. pendingResponseEdits[f] \in Known
    BY DEF EditsOK
  <2>3. text(f) \notin Edits
    BY <1>1
  <2>4. /\ pendingResponseEdits[f].of = f /\ text(f) = pendingResponseEdits[f].says
        /\ pendingResponseEdits[f].side = "response"
    BY <2>2, <2>3, Parsing DEF Known, Applied, Edits
  <2> QED  BY <2>1, <2>2, <2>3, <2>4 DEF Known, Edits
<1>2. texts \in P!Rewrites(S)
  <2>1. texts \in [T -> Edits] /\ T \in SUBSET S
    OBVIOUS
  <2> QED  BY <2>1, Zenon DEF P!Rewrites
<1>3. response' = [f \in Flow |-> IF d = "forward" /\ f \in DOMAIN texts
                                  THEN texts[f] ELSE response[f]]
  <2>1. \A f \in Flow : (IF d = "forward" /\ f \in S \cap DOMAIN pendingResponseEdits
                         THEN text(f) ELSE response[f])
                      = (IF d = "forward" /\ f \in DOMAIN texts
                         THEN texts[f] ELSE response[f])
    BY <1>1
  <2> QED  BY <2>1 DEF DecideResponses
<1>. HIDE DEF texts
<1>4. P!DecideResponses(S, d, texts)
  BY <1>3 DEF DecideResponses, P!DecideResponses, requestList, channelVars, markVars,
              hookVars, P!pluginVars, P!requestVars, P!brokerVars
<1> QED  BY <1>2, <1>4 DEF P!Next, P!Page

\* The selected item is one of the list.
LEMMA SelectedItem ==
    ASSUME NEW s \in Seq(Flow), NEW c, ValidCursor(c, Len(s)), s # <<>>
    PROVE  c + 1 \in 1 .. Len(s) /\ s[c + 1] \in Flow /\ s[c + 1] \in ToSet(s)
<1>1. Len(s) \in Nat \ {0} /\ DOMAIN s = 1 .. Len(s)
  OBVIOUS
<1>2. c + 1 \in 1 .. Len(s)
  BY <1>1 DEF ValidCursor
<1> QED  BY <1>1, <1>2 DEF ToSet

LEMMA DecisionsRefine ==
    ASSUME BrokerInv, ListsOK, EditsOK, NEW d \in P!Decision,
           \/ applyAndDecideAll(d)
           \/ applyAndDecideAllResponses(d)
           \/ applyAndDecide(d)
           \/ applyAndDecideResponse(d),
           UNCHANGED <<hookVars, channelVars, markVars, arrived, arrivedResponse>>,
           UNCHANGED captureResponse
    PROVE  P!Next
<1>1. CASE applyAndDecideAll(d)
  <2>1. ToSet(queue) # {} /\ ToSet(queue') = ToSet(queue) \ ToSet(queue)
    BY <1>1, SelectedItem, EmptyList DEF applyAndDecideAll, ListsOK
  <2> QED  BY <1>1, <2>1, DecidedRequests DEF applyAndDecideAll
<1>2. CASE applyAndDecideAllResponses(d)
  <2>1. /\ ToSet(responseQueue) # {}
        /\ ToSet(responseQueue') = ToSet(responseQueue) \ ToSet(responseQueue)
    BY <1>2, SelectedItem, EmptyList DEF applyAndDecideAllResponses, ListsOK
  <2> QED  BY <1>2, <2>1, DecidedResponses DEF applyAndDecideAllResponses
<1>3. CASE applyAndDecide(d)
  <2>1. cursor + 1 \in 1 .. Len(queue) /\ queue[cursor + 1] \in ToSet(queue)
    BY <1>3, SelectedItem DEF applyAndDecide, ListsOK
  <2>2. ToSet(queue') = ToSet(queue) \ {queue[cursor + 1]}
    BY <1>3, <2>1, RemoveFromList DEF applyAndDecide, ListsOK
  <2> QED  BY <1>3, <2>1, <2>2, DecidedRequests DEF applyAndDecide
<1>4. CASE applyAndDecideResponse(d)
  <2>1. /\ responseCursor + 1 \in 1 .. Len(responseQueue)
        /\ responseQueue[responseCursor + 1] \in ToSet(responseQueue)
    BY <1>4, SelectedItem DEF applyAndDecideResponse, ListsOK
  <2>2. ToSet(responseQueue') = ToSet(responseQueue) \ {responseQueue[responseCursor + 1]}
    BY <1>4, <2>1, RemoveFromList DEF applyAndDecideResponse, ListsOK
  <2> QED  BY <1>4, <2>1, <2>2, DecidedResponses DEF applyAndDecideResponse
<1> QED  BY <1>1, <1>2, <1>3, <1>4

\* An arrival joins the end of its list, where nothing stands twice.
LEMMA RequestJoins ==
    ASSUME BrokerInv, ListsOK, RequestArrived, interceptEnabled
    PROVE  /\ arrived \in Flow /\ arrived \notin ToSet(queue)
           /\ queue' = Append(queue, arrived)
<1>1. arrived \in Flow
  BY DEF RequestArrived, BrokerInv, P!TypeOK
<1> QED  BY <1>1, Assumed, P!HeldWaits DEF RequestArrived, BrokerInv

LEMMA ResponseJoins ==
    ASSUME BrokerInv, ListsOK, ResponseArrived
    PROVE  /\ arrivedResponse \in Flow /\ arrivedResponse \notin ToSet(responseQueue)
           /\ responseQueue' = Append(responseQueue, arrivedResponse)
<1>1. arrivedResponse \in Flow
  BY DEF ResponseArrived, BrokerInv, P!TypeOK
<1> QED  BY <1>1, Assumed, P!HeldWaits DEF ResponseArrived, BrokerInv

LEMMA ArrivalsRefine ==
    ASSUME BrokerInv, ListsOK, RequestArrived \/ ResponseArrived
    PROVE  P!Next
<1>. USE DEF flowVars, hookVars, channelVars, markVars, requestList, responseList,
             P!flowVars, P!pluginVars, P!requestVars, P!responseVars, P!brokerVars, P!Next, P!Page
<1>1. CASE RequestArrived /\ ~interceptEnabled
  BY <1>1 DEF RequestArrived, P!RequestPassed
<1>2. CASE RequestArrived /\ interceptEnabled
  <2>1. ToSet(queue') = ToSet(queue) \cup {arrived}
    BY <1>2, RequestJoins, AppendToList, ZenonT(30) DEF ListsOK
  <2> QED  BY <1>2, <2>1 DEF RequestArrived, P!RequestHeld
<1>3. CASE ResponseArrived
  <2>1. ToSet(responseQueue') = ToSet(responseQueue) \cup {arrivedResponse}
    BY <1>3, ResponseJoins, AppendToList, ZenonT(30) DEF ListsOK
  <2> QED  BY <1>3, <2>1 DEF ResponseArrived, P!ResponseHeld
<1> QED  BY <1>1, <1>2, <1>3

LEMMA KeysRefine ==
    ASSUME BrokerInv, ListsOK, EditsOK, Keys
    PROVE  P!Next \/ UNCHANGED P!vars
<1>. USE DEF flowVars, hookVars, channelVars, markVars, systemVars, requestList,
             responseList, P!vars, P!flowVars, P!pluginVars, P!requestVars, P!responseVars, P!brokerVars
<1>1. ASSUME NEW d \in B!Decision, NEW all \in BOOLEAN, DecideKey(d, all)
      PROVE  P!Next
  <2>1. d \in P!Decision
    BY DEF B!Decision, P!Decision
  <2> QED  BY <1>1, <2>1, DecisionsRefine DEF DecideKey
<1>2. CASE ToggleIntercept
  <2>1. "forward" \in P!Decision
    BY DEF P!Decision
  <2>2. CASE interceptEnabled /\ queue # <<>>
    BY <1>2, <2>1, <2>2, DecisionsRefine DEF ToggleIntercept
  <2>3. CASE ~(interceptEnabled /\ queue # <<>>)
    BY <1>2, <2>3 DEF ToggleIntercept
  <2> QED  BY <2>2, <2>3
<1>3. CASE CaptureResponse
  <2>1. P!ToggleCaptureResponse
    BY <1>3, EmptyList DEF CaptureResponse, P!ToggleCaptureResponse
  <2> QED  BY <2>1 DEF P!Next, P!Page
<1>4. CASE CycleFocus \/ MoveCursor \/ UndoEdits \/ Edit \/ EditExternal \/ EditLong
           \/ Type \/ Escape
  BY <1>4 DEF CycleFocus, MoveCursor, UndoEdits, Edit, EditExternal, EditLong,
              OpenExternalEditor, Type, Escape
<1> QED  BY <1>1, <1>2, <1>3, <1>4 DEF Keys

LEMMA StepRefines ==
    ASSUME BrokerInv, ListsOK, EditsOK, [Next]_vars
    PROVE  [P!Next]_P!vars
<1>1. ASSUME NEW f \in Flow, Proxy(f)  PROVE P!Next
  BY <1>1, SameGoroutine DEF Proxy, P!Next
<1>6. ASSUME NEW f \in Flow, Hooks(f)  PROVE P!Next
  BY <1>6, SameHooks DEF Hooks, P!Next
<1>2. CASE TakeRequest \/ TakeResponse
  BY <1>2, SameWatcher DEF TakeRequest, TakeResponse, P!Next, P!Watcher
<1>3. CASE RequestArrived \/ ResponseArrived
  BY <1>3, ArrivalsRefine
<1>4. CASE Keys
  BY <1>4, KeysRefine
<1>5. CASE EditorFinished \/ Resize \/ LeavePage \/ EnterPage \/ UNCHANGED vars
  <2>1. UNCHANGED <<systemVars, queue, responseQueue>>
    BY <1>5 DEF EditorFinished, Resize, LeavePage, EnterPage, vars, pageVars,
                requestList, responseList
  <2> QED
    BY <2>1 DEF systemVars, flowVars, hookVars, channelVars, markVars, P!vars, P!flowVars,
                P!pluginVars, P!requestVars, P!responseVars, P!brokerVars
<1> QED  BY <1>1, <1>2, <1>3, <1>4, <1>5, <1>6 DEF Next

-----------------------------------------------------------------------------
(* What a step keeps.                                                      *)

LEMMA BrokerKept ==
    ASSUME BrokerInv, [P!Next]_P!vars
    PROVE  BrokerInv'
<1>1. P!TypeOK' /\ P!NoFlowLost'
  BY Assumed, P!StepTypeOK, P!StepRouted DEF BrokerInv
<1>2. P!Ledger'
  BY Assumed, P!StepLedger DEF BrokerInv
<1> QED  BY <1>1, <1>2 DEF BrokerInv

\* A text stays what it may be: no step takes one away.
LEMMA KnownKept ==
    ASSUME BrokerInv, [P!Next]_P!vars
    PROVE  Known \subseteq Known'
<1>1. \A f \in Flow : P!Respects(f)
  BY Assumed, P!StepRespects DEF BrokerInv, P!Ledger
<1>2. \A t \in Text : t.of \in Flow
  BY DEF Text
<1> QED  BY <1>1, <1>2 DEF Known, P!Respects

LEMMA MovesValid ==
    ASSUME NEW n \in Nat, NEW c, ValidCursor(c, n), NEW m \in Moves(c, n)
    PROVE  ValidCursor(m, n)
<1>1. c \in Int /\ PerPage \in Int
  BY PageAssumption DEF ValidCursor
<1>2. CASE m \in {c - 1, c + 1} \cap 0..(n - 1)
  BY <1>1, <1>2 DEF ValidCursor
<1>3. CASE m \in {0, CursorGotoBottom(n)}
  BY <1>3, GotoBottomValid DEF ValidCursor
<1>4. CASE m \in {CursorMovePage(c, n, PerPage, forward) : forward \in BOOLEAN}
  BY <1>1, <1>4, MovePageValid
<1> QED  BY <1>2, <1>3, <1>4 DEF Moves

\* The list and the cursor that are left when an item is taken out.
LEMMA RemovalKeeps ==
    ASSUME NEW s \in Seq(Flow), IsInjective(s), NEW c, ValidCursor(c, Len(s)), s # <<>>
    PROVE  /\ RemoveAt(s, c + 1) \in Seq(Flow) /\ IsInjective(RemoveAt(s, c + 1))
           /\ ValidCursor(CursorAfterRemoval(c, Len(s) - 1), Len(RemoveAt(s, c + 1)))
<1>1. c + 1 \in 1 .. Len(s) /\ Len(s) \in Nat \ {0} /\ c \in Nat
  BY SelectedItem DEF ValidCursor
<1>2. ValidCursor(CursorAfterRemoval(c, Len(s) - 1), Len(s) - 1)
  <2>1. Len(s) - 1 \in Nat /\ c < (Len(s) - 1) + 1
    BY <1>1
  <2> QED  BY <1>1, <2>1, AfterRemovalValid
<1>3. /\ RemoveAt(s, c + 1) \in Seq(Flow) /\ IsInjective(RemoveAt(s, c + 1))
      /\ Len(RemoveAt(s, c + 1)) = Len(s) - 1
  BY <1>1, RemoveFromList
<1> QED  BY <1>2, <1>3

LEMMA AppendKeeps ==
    ASSUME NEW s \in Seq(Flow), IsInjective(s), NEW c, ValidCursor(c, Len(s)),
           NEW x \in Flow, x \notin ToSet(s)
    PROVE  /\ Append(s, x) \in Seq(Flow) /\ IsInjective(Append(s, x))
           /\ ValidCursor(c, Len(Append(s, x)))
<1>1. Len(Append(s, x)) = Len(s) + 1 /\ Len(s) \in Nat
  BY AppendToList
<1> QED  BY <1>1, AppendToList DEF ValidCursor

LEMMA NothingLeft ==
    <<>> \in Seq(Flow) /\ IsInjective(<<>>) /\ ValidCursor(0, Len(<<>>))
BY EmptyList DEF ValidCursor

LEMMA ListsKept ==
    ASSUME BrokerInv, ListsOK, [Next]_vars
    PROVE  ListsOK'
<1>. USE DEF requestList, responseList
<1>1. CASE RequestArrived
  <2>1. CASE interceptEnabled
    BY <1>1, <2>1, RequestJoins, AppendKeeps DEF RequestArrived, ListsOK
  <2>2. CASE ~interceptEnabled
    BY <1>1, <2>2 DEF RequestArrived, ListsOK
  <2> QED  BY <2>1, <2>2
<1>2. CASE ResponseArrived
  BY <1>2, ResponseJoins, AppendKeeps DEF ResponseArrived, ListsOK
<1>3. ASSUME NEW d \in B!Decision, NEW all \in BOOLEAN, DecideKey(d, all)
      PROVE  ListsOK'
  <2>1. CASE applyAndDecideAll(d)
    BY <2>1, NothingLeft DEF ListsOK, applyAndDecideAll, DecideRequests
  <2>2. CASE applyAndDecideAllResponses(d)
    BY <2>2, NothingLeft DEF ListsOK, applyAndDecideAllResponses, DecideResponses
  <2>3. CASE applyAndDecide(d)
    BY <2>3, RemovalKeeps DEF ListsOK, applyAndDecide, DecideRequests
  <2>4. CASE applyAndDecideResponse(d)
    BY <2>4, RemovalKeeps DEF ListsOK, applyAndDecideResponse, DecideResponses
  <2> QED  BY <1>3, <2>1, <2>2, <2>3, <2>4 DEF DecideKey
<1>4. CASE ToggleIntercept
  BY <1>4, NothingLeft DEF ListsOK, ToggleIntercept, applyAndDecideAll, DecideRequests
<1>5. CASE CaptureResponse
  BY <1>5, NothingLeft DEF ListsOK, CaptureResponse
<1>6. CASE MoveCursor
  <2>1. Len(queue) \in Nat /\ Len(responseQueue) \in Nat
    BY DEF ListsOK
  <2>2. ValidCursor(cursor', Len(queue)) /\ ValidCursor(responseCursor', Len(responseQueue))
    BY <1>6, <2>1, MovesValid DEF ListsOK, MoveCursor
  <2> QED  BY <1>6, <2>2 DEF ListsOK, MoveCursor
<1>7. ASSUME UNCHANGED <<queue, cursor, responseQueue, responseCursor>>  PROVE ListsOK'
  BY <1>7 DEF ListsOK
<1>8. CASE CycleFocus \/ UndoEdits \/ Edit \/ EditExternal \/ EditLong \/ Type \/ Escape
  BY <1>7, <1>8 DEF CycleFocus, UndoEdits, Edit, EditExternal, EditLong,
                    OpenExternalEditor, Type, Escape
<1>9. CASE EditorFinished \/ Resize \/ LeavePage \/ EnterPage
  BY <1>7, <1>9 DEF EditorFinished, Resize, LeavePage, EnterPage
<1>10. CASE TakeRequest \/ TakeResponse \/ (\E f \in Flow : Proxy(f) \/ Hooks(f)) \/ UNCHANGED vars
  BY <1>7, <1>10 DEF TakeRequest, TakeResponse, Proxy, Hooks, vars, pageVars
<1> QED
  BY <1>1, <1>2, <1>3, <1>4, <1>5, <1>6, <1>8, <1>9, <1>10 DEF Next, Keys

LEMMA ModesKept ==
    ASSUME ModesOK, [Next]_vars
    PROVE  ModesOK'
<1>. USE DEF ModesOK, modeVars, appVars, Panel
<1>1. CASE RequestArrived \/ ResponseArrived
  BY <1>1 DEF RequestArrived, ResponseArrived
<1>2. CASE Keys
  BY <1>2 DEF Keys, DecideKey, ToggleIntercept, CaptureResponse, CycleFocus, MoveCursor,
              UndoEdits, Edit, EditExternal, EditLong, OpenExternalEditor, Type, Escape
<1>3. CASE EditorFinished \/ Resize \/ LeavePage \/ EnterPage
  BY <1>3 DEF EditorFinished, Resize, LeavePage, EnterPage
<1>4. CASE TakeRequest \/ TakeResponse \/ (\E f \in Flow : Proxy(f) \/ Hooks(f)) \/ UNCHANGED vars
  BY <1>4 DEF TakeRequest, TakeResponse, Proxy, Hooks, vars, pageVars
<1> QED  BY <1>1, <1>2, <1>3, <1>4 DEF Next

\* What the page makes of the selected item is one of the texts it may hold.
LEMMA OriginalKnown ==
    ASSUME BrokerInv
    PROVE  /\ \A f \in ToSet(queue) : Original(f, "request") \in Known
           /\ \A f \in ToSet(responseQueue) : Original(f, "response") \in Known
<1>1. ASSUME NEW f \in ToSet(queue)  PROVE Original(f, "request") \in Known
  <2>1. f \in Flow /\ request[f] \in B!RequestText
    BY DEF BrokerInv, P!TypeOK, P!RequestText, B!RequestText
  <2> QED  BY <2>1 DEF Original, Known, Text, Panel
<1>2. ASSUME NEW f \in ToSet(responseQueue)  PROVE Original(f, "response") \in Known
  <2>1. f \in Flow /\ response[f] \in B!ResponseText
    BY DEF BrokerInv, P!TypeOK, P!ResponseText, B!ResponseText
  <2> QED  BY <2>1 DEF Original, Known, Text, Panel
<1> QED  BY <1>1, <1>2

LEMMA SelectedListed ==
    ASSUME ListsOK, List # <<>>
    PROVE  /\ Selected \in ToSet(List) /\ Selected \in Flow
           /\ onResponses => Selected \in ToSet(responseQueue)
           /\ ~onResponses => Selected \in ToSet(queue)
BY SelectedItem DEF ListsOK, List, Selected

LEMMA ShownKnown ==
    BrokerInv /\ ListsOK /\ EditsOK => /\ CurrentRaw \in Known \cup {NoText}
                                       /\ List # <<>> => CurrentRaw \in Known
<1> SUFFICES ASSUME BrokerInv, ListsOK, EditsOK, List # <<>>  PROVE CurrentRaw \in Known
  BY DEF CurrentRaw
<1>1. CASE Selected \in DOMAIN SavedEdits
  BY <1>1 DEF CurrentRaw, SavedEdits, EditsOK
<1>2. CASE Selected \notin DOMAIN SavedEdits
  <2>1. Original(Selected, Side) \in Known
    BY SelectedListed, OriginalKnown DEF Side
  <2> QED  BY <1>2, <2>1 DEF CurrentRaw
<1> QED  BY <1>1, <1>2

LEMMA ShownKnownNext ==
    (BrokerInv /\ ListsOK /\ EditsOK)' => (CurrentRaw \in Known \cup {NoText})'
<1>1. BrokerInv /\ ListsOK /\ EditsOK => CurrentRaw \in Known \cup {NoText}
  BY ShownKnown
<1> QED  BY <1>1, PTL

LEMMA TypedKnown ==
    ASSUME NEW t \in Known, NEW d \in Drafts
    PROVE  [t EXCEPT !.says = d] \in Known
<1>1. /\ t \in Text
      /\ d \in B!RequestText
  BY DEF Known, B!RequestText, Edits
<1> QED  BY <1>1 DEF Known, Text

LEMMA EditsKept ==
    ASSUME BrokerInv, ListsOK, EditsOK, ViewsOK, [Next]_vars
    PROVE  EditsOK'
<1>1. Known \subseteq Known'
  BY StepRefines, KnownKept
<1>. USE DEF requestList, responseList
<1>2. ASSUME UNCHANGED <<pendingEdits, pendingResponseEdits>>,
             ToSet(queue) \subseteq ToSet(queue')
      PROVE  EditsOK'
  BY <1>1, <1>2 DEF EditsOK
<1>3. CASE RequestArrived
  <2>1. ToSet(queue) \subseteq ToSet(queue')
    <3>1. CASE interceptEnabled
      BY <1>3, <3>1, RequestJoins, AppendToList DEF ListsOK
    <3>2. CASE ~interceptEnabled
      BY <1>3, <3>2 DEF RequestArrived
    <3> QED  BY <3>1, <3>2
  <2> QED  BY <1>2, <1>3, <2>1 DEF RequestArrived
<1>4. CASE ResponseArrived
  BY <1>2, <1>4 DEF ResponseArrived
<1>5. ASSUME NEW S, NEW d, DecideRequests(S, d), ToSet(queue') = ToSet(queue) \ S
      PROVE  EditsOK'
  BY <1>1, <1>5 DEF EditsOK, DecideRequests, Without, Restrict
<1>6. ASSUME NEW S, NEW d, DecideResponses(S, d)
      PROVE  EditsOK'
  BY <1>1, <1>6 DEF EditsOK, DecideResponses, Without, Restrict
<1>7. ASSUME NEW d, applyAndDecideAll(d)
      PROVE  EditsOK'
  <2>1. ToSet(queue') = ToSet(queue) \ ToSet(queue)
    BY <1>7, EmptyList DEF applyAndDecideAll
  <2> QED  BY <1>5, <1>7, <2>1 DEF applyAndDecideAll
<1>8. ASSUME NEW d \in B!Decision, NEW all \in BOOLEAN, DecideKey(d, all)
      PROVE  EditsOK'
  <2>1. CASE applyAndDecide(d)
    <3>1. cursor + 1 \in 1 .. Len(queue)
      BY <2>1, SelectedItem DEF applyAndDecide, ListsOK
    <3>2. ToSet(queue') = ToSet(queue) \ {queue[cursor + 1]}
      BY <2>1, <3>1, RemoveFromList DEF applyAndDecide, ListsOK
    <3> QED  BY <1>5, <2>1, <3>2 DEF applyAndDecide
  <2>2. CASE applyAndDecideAllResponses(d) \/ applyAndDecideResponse(d)
    BY <1>6, <2>2 DEF applyAndDecideAllResponses, applyAndDecideResponse
  <2> QED  BY <1>7, <1>8, <2>1, <2>2 DEF DecideKey
<1>9. CASE ToggleIntercept
  BY <1>2, <1>7, <1>9 DEF ToggleIntercept
<1>10. CASE UndoEdits
  BY <1>1, <1>10 DEF UndoEdits, EditsOK, Without, Restrict
<1>11. CASE Escape
  <2>1. CASE List = <<>>
    BY <1>2, <1>11, <2>1 DEF Escape
  <2>2. CASE List # <<>>
    <3>1. /\ Selected \in Flow
          /\ ~onResponses => Selected \in ToSet(queue)
          /\ textarea \in Known'
      BY <1>1, <1>11, <2>2, SelectedListed DEF Escape, EditMode, ViewsOK
    <3>2. CASE onResponses
      <4>1. /\ pendingResponseEdits' = With(pendingResponseEdits, Selected, textarea)
            /\ UNCHANGED <<pendingEdits, queue>>
        BY <1>11, <2>2, <3>2 DEF Escape
      <4>2. /\ DOMAIN pendingResponseEdits' = DOMAIN pendingResponseEdits \cup {Selected}
            /\ \A g \in DOMAIN pendingResponseEdits' :
                  \/ pendingResponseEdits'[g] = textarea
                  \/ /\ g \in DOMAIN pendingResponseEdits
                     /\ pendingResponseEdits'[g] = pendingResponseEdits[g]
        BY <4>1 DEF With
      <4> QED  BY <1>1, <3>1, <4>1, <4>2 DEF EditsOK
    <3>3. CASE ~onResponses
      <4>1. /\ pendingEdits' = With(pendingEdits, Selected, textarea)
            /\ UNCHANGED <<pendingResponseEdits, queue>>
        BY <1>11, <2>2, <3>3 DEF Escape
      <4>2. /\ DOMAIN pendingEdits' = DOMAIN pendingEdits \cup {Selected}
            /\ \A g \in DOMAIN pendingEdits' :
                  \/ pendingEdits'[g] = textarea
                  \/ g \in DOMAIN pendingEdits /\ pendingEdits'[g] = pendingEdits[g]
        BY <4>1 DEF With
      <4> QED  BY <1>1, <3>1, <3>3, <4>1, <4>2 DEF EditsOK
    <3> QED  BY <3>2, <3>3
  <2> QED  BY <2>1, <2>2
<1>12. CASE CaptureResponse \/ CycleFocus \/ MoveCursor \/ Edit \/ EditExternal \/ EditLong
            \/ Type
  BY <1>2, <1>12 DEF CaptureResponse, CycleFocus, MoveCursor, Edit, EditExternal, EditLong,
                     OpenExternalEditor, Type
<1>13. CASE EditorFinished \/ Resize \/ LeavePage \/ EnterPage
  BY <1>2, <1>13 DEF EditorFinished, Resize, LeavePage, EnterPage
<1>14. CASE TakeRequest \/ TakeResponse \/ (\E f \in Flow : Proxy(f) \/ Hooks(f)) \/ UNCHANGED vars
  BY <1>2, <1>14 DEF TakeRequest, TakeResponse, Proxy, Hooks, vars, pageVars
<1> QED
  BY <1>3, <1>4, <1>8, <1>9, <1>10, <1>11, <1>12, <1>13, <1>14 DEF Next, Keys

LEMMA ViewsKept ==
    ASSUME BrokerInv, ListsOK, EditsOK, ViewsOK, [Next]_vars,
           BrokerInv', ListsOK', EditsOK'
    PROVE  ViewsOK'
<1>1. Known \subseteq Known'
  BY StepRefines, KnownKept
<1>2. /\ CurrentRaw \in Known \cup {NoText} /\ (List # <<>> => CurrentRaw \in Known)
      /\ CurrentRaw' \in Known' \cup {NoText}
  BY ShownKnown, ShownKnownNext
<1>. USE <1>1, <1>2 DEF ViewsOK, modeVars, RefreshBody
<1>3. CASE RequestArrived \/ ResponseArrived
  BY <1>3 DEF RequestArrived, ResponseArrived
<1>4. CASE TakeRequest \/ TakeResponse \/ (\E f \in Flow : Proxy(f) \/ Hooks(f)) \/ UNCHANGED vars
  BY <1>4 DEF TakeRequest, TakeResponse, Proxy, Hooks, vars, pageVars
<1>5. CASE EditorFinished \/ Resize \/ LeavePage \/ EnterPage
  BY <1>5 DEF EditorFinished, Resize, LeavePage, EnterPage
<1>6. ASSUME NEW d \in B!Decision, NEW all \in BOOLEAN, DecideKey(d, all)
      PROVE  ViewsOK'
  BY <1>6 DEF DecideKey
<1>7. CASE ToggleIntercept \/ CaptureResponse \/ CycleFocus \/ MoveCursor \/ UndoEdits
  BY <1>7 DEF ToggleIntercept, CaptureResponse, CycleFocus, MoveCursor, UndoEdits
<1>8. CASE Edit
  BY <1>8 DEF Edit
<1>9. ASSUME NEW text \in Known, OpenExternalEditor(text)
      PROVE  ViewsOK'
  BY <1>9, TypedKnown DEF OpenExternalEditor
<1>10. CASE EditLong
  BY <1>9, <1>10 DEF EditLong
<1>11. CASE EditExternal
  <2>1. Original(Selected, Side) \in Known
    BY <1>11, SelectedListed, OriginalKnown DEF EditExternal, Side
  <2> QED  BY <1>9, <1>11, <2>1 DEF EditExternal
<1>12. CASE Type
  BY <1>12, TypedKnown DEF Type, EditMode
<1>13. CASE Escape
  BY <1>13 DEF Escape, EditMode
<1> QED
  BY <1>3, <1>4, <1>5, <1>6, <1>7, <1>8, <1>10, <1>11, <1>12, <1>13 DEF Next, Keys

-----------------------------------------------------------------------------
(* The page and the broker together.                                       *)

\* The cursors point into their lists, no flow stands twice in one, and every
\* text on the screen, in an edit map or with $EDITOR is one the broker may be
\* given.
THEOREM PageInvariant == Spec => []PageInv
<1>1. Init => PageInv
  <2> SUFFICES ASSUME Init  PROVE PageInv
    OBVIOUS
  <2>1. P!Init
    BY DEF Init, B!Init, P!Init
  <2>2. BrokerInv
    BY <2>1, Assumed, P!InitTypeOK, P!InitRouted, P!InitLedger DEF BrokerInv
  <2>3. DOMAIN <<>> = {}
    OBVIOUS
  <2>4. ListsOK
    BY NothingLeft DEF Init, ListsOK
  <2>5. EditsOK
    BY <2>3 DEF Init, EditsOK
  <2>6. ModesOK /\ ViewsOK
    BY DEF Init, ModesOK, ViewsOK, Panel
  <2> QED  BY <2>2, <2>4, <2>5, <2>6 DEF PageInv
<1>2. PageInv /\ [Next]_vars => PageInv'
  <2> SUFFICES ASSUME PageInv, [Next]_vars  PROVE PageInv'
    OBVIOUS
  <2>. USE DEF PageInv
  <2>1. BrokerInv'
    BY StepRefines, BrokerKept
  <2>2. ListsOK' /\ ModesOK' /\ EditsOK'
    BY ListsKept, ModesKept, EditsKept
  <2> QED  BY <2>1, <2>2, ViewsKept
<1> QED  BY <1>1, <1>2, PTL DEF Spec

\* Every variable of the page has its type, and no cursor indexes out of
\* range.
THEOREM PageTypeCorrect == Spec => []TypeOK
<1>1. PageInv => TypeOK
  BY SameType
  DEF PageInv, BrokerInv, ListsOK, ModesOK, EditsOK, ViewsOK, TypeOK, Known, P!TypeOK
<1> QED  BY <1>1, PageInvariant, PTL

LEMMA StepsMap == Spec => P!Spec
<1>1. Init => P!Init
  BY DEF Init, B!Init, P!Init
<1>2. PageInv /\ [Next]_vars => [P!Next]_P!vars
  BY StepRefines DEF PageInv
<1> QED  BY <1>1, <1>2, PageInvariant, PTL DEF Spec, P!Spec

\* The two lists with their cursors implement the broker's abstract page.
THEOREM PageRefinesBroker == Spec => PageImplementsBroker
<1>1. Spec => P!Spec
  BY StepsMap
<1> QED  BY <1>1, SameSpec DEF PageImplementsBroker

\* What is proved of the broker holds behind the page: no flow is forgotten or
\* doubled, and no decision blocks the event loop.
THEOREM PageLosesNothing == Spec => [](B!NoFlowLost /\ B!DecideNeverBlocks)
<1>1. P!NoFlowLost => B!NoFlowLost
  BY DEF B!NoFlowLost, P!NoFlowLost, B!NoRequestLost, P!NoRequestLost,
         B!NoResponseLost, P!NoResponseLost, B!HandledOnce, P!HandledOnce,
         B!AtMostOne, P!AtMostOne, B!Waiting, P!Waiting,
         B!IsInjective, P!IsInjective, B!Range, P!Range
<1>2. P!DecideNeverBlocks => B!DecideNeverBlocks
  BY DEF P!DecideNeverBlocks, B!DecideNeverBlocks
<1>3. P!Spec => []P!NoFlowLost
  BY Assumed, P!NothingLost
<1>4. P!Spec => []P!DecideNeverBlocks
  BY Assumed, P!DecideNeverBlocksCorrect
<1> QED  BY <1>1, <1>2, <1>3, <1>4, StepsMap, PTL

\* Also the history stays truthful up to what plugins write, auto-forwarded
\* flows are never shown and, with a database, no mark outlives its flow.
THEOREM PageKeepsHistory ==
    Spec => [](B!HistoryTruthful /\ B!AutoForwardUnseen /\ B!MarksReclaimed)
<1>1. /\ P!HistoryTruthful => B!HistoryTruthful
      /\ P!AutoForwardUnseen => B!AutoForwardUnseen
      /\ P!MarksReclaimed => B!MarksReclaimed
  BY DEF P!HistoryTruthful, B!HistoryTruthful, P!AutoForwardUnseen, B!AutoForwardUnseen,
         P!MarksReclaimed, B!MarksReclaimed
<1>2. P!Spec => []P!HistoryTruthful
  BY Assumed, P!HistoryCorrect
<1>3. P!Spec => []P!AutoForwardUnseen
  BY Assumed, P!AutoForwardCorrect
<1>4. P!Spec => []P!MarksReclaimed
  BY Assumed, P!MarksCorrect
<1> QED  BY <1>1, <1>2, <1>3, <1>4, StepsMap, PTL

-----------------------------------------------------------------------------
(* Editing on the page itself, without $EDITOR.                            *)

\* While the text area is open it has the text of the selected item, however
\* the lists grow under it; otherwise the body view shows that text.
InStep ==
    /\ editorResult = NoText
    /\ editing => List # <<>> /\ textarea.of = Selected /\ textarea.side = Side
    /\ EditsStayWithTheirFlow
    /\ BodyShowsWhatForwardSends

LEMMA Undecided ==
    BrokerInv => /\ \A f \in ToSet(queue) : f \in Flow /\ ~P!Decided(f)
                 /\ \A f \in ToSet(responseQueue) : f \in Flow /\ ~P!Past(f)
<1> SUFFICES ASSUME BrokerInv
             PROVE  /\ \A f \in ToSet(queue) : f \in Flow /\ ~P!Decided(f)
                    /\ \A f \in ToSet(responseQueue) : f \in Flow /\ ~P!Past(f)
  OBVIOUS
<1>1. ToSet(queue) \subseteq Flow /\ ToSet(responseQueue) \subseteq Flow
  BY DEF BrokerInv, P!TypeOK
<1> QED  BY <1>1, Assumed, P!HeldWaits DEF BrokerInv, P!Decided, P!Past

LEMMA UndecidedNext ==
    BrokerInv' => (/\ \A f \in ToSet(queue) : f \in Flow /\ ~P!Decided(f)
                   /\ \A f \in ToSet(responseQueue) : f \in Flow /\ ~P!Past(f))'
BY Undecided, PTL

\* An item that stays in its list stays as it is.
LEMMA ItemsKept ==
    ASSUME BrokerInv, BrokerInv', [P!Next]_P!vars
    PROVE  /\ \A f \in ToSet(queue) \cap ToSet(queue') : request'[f] = request[f]
           /\ \A f \in ToSet(responseQueue) \cap ToSet(responseQueue') :
                 response'[f] = response[f]
<1>1. \A f \in Flow : P!Respects(f)
  BY Assumed, P!StepRespects DEF BrokerInv, P!Ledger
<1> QED  BY <1>1, Undecided, UndecidedNext DEF P!Respects

Grows(s, t) == t = s \/ \E x \in Flow \ ToSet(s) : t = Append(s, x)

LEMMA GrownList ==
    ASSUME NEW s \in Seq(Flow), IsInjective(s), NEW c, ValidCursor(c, Len(s)), s # <<>>,
           NEW t, Grows(s, t)
    PROVE  t # <<>> /\ t[c + 1] = s[c + 1] /\ s[c + 1] \in ToSet(s) \cap ToSet(t)
<1>1. c + 1 \in 1 .. Len(s) /\ s[c + 1] \in ToSet(s)
  BY SelectedItem
<1>2. CASE t = s
  BY <1>1, <1>2
<1>3. ASSUME NEW x \in Flow \ ToSet(s), t = Append(s, x)
      PROVE  t # <<>> /\ t[c + 1] = s[c + 1] /\ ToSet(s) \subseteq ToSet(t)
  BY <1>1, <1>3, AppendToList
<1> QED  BY <1>1, <1>2, <1>3 DEF Grows

\* What happens behind the person's back moves neither the selection nor the
\* text of the selected item.
LEMMA SelectionKept ==
    ASSUME BrokerInv, BrokerInv', ListsOK, [P!Next]_P!vars, List # <<>>,
           UNCHANGED <<captureResponse, focusedPanel, cursor, responseCursor>>,
           UNCHANGED <<pendingEdits, pendingResponseEdits>>,
           Grows(queue, queue'), Grows(responseQueue, responseQueue')
    PROVE  List' # <<>> /\ Selected' = Selected /\ Side' = Side /\ CurrentRaw' = CurrentRaw
<1>1. onResponses' = onResponses /\ Side' = Side /\ SavedEdits' = SavedEdits
  BY DEF onResponses, Side, SavedEdits
<1>2. CASE onResponses
  <2>1. /\ List' # <<>> /\ Selected' = Selected
        /\ Selected \in ToSet(responseQueue) \cap ToSet(responseQueue')
    BY <1>1, <1>2, GrownList DEF List, Selected, ListsOK
  <2>2. response'[Selected] = response[Selected]
    BY <2>1, ItemsKept
  <2> QED  BY <1>1, <1>2, <2>1, <2>2 DEF CurrentRaw, Original, Side
<1>3. CASE ~onResponses
  <2>1. /\ List' # <<>> /\ Selected' = Selected
        /\ Selected \in ToSet(queue) \cap ToSet(queue')
    BY <1>1, <1>3, GrownList DEF List, Selected, ListsOK
  <2>2. request'[Selected] = request[Selected]
    BY <2>1, ItemsKept
  <2> QED  BY <1>1, <1>3, <2>1, <2>2 DEF CurrentRaw, Original, Side
<1> QED  BY <1>2, <1>3

LEMMA GoroutineApart ==
    ASSUME NEW f \in Flow, P!Goroutine(f)
    PROVE  UNCHANGED captureResponse
BY DEF P!Goroutine, P!RequestHook, P!HoldAutoForwarded, P!HoldSend, P!HoldReturn, P!Reply,
       P!RoundTrip, P!ResponseHook, P!HoldResponse, P!HoldResponseSend,
       P!HoldResponseReturn, P!SaveEntry, P!EndResponseHook, P!brokerVars

LEMMA HooksApart ==
    ASSUME NEW f \in Flow, P!AsyncHooks(f)
    PROVE  UNCHANGED <<captureResponse, arrived, incoming, decision>>
BY DEF P!AsyncHooks, P!AsyncOnRequest, P!AsyncOnResponse, P!brokerVars, P!requestVars

LEMMA BackgroundInStep ==
    ASSUME PageInv, PageInv', InStep, [Next]_vars,
           \/ RequestArrived \/ ResponseArrived \/ TakeRequest \/ TakeResponse
           \/ (\E f \in Flow : Proxy(f) \/ Hooks(f)) \/ UNCHANGED vars
    PROVE  InStep'
<1>. USE DEF InStep, PageInv, BodyShowsWhatForwardSends, EditsStayWithTheirFlow
<1>1. /\ UNCHANGED <<captureResponse, focusedPanel, cursor, responseCursor, editing>>
      /\ UNCHANGED <<pendingEdits, pendingResponseEdits, textarea, editorResult>>
  <2>1. CASE RequestArrived \/ ResponseArrived
    BY <2>1 DEF RequestArrived, ResponseArrived, requestList, responseList, modeVars
  <2>2. CASE TakeRequest \/ TakeResponse
    BY <2>2 DEF TakeRequest, TakeResponse, B!TakeRequest, B!TakeResponse, B!brokerVars,
                pageVars, requestList, responseList, modeVars
  <2>3. ASSUME NEW f \in Flow, Proxy(f)
        PROVE  UNCHANGED <<captureResponse, pageVars>>
    BY <2>3, SameGoroutine, GoroutineApart DEF Proxy
  <2>6. ASSUME NEW f \in Flow, Hooks(f)
        PROVE  UNCHANGED <<captureResponse, pageVars>>
    BY <2>6, SameHooks, HooksApart DEF Hooks
  <2>4. CASE UNCHANGED <<captureResponse, pageVars>>
    BY <2>4 DEF pageVars, requestList, responseList, modeVars
  <2>5. CASE UNCHANGED vars
    BY <2>4, <2>5 DEF vars, systemVars
  <2> QED  BY <2>1, <2>2, <2>3, <2>4, <2>5, <2>6
<1>2. Grows(queue, queue') /\ Grows(responseQueue, responseQueue')
  <2>1. CASE RequestArrived /\ interceptEnabled
    BY <2>1, RequestJoins DEF RequestArrived, responseList, Grows
  <2>2. CASE RequestArrived /\ ~interceptEnabled
    BY <2>2 DEF RequestArrived, responseList, Grows
  <2>3. CASE ResponseArrived
    BY <2>3, ResponseJoins DEF ResponseArrived, requestList, Grows
  <2>4. CASE UNCHANGED <<queue, responseQueue>>
    BY <2>4 DEF Grows
  <2>5. CASE TakeRequest \/ TakeResponse \/ (\E f \in Flow : Proxy(f) \/ Hooks(f)) \/ UNCHANGED vars
    BY <2>4, <2>5 DEF TakeRequest, TakeResponse, Proxy, Hooks, vars, pageVars, requestList,
                      responseList
  <2> QED  BY <2>1, <2>2, <2>3, <2>5
<1>3. [P!Next]_P!vars
  BY StepRefines
<1>4. List # <<>> => /\ List' # <<>> /\ Selected' = Selected /\ Side' = Side
                     /\ CurrentRaw' = CurrentRaw
  BY <1>1, <1>2, <1>3, SelectionKept
<1>5. body' = body \/ body' = CurrentRaw'
  BY DEF RequestArrived, ResponseArrived, TakeRequest, TakeResponse, Proxy, Hooks, vars, pageVars,
         RefreshBody
<1>6. ~editing => body' = CurrentRaw'
  <2>1. CASE List # <<>>
    BY <1>4, <1>5, <2>1
  <2>2. CASE List = <<>> /\ List' = <<>>
    BY <1>5, <2>2 DEF CurrentRaw
  <2>3. CASE List = <<>> /\ List' # <<>>
    <3>1. onResponses' = onResponses
      BY <1>1 DEF onResponses
    <3>2. \/ onResponses /\ responseQueue = <<>> /\ responseQueue' # responseQueue
          \/ ~onResponses /\ queue = <<>> /\ queue' # queue
      BY <2>3, <3>1 DEF List
    <3> QED
      BY <3>2 DEF RequestArrived, ResponseArrived, TakeRequest, TakeResponse, Proxy, Hooks, vars,
                  pageVars, requestList, responseList, RefreshBody
  <2> QED  BY <2>1, <2>2, <2>3
<1>7. EditsStayWithTheirFlow'
  BY <1>1 DEF EditsOK
<1> QED  BY <1>1, <1>4, <1>6, <1>7

LEMMA CommandsInStep ==
    ASSUME PageInv, PageInv', InStep,
           \/ (\E d \in B!Decision, all \in BOOLEAN : DecideKey(d, all))
           \/ ToggleIntercept \/ CaptureResponse \/ CycleFocus \/ MoveCursor \/ UndoEdits
    PROVE  InStep'
<1>. USE DEF InStep, PageInv, BodyShowsWhatForwardSends, EditsStayWithTheirFlow, NormalMode
<1>1. ~editing /\ ~editing' /\ editorResult' = editorResult
  BY DEF DecideKey, ToggleIntercept, CaptureResponse, CycleFocus, MoveCursor, UndoEdits,
         modeVars
<1>2. body' = CurrentRaw'
  <2>1. CASE RefreshBody
    BY <2>1 DEF RefreshBody
  <2>2. CASE ToggleIntercept /\ ~(interceptEnabled /\ queue # <<>>)
    <3>1. body' = body /\ CurrentRaw' = CurrentRaw
      BY <2>2 DEF ToggleIntercept, requestList, responseList, CurrentRaw, List, Selected,
                  SavedEdits, Side, onResponses, Original
    <3> QED  BY <1>1, <3>1
  <2> QED
    BY <2>1, <2>2 DEF DecideKey, ToggleIntercept, CaptureResponse, CycleFocus, MoveCursor,
                      UndoEdits
<1>. DEFINE Fewer ==
              /\ \A f \in DOMAIN pendingEdits' :
                    f \in DOMAIN pendingEdits /\ pendingEdits'[f] = pendingEdits[f]
              /\ \A f \in DOMAIN pendingResponseEdits' :
                    /\ f \in DOMAIN pendingResponseEdits
                    /\ pendingResponseEdits'[f] = pendingResponseEdits[f]
<1>3. Fewer
  <2>1. ASSUME NEW S, NEW d, DecideRequests(S, d) \/ DecideResponses(S, d)
        PROVE  Fewer
    BY <2>1 DEF DecideRequests, DecideResponses, Without, Restrict, requestList, responseList
  <2>2. ASSUME NEW d,
               \/ applyAndDecideAll(d) \/ applyAndDecideAllResponses(d)
               \/ applyAndDecide(d) \/ applyAndDecideResponse(d)
        PROVE  Fewer
    BY <2>1, <2>2 DEF applyAndDecideAll, applyAndDecideAllResponses, applyAndDecide,
                      applyAndDecideResponse
  <2>3. CASE UNCHANGED <<pendingEdits, pendingResponseEdits>>
    BY <2>3
  <2>4. CASE UndoEdits
    BY <2>4 DEF UndoEdits, Without, Restrict
  <2>5. CASE CaptureResponse \/ CycleFocus \/ MoveCursor
    BY <2>3, <2>5 DEF CaptureResponse, CycleFocus, MoveCursor, requestList, responseList
  <2>6. CASE ToggleIntercept
    BY <2>2, <2>3, <2>6 DEF ToggleIntercept, requestList, responseList
  <2>7. CASE \E d \in B!Decision, all \in BOOLEAN : DecideKey(d, all)
    BY <2>2, <2>7 DEF DecideKey
  <2> QED  BY <2>4, <2>5, <2>6, <2>7
<1>4. EditsStayWithTheirFlow'
  BY <1>3 DEF EditsOK
<1> QED  BY <1>1, <1>2, <1>4

LEMMA EditingInStep ==
    ASSUME PageInv, PageInv', InStep, ~ExternalEditor,
           \/ Edit \/ EditExternal \/ EditLong \/ Type \/ Escape \/ EditorFinished
           \/ Resize \/ LeavePage \/ EnterPage
    PROVE  InStep'
<1>. USE DEF InStep, PageInv, BodyShowsWhatForwardSends, EditsStayWithTheirFlow, NormalMode,
             EditMode
<1>1. ~EditExternal /\ ~EditLong /\ ~EditorFinished
  BY DEF EditExternal, EditLong, OpenExternalEditor, EditorFinished
<1>2. ASSUME UNCHANGED <<systemVars, requestList, responseList, focusedPanel>>
      PROVE  /\ List' = List /\ Selected' = Selected /\ Side' = Side
             /\ CurrentRaw' = CurrentRaw
  BY <1>2 DEF systemVars, flowVars, hookVars, requestList, responseList, CurrentRaw, List, Selected,
              SavedEdits, Side, onResponses, Original
<1>3. CASE Edit
  <2>1. CurrentRaw.of = Selected /\ CurrentRaw.side = Side
    BY <1>3 DEF Edit, CurrentRaw, SavedEdits, Side, Original
  <2> QED  BY <1>2, <1>3, <2>1 DEF Edit, requestList, responseList
<1>4. CASE Type
  <2>1. textarea'.of = textarea.of /\ textarea'.side = textarea.side
    BY <1>4 DEF Type, ViewsOK, Known, Text
  <2> QED  BY <1>2, <1>4, <2>1 DEF Type, requestList, responseList
<1>5. CASE Escape
  <2>1. /\ List # <<>> /\ ~editing' /\ body' = textarea /\ editorResult' = editorResult
        /\ UNCHANGED <<onResponses, List, Selected, Side>>
    BY <1>5 DEF Escape, systemVars, List, Selected, Side, onResponses
  <2>2. CASE onResponses
    <3>1. /\ pendingResponseEdits' = With(pendingResponseEdits, Selected, textarea)
          /\ UNCHANGED <<pendingEdits, queue>>
      BY <1>5, <2>1, <2>2 DEF Escape
    <3>2. /\ Selected \in DOMAIN pendingResponseEdits'
          /\ pendingResponseEdits'[Selected] = textarea
          /\ \A g \in DOMAIN pendingResponseEdits' :
                \/ g = Selected /\ pendingResponseEdits'[g] = textarea
                \/ /\ g \in DOMAIN pendingResponseEdits
                   /\ pendingResponseEdits'[g] = pendingResponseEdits[g]
      BY <3>1 DEF With
    <3>3. CurrentRaw' = textarea
      BY <2>1, <2>2, <3>2 DEF CurrentRaw, SavedEdits
    <3> QED  BY <1>5, <2>1, <2>2, <3>1, <3>2, <3>3 DEF Escape, Side
  <2>3. CASE ~onResponses
    <3>1. /\ pendingEdits' = With(pendingEdits, Selected, textarea)
          /\ UNCHANGED <<pendingResponseEdits, queue>>
      BY <1>5, <2>1, <2>3 DEF Escape
    <3>2. /\ Selected \in DOMAIN pendingEdits' /\ pendingEdits'[Selected] = textarea
          /\ \A g \in DOMAIN pendingEdits' :
                \/ g = Selected /\ pendingEdits'[g] = textarea
                \/ g \in DOMAIN pendingEdits /\ pendingEdits'[g] = pendingEdits[g]
      BY <3>1 DEF With
    <3>3. CurrentRaw' = textarea
      BY <2>1, <2>3, <3>2 DEF CurrentRaw, SavedEdits
    <3>4. DOMAIN pendingEdits' \subseteq ToSet(queue')
      BY DEF EditsOK
    <3> QED  BY <1>5, <2>1, <2>3, <3>1, <3>2, <3>3, <3>4 DEF Escape, Side
  <2> QED  BY <2>2, <2>3
<1>6. CASE Resize \/ LeavePage \/ EnterPage
  BY <1>2, <1>6 DEF Resize, LeavePage, EnterPage, RefreshBody, modeVars, requestList,
                    responseList
<1> QED  BY <1>1, <1>3, <1>4, <1>5, <1>6

LEMMA AlwaysInStep == ASSUME ~ExternalEditor PROVE Spec => [](PageInv /\ InStep)
<1>1. Init => InStep
  <2>1. DOMAIN <<>> = {}
    OBVIOUS
  <2> QED
    BY <2>1, EmptyList DEF Init, InStep, EditsStayWithTheirFlow, BodyShowsWhatForwardSends,
           CurrentRaw, List, onResponses
<1>2. PageInv /\ PageInv' /\ InStep /\ [Next]_vars => InStep'
  BY BackgroundInStep, CommandsInStep, EditingInStep DEF Next, Keys
<1> QED  BY <1>1, <1>2, PageInvariant, PTL DEF Spec

\* Without $EDITOR, the body view shows what a Forward would send, whatever
\* arrives, is decided or is switched while the person reads or types.
THEOREM BodyCorrect == ASSUME ~ExternalEditor PROVE Spec => []BodyShowsWhatForwardSends
<1>1. InStep => BodyShowsWhatForwardSends
  BY DEF InStep
<1> QED  BY <1>1, AlwaysInStep, PTL

\* Without $EDITOR, a saved edit is kept under the flow it was made from.
THEOREM EditsCorrect == ASSUME ~ExternalEditor PROVE Spec => []EditsStayWithTheirFlow
<1>1. InStep => EditsStayWithTheirFlow
  BY DEF InStep
<1> QED  BY <1>1, AlwaysInStep, PTL

\* A request leaves with the edit saved for it, and is not touched otherwise.
LEMMA GoroutineDecides ==
    ASSUME P!TypeOK, NEW g \in Flow, P!Goroutine(g), NEW f \in Flow
    PROVE  /\ \/ request'[f] = request[f]
              \/ pc[f] # "waitRequest" /\ request'[f] \in Rewritten
           /\ decision'[f] \in {decision[f], "none"}
<1>. USE DEF P!TypeOK, P!requestVars, P!responseVars
<1>1. CASE P!HoldReturn(g)
  BY <1>1 DEF P!HoldReturn
<1>2. CASE UNCHANGED <<request, decision>>
  BY <1>2
<1>3. ASSUME NEW verdict \in P!Verdict,
             P!RequestHook(g, verdict) \/ P!ResponseHook(g, verdict)
      PROVE  /\ decision' = decision /\ pc[g] # "waitRequest"
             /\ \E text \in {request[g]} \cup Rewritten :
                   request' = [request EXCEPT ![g] = text]
  BY <1>3 DEF P!RequestHook, P!ResponseHook, P!AfterHooks
<1> QED
  BY <1>1, <1>2, <1>3
  DEF P!Goroutine, P!HoldAutoForwarded, P!HoldSend, P!Reply, P!RoundTrip,
      P!HoldResponse, P!HoldResponseSend, P!HoldResponseReturn, P!SaveEntry,
      P!EndResponseHook

LEMMA HooksDecide ==
    ASSUME BrokerInv, NEW g \in Flow, P!AsyncHooks(g), NEW f \in Flow
    PROVE  \/ request'[f] = request[f]
           \/ pc[f] # "waitRequest" /\ request'[f] \in Rewritten
<1>1. pc[g] # "waitRequest"
  BY DEF BrokerInv, P!Ledger, P!Marked, P!AsyncHooks, P!AsyncOnRequest, P!AsyncOnResponse,
         P!HooksStarted
<1>2. \E text \in {request[g]} \cup Rewritten : request' = [request EXCEPT ![g] = text]
  BY DEF P!AsyncHooks, P!AsyncOnRequest, P!AsyncOnResponse, P!AfterHooks
<1> QED  BY <1>1, <1>2 DEF BrokerInv, P!TypeOK

\* What RequestEditsSent says of a step.
EditsSent ==
    \A f \in Flow :
        IF decision[f] = "none" /\ decision'[f] = "forward" /\ f \in DOMAIN pendingEdits
        THEN request'[f] = Parse[pendingEdits[f].says]
        ELSE \/ request'[f] = request[f]
             \/ pc[f] # "waitRequest" /\ request'[f] \in Rewritten

LEMMA StepSends ==
    ASSUME PageInv, InStep, [Next]_vars
    PROVE  EditsSent
<1>. USE DEF EditsSent
<1>1. CASE UNCHANGED <<request, decision>>
  BY <1>1
<1>2. ASSUME NEW S \in SUBSET ToSet(queue), NEW d \in P!Decision, DecideRequests(S, d)
      PROVE  EditsSent
  <2> SUFFICES ASSUME NEW f \in Flow
               PROVE  request'[f] = IF /\ decision[f] = "none" /\ decision'[f] = "forward"
                                       /\ f \in DOMAIN pendingEdits
                                    THEN Parse[pendingEdits[f].says] ELSE request[f]
    OBVIOUS
  <2>1. /\ decision'[f] = IF f \in S THEN d ELSE decision[f]
        /\ request'[f] = IF d = "forward" /\ f \in S \cap DOMAIN pendingEdits
                         THEN Applied(f, "request", pendingEdits[f]) ELSE request[f]
        /\ f \in S => decision[f] = "none"
    BY <1>2 DEF DecideRequests
  <2>2. f \in DOMAIN pendingEdits =>
           Applied(f, "request", pendingEdits[f]) = Parse[pendingEdits[f].says]
    BY DEF InStep, EditsStayWithTheirFlow, Applied
  <2> QED  BY <2>1, <2>2 DEF P!Decision
<1>3. ASSUME NEW d \in P!Decision, applyAndDecide(d) \/ applyAndDecideAll(d)
      PROVE  EditsSent
  <2>1. queue # <<>> => queue[cursor + 1] \in ToSet(queue)
    BY SelectedItem DEF PageInv, ListsOK
  <2> QED  BY <1>2, <1>3, <2>1 DEF applyAndDecide, applyAndDecideAll
<1>4. ASSUME NEW d \in B!Decision, NEW all \in BOOLEAN, DecideKey(d, all)
      PROVE  EditsSent
  <2>1. d \in P!Decision
    BY DEF B!Decision, P!Decision
  <2> QED
    BY <1>1, <1>3, <1>4, <2>1 DEF DecideKey, applyAndDecideResponse,
       applyAndDecideAllResponses, DecideResponses
<1>5. CASE ToggleIntercept
  BY <1>1, <1>3, <1>5 DEF ToggleIntercept, P!Decision
<1>6. CASE RequestArrived
  <2>1. arrived \in Flow
    BY <1>6 DEF RequestArrived, PageInv, BrokerInv, P!TypeOK
  <2>2. arrived \notin DOMAIN pendingEdits
    BY <2>1, Assumed, P!HeldWaits DEF PageInv, BrokerInv, EditsOK
  <2>3. /\ request' = request /\ decision \in [Flow -> P!Decision \cup {"none"}]
        /\ decision' = decision \/ decision' = [decision EXCEPT ![arrived] = "forward"]
    BY <1>6 DEF RequestArrived, flowVars, PageInv, BrokerInv, P!TypeOK
  <2> QED  BY <2>1, <2>2, <2>3
<1>7. ASSUME NEW g \in Flow, Proxy(g)  PROVE EditsSent
  BY <1>7, SameGoroutine, GoroutineDecides DEF Proxy, PageInv, BrokerInv
<1>11. ASSUME NEW g \in Flow, Hooks(g)  PROVE EditsSent
  BY <1>11, SameHooks, HooksDecide, HooksApart DEF Hooks, PageInv
<1>8. CASE TakeRequest \/ TakeResponse \/ ResponseArrived \/ UNCHANGED vars
  BY <1>1, <1>8 DEF TakeRequest, TakeResponse, B!TakeRequest, B!TakeResponse, B!flowVars,
                    B!requestVars, ResponseArrived, flowVars, vars, systemVars
<1>9. CASE CaptureResponse \/ CycleFocus \/ MoveCursor \/ UndoEdits \/ Edit \/ EditExternal
           \/ EditLong \/ Type \/ Escape
  BY <1>1, <1>9 DEF CaptureResponse, CycleFocus, MoveCursor, UndoEdits, Edit, EditExternal,
                    EditLong, OpenExternalEditor, Type, Escape, flowVars, systemVars
<1>10. CASE EditorFinished \/ Resize \/ LeavePage \/ EnterPage
  BY <1>1, <1>10 DEF EditorFinished, Resize, LeavePage, EnterPage, flowVars, systemVars
<1> QED
  BY <1>4, <1>5, <1>6, <1>7, <1>8, <1>9, <1>10, <1>11 DEF Next, Keys

\* Without $EDITOR, a forwarded request carries what the parser makes of the
\* edit saved for it, and nothing but plugins touches any other request.
THEOREM EditsSentCorrect == ASSUME ~ExternalEditor PROVE Spec => RequestEditsSent
<1>1. PageInv /\ InStep /\ [Next]_vars => [EditsSent]_vars
  BY StepSends
<1> QED  BY <1>1, AlwaysInStep, PTL DEF Spec, RequestEditsSent, EditsSent

-----------------------------------------------------------------------------
(* The line of requests, from the list of the page to the channel.         *)

Messages == IF arrived = NoFlow THEN 0 ELSE 1

LineItem(i) ==
    IF i <= Len(queue) THEN queue[i]
    ELSE IF i <= Len(queue) + Messages THEN arrived
    ELSE incoming[i - Len(queue) - Messages]

LineLen == Len(queue) + Messages + Len(incoming)

LineOK ==
    /\ Len(Line) = LineLen /\ DOMAIN Line = 1 .. LineLen
    /\ \A i \in 1 .. LineLen : Line[i] = LineItem(i)
    /\ IsInjective(Line)

\* No flow stands in the line twice.
LEMMA LineItems == BrokerInv /\ ListsOK => LineOK
<1> SUFFICES ASSUME BrokerInv, ListsOK  PROVE LineOK
  OBVIOUS
<1>. DEFINE m == IF arrived = NoFlow THEN <<>> ELSE <<arrived>>
            q == queue \o m
<1>1. /\ m \in Seq(Flow) /\ Len(m) = Messages
      /\ Messages \in {0, 1} /\ (Messages = 1 => m[1] = arrived /\ arrived \in Flow)
  BY DEF Messages, BrokerInv, P!TypeOK
<1>2. queue \in Seq(Flow) /\ incoming \in Seq(Flow) /\ Len(queue) \in Nat /\ Len(incoming) \in Nat
  BY DEF ListsOK, BrokerInv, P!TypeOK
<1>. HIDE DEF m
<1>3. /\ q \in Seq(Flow) /\ Len(q) = Len(queue) + Len(m)
      /\ \A i \in 1 .. Len(queue) + Len(m) :
            q[i] = IF i <= Len(queue) THEN queue[i] ELSE m[i - Len(queue)]
  BY <1>1, <1>2, ConcatProperties
<1>. HIDE DEF q
<1>4. /\ q \o incoming \in Seq(Flow) /\ Len(q \o incoming) = Len(q) + Len(incoming)
      /\ \A i \in 1 .. Len(q) + Len(incoming) :
            (q \o incoming)[i] = IF i <= Len(q) THEN q[i] ELSE incoming[i - Len(q)]
  <2>1. q \in Seq(Flow) /\ incoming \in Seq(Flow)
    BY <1>2, <1>3
  <2> QED  BY ONLY <2>1, ConcatProperties
<1>5. Line = q \o incoming
  BY DEF Line, q, m
<1>6. Len(Line) = LineLen /\ DOMAIN Line = 1 .. LineLen
  BY <1>1, <1>2, <1>3, <1>4, <1>5 DEF LineLen
<1>7. ASSUME NEW i \in 1 .. LineLen  PROVE Line[i] = LineItem(i)
  <2>1. i \in 1 .. Len(q) + Len(incoming) /\ Len(q) = Len(queue) + Messages
    BY <1>1, <1>2, <1>3 DEF LineLen
  <2>2. Line[i] = IF i <= Len(q) THEN q[i] ELSE incoming[i - Len(q)]
    BY <1>4, <1>5, <2>1
  <2>3. CASE i <= Len(queue)
    BY <1>1, <1>2, <1>3, <2>1, <2>2, <2>3 DEF LineItem
  <2>4. CASE i > Len(queue) /\ i <= Len(queue) + Messages
    <3>1. i - Len(queue) = 1 /\ Messages = 1
      BY <1>1, <1>2, <2>4
    <3> QED  BY <1>1, <1>2, <1>3, <2>1, <2>2, <2>4, <3>1 DEF LineItem
  <2>5. CASE i > Len(queue) + Messages
    <3>1. i - Len(q) = i - Len(queue) - Messages
      BY <1>1, <1>2, <2>1
    <3> QED  BY <1>1, <1>2, <2>1, <2>2, <2>5, <3>1 DEF LineItem
  <2> QED  BY <1>1, <1>2, <2>3, <2>4, <2>5
<1>8. IsInjective(Line)
  <2>1. /\ IsInjective(queue) /\ P!IsInjective(incoming)
        /\ \A f \in Flow : /\ f \in ToSet(queue) => arrived # f /\ f \notin P!Range(incoming)
                           /\ f = arrived => f \notin P!Range(incoming)
    BY DEF ListsOK, BrokerInv, P!NoFlowLost, P!NoRequestLost, P!HandledOnce, P!AtMostOne
  <2>2. /\ \A i, j \in 1 .. Len(incoming) : incoming[i] = incoming[j] => i = j
        /\ \A i, j \in 1 .. Len(queue) : queue[i] = queue[j] => i = j
        /\ \A i \in 1 .. Len(incoming) : incoming[i] \in P!Range(incoming) \cap Flow
        /\ \A i \in 1 .. Len(queue) : queue[i] \in ToSet(queue) \cap Flow
    BY <1>2, <2>1 DEF IsInjective, P!IsInjective, P!Range, ToSet
  <2>3. \A i \in 1 .. LineLen :
           \/ i <= Len(queue) /\ i \in 1 .. Len(queue) /\ Line[i] = queue[i]
           \/ i = Len(queue) + 1 /\ Messages = 1 /\ Line[i] = arrived
           \/ /\ i > Len(queue) + Messages
              /\ i - Len(queue) - Messages \in 1 .. Len(incoming)
              /\ Line[i] = incoming[i - Len(queue) - Messages]
    BY <1>1, <1>2, <1>7 DEF LineLen, LineItem
  <2>4. ASSUME NEW i \in 1 .. LineLen, NEW j \in 1 .. LineLen, Line[i] = Line[j]
        PROVE  i = j
    <3>. DEFINE x == i - Len(queue) - Messages
                y == j - Len(queue) - Messages
    <3>1. x = y => i = j
      BY <1>1, <1>2
    <3>2. /\ \/ i \in 1 .. Len(queue) /\ Line[i] = queue[i]
             \/ i = Len(queue) + 1 /\ Messages = 1 /\ Line[i] = arrived
             \/ x \in 1 .. Len(incoming) /\ Line[i] = incoming[x]
          /\ \/ j \in 1 .. Len(queue) /\ Line[j] = queue[j]
             \/ j = Len(queue) + 1 /\ Messages = 1 /\ Line[j] = arrived
             \/ y \in 1 .. Len(incoming) /\ Line[j] = incoming[y]
      BY <2>3
    <3>. HIDE DEF x, y
    <3> QED  BY <1>1, <2>1, <2>2, <2>4, <3>1, <3>2
  <2> QED  BY <1>6, <2>4 DEF IsInjective
<1> QED  BY <1>6, <1>7, <1>8 DEF LineOK

LEMMA LineItemsNext == BrokerInv' /\ ListsOK' => LineOK'
BY LineItems, PTL

\* Items keep their order.
InOrder(old, new) ==
    \A i, j \in DOMAIN old : i < j =>
        \A k, l \in DOMAIN new : new[k] = old[i] /\ new[l] = old[j] => k < l

\* A line of m items from which c in a row, the first at a, were taken out.
Cut(old, m, new, n, a, c) ==
    /\ DOMAIN old = 1 .. m /\ DOMAIN new = 1 .. n
    /\ \A k \in 1 .. n : \E i \in 1 .. m :
          i = (IF k < a THEN k ELSE k + c) /\ new[k] = old[i]

LEMMA CutInOrder ==
    ASSUME NEW old, NEW new, NEW m \in Nat, NEW n \in Nat, NEW a \in Nat, NEW c \in Nat,
           IsInjective(old), Cut(old, m, new, n, a, c)
    PROVE  InOrder(old, new)
<1> SUFFICES ASSUME NEW i \in 1 .. m, NEW j \in 1 .. m, i < j,
                    NEW k \in 1 .. n, NEW l \in 1 .. n, new[k] = old[i], new[l] = old[j]
             PROVE  k < l
  BY DEF InOrder, Cut
<1>1. i = (IF k < a THEN k ELSE k + c) /\ j = (IF l < a THEN l ELSE l + c)
  BY DEF IsInjective, Cut
<1> QED  BY <1>1

LEMMA GrowthInOrder ==
    ASSUME NEW old, NEW new, NEW m \in Nat, IsInjective(old), IsInjective(new),
           DOMAIN old = 1 .. m, DOMAIN new = 1 .. m + 1,
           \A k \in 1 .. m : new[k] = old[k]
    PROVE  InOrder(old, new)
BY DEF InOrder, IsInjective

LEMMA GoroutineLine ==
    ASSUME NEW f \in Flow, P!Goroutine(f)
    PROVE  arrived' = arrived /\ incoming' \in {incoming, Append(incoming, f)}
BY DEF P!Goroutine, P!RequestHook, P!HoldAutoForwarded, P!HoldSend, P!HoldReturn, P!Reply,
       P!RoundTrip, P!ResponseHook, P!HoldResponse, P!HoldResponseSend,
       P!HoldResponseReturn, P!SaveEntry, P!EndResponseHook, P!requestVars

LEMMA StepInOrder ==
    ASSUME PageInv, PageInv', [Next]_vars
    PROVE  InOrder(Line, Line')
<1>. DEFINE q == Len(queue)
            c == Len(incoming)
<1>1. /\ q \in Nat /\ c \in Nat /\ q' \in Nat /\ c' \in Nat
      /\ Messages \in {0, 1} /\ Messages' \in {0, 1}
      /\ queue \in Seq(Flow) /\ incoming \in Seq(Flow)
  BY DEF PageInv, BrokerInv, ListsOK, P!TypeOK, Messages
<1>2. /\ DOMAIN Line = 1 .. LineLen /\ DOMAIN Line' = 1 .. LineLen'
      /\ \A i \in 1 .. LineLen : Line[i] = LineItem(i)
      /\ \A i \in 1 .. LineLen' : Line'[i] = LineItem(i)'
      /\ IsInjective(Line) /\ IsInjective(Line')
      /\ LineLen \in Nat /\ LineLen' \in Nat
  BY <1>1, LineItems, LineItemsNext DEF PageInv, LineOK, LineLen
<1>. DEFINE was(k, a, n) == IF k < a THEN k ELSE k + n
            Left(a, n) == \A k \in 1 .. LineLen' :
                             /\ was(k, a, n) \in 1 .. LineLen
                             /\ LineItem(k)' = LineItem(was(k, a, n))
<1>3. ASSUME NEW a \in Nat, NEW n \in Nat, Left(a, n)
      PROVE  InOrder(Line, Line')
  <2>1. \A k \in 1 .. LineLen' : \E i \in 1 .. LineLen :
           i = was(k, a, n) /\ Line'[k] = Line[i]
    BY <1>2, <1>3
  <2>2. Cut(Line, LineLen, Line', LineLen', a, n)
    BY <1>2, <2>1 DEF Cut
  <2> QED  BY <1>2, <2>2, CutInOrder
<1>. HIDE DEF Left
<1>4. CASE UNCHANGED <<queue, arrived, incoming>>
  <2>1. /\ LineLen' = LineLen /\ \A k : LineItem(k)' = LineItem(k)
    BY <1>4 DEF LineLen, LineItem, Messages
  <2>2. Left(0, 0)
    BY <1>2, <2>1 DEF Left
  <2> QED  BY <1>3, <2>2
<1>5. ASSUME NEW f \in Flow, incoming' = Append(incoming, f), UNCHANGED <<queue, arrived>>
      PROVE  InOrder(Line, Line')
  <2>1. c' = c + 1 /\ \A k \in 1 .. c : incoming'[k] = incoming[k]
    BY <1>1, <1>5
  <2>a. Messages' = Messages /\ queue' = queue /\ arrived' = arrived
    BY <1>5 DEF Messages
  <2>2. /\ LineLen' = LineLen + 1
        /\ \A k \in 1 .. LineLen : LineItem(k)' = LineItem(k)
    <3>1. LineLen' = LineLen + 1
      BY <1>1, <2>1, <2>a DEF LineLen
    <3>2. ASSUME NEW k \in 1 .. LineLen PROVE LineItem(k)' = LineItem(k)
      <4>1. k > q + Messages => k - q - Messages \in 1 .. c
        BY <1>1 DEF LineLen
      <4>2. k > q + Messages => incoming'[k - q - Messages] = incoming[k - q - Messages]
        BY <2>1, <4>1
      <4> QED  BY <1>1, <2>a, <4>2 DEF LineItem
    <3> QED  BY <3>1, <3>2
  <2>3. DOMAIN Line' = 1 .. LineLen + 1 /\ \A k \in 1 .. LineLen : Line'[k] = Line[k]
    BY <1>2, <2>2
  <2> QED  BY <1>2, <2>3, GrowthInOrder
<1>6. CASE TakeRequest
  <2>1. /\ queue' = queue /\ arrived = NoFlow /\ incoming # <<>>
        /\ arrived' = Head(incoming) /\ incoming' = Tail(incoming)
    BY <1>6 DEF TakeRequest, B!TakeRequest, pageVars, requestList
  <2>2. /\ c > 0 /\ c' = c - 1 /\ arrived' = incoming[1] /\ arrived' # NoFlow
        /\ \A k \in 1 .. c - 1 : incoming'[k] = incoming[k + 1]
    BY <1>1, <2>1, Assumed DEF P!BrokerAssumption
  <2>3. Messages = 0 /\ Messages' = 1
    BY <2>1, <2>2 DEF Messages
  <2>4. /\ LineLen' = LineLen
        /\ \A k \in 1 .. LineLen : LineItem(k)' = LineItem(k)
    BY <1>1, <2>1, <2>2, <2>3 DEF LineLen, LineItem
  <2>5. Left(0, 0)
    BY <1>2, <2>4 DEF Left
  <2> QED  BY <1>3, <2>5
<1>7. CASE RequestArrived
  <2>1. /\ arrived \in Flow /\ arrived' = NoFlow /\ incoming' = incoming
        /\ Messages = 1 /\ Messages' = 0
    BY <1>7 DEF RequestArrived, channelVars, PageInv, BrokerInv, P!TypeOK, Messages
  <2>2. CASE interceptEnabled
    <3>1. /\ q' = q + 1 /\ queue'[q + 1] = arrived
          /\ \A k \in 1 .. q : queue'[k] = queue[k]
      BY <1>1, <1>7, <2>2, RequestJoins DEF PageInv
    <3>2. /\ LineLen' = LineLen
          /\ \A k \in 1 .. LineLen : LineItem(k)' = LineItem(k)
      BY <1>1, <2>1, <3>1 DEF LineLen, LineItem
    <3>3. Left(0, 0)
      BY <1>2, <3>2 DEF Left
    <3> QED  BY <1>3, <3>3
  <2>3. CASE ~interceptEnabled
    <3>1. queue' = queue
      BY <1>7, <2>3 DEF RequestArrived
    <3>2. Left(q + 1, 1) /\ q + 1 \in Nat
      BY <1>1, <2>1, <3>1 DEF Left, LineLen, LineItem
    <3> QED  BY <1>3, <3>2
  <2> QED  BY <2>2, <2>3
<1>8. ASSUME NEW d, applyAndDecide(d), UNCHANGED <<arrived, incoming>>
      PROVE  InOrder(Line, Line')
  <2>1. cursor + 1 \in 1 .. q
    BY <1>8, SelectedItem DEF applyAndDecide, PageInv, ListsOK
  <2>2. /\ q' = q - 1
        /\ \A k \in 1 .. q - 1 : queue'[k] = IF k < cursor + 1 THEN queue[k] ELSE queue[k + 1]
    BY <1>8, <2>1, RemoveFromList, SMTT(30) DEF applyAndDecide, PageInv, ListsOK
  <2>3. Messages' = Messages /\ arrived' = arrived /\ incoming' = incoming
    BY <1>8 DEF Messages
  <2>4. Left(cursor + 1, 1) /\ cursor + 1 \in Nat
    BY <1>1, <2>1, <2>2, <2>3, SMTT(30) DEF Left, LineLen, LineItem
  <2> QED  BY <1>3, <2>4
<1>9. ASSUME NEW d, applyAndDecideAll(d), UNCHANGED <<arrived, incoming>>
      PROVE  InOrder(Line, Line')
  <2>1. q' = 0
    BY <1>9 DEF applyAndDecideAll
  <2>2. Messages' = Messages /\ arrived' = arrived /\ incoming' = incoming
    BY <1>9 DEF Messages
  <2>3. Left(0, q)
    BY <1>1, <2>1, <2>2 DEF Left, LineLen, LineItem
  <2> QED  BY <1>1, <1>3, <2>3
<1>10. ASSUME NEW d \in B!Decision, NEW all \in BOOLEAN, DecideKey(d, all)
       PROVE  InOrder(Line, Line')
  <2>1. UNCHANGED <<arrived, incoming>>
    BY <1>10 DEF DecideKey, channelVars
  <2>2. CASE UNCHANGED queue
    BY <1>4, <2>1, <2>2
  <2> QED
    BY <1>8, <1>9, <1>10, <2>1, <2>2 DEF DecideKey, applyAndDecideResponse,
       applyAndDecideAllResponses, DecideResponses, requestList
<1>11. CASE ToggleIntercept
  BY <1>4, <1>9, <1>11 DEF ToggleIntercept, channelVars, requestList
<1>12. ASSUME NEW f \in Flow, Proxy(f)  PROVE InOrder(Line, Line')
  <2>1. UNCHANGED queue
    BY <1>12 DEF Proxy, pageVars, requestList
  <2> QED  BY <1>4, <1>5, <1>12, <2>1, SameGoroutine, GoroutineLine DEF Proxy
<1>16. ASSUME NEW f \in Flow, Hooks(f)  PROVE InOrder(Line, Line')
  <2>1. UNCHANGED queue
    BY <1>16 DEF Hooks, pageVars, requestList
  <2> QED  BY <1>4, <1>16, <2>1, SameHooks, HooksApart DEF Hooks
<1>13. CASE TakeResponse \/ ResponseArrived \/ UNCHANGED vars
  BY <1>4, <1>13 DEF TakeResponse, B!TakeResponse, B!requestVars, ResponseArrived,
                     channelVars, requestList, vars, systemVars, pageVars
<1>14. CASE CaptureResponse \/ CycleFocus \/ MoveCursor \/ UndoEdits \/ Edit \/ EditExternal
            \/ EditLong \/ Type \/ Escape
  BY <1>4, <1>14 DEF CaptureResponse, CycleFocus, MoveCursor, UndoEdits, Edit,
                     EditExternal, EditLong, OpenExternalEditor, Type, Escape, channelVars,
                     requestList, systemVars
<1>15. CASE EditorFinished \/ Resize \/ LeavePage \/ EnterPage
  BY <1>4, <1>15 DEF EditorFinished, Resize, LeavePage, EnterPage, channelVars,
                     requestList, systemVars
<1> QED
  BY <1>6, <1>7, <1>10, <1>11, <1>12, <1>13, <1>14, <1>15, <1>16 DEF Next, Keys

\* Requests keep their order of arrival from the channel to the list, whatever
\* is decided in between.
THEOREM OrderCorrect == Spec => ArrivalOrderKept
<1>. DEFINE Ordered ==
              \A i, j \in DOMAIN Line : i < j =>
                 \A k, l \in DOMAIN Line' : Line'[k] = Line[i] /\ Line'[l] = Line[j] => k < l
<1>1. PageInv /\ PageInv' /\ [Next]_vars => [Ordered]_vars
  BY StepInOrder DEF InOrder
<1> QED  BY <1>1, PageInvariant, PTL DEF Spec, ArrivalOrderKept
=============================================================================
