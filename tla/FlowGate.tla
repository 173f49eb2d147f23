------------------------------ MODULE FlowGate ------------------------------
(***************************************************************************)
(* What spilltea promises about the flows that cross the proxy, with no    *)
(* goroutine, channel or terminal page in sight:                           *)
(*                                                                         *)
(*   - a flow gets one fate, from a plugin, from an auto_forward_regex or  *)
(*     from the person at the terminal, and never another one;             *)
(*   - only a flow with a fate is answered, and it is answered once;       *)
(*   - the history gets a flow at most once, no later than its answer, and *)
(*     never a flow that was auto-forwarded or dropped in the terminal     *)
(*     (the comment on Broker.SaveEntry, internal/intercept/broker.go).    *)
(*                                                                         *)
(* InterceptBroker is shown to implement this module.                      *)
(***************************************************************************)

CONSTANT Flow

VARIABLES
    fate,      \* fate[f]: who let the flow through or stopped it, and how
    recorded,  \* the flows that have an entry in the history
    answered   \* the flows the proxy has finished with

gateVars == <<fate, recorded, answered>>

Fate == {"pluginDrop", "pluginForward", "auto", "userForward", "userDrop"}

\* Fates that keep a flow out of the history for good.
Unrecorded == {"auto", "userDrop"}

Init ==
    /\ fate = [f \in Flow |-> "undecided"]
    /\ recorded = {}
    /\ answered = {}

Judge(f, verdict) ==
    /\ fate[f] = "undecided"
    /\ fate' = [fate EXCEPT ![f] = verdict]
    /\ UNCHANGED <<recorded, answered>>

Answer(f) ==
    /\ fate[f] \in Fate
    /\ f \notin answered
    /\ answered' = answered \cup {f}
    /\ UNCHANGED <<fate, recorded>>

RecordAndAnswer(f) ==
    /\ fate[f] \in Fate \ Unrecorded
    /\ f \notin answered \cup recorded
    /\ recorded' = recorded \cup {f}
    /\ answered' = answered \cup {f}
    /\ UNCHANGED fate

Next ==
    \E f \in Flow :
        \/ \E verdict \in Fate : Judge(f, verdict)
        \/ Answer(f)
        \/ RecordAndAnswer(f)

Spec == Init /\ [][Next]_gateVars
=============================================================================
