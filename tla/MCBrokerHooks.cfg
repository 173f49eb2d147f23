\* Plugins that write to a flow at any time: one flow they may send to an
\* auto-forwarded target, and one they may send away from it.  The two compete
\* for one slot of each channel.
CONSTANTS
    Flow = {f1, f2}
    Ads = {f2}
    AutoForward <- MCAutoForward
    Edits = {e1}
    Rewritten = {w1}
    QueueSize = 1
    NoFlow = NoFlow
SPECIFICATION FairSpec
INVARIANT HistoryTruthful
PROPERTIES
    HeldTextsStay
    ImplementsGate
    EveryFlowFinishes
