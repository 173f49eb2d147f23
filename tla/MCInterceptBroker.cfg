\* Three flows, one of them auto-forwarded, channels of capacity 1.
CONSTANTS
    Flow = {f1, f2, f3}
    Ads = {f3}
    AutoForward <- MCAutoForward
    Edits = {e1}
    Rewritten = {}
    QueueSize = 1
    NoFlow = NoFlow
SPECIFICATION Spec
SYMMETRY Symmetry
INVARIANTS
    TypeOK
    NoFlowLost
    MarksReclaimed
