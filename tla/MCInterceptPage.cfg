CONSTANTS
    Flow = {f1, f2}
    AutoForward = {}
    Rewritten = {}
    Drafts = {e1}
    Parsed = {p1}
    Parse <- MCParse
    Foreign = foreign
    NoText = NoText
    NoFlow = NoFlow
    QueueSize = 1
    PerPage = 1
    ExternalEditor = FALSE
SYMMETRY Symmetry
SPECIFICATION Spec
INVARIANTS
    TypeOK
    BodyShowsWhatForwardSends
    EditsStayWithTheirFlow
PROPERTIES
    ArrivalOrderKept
    RequestEditsSent
    PageImplementsBroker
