\* One flow whose two sides may go through $EDITOR: a text can come back to
\* the other side of the flow.
CONSTANTS
    Flow = {f1}
    AutoForward = {}
    Rewritten = {w1}
    Drafts = {e1}
    Parsed = {p1}
    Parse <- MCParse
    Foreign = foreign
    NoText = NoText
    NoFlow = NoFlow
    QueueSize = 1
    PerPage = 1
    ExternalEditor = TRUE
SPECIFICATION FairSpec
PROPERTY InterceptOffReleases
