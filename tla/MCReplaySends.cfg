\* Two entries, edits, sends in goroutines of their own, no deletions.
CONSTANTS
    MaxEntries = 2
    Terms = {{}, {2}}
    Drafts = {d1}
    NoText = NoText
    NoResponse = NoResponse
    NoTerm = NoTerm
    PerPage = 1
    SwitchToPageOnSend = FALSE
    Deletions = FALSE
    Typeahead = FALSE
SPECIFICATION FairSpec
INVARIANTS
    ResponseOfOwnRequest
    EditsStayWithTheirEntry
PROPERTY AnsweredWhileWatched
