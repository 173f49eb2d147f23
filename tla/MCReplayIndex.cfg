CONSTANTS
    MaxEntries = 2
    Terms = {{}, {2}}
    Drafts = {d1}
    NoText = NoText
    NoResponse = NoResponse
    NoTerm = NoTerm
    PerPage = 1
    SwitchToPageOnSend = FALSE
    Deletions = TRUE
    Typeahead = FALSE
SPECIFICATION Spec
INVARIANT ResponseOfOwnRequest
