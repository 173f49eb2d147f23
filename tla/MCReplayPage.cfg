\* Two entries, deletions, filters and keys that overtake messages.
CONSTANTS
    MaxEntries = 2
    Terms = {{}, {2}}
    Drafts = {}
    NoText = NoText
    NoResponse = NoResponse
    NoTerm = NoTerm
    PerPage = 1
    SwitchToPageOnSend = TRUE
    Deletions = TRUE
    Typeahead = TRUE
SPECIFICATION Spec
INVARIANTS
    TypeOK
    ListsAgree
PROPERTIES
    SelectionFollowsEntry
