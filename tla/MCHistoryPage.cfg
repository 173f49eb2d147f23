\* Two entries, a term that matches the older one, seven keys and two commands
\* under way.  The person may stop, and the ticks end under an overlay: the page
\* may then rest for ever.
CONSTANTS
    MaxEntries = 2
    MaxKeys = 7
    MaxJobs = 2
    Terms = {{1}}
    NoText = NoText
    PerPage = 1
SPECIFICATION FairSpec
INVARIANTS
    TypeOK
PROPERTIES
    SelectionFollowsEntry
    ShowsWhatIsAsked
CHECK_DEADLOCK FALSE
