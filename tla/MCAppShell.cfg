\* Two findings, two notifications, and a page from which requests are copied.
\* The person may stop, and the ticks end under an overlay: the program may
\* then rest for ever.
CONSTANTS
    MaxFindings = 2
    MaxLoads = 2
    PerPages = {1, 2}
    Page = {"Intercept", "Findings"}
    Copyable = {"Intercept"}
    MaxPresses = 4
    MaxNotices = 2
SPECIFICATION FairSpec
INVARIANT TypeOK
PROPERTIES
    FindingsReachTheUser
    NotificationsGo
CHECK_DEADLOCK FALSE
