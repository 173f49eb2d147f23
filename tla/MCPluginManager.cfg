\* Two plugins, a request and a history entry, two keys.
CONSTANTS
    tool = tool
    other = other
    request = request
    entry = entry
    c1 = c1
    c2 = c2
    NoValue = NoValue
    Plugin = {tool, other}
    Order <- MCOrder
    Mode <- MCModeScopes
    Config = {c1, c2}
    Unparsable = {c2}
    Event = {request, entry}
    HookOf <- MCHookOf
    RunOnStart = RunOnStart
    RunOnQuit = RunOnQuit
    MaxPresses = 2
    MaxEvents = 1
SPECIFICATION FairSpec
INVARIANTS
    TypeOK
    PluginsFileAgrees
    SelfDisabledStaysOff
    ConfigApplied
    VerdictByPriority
PROPERTY HooksSettle
