\* Every pair of texts of at most three lines.
CONSTANTS
    a = a
    b = b
    json = json
    open = open
    Token <- MCToken
    Raws <- MCRaws
    Typed <- MCTyped
    Open = open
    PrettyPrint = TRUE
    Heights = {2, 3}
SPECIFICATION Spec
INVARIANTS
    TypeOK
    PanelsShowTheirSlots
    FewestChanges
    ChangesPaired
