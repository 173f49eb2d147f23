\* Three flows, two of them with the same request; two reports of one finding.
CONSTANTS
    f1 = f1
    f2 = f2
    f3 = f3
    r1 = r1
    r2 = r2
    getA = getA
    getB = getB
    secret = secret
    Nobody = Nobody
    Flow = {f1, f2, f3}
    Request = {getA, getB}
    RequestOf <- MCRequestOf
    Report = {r1, r2}
    Finding = {secret}
    FindingOf <- MCFindingOf
SPECIFICATION DBFairSpec
INVARIANT DBTypeOK
PROPERTIES
    NoDuplicateSaved
    FlaggedGoLast
    CallsEnd
