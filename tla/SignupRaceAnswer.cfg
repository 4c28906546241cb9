SPECIFICATION Spec
CONSTANTS
    Requests = {r1, r2}
    RouteIds = {}
    Emails = {ann}
    OtherRefs = {}
    NoMember = NoMember
    NoRef = NoRef
INVARIANTS
    RaceIsReported
\* Every request has been answered: nothing is left to do.
CHECK_DEADLOCK FALSE
