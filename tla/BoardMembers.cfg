SPECIFICATION Spec
CONSTANTS
    a1 = a1
    Members = {h1, a1}
    Users = {h1}
    Roles = {dev, blank}
    Priorities = {0}
    NoMember = NoMember
    NoRole = NoRole
    BlankRole = blank
    Items = {i1}
    Requests = {q1}
    Runners = {r1}
    AgentOf <- MCAgentOf
    Unregistered = Unregistered
    NoItem = NoItem
    Times = {1}
    Off = Off
    OneRequestPerUser = TRUE
    Failures = TRUE
SYMMETRY Interchangeable
INVARIANTS
    BoardInv
    WorkersDisjoint
    GatedClaim
    TrailInOrder
    NothingLeftOut
PROPERTIES
    LifecycleForward
    ImplementsSharedBoard
