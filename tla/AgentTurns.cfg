SPECIFICATION FairAgents
CONSTANTS
    Callers = {r1, r2}
    Members = {bot, ann}
    Agents = {bot}
    Tasks = {reasoning}
    ProviderNames = {p1}
    NoRoute = NoRoute
    NoCall = NoCall
    Quota = 2
    MaxCost = 2
    MaxRestarts = 1
    Items = {i1, i2, i3}
    NoMember = NoMember
    Unpublished = Unpublished
    NoItem = NoItem
INVARIANTS
    AgentInv
    OvershootBounded
    SpendBounded
    RefusalsStand
    SpentOnOwnItems
    StrandedMeansRefused
PROPERTIES
    TurnsAreSettled
\* Every item is taken: nothing is left to do.
CHECK_DEADLOCK FALSE
