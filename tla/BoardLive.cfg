SPECIFICATION FairSpec
CONSTANTS
    a1 = a1
    Members = {h1, a1}
    Users = {h1}
    Roles = {}
    Priorities = {0, 1}
    NoMember = NoMember
    NoRole = NoRole
    BlankRole = blank
    Items = {i1, i2}
    Requests = {q1}
    Runners = {r1}
    AgentOf <- MCAgentOf
    Unregistered = Unregistered
    NoItem = NoItem
    Times = {1, 2}
    Off = Off
    OneRequestPerUser = FALSE
    Failures = FALSE
INVARIANTS
    AuditComplete
PROPERTIES
    NoOvertaking
    OpenWorkIsClaimed
    EffectsAreRecorded
