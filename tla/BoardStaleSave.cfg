SPECIFICATION Spec
CONSTANTS
    a1 = a1
    Members = {h1, a1}
    Users = {h1}
    Roles = {}
    Priorities = {0}
    NoMember = NoMember
    NoRole = NoRole
    BlankRole = blank
    Items = {i1}
    Requests = {q1, q2}
    Runners = {}
    AgentOf <- MCAgentOf
    Unregistered = Unregistered
    NoItem = NoItem
    Times = {1}
    Off = Off
    OneRequestPerUser = FALSE
    Failures = FALSE
SYMMETRY Interchangeable
PROPERTIES
    LifecycleForward
