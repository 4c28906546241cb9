SPECIFICATION FairAccounts
CONSTANTS
    Requests = {r1, r2}
    RouteIds = {m1}
    Emails = {ann, bob}
    OtherRefs = {oidc}
    NoMember = NoMember
    NoRef = NoRef
    Logins = {l1}
    Agents = {bot}
    Ttls = {0, 1, 2, NaN}
    NaN = NaN
    Hour = 1
    MaxClock = 2
    NoLogin = NoLogin
    NoKey = NoKey
INVARIANTS
    AccountsInv
    NoStrandedAddress
    RegisteredGetsIn
    SessionsAreOwned
    NothingOutlivesTheHour
PROPERTIES
    EmailGetsRegistered
\* Every request has been answered: nothing is left to do.
CHECK_DEADLOCK FALSE
