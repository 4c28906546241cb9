SPECIFICATION Spec
CONSTANTS
    Calls = {c1, c2}
    Members = {bot}
    Tools = {t1}
    Secrets = {s1, s2}
    Roles = {analyst}
    Relationships = {owner}
    Unclassified = Unclassified
    NoGate = NoGate
    Failures = TRUE
INVARIANTS
    OnlyPermittedExecutes
    CredentialsConfined
    LogTruthful
    AnswersAreLogged
\* Every call has ended and every member is registered.
CHECK_DEADLOCK FALSE
