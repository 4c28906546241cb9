SPECIFICATION Spec
CONSTANTS
    Calls = {c1}
    Members = {bot}
    Tools = {t1}
    Secrets = {s1}
    Roles = {analyst}
    Relationships = {owner}
    Unclassified = Unclassified
    NoGate = NoGate
    Failures = FALSE
INVARIANTS
    ExecutionsAreLogged
\* Every call has ended and every member is registered.
CHECK_DEADLOCK FALSE
