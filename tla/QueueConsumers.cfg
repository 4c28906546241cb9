SPECIFICATION FairSpec
CONSTANTS
    Messages = {m1, m2}
    Queues = {qa, qb}
    Consumers = {c1, c2, c3}
    qa = qa
    qb = qb
    c3 = c3
    Serves <- TwoQueues
    NoMessage = NoMessage
    NoQueue = NoQueue
    Times = {1, 2}
    MaxAttempts = 3
INVARIANTS
    ExclusiveClaim
    AttemptsTellApart
PROPERTIES
    ImplementsJobQueue
    EveryMessageServed
\* Every message may be completed: nothing is left to do.
CHECK_DEADLOCK FALSE
