SPECIFICATION FairSpec
CONSTANTS
    Codes = {0, 7, 124, 125, 126, 127}
    TimeoutExitCode = 124
    NotYet = NotYet
    Rejected = Rejected
INVARIANTS
    AnswerIsTrue
PROPERTIES
    TimedRunsAnswer
    OverrunsAreStopped
\* The run was answered and its container is gone, or docker hangs.
CHECK_DEADLOCK FALSE
