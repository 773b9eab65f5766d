SPECIFICATION SafetySpec
CONSTANTS
    JobId = {j1, j2}
    Caller = {c1}
    Pid = {p1}
    Retention = 1
    Timeout = 2
    NoJob = NoJob
    NoPid = NoPid
    Nothing = Nothing
INVARIANT
    LateWaiterSeesDone
