SPECIFICATION SafetySpec
CONSTANTS
    JobId = {j1, j2}
    Caller = {c1, c2}
    Pid = {p1, p2}
    Retention = 2
    Timeout = 1
    NoJob = NoJob
    NoPid = NoPid
    Nothing = Nothing
SYMMETRY Symmetry
INVARIANTS
    TypeOK
    KnownIdResolves
    StoppedMeansDead
    DoneMeansEnded
PROPERTIES
    StraysOnlyAfterReap
    ImplementsLedger
