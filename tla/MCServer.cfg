SPECIFICATION ServerSpec
CONSTANTS
    Session = {s1, s2}
    Caller = {c1, c2}
    KeepAlive = 1
    Retention = 2
    Start = 2
    MaxTime = 4
    None = None
    Job = {j1, j2}
    JobRetention = 1
SYMMETRY Symmetry
INVARIANTS
    TypeOK
    ServerTypeOK
    GoneOnlyIfForgotten
    JobsOutliveSessions
PROPERTIES
    DeletedStaysForgotten
    NoJobWithoutExec
