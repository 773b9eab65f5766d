SPECIFICATION Spec
CONSTANTS
    Session = {s1}
    Caller = {c1}
    KeepAlive = 2
    Retention = 3
    Start = 3
    MaxTime = 8
    None = None
INVARIANTS
    RevivableAfterUse
