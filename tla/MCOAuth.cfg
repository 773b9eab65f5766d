SPECIFICATION Spec
CONSTANTS
    Client = {a}
    Uri = {u1, u2}
    Verifier = {v1, v2}
    Code = {k1, k2}
    Token = {t1, t2}
    Caller = {c1, c2}
    CodeTtl = 1
    TokenTtl = 1
    MaxTime = 2
    None = None
SYMMETRY Symmetry
INVARIANTS
    TypeOK
    OneTokenPerCode
    TokenNeedsConsent
    TokenUntilExpiry
    AcceptedIsLive
PROPERTIES
    ImplementsGrants
