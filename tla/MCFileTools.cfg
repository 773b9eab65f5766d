SPECIFICATION Spec
CONSTANTS
    Call = {c1, c2}
    a = a
    b = b
    Byte = {a, b}
    Text <- MCText
    None = None
SYMMETRY Symmetry
INVARIANTS
    TypeOK
    SuccessIsWhole
    EditReplacesTheMatch
    NoRemains
