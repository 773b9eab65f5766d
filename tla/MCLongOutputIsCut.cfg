SPECIFICATION Spec
CONSTANTS
    a = a
    b = b
    w = w
    s = s
    Name <- MCName
    Root <- MCRoot
    MaxWalk = 12
    None = None
    Tree <- MCTree
    Change <- MCChange
    MaxChanges = 1
    Path <- MCPath
    Offset = {0, 1}
    Limit = {None, 0, 1, 3}
    Char = {a, b, w, s}
    Unreadable <- MCUnreadable
    Width <- MCWidth
    Blank = {s}
    Matching = {a}
    Ignored = {"i"}
    Overhead = 2
    MaxOutput = 12
INVARIANT
    LongOutputIsCut
CHECK_DEADLOCK FALSE
