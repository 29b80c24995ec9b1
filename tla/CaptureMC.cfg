SPECIFICATION LiveSpec
CONSTANTS
    a = a
    b = b
    d = d
    x = x
    y = y
    None = None
    Calls = {a, b, d}
    Exposures = {x, y}
    Limit = 2
INVARIANTS
    TypeOK
    EachOnce
    LeaveInOrder
    ShutdownSends
    ExposedOnce
PROPERTIES
    ShutdownReturns
CHECK_DEADLOCK FALSE
