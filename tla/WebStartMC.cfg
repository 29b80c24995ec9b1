CONSTANTS
    a = a
    b = b
    x = x
    u = u
    None = None
    AppDevice = AppDevice
    Device = Device
    Calls = {a, b}
    Shutdowns = {x}
    Users = {u}
    Minted = {1, 2, 3, 4, 5, 6, 7, 8}
    Earlier <- EarlierPages
    Options <- PageOptions
    MaxStarts = 3
    MaxRegistrations = 1

SPECIFICATION Spec
CONSTRAINT Bounds
SYMMETRY Symmetric
CHECK_DEADLOCK FALSE

INVARIANTS
    TypeOK
    NoClientForgotten
    LastCallWins

PROPERTY
    MemoryStoresNothing
