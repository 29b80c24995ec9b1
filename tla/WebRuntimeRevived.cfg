SPECIFICATION Spec
CONSTANTS
    a = a
    b = b
    d = d
    anonymous = anonymous
    user = user
    oversized = oversized
    keyless = keyless
    None = None
    Calls = {a, b}
    Contexts = {anonymous, user}
    Acceptable = {anonymous, user}
    Keyed = {anonymous, user}
    ConfigOK = TRUE
PROPERTIES
    ShutdownIsTerminal
