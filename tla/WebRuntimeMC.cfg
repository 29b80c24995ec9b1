SPECIFICATION LiveSpec
CONSTANTS
    a = a
    b = b
    d = d
    anonymous = anonymous
    user = user
    oversized = oversized
    keyless = keyless
    None = None
    Calls = {a, b, d}
    Contexts = {anonymous, user, oversized, keyless}
    Acceptable = {anonymous, user, keyless}
    Keyed = {anonymous, user, oversized}
    ConfigOK = TRUE
INVARIANTS
    TypeOK
    FetchedReadsFollowContext
    LateCallsSendNothing
PROPERTIES
    KeepsCachePromise
    CallsReturn
