SPECIFICATION Spec
CONSTANTS
    t1 = t1
    t2 = t2
    None = None
    Threads = {t1, t2}
    Retryable = {"Network"}
    Terminal = {"Authentication"}
    ValidConfig = TRUE
INVARIANTS
    TypeOK
    LateCallsAlreadyClosed
    LateCallsSendNothing
PROPERTIES
    KeepsLifecycle
    CallsReturn
