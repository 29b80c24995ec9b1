CONSTANTS
    Threads = {t1}
    Backends = {"local", "memory", "remote"}
    PlainKeys = {"tier", "plan", "overlong"}
    HintKeys = {"$hint"}
    ForeignKeys = {"fireweave.flags"}
    ReservedKeys = {"tenant"}
    AttributeValues <- MCValues
    TargetingKeys = {"", "user", "org"}
    Bytes <- MCBytes
    Limits <- MCLimits
    JsonValues <- MCJson
    Keys <- MCKeys
    Calls <- MCCalls
    GlobalLayers <- MCGlobal
    ClientLayers <- MCClient
    Declarations <- MCDeclarations
    Fixtures <- MCFixtures
    Items <- MCItems
    RequestErrors = {"Network"}
    Targets <- MCTargets
    RequireTargetingKey = FALSE
    None = None

SPECIFICATION Spec

INVARIANTS
    TypeOK
    SentBodiesClean
    GroupsAgree
    LocalServesWhatWasDeclared

PROPERTY
    KeepsReturnDiscipline
