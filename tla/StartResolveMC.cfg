SPECIFICATION Spec
CONSTANTS
    projectKey = projectKey
    foreignKey = foreignKey
    dev = dev
    production = production
    None = None
    ProjectKeys = {projectKey}
    ForeignKeys = {foreignKey}
    DevNames = {dev}
    OtherNames = {production}
    Urls <- MCUrls
    DefaultUrl <- MCDefaultUrl
INVARIANTS
    TypeOK
    FollowsPrecedence
    ResolvedIsAccepted
    WarnsOfWhatItUses
CHECK_DEADLOCK FALSE
