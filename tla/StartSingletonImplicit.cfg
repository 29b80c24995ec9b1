SPECIFICATION SafeSpec
CONSTANTS
    t1 = t1
    t2 = t2
    c1 = c1
    c2 = c2
    c3 = c3
    remoteA = remoteA
    remoteB = remoteB
    localA = localA
    k1 = k1
    idA = idA
    idB = idB
    sinkA = sinkA
    auth = auth
    net = net
    None = None
    NoClient = NoClient
    Threads = {t1, t2}
    Clients = {c1, c2}
    Cfgs = {remoteA, remoteB, localA}
    LocalCfgs = {localA}
    Options <- MCOptions
    EnvOptions <- MCEnvOptions
    Keys = {k1}
    PointsOf <- MCPointsOf
    Ids = {idA, idB}
    DerivedIds = {idB}
    RandomIds = {idB}
    Sinks = {sinkA}
    RemoteFailures = {auth, net}
PROPERTY NothingStartsImplicitlyAgain
