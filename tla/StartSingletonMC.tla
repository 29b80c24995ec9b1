-------------------------- MODULE StartSingletonMC --------------------------
EXTENDS StartSingleton
CONSTANTS t1, t2, c1, c2, c3, remoteA, remoteB, localA, k1, idA, idB, sinkA, auth, net

opt(cfg, resolves, builds, id, sink) ==
    [cfg |-> cfg, resolves |-> resolves, builds |-> builds, id |-> id, log |-> sink]

MCOptions == {opt(remoteA, TRUE, TRUE, None, None),
              opt(remoteB, TRUE, TRUE, idA, sinkA),
              opt(remoteB, TRUE, FALSE, None, None),
              opt(localA, TRUE, TRUE, None, None),
              opt(localA, FALSE, TRUE, idA, None)}
MCEnvOptions == {opt(remoteA, TRUE, TRUE, None, None),
                 opt(localA, TRUE, TRUE, None, None),
                 opt(remoteB, FALSE, TRUE, None, None)}
MCPointsOf == [c \in {localA} |-> {}]
=============================================================================
