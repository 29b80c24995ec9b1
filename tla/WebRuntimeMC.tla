---------------------------- MODULE WebRuntimeMC ----------------------------
EXTENDS WebRuntime, TLC
CONSTANTS a, b, d, anonymous, user, oversized, keyless
Symmetric == Permutations(Calls)
=============================================================================
