--------------------------- MODULE RustRuntimeMC ----------------------------
EXTENDS RustRuntime
CONSTANTS t1, t2
=============================================================================
