---------------------------- MODULE RustRuntime -----------------------------
(***************************************************************************)
(* The Rust core runtime over its remote adapter                           *)
(* (sdks/rust/src/application/runtime.rs,                                  *)
(*  sdks/rust/src/infrastructure/adapters/remote.rs), shared by threads.   *)
(*                                                                         *)
(* The runtime's lifecycle is guarded by one mutex that is never held over *)
(* a call to the adapter; the adapter's own state is two atomics and a     *)
(* mutex around the HTTP agent, each read and written on its own. So       *)
(* initialize, shutdown, evaluate and register_target are each several     *)
(* steps, and this module interleaves them. Validation of the key, the     *)
(* default and the context, which comes before all of it and touches no    *)
(* state, is not repeated here.                                            *)
(***************************************************************************)
EXTENDS Naturals

CONSTANTS
    Threads,
    Retryable,     \* error kinds of a request that are worth one retry
    Terminal,      \* the others, an unknown control point among them
    ValidConfig,   \* url, key and host pass the adapter's own check
    None

ASSUME KindsAssumption ==
    /\ Retryable \cap Terminal = {}
    /\ {"NotReady", "AlreadyClosed", "Configuration", "InvalidContext", "ok", "stale", None}
         \cap (Retryable \cup Terminal) = {}
    /\ None \notin {"NotReady", "AlreadyClosed", "Configuration", "InvalidContext", "ok", "stale"}
ASSUME ConfigAssumption == ValidConfig \in BOOLEAN

Kinds == Retryable \cup Terminal
Results == Kinds \cup {"NotReady", "AlreadyClosed", "Configuration", "InvalidContext",
                       "ok", "stale"}

VARIABLES
    state, initError,      \* RuntimeInner
    closed, ready, agent,  \* FireweaveRemoteAdapter
    pc, op, tries,         \* each thread's call, and the requests it sent
    result,                \* what its last call answered
    \* chosen at first: "sanctioned" is how init_fireweave uses the runtime,
    \* initialised before any thread has it and never marked stale
    use,
    \* histories, the first read by guards: the runtime has been handed out; a
    \* shutdown has closed the adapter and returned; the call began after that
    shared, down, late

runtime == <<state, initError>>
adapter == <<closed, ready, agent>>
call    == <<pc, op, tries, result, late>>
vars    == <<runtime, adapter, call, use, shared, down>>

Init ==
    /\ state = "uninitialized"
    /\ initError = None
    /\ closed = FALSE
    /\ ready = FALSE
    /\ agent = FALSE
    /\ pc = [t \in Threads |-> "idle"]
    /\ op = [t \in Threads |-> None]
    /\ tries = [t \in Threads |-> 0]
    /\ result = [t \in Threads |-> None]
    /\ use \in {"sanctioned", "other"}
    /\ shared = (use # "sanctioned")
    /\ down = FALSE
    /\ late = [t \in Threads |-> FALSE]

-----------------------------------------------------------------------------
Go(t, next) == pc' = [pc EXCEPT ![t] = next]

\* A call begins: what the thread's last call answered is forgotten.
Begin(t, o, next) ==
    /\ pc[t] = "idle"
    /\ Go(t, next)
    /\ op' = [op EXCEPT ![t] = o]
    /\ tries' = [tries EXCEPT ![t] = 0]
    /\ result' = [result EXCEPT ![t] = None]
    /\ late' = [late EXCEPT ![t] = down]

Return(t, r) ==
    /\ Go(t, "idle")
    /\ result' = [result EXCEPT ![t] = r]
    /\ UNCHANGED <<op, tries, late>>

Proceed(t, next) == Go(t, next) /\ UNCHANGED <<op, tries, result, late>>

-----------------------------------------------------------------------------
(* initialize: mark, initialise the adapter without the lock, record.      *)

\* Mutant: initialising a ready runtime again is not a no-op.
MayInitializeAgain == state # "shutdown"

\* Ready is a no-op and shutdown an error, which both return at once;
\* everything else initialises.
MayInitialize == state \notin {"ready", "shutdown"}

InitializeStart(t) ==
    /\ shared \/ \A u \in Threads : pc[u] = "idle"
    /\ IF MayInitialize
         THEN Begin(t, "initialize", "adapterCheck") /\ state' = "initializing"
         ELSE Begin(t, "initialize", "idle") /\ UNCHANGED state
    /\ UNCHANGED <<initError, adapter, use, shared, down>>

\* The adapter refuses once closed, checks its configuration and builds its
\* HTTP agent ...
AdapterCheck(t) ==
    /\ pc[t] = "adapterCheck"
    /\ IF ~closed /\ ValidConfig
         THEN Proceed(t, "adapterReady") /\ agent' = TRUE
         ELSE /\ Go(t, "initFailed")
              /\ result' = [result EXCEPT ![t] = IF closed THEN "AlreadyClosed"
                                                          ELSE "Configuration"]
              /\ UNCHANGED <<op, tries, late, agent>>
    /\ UNCHANGED <<runtime, closed, ready, use, shared, down>>

\* ... and says it is ready, whatever has happened meanwhile.
AdapterReady(t) ==
    /\ pc[t] = "adapterReady"
    /\ ready' = TRUE
    /\ Proceed(t, "initDone")
    /\ UNCHANGED <<runtime, closed, agent, use, shared, down>>

\* The outcome is recorded over whatever state the runtime is in by now.
InitializeDone(t) ==
    /\ pc[t] = "initDone"
    /\ state' = "ready"
    /\ initError' = None
    /\ shared' = TRUE
    /\ Return(t, "ok")
    /\ UNCHANGED <<adapter, use, down>>

InitializeFailed(t) ==
    /\ pc[t] = "initFailed"
    /\ state' = "fatal"
    /\ initError' = result[t]
    /\ Proceed(t, "idle")
    /\ UNCHANGED <<adapter, use, shared, down>>

\* mark_stale: only a ready runtime goes stale.
MarkStale(t) ==
    /\ use # "sanctioned"
    /\ shared
    /\ pc[t] = "idle"
    /\ state = "ready"
    /\ state' = "stale"
    /\ UNCHANGED <<initError, adapter, call, use, shared, down>>

-----------------------------------------------------------------------------
(* shutdown: the first one closes the adapter, in two writes.              *)

AfterShutdown == IF state = "shutdown" THEN "idle" ELSE "close"

ShutdownStart(t) ==
    /\ shared
    /\ Begin(t, "shutdown", AfterShutdown)
    /\ state' = "shutdown"
    /\ UNCHANGED <<initError, adapter, use, shared, down>>

AdapterClose(t) ==
    /\ pc[t] = "close"
    /\ closed' = TRUE
    /\ Proceed(t, "unready")
    /\ UNCHANGED <<runtime, ready, agent, use, shared, down>>

AdapterUnready(t) ==
    /\ pc[t] = "unready"
    /\ ready' = FALSE
    /\ down' = TRUE
    /\ Proceed(t, "idle")
    /\ UNCHANGED <<runtime, closed, agent, use, shared>>

-----------------------------------------------------------------------------
(* evaluate and register_target: the lifecycle gate, the adapter's gates,  *)
(* the request, and for a registration one retry.                          *)

\* Mutant: a runtime that was shut down is one that is not ready.
LifecycleErrorWithoutClosed ==
    CASE state \in {"ready", "stale"} -> None
      [] state = "fatal" -> initError
      [] OTHER -> "NotReady"

\* lifecycle_error. A fatal runtime always has its error (InitializeFailed).
LifecycleError ==
    CASE state \in {"ready", "stale"} -> None
      [] state = "shutdown" -> "AlreadyClosed"
      [] state = "fatal" -> initError
      [] OTHER -> "NotReady"

CallStart(t, o) ==
    /\ shared
    /\ pc[t] = "idle"
    /\ Begin(t, o, "gated")
    /\ UNCHANGED <<runtime, adapter, use, shared, down>>

Gate(t) ==
    /\ pc[t] = "gated"
    /\ IF LifecycleError = None
         THEN Proceed(t, "checkClosed")
         ELSE Return(t, LifecycleError)
    /\ UNCHANGED <<runtime, adapter, use, shared, down>>

\* Mutant: only the ready flag is looked at.
CheckClosedSkipped(t) ==
    /\ pc[t] = "checkClosed"
    /\ Proceed(t, "checkReady")
    /\ UNCHANGED <<runtime, adapter, use, shared, down>>

CheckClosed(t) ==
    /\ pc[t] = "checkClosed"
    /\ IF closed
         THEN Return(t, "AlreadyClosed")
         ELSE Proceed(t, "checkReady")
    /\ UNCHANGED <<runtime, adapter, use, shared, down>>

\* Mutant: the call waits until the adapter is ready.
CheckReadyWaits(t) ==
    /\ pc[t] = "checkReady"
    /\ ready
    /\ Proceed(t, "send")
    /\ UNCHANGED <<runtime, adapter, use, shared, down>>

\* ready, then the targeting key, which the caller may have left out.
CheckReady(t) ==
    /\ pc[t] = "checkReady"
    /\ \/ ready /\ Proceed(t, "send")
       \/ ready /\ Return(t, "InvalidContext")
       \/ ~ready /\ Return(t, "NotReady")
    /\ UNCHANGED <<runtime, adapter, use, shared, down>>

Send(t) ==
    /\ pc[t] = "send"
    /\ IF agent
         THEN /\ Go(t, "sent")
              /\ tries' = [tries EXCEPT ![t] = @ + 1]
              /\ UNCHANGED <<op, result, late>>
         ELSE Return(t, "NotReady")
    /\ UNCHANGED <<runtime, adapter, use, shared, down>>

\* Mutant: a registration is tried until it succeeds, three times at most.
MayRetryThrice(t, kind) == op[t] = "register" /\ kind \in Retryable /\ tries[t] < 3

\* A registration is retried once, and only for a kind that may pass.
MayRetry(t, kind) == op[t] = "register" /\ kind \in Retryable /\ tries[t] < 2

\* fw-server answers; a read that got its control point builds a decision.
Answer(t, kind) ==
    /\ pc[t] = "sent"
    /\ CASE kind = "ok" /\ op[t] = "evaluate" -> Proceed(t, "decide")
         [] MayRetry(t, kind) -> Proceed(t, "send")
         [] OTHER -> Return(t, kind)
    /\ UNCHANGED <<runtime, adapter, use, shared, down>>

\* decision_from_resolution reads the lifecycle again, after the request.
Decide(t) ==
    /\ pc[t] = "decide"
    /\ Return(t, IF state = "stale" THEN "stale" ELSE "ok")
    /\ UNCHANGED <<runtime, adapter, use, shared, down>>

-----------------------------------------------------------------------------
\* The steps of a call that has begun.
Step(t) ==
    \/ AdapterCheck(t)
    \/ AdapterReady(t)
    \/ InitializeDone(t)
    \/ InitializeFailed(t)
    \/ AdapterClose(t)
    \/ AdapterUnready(t)
    \/ Gate(t)
    \/ CheckClosed(t)
    \/ CheckReady(t)
    \/ Send(t)
    \/ \E kind \in Kinds \cup {"ok"} : Answer(t, kind)
    \/ Decide(t)

Call(t) ==
    \/ InitializeStart(t)
    \/ ShutdownStart(t)
    \/ \E o \in {"evaluate", "register"} : CallStart(t, o)
    \/ MarkStale(t)

Next == \E t \in Threads : Call(t) \/ Step(t)

SafeSpec == Init /\ [][Next]_vars

\* A call that has begun goes on; requests end, in a timeout if need be.
Spec == SafeSpec /\ \A t \in Threads : WF_vars(Step(t))

-----------------------------------------------------------------------------
TypeOK ==
    /\ state \in {"uninitialized", "initializing", "ready", "stale", "fatal", "shutdown"}
    /\ initError \in {"AlreadyClosed", "Configuration", None}
    /\ closed \in BOOLEAN /\ ready \in BOOLEAN /\ agent \in BOOLEAN
    /\ pc \in [Threads -> {"idle", "adapterCheck", "adapterReady", "initDone", "initFailed",
                           "close", "unready", "gated", "checkClosed", "checkReady",
                           "send", "sent", "decide"}]
    /\ op \in [Threads -> {"initialize", "shutdown", "evaluate", "register", None}]
    /\ tries \in [Threads -> 0..2]
    /\ result \in [Threads -> Results \cup {None}]
    /\ use \in {"sanctioned", "other"} /\ shared \in BOOLEAN /\ down \in BOOLEAN
    /\ late \in [Threads -> BOOLEAN]

\* A call that begins after a shutdown has returned is told so, and not that
\* the runtime is not ready or what its backend said. (lifecycle_error, resolve)
LateCallsAlreadyClosed ==
    use = "sanctioned" => \A t \in Threads :
        late[t] /\ pc[t] = "idle" /\ op[t] \in {"evaluate", "register"} =>
            result[t] = "AlreadyClosed"

\* A call that begins after a shutdown has closed the adapter sends nothing,
\* even when an initialize in flight has made the runtime and the adapter
\* ready again since. (the adapter's closed flag is read first, and never reset)
LateCallsSendNothing ==
    \A t \in Threads : late[t] => pc[t] # "sent"

\* Every call returns, whatever shuts the runtime down meanwhile.
CallsReturn == \A t \in Threads : pc[t] # "idle" ~> pc[t] = "idle"

\* The runtime's state by its provider-state name (wire_name).
WireName == CASE state \in {"uninitialized", "initializing"} -> "NOT_READY"
              [] state = "ready" -> "READY"
              [] state = "stale" -> "STALE"
              [] state = "fatal" -> "FATAL"
              [] OTHER -> "CLOSED"

\* Of a runtime that threads get before it is initialised, or that a test
\* marks stale, Lifecycle says nothing.
Phase == IF use = "sanctioned" THEN WireName ELSE "NOT_READY"

Life == INSTANCE Lifecycle WITH phase <- Phase

\* Initialised before it is shared, the runtime keeps to Lifecycle: ready
\* once, closed once and for good. (wire_name, initialize, shutdown)
KeepsLifecycle == Life!Spec
=============================================================================
