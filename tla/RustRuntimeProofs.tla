------------------------- MODULE RustRuntimeProofs --------------------------
(***************************************************************************)
(* Theorems about the Rust core runtime, for any number of threads and any *)
(* error kinds: its types; the closed adapter that lets no late call       *)
(* through, whatever initialises meanwhile; and, for a runtime initialised *)
(* before it is shared, the life Lifecycle promises.                       *)
(***************************************************************************)
EXTENDS RustRuntime, TLAPS

\* A thread that failed to initialise carries the error to record.
FailureCarried ==
    \A t \in Threads :
        pc[t] = "initFailed" => result[t] \in {"AlreadyClosed", "Configuration"}

\* A thread that may still send has tries left.
TriesLeft ==
    \A t \in Threads :
        /\ pc[t] \in {"gated", "checkClosed", "checkReady"} => tries[t] = 0
        /\ pc[t] = "send" => tries[t] \in 0..1

FatalHasError == state = "fatal" => initError # None

TypeInv == TypeOK /\ FailureCarried /\ TriesLeft /\ FatalHasError

\* The adapter's closed flag holds for good once the shutdown has returned,
\* and a late call never passes it.
ClosedHolds ==
    /\ down => closed
    /\ \A t \in Threads : pc[t] = "unready" => closed
    /\ \A t \in Threads : late[t] => down
    /\ \A t \in Threads : late[t] => pc[t] \notin {"checkReady", "send", "sent", "decide"}

-----------------------------------------------------------------------------
LEMMA TypeInit == Init => TypeInv
<1> SUFFICES ASSUME Init PROVE TypeInv
  OBVIOUS
<1>1. TypeOK
  <2>1. /\ state = "uninitialized" /\ initError = None
        /\ closed \in BOOLEAN /\ ready \in BOOLEAN /\ agent \in BOOLEAN /\ down \in BOOLEAN
    BY DEF Init
  <2>2. shared \in BOOLEAN /\ use \in {"sanctioned", "other"}
    BY DEF Init
  <2>3. /\ pc \in [Threads -> {"idle"}]
        /\ op \in [Threads -> {None}]
        /\ result \in [Threads -> {None}]
        /\ late \in [Threads -> BOOLEAN]
    BY DEF Init
  <2>4. tries \in [Threads -> 0..2]
    BY DEF Init
  <2> QED  BY <2>1, <2>2, <2>3, <2>4 DEF TypeOK
<1>2. FailureCarried /\ TriesLeft /\ FatalHasError
  BY DEF Init, FailureCarried, TriesLeft, FatalHasError
<1> QED  BY <1>1, <1>2 DEF TypeInv

LEMMA TypeNext == TypeInv /\ [Next]_vars => TypeInv'
<1> SUFFICES ASSUME TypeInv, [Next]_vars PROVE TypeInv'
  OBVIOUS
<1> USE DEF TypeInv, TypeOK, FailureCarried, TriesLeft, FatalHasError
<1>1. CASE UNCHANGED vars
  BY <1>1 DEF vars, runtime, adapter, call
<1>2. ASSUME NEW t \in Threads, Call(t) PROVE TypeInv'
  <2>1. CASE InitializeStart(t)
    BY <2>1 DEF InitializeStart, Begin, Go, adapter
  <2>2. CASE ShutdownStart(t)
    BY <2>2 DEF ShutdownStart, Begin, Go, AfterShutdown, adapter
  <2>3. ASSUME NEW o \in {"evaluate", "register"}, CallStart(t, o) PROVE TypeInv'
    BY <2>3 DEF CallStart, Begin, Go, runtime, adapter
  <2>4. CASE MarkStale(t)
    BY <2>4 DEF MarkStale, adapter, call
  <2> QED  BY <1>2, <2>1, <2>2, <2>3, <2>4 DEF Call
<1>3. ASSUME NEW t \in Threads, Step(t) PROVE TypeInv'
  <2>1. CASE AdapterCheck(t)
    <3>1. CASE ~closed /\ ValidConfig
      BY <2>1, <3>1 DEF AdapterCheck, Proceed, Go, runtime
    <3>2. CASE closed \/ ~ValidConfig
      <4> DEFINE error == IF closed THEN "AlreadyClosed" ELSE "Configuration"
      <4>1. /\ pc' = [pc EXCEPT ![t] = "initFailed"]
            /\ result' = [result EXCEPT ![t] = error]
            /\ error \in {"AlreadyClosed", "Configuration"}
            /\ UNCHANGED <<runtime, adapter, op, tries, late, use, shared, down>>
        BY <2>1, <3>2 DEF AdapterCheck, Go, adapter
      <4>2. TypeOK'
        BY <4>1 DEF Results, runtime, adapter
      <4>3. FailureCarried' /\ TriesLeft' /\ FatalHasError'
        BY <4>1 DEF runtime
      <4> QED  BY <4>2, <4>3
    <3> QED  BY <3>1, <3>2
  <2>2. CASE AdapterReady(t)
    BY <2>2 DEF AdapterReady, Proceed, Go, runtime
  <2>3. CASE InitializeDone(t)
    BY <2>3 DEF InitializeDone, Return, Go, Results, adapter
  <2>4. CASE InitializeFailed(t)
    BY <2>4, KindsAssumption DEF InitializeFailed, Proceed, Go, adapter
  <2>5. CASE AdapterClose(t)
    BY <2>5 DEF AdapterClose, Proceed, Go, runtime
  <2>6. CASE AdapterUnready(t)
    BY <2>6 DEF AdapterUnready, Proceed, Go, runtime
  <2>7. CASE Gate(t)
    <3>1. LifecycleError \in Results \cup {None}
      BY DEF LifecycleError, Results
    <3> QED  BY <2>7, <3>1 DEF Gate, Return, Proceed, Go, runtime, adapter
  <2>8. CASE CheckClosed(t)
    BY <2>8 DEF CheckClosed, Return, Proceed, Go, Results, runtime, adapter
  <2>9. CASE CheckReady(t)
    BY <2>9 DEF CheckReady, Return, Proceed, Go, Results, runtime, adapter
  <2>10. CASE Send(t)
    BY <2>10 DEF Send, Return, Go, Results, runtime, adapter
  <2>11. ASSUME NEW kind \in Kinds \cup {"ok"}, Answer(t, kind) PROVE TypeInv'
    <3>1. kind \in Results
      BY DEF Results
    <3> QED  BY <2>11, <3>1 DEF Answer, MayRetry, Return, Proceed, Go, runtime, adapter
  <2>12. CASE Decide(t)
    BY <2>12 DEF Decide, Return, Go, Results, runtime, adapter
  <2> QED  BY <1>3, <2>1, <2>2, <2>3, <2>4, <2>5, <2>6, <2>7, <2>8, <2>9, <2>10,
              <2>11, <2>12 DEF Step
<1> QED  BY <1>1, <1>2, <1>3 DEF Next

LEMMA TypeInvariant == SafeSpec => []TypeInv
BY TypeInit, TypeNext, PTL DEF SafeSpec

\* The runtime, the adapter and each thread keep their types; no call sends
\* more than two requests.
THEOREM TypeCorrect == SafeSpec => []TypeOK
<1>1. TypeInv => TypeOK
  BY DEF TypeInv
<1> QED  BY <1>1, TypeInvariant, PTL

-----------------------------------------------------------------------------
LEMMA ClosedInit == Init => ClosedHolds
BY DEF Init, ClosedHolds

LEMMA ClosedNext == TypeOK /\ ClosedHolds /\ [Next]_vars => ClosedHolds'
<1> SUFFICES ASSUME TypeOK, ClosedHolds, [Next]_vars PROVE ClosedHolds'
  OBVIOUS
<1> USE DEF TypeOK, ClosedHolds
<1>1. CASE UNCHANGED vars
  BY <1>1 DEF vars, adapter, call
<1>2. ASSUME NEW t \in Threads, Call(t) PROVE ClosedHolds'
  BY <1>2 DEF Call, InitializeStart, ShutdownStart, AfterShutdown, CallStart, MarkStale,
     Begin, Go, adapter, call
<1>3. ASSUME NEW t \in Threads, Step(t) PROVE ClosedHolds'
  <2>1. CASE AdapterCheck(t) \/ AdapterReady(t) \/ InitializeDone(t) \/ InitializeFailed(t)
    BY <2>1 DEF AdapterCheck, AdapterReady, InitializeDone, InitializeFailed, Return,
       Proceed, Go, adapter
  <2>2. CASE AdapterClose(t) \/ AdapterUnready(t)
    BY <2>2 DEF AdapterClose, AdapterUnready, Proceed, Go
  <2>3. CASE Gate(t) \/ CheckClosed(t)
    BY <2>3 DEF Gate, CheckClosed, Return, Proceed, Go, adapter
  <2>4. CASE CheckReady(t) \/ Send(t) \/ Decide(t)
    BY <2>4 DEF CheckReady, Send, Decide, Return, Proceed, Go, adapter
  <2>5. CASE \E kind \in Kinds \cup {"ok"} : Answer(t, kind)
    BY <2>5 DEF Answer, Return, Proceed, Go, adapter
  <2> QED  BY <1>3, <2>1, <2>2, <2>3, <2>4, <2>5 DEF Step
<1> QED  BY <1>1, <1>2, <1>3 DEF Next

\* No call that begins after a shutdown has returned reaches fw-server, on
\* any number of threads and with any initialize still in flight.
THEOREM LateCallsNeverSend == SafeSpec => []LateCallsSendNothing
<1>1. ClosedHolds => LateCallsSendNothing
  BY DEF ClosedHolds, LateCallsSendNothing
<1>2. SafeSpec => []ClosedHolds
  BY ClosedInit, ClosedNext, TypeCorrect, PTL DEF SafeSpec
<1> QED  BY <1>1, <1>2, PTL

-----------------------------------------------------------------------------
(* A runtime that is initialised before any thread has it, and no stale    *)
(* hook: one initialisation runs at a time and none after the hand-over,   *)
(* so nothing overwrites the state a shutdown leaves.                      *)

InitPcs == {"adapterCheck", "adapterReady", "initDone", "initFailed"}

HandOver ==
    /\ ~shared => state \in {"uninitialized", "initializing", "fatal"}
    /\ shared => state \in {"ready", "shutdown"}
    /\ \A t \in Threads : ~shared => pc[t] \in InitPcs \cup {"idle"}
    /\ \A t \in Threads : pc[t] \in InitPcs => ~shared /\ state = "initializing"
    /\ \A t, u \in Threads : ~shared /\ pc[t] # "idle" /\ pc[u] # "idle" => t = u
    /\ \A t \in Threads :
           pc[t] \in {"close", "unready"} => state = "shutdown" /\ op[t] = "shutdown"
    /\ down => state = "shutdown"

\* A late call is on its way to AlreadyClosed, or has been told.
LateOnTheWay ==
    \A t \in Threads :
        /\ late[t] => down
        /\ late[t] => pc[t] \notin {"checkClosed", "checkReady", "send", "sent", "decide"}

LateInv == use = "sanctioned" => HandOver /\ LateOnTheWay /\ LateCallsAlreadyClosed

LEMMA UseKept == [Next]_vars => UNCHANGED use
<1>1. ASSUME NEW t \in Threads, Call(t) PROVE UNCHANGED use
  BY <1>1 DEF Call, InitializeStart, ShutdownStart, CallStart, MarkStale
<1>2. ASSUME NEW t \in Threads, Step(t) PROVE UNCHANGED use
  BY <1>2 DEF Step, AdapterCheck, AdapterReady, InitializeDone, InitializeFailed,
     AdapterClose, AdapterUnready, Gate, CheckClosed, CheckReady, Send, Answer, Decide
<1> QED  BY <1>1, <1>2 DEF Next, vars

LEMMA LateInit == Init => LateInv
BY DEF Init, LateInv, HandOver, InitPcs, LateOnTheWay, LateCallsAlreadyClosed

LEMMA HandOverNext ==
    ASSUME use = "sanctioned", TypeOK, HandOver, [Next]_vars
    PROVE  HandOver'
<1> USE DEF TypeOK, HandOver, InitPcs
<1>1. CASE UNCHANGED vars
  BY <1>1 DEF vars, runtime, call
<1>2. ASSUME NEW t \in Threads, Call(t) PROVE HandOver'
  <2>1. CASE InitializeStart(t)
    BY <2>1 DEF InitializeStart, MayInitialize, Begin, Go
  <2>2. CASE ShutdownStart(t)
    BY <2>2 DEF ShutdownStart, AfterShutdown, Begin, Go
  <2>3. CASE \E o \in {"evaluate", "register"} : CallStart(t, o)
    BY <2>3 DEF CallStart, Begin, Go, runtime
  <2> QED  BY <1>2, <2>1, <2>2, <2>3 DEF Call, MarkStale
<1>3. ASSUME NEW t \in Threads, Step(t) PROVE HandOver'
  <2>1. CASE AdapterCheck(t) \/ AdapterReady(t)
    BY <2>1 DEF AdapterCheck, AdapterReady, Proceed, Go, runtime
  <2>2. CASE InitializeDone(t) \/ InitializeFailed(t)
    BY <2>2 DEF InitializeDone, InitializeFailed, Return, Proceed, Go
  <2>3. CASE AdapterClose(t) \/ AdapterUnready(t)
    BY <2>3 DEF AdapterClose, AdapterUnready, Proceed, Go, runtime
  <2>4. CASE Gate(t) \/ CheckClosed(t) \/ CheckReady(t)
    BY <2>4 DEF Gate, CheckClosed, CheckReady, Return, Proceed, Go, runtime
  <2>5. CASE Send(t) \/ Decide(t) \/ \E kind \in Kinds \cup {"ok"} : Answer(t, kind)
    BY <2>5 DEF Send, Decide, Answer, Return, Proceed, Go, runtime
  <2> QED  BY <1>3, <2>1, <2>2, <2>3, <2>4, <2>5 DEF Step
<1> QED  BY <1>1, <1>2, <1>3 DEF Next

LEMMA LateNext ==
    ASSUME use = "sanctioned", TypeOK, LateInv, [Next]_vars
    PROVE  LateOnTheWay' /\ LateCallsAlreadyClosed'
<1> USE DEF TypeOK, LateInv, HandOver, LateOnTheWay, LateCallsAlreadyClosed
<1>1. CASE UNCHANGED vars
  BY <1>1 DEF vars, call
<1>2. ASSUME NEW t \in Threads, Call(t)
      PROVE  LateOnTheWay' /\ LateCallsAlreadyClosed'
  BY <1>2 DEF Call, InitializeStart, ShutdownStart, AfterShutdown, CallStart, MarkStale,
     Begin, Go
<1>3. ASSUME NEW t \in Threads, Step(t)
      PROVE  LateOnTheWay' /\ LateCallsAlreadyClosed'
  <2>1. CASE AdapterCheck(t) \/ AdapterReady(t) \/ InitializeDone(t) \/ InitializeFailed(t)
    BY <2>1 DEF AdapterCheck, AdapterReady, InitializeDone, InitializeFailed, Return,
       Proceed, Go, InitPcs
  <2>2. CASE AdapterClose(t) \/ AdapterUnready(t)
    BY <2>2 DEF AdapterClose, AdapterUnready, Proceed, Go
  <2>3. CASE Gate(t)
    BY <2>3, KindsAssumption DEF Gate, LifecycleError, Return, Proceed, Go
  <2>4. CASE CheckClosed(t) \/ CheckReady(t) \/ Send(t) \/ Decide(t)
    BY <2>4 DEF CheckClosed, CheckReady, Send, Decide, Return, Proceed, Go
  <2>5. CASE \E kind \in Kinds \cup {"ok"} : Answer(t, kind)
    BY <2>5 DEF Answer, Return, Proceed, Go
  <2> QED  BY <1>3, <2>1, <2>2, <2>3, <2>4, <2>5 DEF Step
<1> QED  BY <1>1, <1>2, <1>3 DEF Next

LEMMA LateInvariant == SafeSpec => []LateInv
<1>1. Init => LateInv
  BY LateInit
<1>2. TypeOK /\ LateInv /\ [Next]_vars => LateInv'
  <2> SUFFICES ASSUME TypeOK, LateInv, [Next]_vars, use' = "sanctioned" PROVE LateInv'
    BY DEF LateInv
  <2>1. use = "sanctioned"
    BY UseKept
  <2>2. HandOver'
    BY <2>1, HandOverNext DEF LateInv
  <2>3. LateOnTheWay' /\ LateCallsAlreadyClosed'
    BY <2>1, LateNext
  <2> QED  BY <2>2, <2>3 DEF LateInv
<1> QED  BY <1>1, <1>2, TypeCorrect, PTL DEF SafeSpec

\* Every call that begins after a shutdown has returned is answered
\* AlreadyClosed.
THEOREM LateCallsAreTold == SafeSpec => []LateCallsAlreadyClosed
<1>1. LateInv => LateCallsAlreadyClosed
  BY DEF LateInv, LateCallsAlreadyClosed
<1> QED  BY <1>1, LateInvariant, PTL

LEMMA LifeStep ==
    ASSUME use = "sanctioned", UNCHANGED use, HandOver, TypeOK, [Next]_vars
    PROVE  [Life!Next]_Phase
<1> USE DEF TypeOK, HandOver, InitPcs
<1>1. CASE UNCHANGED state
  BY <1>1 DEF WireName, Phase
<1>2. ASSUME NEW t \in Threads, InitializeStart(t) PROVE [Life!Next]_Phase
  BY <1>2 DEF InitializeStart, MayInitialize, WireName, Phase, Life!Next, Life!Retried
<1>3. ASSUME NEW t \in Threads, ShutdownStart(t) PROVE [Life!Next]_Phase
  BY <1>3 DEF ShutdownStart, WireName, Phase, Life!Next, Life!Closed
<1>4. ASSUME NEW t \in Threads, InitializeDone(t) \/ InitializeFailed(t)
      PROVE  [Life!Next]_Phase
  BY <1>4 DEF InitializeDone, InitializeFailed, WireName, Phase, Life!Next, Life!Initialised
<1>5. ASSUME NEW t \in Threads, NEW o \in {"evaluate", "register"}, CallStart(t, o)
      PROVE  UNCHANGED state
  BY <1>5 DEF CallStart, runtime
<1>6. ASSUME NEW t \in Threads, Step(t), ~InitializeDone(t), ~InitializeFailed(t)
      PROVE  UNCHANGED state
  BY <1>6 DEF Step, AdapterCheck, AdapterReady, AdapterClose, AdapterUnready, Gate,
     CheckClosed, CheckReady, Send, Answer, Decide, runtime
<1> QED  BY <1>1, <1>2, <1>3, <1>4, <1>5, <1>6 DEF Next, Call, MarkStale, vars, runtime

\* A runtime initialised before it is shared is ready once and closed for
\* good: it implements Lifecycle.
THEOREM ImplementsLifecycle == SafeSpec => KeepsLifecycle
<1>1. Init => Life!Init
  BY DEF Init, Phase, WireName, Life!Init
<1>2. LateInv /\ TypeOK /\ [Next]_vars => [Life!Next]_Phase
  <2> SUFFICES ASSUME LateInv, TypeOK, [Next]_vars PROVE [Life!Next]_Phase
    OBVIOUS
  <2>1. UNCHANGED use
    BY UseKept
  <2>2. CASE use # "sanctioned"
    BY <2>1, <2>2 DEF Phase
  <2>3. CASE use = "sanctioned"
    BY <2>1, <2>3, LifeStep DEF LateInv, Phase
  <2> QED  BY <2>2, <2>3
<1> QED  BY <1>1, <1>2, LateInvariant, TypeCorrect, PTL DEF SafeSpec, KeepsLifecycle, Life!Spec
=============================================================================
