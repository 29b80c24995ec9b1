-------------------------- MODULE WebRuntimeProofs --------------------------
(***************************************************************************)
(* Theorems about the web runtime, for any calls and contexts: its types,  *)
(* the last good decisions, and the silence of calls begun after shutdown, *)
(* however calls overlap; and, when calls that prefetch are awaited one by *)
(* one and shutdown with respect to them, that reads follow the context    *)
(* and the runtime keeps PrefetchCache's promise.                          *)
(***************************************************************************)
EXTENDS WebRuntime, TLAPS

\* A prefetch under way carries a context, and a runtime that is READY has
\* decisions.
Carried ==
    /\ \A c \in Calls : pc[c] = "fetching" => asked[c] \in Contexts
    /\ state = "READY" => cache \in Contexts

TypeInv == TypeOK /\ Carried

\* Once a shutdown has returned, or is past the adapter's, the adapter is
\* closed for good; a late call is nowhere near a request.
ClosedHolds ==
    /\ down => closed
    /\ \A c \in Calls : pc[c] = "adapterClosed" => closed
    /\ \A c \in Calls : late[c] => closed /\ sent[c] = 0
    /\ \A c \in Calls : late[c] => pc[c] \notin {"fetching", "registering"}

\* Awaited calls: one prefetching call at most, none while a shutdown runs or
\* after it, and what it carries is the context. Between them READY decisions
\* are those of the context.
OneAtATime ==
    /\ \A c, e \in Calls : pc[c] \in Fetching /\ pc[e] \in Fetching => c = e
    /\ \A c, e \in Calls : ~(pc[c] \in Fetching /\ pc[e] \in Closing)
    /\ \A c \in Calls : pc[c] \in Fetching => state # "SHUTDOWN"
    /\ \A c \in Calls : pc[c] = "fetching" => asked[c] = context
    /\ (\A c \in Calls : pc[c] \notin Fetching) =>
          (state = "READY" => cache = context)

-----------------------------------------------------------------------------
LEMMA TypeInit == Init => TypeInv
<1> SUFFICES ASSUME Init PROVE TypeInv
  OBVIOUS
<1>1. /\ state = "UNINITIALIZED" /\ context \in Contexts /\ cache = None
      /\ ready = FALSE /\ closed = FALSE /\ down = FALSE
      /\ awaited \in BOOLEAN
  BY DEF Init
<1>2. /\ pc = [c \in Calls |-> "idle"] /\ asked = [c \in Calls |-> None]
      /\ sent = [c \in Calls |-> 0] /\ late = [c \in Calls |-> FALSE]
  BY DEF Init
<1>3. TypeOK
  <2>1. pc \in [Calls -> {"idle"}] /\ asked \in [Calls -> {None}]
    BY <1>2
  <2>2. sent \in [Calls -> 0..2] /\ late \in [Calls -> BOOLEAN]
    BY <1>2
  <2> QED  BY <1>1, <2>1, <2>2 DEF TypeOK, States
<1>4. Carried
  BY <1>1, <1>2 DEF Carried
<1> QED  BY <1>3, <1>4 DEF TypeInv

\* What a stretch that begins or resumes a call does to the call.
LEMMA SuspendType ==
  ASSUME TypeOK, NEW c \in Calls,
         NEW next \in {"idle", "registering"} \cup Fetching \cup Closing,
         NEW ctx \in Contexts \cup {None}, Suspend(c, next, ctx)
  PROVE  /\ pc' \in [Calls -> {"idle", "registering"} \cup Fetching \cup Closing]
         /\ asked' \in [Calls -> Contexts \cup {None}]
         /\ sent' \in [Calls -> 0..2]
         /\ \A e \in Calls \ {c} : pc'[e] = pc[e] /\ asked'[e] = asked[e] /\ sent'[e] = sent[e]
         /\ pc'[c] = next
         /\ next = "fetching" => asked'[c] = ctx
         /\ sent'[c] = IF next \in {"fetching", "registering"} THEN 1 ELSE 0
<1>1. /\ pc' = [pc EXCEPT ![c] = next]
      /\ asked' = [asked EXCEPT ![c] = IF next = "fetching" THEN ctx ELSE None]
      /\ sent' = [sent EXCEPT ![c] = IF next \in {"fetching", "registering"} THEN 1 ELSE 0]
  BY DEF Suspend, Go
<1>2. /\ pc \in [Calls -> {"idle", "registering"} \cup Fetching \cup Closing]
      /\ asked \in [Calls -> Contexts \cup {None}]
      /\ sent \in [Calls -> 0..2]
  BY DEF TypeOK
<1> QED  BY <1>1, <1>2

LEMMA ProceedType ==
  ASSUME TypeOK, NEW c \in Calls,
         NEW next \in {"idle", "registering"} \cup Fetching \cup Closing, Proceed(c, next)
  PROVE  /\ pc' \in [Calls -> {"idle", "registering"} \cup Fetching \cup Closing]
         /\ \A e \in Calls \ {c} : pc'[e] = pc[e]
         /\ pc'[c] = next
         /\ asked' = asked /\ sent' = sent /\ late' = late
BY DEF Proceed, Go, TypeOK

LEMMA RefreshType ==
  ASSUME TypeOK, NEW ctx \in Contexts
  PROVE  /\ RefreshTo(ctx) \in {"idle", "fetching", "refused"}
         /\ RefreshState(ctx) \in {state, "ERROR"}
         /\ state = "SHUTDOWN" => RefreshState(ctx) = state
         /\ state = "SHUTDOWN" => RefreshTo(ctx) = "idle"
         /\ RefreshTo(ctx) = "idle" => RefreshState(ctx) # "READY"
         /\ RefreshTo(ctx) # "idle" => RefreshState(ctx) = state
         /\ RefreshTo(ctx) = "fetching" => ~closed
         /\ Carries(ctx) = ctx
BY DEF RefreshTo, RefreshState, AdapterSends, Carries, TypeOK, States

LEMMA TypeNext == TypeInv /\ [Next]_vars => TypeInv'
<1> SUFFICES ASSUME TypeInv, [Next]_vars PROVE TypeInv'
  OBVIOUS
<1>0. TypeOK /\ Carried /\ awaited' \in BOOLEAN
  BY DEF TypeInv, TypeOK, Next, vars
<1>1. CASE UNCHANGED vars
  BY <1>0, <1>1 DEF vars, runtime, adapter, call, TypeInv, TypeOK, Carried
<1>2. ASSUME NEW c \in Calls, InitializeStart(c) PROVE TypeInv'
  <2>1. PICK next \in {"idle", "initializing", "initFailed"} : Begin(c, next, None)
    BY <1>2 DEF InitializeStart
  <2>2. Suspend(c, next, None) /\ late' = [late EXCEPT ![c] = down]
    BY <2>1 DEF Begin
  <2>3. next # "fetching"
    BY <2>1
  <2>4. /\ state' \in {state, "INITIALIZING"} /\ context' \in Contexts /\ ready' \in BOOLEAN
        /\ UNCHANGED <<cache, closed, down>>
    BY <1>0, <1>2 DEF InitializeStart, TypeOK
  <2>5. TypeOK'
    BY <1>0, <2>2, <2>4, SuspendType DEF TypeOK, States, Fetching
  <2>6. Carried'
    BY <1>0, <2>2, <2>3, <2>4, SuspendType DEF Carried, Fetching
  <2> QED  BY <2>5, <2>6 DEF TypeInv
<1>3. ASSUME NEW c \in Calls, NEW ctx \in Contexts,
             Suspend(c, RefreshTo(ctx), Carries(ctx)), state' = RefreshState(ctx),
             context' = ctx, late' \in [Calls -> BOOLEAN],
             UNCHANGED <<cache, adapter, down>>
      PROVE TypeInv'
  <2>1. state' \in {state, "ERROR"}
    BY <1>0, <1>3, RefreshType
  <2>2. TypeOK'
    BY <1>0, <1>3, <2>1, RefreshType, SuspendType
       DEF TypeOK, States, Fetching, adapter
  <2>3. Carried'
    <3>1. Carries(ctx) = ctx /\ RefreshTo(ctx) \in {"idle", "fetching", "refused"}
      BY <1>0, RefreshType
    <3>2. /\ \A e \in Calls \ {c} : pc'[e] = pc[e] /\ asked'[e] = asked[e]
          /\ pc'[c] = RefreshTo(ctx) /\ (RefreshTo(ctx) = "fetching" => asked'[c] = ctx)
      BY <1>0, <1>3, <3>1, SuspendType DEF Fetching
    <3> QED  BY <1>0, <1>3, <2>1, <3>2 DEF Carried
  <2> QED  BY <2>2, <2>3 DEF TypeInv
<1>4. ASSUME NEW c \in Calls, InitializeRefresh(c) PROVE TypeInv'
  <2>1. context \in Contexts /\ late \in [Calls -> BOOLEAN]
    BY <1>0 DEF TypeOK
  <2> QED  BY <1>3, <1>4, <2>1 DEF InitializeRefresh
<1>5. ASSUME NEW c \in Calls, SetContext(c) PROVE TypeInv'
  <2>1. late \in [Calls -> BOOLEAN] /\ down \in BOOLEAN
    BY <1>0 DEF TypeOK
  <2> QED  BY <1>3, <1>5, <2>1 DEF SetContext, Begin
<1>6. ASSUME NEW c \in Calls, RefreshStart(c) PROVE TypeInv'
  <2>1. context \in Contexts /\ late \in [Calls -> BOOLEAN] /\ down \in BOOLEAN
    BY <1>0 DEF TypeOK
  <2> QED  BY <1>3, <1>6, <2>1 DEF RefreshStart, Begin
<1>7. ASSUME NEW c \in Calls, NEW next \in {"idle", "registering", "flushing"},
             Begin(c, next, None), UNCHANGED <<runtime, adapter, down>>
      PROVE TypeInv'
  <2>1. Suspend(c, next, None) /\ late' = [late EXCEPT ![c] = down]
    BY <1>7 DEF Begin
  <2>2. next # "fetching"
    BY <1>7
  <2>3. TypeOK'
    BY <1>0, <1>7, <2>1, SuspendType DEF TypeOK, Closing, runtime, adapter
  <2>4. Carried'
    BY <1>0, <1>7, <2>1, <2>2, SuspendType DEF Carried, Closing, runtime
  <2> QED  BY <2>3, <2>4 DEF TypeInv
<1>8. ASSUME NEW c \in Calls, Register(c) PROVE TypeInv'
  BY <1>7, <1>8 DEF Register
<1>9. ASSUME NEW c \in Calls, ShutdownStart(c) PROVE TypeInv'
  BY <1>7, <1>9 DEF ShutdownStart
<1>10. ASSUME NEW c \in Calls, Answer(c) PROVE TypeInv'
  <2>1. /\ pc[c] = "fetching" /\ cache' = asked[c] /\ state' = "READY" /\ Proceed(c, "idle")
        /\ UNCHANGED <<context, adapter, down>>
    BY <1>10 DEF Answer
  <2>2. cache' \in Contexts
    BY <1>0, <2>1 DEF Carried
  <2> QED  BY <1>0, <2>1, <2>2, ProceedType
           DEF TypeInv, TypeOK, Carried, States, adapter
<1>11. ASSUME NEW c \in Calls, RegisterRetry(c) PROVE TypeInv'
  BY <1>0, <1>11
     DEF RegisterRetry, MayRetry, TypeInv, TypeOK, Carried, runtime, adapter
<1>12. ASSUME NEW c \in Calls, Resume(c) PROVE TypeInv'
  <2>1. CASE InitializeFailed(c)
    BY <1>0, <2>1, ProceedType
       DEF InitializeFailed, TypeInv, TypeOK, Carried, States, adapter
  <2>2. CASE Fail(c)
    <3>1. /\ state' = "STALE" /\ cache' = cache /\ Proceed(c, "idle")
          /\ UNCHANGED <<context, adapter, down>>
      BY <2>2 DEF Fail, AfterMiss
    <3> QED  BY <1>0, <3>1, ProceedType DEF TypeInv, TypeOK, Carried, States, adapter
  <2>3. CASE Ceiling(c)
    BY <1>0, <2>3, ProceedType
       DEF Ceiling, AfterCeiling, TypeInv, TypeOK, Carried, States, adapter
  <2>4. ASSUME NEW next \in {"idle", "adapterFlushing", "adapterClosed"}, Proceed(c, next),
               closed' \in BOOLEAN, ready' \in BOOLEAN, UNCHANGED <<runtime, down>>
        PROVE TypeInv'
    BY <1>0, <2>4, ProceedType DEF TypeInv, TypeOK, Carried, Closing, runtime
  <2>5. CASE RegisterEnd(c)
    BY <1>0, <2>4, <2>5 DEF RegisterEnd, adapter, TypeOK
  <2>6. CASE Flushed(c)
    BY <1>0, <2>4, <2>6 DEF Flushed, adapter, TypeOK
  <2>7. CASE AdapterClose(c)
    BY <2>4, <2>7 DEF AdapterClose
  <2>8. CASE ShutdownDone(c)
    BY <1>0, <2>8, ProceedType
       DEF ShutdownDone, AfterShutdown, TypeInv, TypeOK, Carried, States, adapter
  <2> QED  BY <1>4, <1>12, <2>1, <2>2, <2>3, <2>5, <2>6, <2>7, <2>8 DEF Resume
<1> QED  BY <1>1, <1>2, <1>4, <1>5, <1>6, <1>8, <1>9, <1>10, <1>11, <1>12 DEF Next, Step

LEMMA TypeInvariant == Spec => []TypeInv
BY TypeInit, TypeNext, PTL DEF Spec

\* Every variable keeps its type; no call makes more than two requests.
THEOREM TypeCorrect == Spec => []TypeOK
<1>1. TypeInv => TypeOK
  BY DEF TypeInv
<1> QED  BY <1>1, TypeInvariant, PTL

\* A control point is called unknown only on a backend's word, however calls
\* overlap.
THEOREM MissesNeverBlameBlindly == Spec => []MissesAreTold
<1>1. TypeInv => MissesAreTold
  <2> SUFFICES ASSUME TypeInv, NEW r \in Reads, r.kind = "ControlPointNotFound"
               PROVE  cache # None
    BY DEF MissesAreTold
  <2>1. LifecycleError # "ControlPointNotFound"
    BY NoneAssumption DEF LifecycleError
  <2>2. LifecycleError = None
    BY <2>1 DEF Reads
  <2>3. state \in {"READY", "STALE"}
    BY <2>2, NoneAssumption DEF LifecycleError, TypeInv, TypeOK, States
  <2>4. state # "STALE"
    BY <2>2, NoneAssumption DEF Reads, MissKind
  <2> QED  BY <2>3, <2>4, ContextsAssumption DEF TypeInv, Carried
<1> QED  BY <1>1, TypeInvariant, PTL

\* Only shutdown drops decisions, however calls overlap.
THEOREM LastGoodIsKept == Spec => KeepsLastGood
<1>1. TypeInv /\ [Next]_vars =>
        [cache # None => cache' # None \/ state' = "SHUTDOWN"]_vars
  <2> SUFFICES ASSUME TypeInv, Next, cache # None
               PROVE  cache' # None \/ state' = "SHUTDOWN"
    OBVIOUS
  <2>1. ASSUME NEW c \in Calls, Answer(c) PROVE cache' # None
    BY <2>1, ContextsAssumption DEF Answer, TypeInv, Carried
  <2>2. ASSUME NEW c \in Calls, ShutdownDone(c) PROVE state' = "SHUTDOWN"
    BY <2>2 DEF ShutdownDone
  <2>3. ASSUME NEW c \in Calls,
               \/ InitializeStart(c) \/ SetContext(c) \/ RefreshStart(c)
               \/ Register(c) \/ ShutdownStart(c) \/ RegisterRetry(c)
               \/ InitializeFailed(c) \/ InitializeRefresh(c) \/ Fail(c) \/ Ceiling(c)
               \/ RegisterEnd(c) \/ Flushed(c) \/ AdapterClose(c)
        PROVE  cache' = cache
    BY <2>3 DEF InitializeStart, SetContext, RefreshStart, Register, ShutdownStart,
                RegisterRetry, InitializeFailed, InitializeRefresh, Fail, AfterMiss, Ceiling,
                RegisterEnd, Flushed, AdapterClose, runtime
  <2> QED  BY <2>1, <2>2, <2>3 DEF Next, Step, Resume
<1> QED  BY <1>1, TypeInvariant, PTL DEF Spec, KeepsLastGood

-----------------------------------------------------------------------------
LEMMA ClosedInit == Init => ClosedHolds
BY DEF Init, ClosedHolds

LEMMA ClosedNext == TypeOK /\ ClosedHolds /\ [Next]_vars => ClosedHolds'
<1> SUFFICES ASSUME TypeOK, ClosedHolds, [Next]_vars PROVE ClosedHolds'
  OBVIOUS
<1>0. /\ late \in [Calls -> BOOLEAN] /\ down \in BOOLEAN /\ closed \in BOOLEAN
  BY DEF TypeOK
<1>1. CASE UNCHANGED vars
  BY <1>1 DEF vars, adapter, call, ClosedHolds
\* A call that begins.
<1>2. ASSUME NEW c \in Calls, NEW next \in {"idle", "registering", "flushing"} \cup Fetching,
             NEW ctx \in Contexts \cup {None}, Begin(c, next, ctx),
             next \in {"fetching", "registering"} => ~closed,
             UNCHANGED <<closed, down>>
      PROVE ClosedHolds'
  <2>1. Suspend(c, next, ctx) /\ late' = [late EXCEPT ![c] = down]
    BY <1>2 DEF Begin
  <2>2. late' \in [Calls -> BOOLEAN] /\ late'[c] = down
        /\ \A e \in Calls \ {c} : late'[e] = late[e]
    BY <1>0, <2>1
  <2>3. next \in {"idle", "registering"} \cup Fetching \cup Closing
    BY <1>2 DEF Closing
  <2>4. next # "adapterClosed"
    BY <1>2 DEF Fetching
  <2> QED  BY <1>0, <1>2, <2>1, <2>2, <2>3, <2>4, SuspendType DEF ClosedHolds
\* A call that goes on without a request.
<1>3. ASSUME NEW c \in Calls, NEW next \in {"idle"} \cup Closing, Proceed(c, next),
             closed => closed', down' => closed', next = "adapterClosed" => closed'
      PROVE ClosedHolds'
  <2>1. next \in {"idle", "registering"} \cup Fetching \cup Closing
    BY <1>3
  <2>2. next \notin {"fetching", "registering"}
    BY <1>3 DEF Closing
  <2> QED  BY <1>0, <1>3, <2>1, <2>2, ProceedType DEF ClosedHolds
<1>4. ASSUME NEW c \in Calls, InitializeStart(c) PROVE ClosedHolds'
  <2>1. PICK next \in {"idle", "initializing", "initFailed"} : Begin(c, next, None)
    BY <1>4 DEF InitializeStart
  <2>2. UNCHANGED <<closed, down>>
    BY <1>4 DEF InitializeStart
  <2> QED  BY <1>2, <2>1, <2>2 DEF Fetching
<1>5. ASSUME NEW c \in Calls, SetContext(c) PROVE ClosedHolds'
  <2>1. PICK ctx \in Contexts : Begin(c, RefreshTo(ctx), Carries(ctx))
    BY <1>5 DEF SetContext
  <2>2. UNCHANGED <<closed, down>>
    BY <1>5 DEF SetContext, adapter
  <2> QED  BY <1>2, <2>1, <2>2, RefreshType DEF Fetching
<1>6. ASSUME NEW c \in Calls, RefreshStart(c) PROVE ClosedHolds'
  <2>1. context \in Contexts
    BY DEF TypeOK
  <2>2. Begin(c, RefreshTo(context), Carries(context)) /\ UNCHANGED <<closed, down>>
    BY <1>6 DEF RefreshStart, adapter
  <2> QED  BY <1>2, <2>1, <2>2, RefreshType DEF Fetching
<1>7. ASSUME NEW c \in Calls, Register(c) PROVE ClosedHolds'
  BY <1>2, <1>7 DEF Register, AdapterSends, adapter
<1>8. ASSUME NEW c \in Calls, ShutdownStart(c) PROVE ClosedHolds'
  BY <1>2, <1>8 DEF ShutdownStart, adapter
<1>9. ASSUME NEW c \in Calls, RegisterRetry(c) PROVE ClosedHolds'
  <2>1. ~late[c]
    BY <1>9 DEF RegisterRetry, ClosedHolds
  <2>2. /\ sent' = [sent EXCEPT ![c] = @ + 1]
        /\ UNCHANGED <<closed, pc, late, down>>
    BY <1>9 DEF RegisterRetry, adapter
  <2> QED  BY <2>1, <2>2 DEF ClosedHolds, TypeOK
<1>10. ASSUME NEW c \in Calls, InitializeRefresh(c) PROVE ClosedHolds'
  <2>1. context \in Contexts
    BY DEF TypeOK
  <2>2. /\ Suspend(c, RefreshTo(context), Carries(context))
        /\ UNCHANGED <<closed, late, down>>
    BY <1>10 DEF InitializeRefresh, adapter
  <2> QED  BY <2>1, <2>2, RefreshType, SuspendType DEF ClosedHolds, Fetching
<1>11. ASSUME NEW c \in Calls,
              \/ InitializeFailed(c) \/ Fail(c) \/ Ceiling(c) \/ Answer(c) \/ RegisterEnd(c)
       PROVE  ClosedHolds'
  <2>1. Proceed(c, "idle") /\ UNCHANGED <<closed, down>>
    BY <1>11 DEF InitializeFailed, Fail, Ceiling, Answer, RegisterEnd, adapter
  <2> QED  BY <1>3, <2>1 DEF ClosedHolds
<1>12. ASSUME NEW c \in Calls, Flushed(c) PROVE ClosedHolds'
  BY <1>3, <1>12 DEF Flushed, Closing, adapter, ClosedHolds
<1>13. ASSUME NEW c \in Calls, AdapterClose(c) PROVE ClosedHolds'
  BY <1>3, <1>13 DEF AdapterClose, Closing
<1>14. ASSUME NEW c \in Calls, ShutdownDone(c) PROVE ClosedHolds'
  <2>1. closed /\ closed' = closed /\ Proceed(c, "idle")
    BY <1>14 DEF ShutdownDone, ClosedHolds, adapter
  <2> QED  BY <1>3, <2>1
<1> QED  BY <1>1, <1>4, <1>5, <1>6, <1>7, <1>8, <1>9, <1>10, <1>11, <1>12, <1>13, <1>14
         DEF Next, Step, Resume

\* No call begun after a shutdown returned makes a request, however calls
\* overlap and whatever a prefetch over the shutdown made of the state.
THEOREM LateCallsAreSilent == Spec => []LateCallsSendNothing
<1>1. TypeInv => TypeOK
  BY DEF TypeInv
<1>2. ClosedHolds => LateCallsSendNothing
  BY DEF ClosedHolds, LateCallsSendNothing
<1> QED  BY <1>1, <1>2, ClosedInit, ClosedNext, TypeInvariant, PTL DEF Spec

-----------------------------------------------------------------------------
LEMMA AwaitedInit == Init => OneAtATime
BY DEF Init, OneAtATime, Fetching, Closing

\* What a step of awaited calls does to the promise: it wants another context,
\* fetches, loses its freshness, closes, or does nothing to it.
LEMMA CacheSteps ==
  ASSUME TypeOK, TypeOK', awaited, awaited',
         \/ state' # "READY" /\ cache' = cache /\ IsOpen' = IsOpen
         \/ state' = state /\ cache' = cache
         \/ state' = "READY" /\ state # "SHUTDOWN" /\ cache' = context /\ context' = context
         \/ state' = "SHUTDOWN" /\ cache' = None /\ context' = context
  PROVE  [Cache!Next]_(Cache!vars)
<1>1. CASE state' # "READY" /\ cache' = cache /\ IsOpen' = IsOpen
  BY <1>1 DEF TypeOK, Cache!Next, Cache!Want, Served, IsFresh, IsOpen
<1>2. CASE state' = state /\ cache' = cache
  BY <1>2 DEF TypeOK, Cache!Next, Cache!Want, Served, IsFresh, IsOpen
<1>3. CASE state' = "READY" /\ state # "SHUTDOWN" /\ cache' = context /\ context' = context
  BY <1>3 DEF Cache!Next, Cache!Fetched, Served, IsFresh, IsOpen
<1>4. CASE state' = "SHUTDOWN" /\ cache' = None /\ context' = context
  BY <1>4 DEF Cache!Next, Cache!Closed, Served, IsFresh, IsOpen
<1> QED  BY <1>1, <1>2, <1>3, <1>4

LEMMA AwaitedNext ==
  awaited /\ TypeInv /\ TypeInv' /\ OneAtATime /\ [Next]_vars
    => OneAtATime' /\ [Cache!Next]_(Cache!vars)
<1> SUFFICES ASSUME awaited, TypeInv, TypeInv', OneAtATime, [Next]_vars
             PROVE  OneAtATime' /\ [Cache!Next]_(Cache!vars)
  OBVIOUS
<1>0. TypeOK /\ Carried /\ TypeOK' /\ awaited /\ awaited'
  BY DEF TypeInv, Next, vars
<1>1. CASE UNCHANGED vars
  BY <1>0, <1>1, CacheSteps DEF vars, runtime, adapter, call, OneAtATime
\* A prefetching call that begins.
<1>2. ASSUME NEW c \in Calls, MayFetch(c), NEW next \in {"idle"} \cup Fetching,
             NEW ctx \in Contexts \cup {None}, Begin(c, next, ctx),
             next # "idle" => state' # "SHUTDOWN",
             next = "fetching" => ctx = context',
             next = "idle" => state' # "READY"
      PROVE OneAtATime'
  <2>1. Suspend(c, next, ctx)
    BY <1>2 DEF Begin
  <2>2. \A e \in Calls : pc[e] \notin Fetching \cup Closing
    BY <1>2 DEF MayFetch, Active
  <2>3. next \in {"idle", "registering"} \cup Fetching \cup Closing /\ next \notin Closing
    BY <1>2 DEF Fetching, Closing
  <2> QED  BY <1>0, <1>2, <2>1, <2>2, <2>3, SuspendType DEF OneAtATime, Fetching
\* A call that does not prefetch, begun or gone on.
<1>3. ASSUME NEW c \in Calls, pc[c] \notin Fetching, pc'[c] \notin Fetching,
             pc'[c] \in Closing => pc[c] \in Closing,
             \A e \in Calls \ {c} : pc'[e] = pc[e] /\ asked'[e] = asked[e],
             UNCHANGED runtime
      PROVE OneAtATime' /\ [Cache!Next]_(Cache!vars)
  <2>1. OneAtATime'
    BY <1>0, <1>3 DEF OneAtATime, runtime, Fetching
  <2> QED  BY <1>0, <1>3, <2>1, CacheSteps DEF runtime
\* The one prefetching call, coming to its end.
<1>4. ASSUME NEW c \in Calls, pc[c] \in Fetching, pc' = [pc EXCEPT ![c] = "idle"],
             asked' = [asked EXCEPT ![c] = asked'[c]], state' # "SHUTDOWN",
             state' = "READY" => cache' = context'
      PROVE OneAtATime'
  <2>1. \A e \in Calls : pc'[e] \notin Fetching
    BY <1>0, <1>4 DEF OneAtATime, TypeOK, Fetching
  <2> QED  BY <1>4, <2>1 DEF OneAtATime, Fetching
<1>5. ASSUME NEW c \in Calls, InitializeStart(c)
      PROVE OneAtATime' /\ [Cache!Next]_(Cache!vars)
  <2>1. CASE state = "SHUTDOWN"
    <3>1. OneAtATime'
      BY <1>2, <1>5, <2>1 DEF InitializeStart
    <3> QED  BY <1>0, <1>5, <2>1, <3>1, CacheSteps DEF InitializeStart
  <2>2. CASE state # "SHUTDOWN"
    <3>1. PICK next \in {"initializing", "initFailed"} : Begin(c, next, None)
      BY <1>5, <2>2 DEF InitializeStart
    <3>2. state' = "INITIALIZING" /\ cache' = cache
      BY <1>5, <2>2 DEF InitializeStart
    <3>3. OneAtATime'
      BY <1>2, <1>5, <3>1, <3>2 DEF InitializeStart, Fetching
    <3> QED  BY <1>0, <2>2, <3>2, <3>3, CacheSteps DEF IsOpen
  <2> QED  BY <2>1, <2>2
<1>6. ASSUME NEW c \in Calls, NEW ctx \in Contexts, MayFetch(c), context' = ctx,
             state' = RefreshState(ctx), Begin(c, RefreshTo(ctx), Carries(ctx)), cache' = cache
      PROVE OneAtATime' /\ [Cache!Next]_(Cache!vars)
  <2>1. OneAtATime'
    BY <1>0, <1>2, <1>6, RefreshType DEF Fetching
  <2>2. state' = state \/ (state' = "ERROR" /\ state # "SHUTDOWN")
    BY <1>0, <1>6, RefreshType
  <2> QED  BY <1>0, <1>6, <2>1, <2>2, CacheSteps DEF IsOpen
<1>7. ASSUME NEW c \in Calls, SetContext(c) PROVE OneAtATime' /\ [Cache!Next]_(Cache!vars)
  BY <1>6, <1>7 DEF SetContext
<1>8. ASSUME NEW c \in Calls, RefreshStart(c) PROVE OneAtATime' /\ [Cache!Next]_(Cache!vars)
  <2>1. context \in Contexts
    BY <1>0 DEF TypeOK
  <2> QED  BY <1>6, <1>8, <2>1 DEF RefreshStart
<1>9. ASSUME NEW c \in Calls, Register(c) PROVE OneAtATime' /\ [Cache!Next]_(Cache!vars)
  <2>1. PICK next \in {"idle", "registering"} : Suspend(c, next, None)
    BY <1>9 DEF Register, Begin
  <2> QED  BY <1>0, <1>3, <1>9, <2>1, SuspendType DEF Register, Fetching, Closing
<1>10. ASSUME NEW c \in Calls, ShutdownStart(c)
       PROVE OneAtATime' /\ [Cache!Next]_(Cache!vars)
  <2>1. PICK next \in {"idle", "flushing"} : Suspend(c, next, None)
    BY <1>10 DEF ShutdownStart, Begin
  <2>2. \A e \in Calls : pc[e] \notin Fetching
    BY <1>10 DEF ShutdownStart, Active
  <2>3. /\ \A e \in Calls \ {c} : pc'[e] = pc[e] /\ asked'[e] = asked[e]
        /\ pc'[c] = next
    BY <1>0, <2>1, SuspendType DEF Closing
  <2>4. UNCHANGED runtime
    BY <1>10 DEF ShutdownStart
  <2>5. \A e \in Calls : pc'[e] \notin Fetching
    BY <2>1, <2>2, <2>3 DEF Fetching
  <2>6. OneAtATime'
    BY <2>2, <2>4, <2>5 DEF OneAtATime, runtime, Fetching
  <2> QED  BY <1>0, <2>4, <2>6, CacheSteps DEF runtime
<1>11. ASSUME NEW c \in Calls, Answer(c) PROVE OneAtATime' /\ [Cache!Next]_(Cache!vars)
  <2>1. /\ pc[c] = "fetching" /\ cache' = asked[c] /\ state' = "READY"
        /\ pc' = [pc EXCEPT ![c] = "idle"] /\ asked' = asked /\ context' = context
    BY <1>11 DEF Answer, Proceed, Go
  <2>2. asked[c] = context /\ state # "SHUTDOWN"
    BY <2>1 DEF OneAtATime, Fetching
  <2>3. asked' = [asked EXCEPT ![c] = asked'[c]]
    BY <1>0, <2>1 DEF TypeOK
  <2>4. OneAtATime'
    BY <1>4, <2>1, <2>2, <2>3 DEF Fetching
  <2> QED  BY <1>0, <2>1, <2>2, <2>4, CacheSteps
<1>12. ASSUME NEW c \in Calls, InitializeFailed(c) \/ Fail(c) \/ Ceiling(c)
       PROVE OneAtATime' /\ [Cache!Next]_(Cache!vars)
  <2>1. /\ pc[c] \in Fetching /\ state' \in {"ERROR", "STALE"} /\ cache' = cache
        /\ pc' = [pc EXCEPT ![c] = "idle"] /\ asked' = asked
    BY <1>12 DEF InitializeFailed, Fail, AfterMiss, Ceiling, CeilingArmed, AfterCeiling,
                 Proceed, Go, Fetching
  <2>2. asked' = [asked EXCEPT ![c] = asked'[c]]
    BY <1>0, <2>1 DEF TypeOK
  <2>3. OneAtATime'
    BY <1>4, <2>1, <2>2
  <2>4. state # "SHUTDOWN"
    BY <2>1 DEF OneAtATime
  <2> QED  BY <1>0, <2>1, <2>3, <2>4, CacheSteps DEF IsOpen
<1>13. ASSUME NEW c \in Calls, InitializeRefresh(c)
       PROVE OneAtATime' /\ [Cache!Next]_(Cache!vars)
  <2>1. /\ pc[c] = "initializing" /\ state' = RefreshState(context) /\ cache' = cache
        /\ Suspend(c, RefreshTo(context), Carries(context)) /\ context' = context
        /\ context \in Contexts
    BY <1>0, <1>13 DEF InitializeRefresh, TypeOK
  <2>2. state # "SHUTDOWN" /\ (state' = state \/ state' = "ERROR")
    BY <1>0, <2>1, RefreshType DEF OneAtATime, Fetching
  <2>3. \A e \in Calls \ {c} : pc[e] \notin Fetching
    BY <2>1 DEF OneAtATime, Fetching
  <2>4. \A e \in Calls : pc[e] \notin Closing
    BY <2>1 DEF OneAtATime, Fetching
  <2>5. /\ \A e \in Calls \ {c} : pc'[e] = pc[e] /\ asked'[e] = asked[e]
        /\ pc'[c] = RefreshTo(context)
        /\ pc'[c] = "fetching" => asked'[c] = context
        /\ pc'[c] \in {"idle", "fetching", "refused"}
        /\ pc'[c] = "idle" => state' # "READY"
    BY <1>0, <2>1, RefreshType, SuspendType DEF Fetching
  <2>6. OneAtATime'
    BY <2>1, <2>2, <2>3, <2>4, <2>5 DEF OneAtATime, Fetching, Closing
  <2> QED  BY <1>0, <2>1, <2>2, <2>6, CacheSteps DEF IsOpen
<1>14. ASSUME NEW c \in Calls, RegisterEnd(c) \/ RegisterRetry(c)
       PROVE OneAtATime' /\ [Cache!Next]_(Cache!vars)
  <2>1. /\ pc[c] = "registering" /\ pc'[c] \in {"idle", "registering"} /\ UNCHANGED runtime
        /\ \A e \in Calls \ {c} : pc'[e] = pc[e] /\ asked'[e] = asked[e]
    BY <1>0, <1>14 DEF RegisterEnd, RegisterRetry, Proceed, Go, TypeOK
  <2> QED  BY <1>3, <2>1 DEF Fetching, Closing
<1>15. ASSUME NEW c \in Calls, Flushed(c) \/ AdapterClose(c)
       PROVE OneAtATime' /\ [Cache!Next]_(Cache!vars)
  <2>1. /\ pc[c] \in Closing /\ pc'[c] \in Closing /\ UNCHANGED runtime
        /\ \A e \in Calls \ {c} : pc'[e] = pc[e] /\ asked'[e] = asked[e]
    BY <1>0, <1>15 DEF Flushed, AdapterClose, Proceed, Go, TypeOK, Closing
  <2> QED  BY <1>3, <2>1 DEF Fetching, Closing
<1>16. ASSUME NEW c \in Calls, ShutdownDone(c)
       PROVE OneAtATime' /\ [Cache!Next]_(Cache!vars)
  <2>1. /\ pc[c] \in Closing /\ state' = "SHUTDOWN" /\ cache' = None /\ context' = context
        /\ pc' = [pc EXCEPT ![c] = "idle"]
    BY <1>16 DEF ShutdownDone, AfterShutdown, Proceed, Go, Closing
  <2>2. \A e \in Calls : pc'[e] \notin Fetching
    BY <1>0, <2>1 DEF OneAtATime, TypeOK, Fetching, Closing
  <2>3. OneAtATime'
    BY <2>1, <2>2 DEF OneAtATime, Fetching
  <2> QED  BY <1>0, <2>1, <2>3, CacheSteps
<1> QED  BY <1>1, <1>5, <1>7, <1>8, <1>9, <1>10, <1>11, <1>12, <1>13, <1>14, <1>15, <1>16
         DEF Next, Step, Resume

\* Whether calls are awaited never changes, and while they are not the promise
\* only hears of contexts.
LEMMA AwaitedKept == [Next]_vars => UNCHANGED awaited
BY DEF Next, vars

LEMMA OtherUse ==
  TypeInv /\ TypeInv' /\ [Next]_vars /\ ~awaited => [Cache!Next]_(Cache!vars)
BY AwaitedKept DEF TypeInv, TypeOK, Cache!Next, Cache!Want, Cache!vars, Served, IsFresh, IsOpen

AwaitedInv == awaited => OneAtATime

LEMMA AwaitedInvariant == Spec => []AwaitedInv
<1>1. Init => AwaitedInv
  BY AwaitedInit DEF AwaitedInv
<1>2. TypeInv /\ TypeInv' /\ AwaitedInv /\ [Next]_vars => AwaitedInv'
  BY AwaitedNext, AwaitedKept DEF AwaitedInv
<1> QED  BY <1>1, <1>2, TypeInvariant, PTL DEF Spec

\* With prefetching calls and shutdown awaited one by one, decisions served as
\* fetched are those of the context set last whenever no call is in flight.
THEOREM ReadsFollowContext == Spec => []FetchedReadsFollowContext
<1>1. TypeInv /\ AwaitedInv => FetchedReadsFollowContext
  <2> SUFFICES ASSUME TypeInv, OneAtATime, Active(Fetching \cup Closing) = {},
                      NEW r \in Reads, r.reason = "fetched"
               PROVE  r.value = context
    BY DEF FetchedReadsFollowContext, AwaitedInv
  <2>1. \A c \in Calls : pc[c] \notin Fetching
    BY DEF Active
  <2>2. r.value = cache /\ LifecycleError = None /\ state # "STALE"
    BY DEF Reads, HitReason
  <2>3. state = "READY"
    BY <2>2, NoneAssumption DEF LifecycleError, TypeInv, TypeOK, States
  <2> QED  BY <2>1, <2>2, <2>3 DEF OneAtATime
<1> QED  BY <1>1, AwaitedInvariant, TypeInvariant, PTL

\* With them awaited, the web runtime implements PrefetchCache.
THEOREM ImplementsPrefetchCache == Spec => KeepsCachePromise
<1>1. Init => Cache!Init
  BY DEF Init, Cache!Init, Served, IsFresh, IsOpen
<1>2. TypeInv /\ TypeInv' /\ AwaitedInv /\ [Next]_vars => [Cache!Next]_(Cache!vars)
  BY AwaitedNext, OtherUse DEF AwaitedInv
<1> QED  BY <1>1, <1>2, AwaitedInvariant, TypeInvariant, PTL DEF Spec, KeepsCachePromise, Cache!Spec
=============================================================================
