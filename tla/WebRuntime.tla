----------------------------- MODULE WebRuntime -----------------------------
(***************************************************************************)
(* The browser runtime over its remote adapter                             *)
(* (sdks/web/src/application/runtime.ts,                                   *)
(*  sdks/web/src/infrastructure/adapters/remote.ts).                       *)
(*                                                                         *)
(* One thread, but every operation that talks to the backend is async: it  *)
(* runs to its first await, and later, with other calls between, from one  *)
(* await to the next. Each stretch is one action here. A prefetch races a  *)
(* ceiling; a read is synchronous and sees whatever the stretches so far   *)
(* have left.                                                              *)
(***************************************************************************)
EXTENDS Naturals

CONSTANTS
    Calls,             \* the calls that may be in flight together
    Contexts,          \* evaluation contexts, told apart by identity
    Acceptable,        \* those canonicalizeContext takes
    Keyed,             \* those with a usable targeting key
    ConfigOK,          \* url, key and host pass the adapter's check
    None

ASSUME ContextsAssumption ==
    Acceptable \subseteq Contexts /\ Keyed \subseteq Contexts /\ None \notin Contexts
ASSUME NoneAssumption ==
    None \notin {"NotReady", "BackendUnavailable", "AlreadyClosed", "ControlPointNotFound"}
ASSUME ConfigAssumption == ConfigOK \in BOOLEAN

VARIABLES
    state, context,    \* FireweaveWebRuntime: state, globalContext
    cache,             \* the context its decisions were fetched for, or None
    ready, closed,     \* FireweaveRemoteWebAdapter
    pc,                \* where each call is suspended
    asked,             \* the context its prefetch carries
    sent,              \* the requests it has made
    \* how the application uses the runtime, chosen at first: it awaits its
    \* calls that prefetch one by one and shutdown with respect to them, or
    \* calls as it likes
    awaited,
    \* histories, read only by properties: a shutdown has returned; the call
    \* began after that
    down, late

runtime == <<state, context, cache>>
adapter == <<ready, closed>>
call    == <<pc, asked, sent, late>>
vars    == <<runtime, adapter, call, awaited, down>>

Fetching == {"initializing", "initFailed", "fetching", "refused"}
Closing  == {"flushing", "adapterFlushing", "adapterClosed"}
Active(places) == {c \in Calls : pc[c] \in places}

Init ==
    /\ state = "UNINITIALIZED"
    /\ context \in Contexts
    /\ cache = None
    /\ ready = FALSE
    /\ closed = FALSE
    /\ pc = [c \in Calls |-> "idle"]
    /\ asked = [c \in Calls |-> None]
    /\ sent = [c \in Calls |-> 0]
    /\ awaited \in BOOLEAN
    /\ down = FALSE
    /\ late = [c \in Calls |-> FALSE]

-----------------------------------------------------------------------------
Go(c, next) == pc' = [pc EXCEPT ![c] = next]

\* A stretch of call c that ends at next, with a request about ctx under way
\* if that is a place where the call waits for one.
Suspend(c, next, ctx) ==
    /\ Go(c, next)
    /\ asked' = [asked EXCEPT ![c] = IF next = "fetching" THEN ctx ELSE None]
    /\ sent' = [sent EXCEPT ![c] = IF next \in {"fetching", "registering"} THEN 1 ELSE 0]

Begin(c, next, ctx) == Suspend(c, next, ctx) /\ late' = [late EXCEPT ![c] = down]
Proceed(c, next) == Go(c, next) /\ UNCHANGED <<asked, sent, late>>

\* Mutant: the adapter sends without looking at its own state.
AdapterSendsUnchecked == TRUE

\* What prefetch and registerTarget ask of the adapter before they send.
AdapterSends == ~closed /\ ready

\* Mutant: a prefetch carries the context of the one that answered last.
CarriesPrevious(ctx) == IF cache = None THEN ctx ELSE cache

Carries(ctx) == ctx

\* refresh up to its await on the prefetch, for the context ctx: nothing at
\* all once shut down, ERROR if ctx fails validation, and otherwise the
\* adapter sends or refuses.
RefreshState(ctx) ==
    IF state # "SHUTDOWN" /\ ctx \notin Acceptable THEN "ERROR" ELSE state

RefreshTo(ctx) ==
    IF state = "SHUTDOWN" \/ ctx \notin Acceptable THEN "idle"
    ELSE IF AdapterSends /\ ctx \in Keyed THEN "fetching"
    ELSE "refused"

\* A call that prefetches may begin.
MayFetch(c) ==
    /\ pc[c] = "idle"
    /\ awaited => Active(Fetching \cup Closing) = {}

(* initialize *)

\* Marks the state, merges a context in, and runs the adapter's initialize,
\* which awaits nothing: its checks and its ready flag are in this stretch.
InitializeStart(c) ==
    /\ MayFetch(c)
    /\ IF state = "SHUTDOWN"
         THEN Begin(c, "idle", None) /\ UNCHANGED <<state, context, ready>>
         ELSE /\ state' = "INITIALIZING"
              /\ context' \in Contexts
              /\ IF ~closed /\ ConfigOK
                   THEN Begin(c, "initializing", None) /\ ready' = TRUE
                   ELSE Begin(c, "initFailed", None) /\ UNCHANGED ready
    /\ UNCHANGED <<cache, closed, down>>

InitializeFailed(c) ==
    /\ pc[c] = "initFailed"
    /\ state' = "ERROR"
    /\ Proceed(c, "idle")
    /\ UNCHANGED <<context, cache, adapter, down>>

InitializeRefresh(c) ==
    /\ pc[c] = "initializing"
    /\ state' = RefreshState(context)
    /\ Suspend(c, RefreshTo(context), Carries(context))
    /\ UNCHANGED <<context, cache, adapter, late, down>>

(* setContext and refresh; setContext replaces the context even of a       *)
(* runtime that is shut down.                                              *)
SetContext(c) ==
    /\ MayFetch(c)
    /\ \E ctx \in Contexts :
          /\ context' = ctx
          /\ state' = RefreshState(ctx)
          /\ Begin(c, RefreshTo(ctx), Carries(ctx))
    /\ UNCHANGED <<cache, adapter, down>>

RefreshStart(c) ==
    /\ MayFetch(c)
    /\ state' = RefreshState(context)
    /\ Begin(c, RefreshTo(context), Carries(context))
    /\ UNCHANGED <<context, cache, adapter, down>>

-----------------------------------------------------------------------------
(* How a prefetch ends. None of the ways looks at the state again.         *)

Answer(c) ==
    /\ pc[c] = "fetching"
    /\ cache' = asked[c]
    /\ state' = "READY"
    /\ Proceed(c, "idle")
    /\ UNCHANGED <<context, adapter, down>>

AfterMiss == cache

\* The adapter refused, the request failed or its own timeout aborted it.
Fail(c) ==
    /\ pc[c] \in {"fetching", "refused"}
    /\ state' = "STALE"
    /\ cache' = AfterMiss
    /\ Proceed(c, "idle")
    /\ UNCHANGED <<context, adapter, down>>

AfterCeiling == "STALE"

\* Mutant: no timer is armed against a request that hangs.
CeilingArmedNever(c) == FALSE

CeilingArmed(c) == pc[c] = "fetching"

\* The ceiling wins the race: the late answer will be dropped.
Ceiling(c) ==
    /\ CeilingArmed(c)
    /\ state' = AfterCeiling
    /\ Proceed(c, "idle")
    /\ UNCHANGED <<context, cache, adapter, down>>

-----------------------------------------------------------------------------
(* registerTarget: one request, and one more if the error is retryable,    *)
(* whatever happened to the adapter meanwhile.                             *)

Register(c) ==
    /\ pc[c] = "idle"
    /\ Begin(c, IF state # "SHUTDOWN" /\ AdapterSends THEN "registering" ELSE "idle", None)
    /\ UNCHANGED <<runtime, adapter, down>>

RegisterEnd(c) ==
    /\ pc[c] = "registering"
    /\ Proceed(c, "idle")
    /\ UNCHANGED <<runtime, adapter, down>>

\* Mutant: the retry is not counted.
MayRetryAlways(c) == TRUE

MayRetry(c) == sent[c] < 2

RegisterRetry(c) ==
    /\ pc[c] = "registering"
    /\ MayRetry(c)
    /\ sent' = [sent EXCEPT ![c] = @ + 1]
    /\ UNCHANGED <<runtime, adapter, pc, asked, late, down>>

-----------------------------------------------------------------------------
(* shutdown: flush, close the adapter (which flushes again), and only then *)
(* say so. Nothing keeps another call, a second shutdown included, from    *)
(* running in between.                                                     *)

ShutdownStart(c) ==
    /\ pc[c] = "idle"
    /\ awaited => Active(Fetching \cup Closing) = {}
    /\ Begin(c, IF state = "SHUTDOWN" THEN "idle" ELSE "flushing", None)
    /\ UNCHANGED <<runtime, adapter, down>>

Flushed(c) ==
    /\ pc[c] = "flushing"
    /\ Proceed(c, IF closed THEN "adapterClosed" ELSE "adapterFlushing")
    /\ UNCHANGED <<runtime, adapter, down>>

AdapterClose(c) ==
    /\ pc[c] = "adapterFlushing"
    /\ closed' = TRUE
    /\ ready' = FALSE
    /\ Proceed(c, "adapterClosed")
    /\ UNCHANGED <<runtime, down>>

\* Mutant: the closed runtime keeps its decisions.
AfterShutdownKeeps == cache

AfterShutdown == None

ShutdownDone(c) ==
    /\ pc[c] = "adapterClosed"
    /\ cache' = AfterShutdown
    /\ state' = "SHUTDOWN"
    /\ down' = TRUE
    /\ Proceed(c, "idle")
    /\ UNCHANGED <<context, adapter>>

-----------------------------------------------------------------------------
Resume(c) ==
    \/ InitializeFailed(c) \/ InitializeRefresh(c)
    \/ Fail(c) \/ Ceiling(c)
    \/ RegisterEnd(c)
    \/ Flushed(c) \/ AdapterClose(c) \/ ShutdownDone(c)

Step(c) ==
    \/ InitializeStart(c) \/ SetContext(c) \/ RefreshStart(c)
    \/ Register(c) \/ ShutdownStart(c)
    \/ Answer(c) \/ RegisterRetry(c)
    \/ Resume(c)

Next == (\E c \in Calls : Step(c)) /\ UNCHANGED awaited

Spec == Init /\ [][Next]_vars

\* The event loop runs what is due, and every request and every prefetch has
\* a timer; nothing says that the backend answers.
Fairness ==
    \A c \in Calls :
        /\ WF_vars((InitializeFailed(c) \/ InitializeRefresh(c)) /\ UNCHANGED awaited)
        /\ WF_vars(pc[c] = "refused" /\ Fail(c) /\ UNCHANGED awaited)
        /\ WF_vars(Ceiling(c) /\ UNCHANGED awaited)
        /\ WF_vars((RegisterEnd(c) \/ RegisterRetry(c)) /\ UNCHANGED awaited)
        /\ WF_vars((Flushed(c) \/ AdapterClose(c) \/ ShutdownDone(c)) /\ UNCHANGED awaited)

LiveSpec == Spec /\ Fairness

-----------------------------------------------------------------------------
(* Reads: evaluateSync runs between two stretches and changes nothing.     *)

LifecycleError ==
    CASE state \in {"UNINITIALIZED", "INITIALIZING"} -> "NotReady"
      [] state = "ERROR"    -> "BackendUnavailable"
      [] state = "SHUTDOWN" -> "AlreadyClosed"
      [] OTHER              -> None

MissKind == IF state = "STALE" THEN None ELSE "ControlPointNotFound"

HitReason == IF state = "STALE" THEN "STALE" ELSE "fetched"

\* What a valid read may answer now: the decision of the context the cache
\* was fetched for, or the caller's default, and why.
Reads ==
    LET failed == [value |-> None, kind |-> LifecycleError, reason |-> "ERROR"]
        miss   == [value |-> None, kind |-> MissKind,
                   reason |-> IF MissKind = None THEN "STALE" ELSE "ERROR"]
        hit    == [value |-> cache, kind |-> None, reason |-> HitReason]
    IN  IF LifecycleError # None THEN {failed}
        ELSE {miss} \cup (IF cache = None THEN {} ELSE {hit})

-----------------------------------------------------------------------------
(* Properties *)

States == {"UNINITIALIZED", "INITIALIZING", "READY", "STALE", "ERROR", "SHUTDOWN"}

\* Every variable keeps its type, and a call makes at most two requests:
\* registerTarget retries once.
TypeOK ==
    /\ state \in States
    /\ context \in Contexts
    /\ cache \in Contexts \cup {None}
    /\ ready \in BOOLEAN
    /\ closed \in BOOLEAN
    /\ pc \in [Calls -> {"idle", "registering"} \cup Fetching \cup Closing]
    /\ asked \in [Calls -> Contexts \cup {None}]
    /\ sent \in [Calls -> 0..2]
    /\ down \in BOOLEAN
    /\ late \in [Calls -> BOOLEAN]
    /\ awaited \in BOOLEAN

\* With awaited calls, and while none is in flight, a decision served with the
\* reason it was fetched with was fetched for the context set last: after
\* sign-in nobody is served the anonymous visitor's decisions as their own.
\* Every other decision is the default or says STALE.
FetchedReadsFollowContext ==
    awaited /\ Active(Fetching \cup Closing) = {} =>
        \A r \in Reads : r.reason = "fetched" => r.value = context

\* A read blames the control point only on the word of a backend: while
\* nothing was ever fetched, a miss is an unanswered question.
MissesAreTold ==
    \A r \in Reads : r.kind = "ControlPointNotFound" => cache # None

\* A runtime that is not closed never loses the decisions it has, whichever
\* fetches fail, time out or are refused, and in whatever order.
KeepsLastGood ==
    [][cache # None => cache' # None \/ state' = "SHUTDOWN"]_vars

\* A call begun after a shutdown returned makes no request, although a
\* prefetch in flight over the shutdown may have made the runtime READY again.
LateCallsSendNothing ==
    \A c \in Calls : late[c] => sent[c] = 0

\* With awaited calls the web runtime keeps the promise of the prefetching
\* SDKs; about other use the promise says nothing.
Served  == IF awaited THEN cache ELSE None
IsFresh == awaited /\ state = "READY"
IsOpen  == awaited => state # "SHUTDOWN"
Cache   == INSTANCE PrefetchCache
             WITH wanted <- context, served <- Served, fresh <- IsFresh, open <- IsOpen
KeepsCachePromise == Cache!Spec

\* A backend that never answers cannot hold a call, nor boot with it: every
\* call returns.
CallsReturn ==
    \A c \in Calls : pc[c] # "idle" ~> pc[c] = "idle"

(* What the documents say and the code does not do.                        *)

\* docs/troubleshooting.md: a shut-down runtime is terminal. It never serves
\* decisions again, so it never becomes READY.
ShutdownIsTerminal ==
    [][state = "SHUTDOWN" => state' # "READY"]_vars
=============================================================================
