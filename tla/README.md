# Formal models of the FireWeave SDK

FireWeave is one SDK in eight languages (Rust, Go, Python, Java, Node, web, Swift, Dart).
An application asks a *control point* for a value; the SDK answers from fw-server, from a local
table, or with the caller's default, and never throws. The languages share a contract
(`spec/`, `contracts/`), not code, and each repeats the same layers:

```
  application
     |  start / controlPoints.get / registerTarget / shutdown
  start profile     one process-wide slot: which client, from which options and environment
     |  init_fireweave(mode, key, url, allowed hosts)
  client, runtime   lifecycle gate, validation, decisions; in the browser a prefetched cache
     |  resolve / prefetch / register_target / shutdown
  adapter           remote (HTTP to fw-server), local table, in-memory (tests)
```

Calls go down these layers. Two things come back up beside answers: the forwarding adapter of the
start profile notes remote failures in the slot, and the prefetch writes the cache a later
synchronous read uses. Everything hard lives where those meet: threads share the slot, the
runtime and the adapter without one common lock; in the browser a call is cut at every `await` and
others run in between.

This directory has TLA+ models of the Rust SDK from the start profile down to its adapters, of the
browser's start profile and runtime, of the queue of observations the browser's and Node's adapters
share, the abstract promises they implement, TLC configurations, and TLAPS proofs.

    tlc -config StartSingletonMC.cfg StartSingletonMC     # a run of PROJECT.json
    tlapm StartSingletonProofs.tla                        # the theorems of one module

`PROJECT.json` is the index: components, runs, mutated definitions that each property must catch,
the source lines behind every definition, hazards, findings and theorems.

## 1. Inventory

| component | state it keeps | operations | what is hard | what makes it correct |
|---|---|---|---|---|
| **Rust start singleton** `start/state.rs` | one mutex-guarded record: state, implicit marks, resolved configuration and its signature, client, error, instance id and key, log sink, warn-once lists, last error | `start`, the implicit start of a first read, reads and registrations through the forwarder, `observe_remote`, `instance_key`, `status`, `shutdown` | the lock is released before a line is written, before the client is asked, before a failure is noted, before a client is closed; other threads run at each of those points | one client, described truly, closed when taken out; a second start harmless; each line once; an instance key never contradicted |
| **Rust start resolver** `start/resolve.rs`, `names.rs`, `env.rs`, `options.rs`, `channel.rs` | none: a function of options, and of an environment it asks as a callback | resolve mode, key and endpoint with warnings | precedence over eight names with legacy spellings; laziness; two URL parsers and two allowlist fallbacks | mode, key and endpoint of the precedence; no silent local mode in production; what it takes the core takes |
| **Rust construction** `application/mode.rs`, `infrastructure/hosts.rs` | none | `init_fireweave`, `assert_host_allowed` | repeated checks with different fallbacks | agrees with the resolver |
| **Rust runtime and remote adapter** `application/runtime.rs`, `adapters/remote.rs` | lifecycle and init error under a mutex; `closed`, `ready`, the HTTP agent each on its own | `initialize`, `evaluate`, `register_target` (one retry), `mark_stale`, `shutdown` | the mutex is not held over adapter calls; two atomics written in turn; `initialize` overwrites what it finds | closed for good; late calls silent and told so; every call returns |
| **Rust facade** `application/client.rs`, `start/control_points.rs` | the control points of the file | nine typed reads, one declaration | the layers are read, the lifecycle is read and the adapter asked at three different moments | a value of the type asked for, or the caller's default with the reason |
| **Rust domain** `domain/*` | none | validation, context merge and limits, decision mapping, error kinds, redaction | order of checks, limits at their boundary, two spellings of the group names, four redaction passes over each other's output | nothing over a limit or FireWeave's own leaves the process; no secret in a message; same decision whoever serves it |
| **Rust local, in-memory adapters** | a table, the registered targets, a fault, each behind a lock | lookups by context and group, registration, test controls | a table changed while a read is under way | answers as declared; what was registered stays |
| **Web runtime and remote adapter** `web/src/application/runtime.ts`, `adapters/remote.ts` | state, global context, cache; `ready`, `closed`, pending captures | `initialize`, `setContext`, `refresh`, `registerTarget`, `evaluateSync`, capture and `flush`, `shutdown` | stretches between awaits; a ceiling racing a request; answers out of order; `shutdown` awaiting before it says so | decisions called fetched are those of the present context; last good kept; closed is closed |
| **Web start profile** `web/src/start/*` | slot, generation, identity chain, current key, device and user ids in storage | `start`, `identify`, `reset`, `forget`, `setPersistence`, `shutdown` | continuations of an old start acting on a new one; storage written after awaits; consent withdrawn meanwhile | no client left running; the last identity call wins, on this page and the next; nothing stored without consent |
| **Observations, web and Node** both `adapters/remote.ts` and `runtime.ts` | the queue, the batches out, Node's window of exposures | record, `flush`, beacon, `shutdown` | a batch refused goes back to the front while more is recorded, flushed and shut down; Node's deadline | none lost or in two places; in order; sent before a shutdown returns; an exposure once |
| **Node, Python, Go, Java** | as Rust: slot, runtime, adapter | as Rust | locks, promises or volatile reads in place of Rust's mutex | as Rust |
| **Swift, Dart** | as web: prefetched cache, start core with generations | as web | other guards against shutdown and overlap than web's | as web |
| **Contracts and conformance** `contracts/`, `conformance/`, `tools/conformance` | fixtures | sequential comparison | none | read as statements of intent |
| **Test server, scripts, examples, docs** | none of the running program | | | |

### Behaviours that are hard to test

The full list with lines is under `hazards` in `PROJECT.json`; in short:

* *Start slot.* A failure that arrives after a restart; a shutdown between acquiring a client and
  asking it; a second shutdown overtaking the first; an implicit start racing the explicit one; a
  refused start that has already forgotten the run before it.
* *Rust runtime.* Shutdown between the two flags of the adapter; an initialisation that finishes
  after a shutdown; the retry of a registration.
* *Resolver.* Combinations of set, blank and legacy names; the disagreement of two parsers.
* *Web runtime.* Overlapping `setContext`; a prefetch, a ceiling or a refusal ending after
  shutdown; a failed refresh over good decisions; a first failure with nothing to fall back on.
* *Reads.* A layer set, a shutdown or a stale mark between the steps of a read; group names in both
  spellings; limits counted after the merge; a control points file that repeats a key.
* *Redaction.* A pass that uncovers what an earlier one was to cover; a message redacted twice.
* *Web start profile.* A shutdown while a start boots; identity calls overlapping; consent
  withdrawn between a switch and the write that follows it.
* *Observations.* Flushes that overlap each other or a shutdown; a refused batch put back in front
  of newer events; an adapter that closes before it flushes; a deadline that ends a shutdown early.
* *Not covered*: a registration applied twice after a timeout, callbacks that re-enter the slot, the start singletons of the other
  languages.

## 2. Modules

| module | models | kind |
|---|---|---|
| `ClientSlot` | what every start profile promises about the client behind the facade | abstract |
| `StartSingleton` (+ `MC`, `Proofs`) | `start/state.rs`, the process-wide slot under threads | detailed, implements `ClientSlot` |
| `StartResolve` (+ `MC`, `Proofs`) | `start/resolve.rs` with `names.rs`, `env.rs`, and the acceptance of its outcome by `application/mode.rs` and `infrastructure/hosts.rs` | sequential algorithm with an environment that answers as asked |
| `Lifecycle` | the life of a runtime by its provider-state names | abstract |
| `RustRuntime` (+ `MC`, `Proofs`) | `application/runtime.rs` over `adapters/remote.rs`, under threads | detailed, implements `Lifecycle` |
| `Errors`, `Context` | `domain/errors.rs` (kinds and codes), `domain/context.rs` with the limits of `validation.rs` | operators, used by `Evaluation` |
| `ControlPointRead` | what a read promises, whatever serves it | abstract |
| `Evaluation` (+ `MC`, `Proofs`) | a read from its arguments to the decision, in `client.rs`, `runtime.rs`, `domain/*` and the three adapters, with what may change between its steps | detailed, implements `ControlPointRead` |
| `Redaction` (+ `MC`, `Proofs`) | `redact_secrets` of `domain/errors.rs` | sequential algorithm against the patterns it is for |
| `PrefetchCache` | what an SDK reading from a prefetched cache promises | abstract |
| `WebRuntime` (+ `MC`, `Proofs`) | `web/src/application/runtime.ts` over `adapters/remote.ts`, under an event loop | detailed, implements `PrefetchCache` |
| `Capture` (+ `MC`, `Proofs`) | the queue of observations in `adapters/remote.ts` and `application/runtime.ts` of the web and the Node SDK | detailed |
| `WebStart` (+ `MC`, `Proofs`) | `web/src/start/state.ts`, `fw.ts`, `identity.ts`: the page-wide slot, the identity calls, storage | detailed |

### How state and actions correspond to the code

**StartSingleton.** The first group of variables is `struct Singleton`, field by field. One action
is one section under the lock; `pc` says where a thread is between two of them. `Start` is
`start_locked(options, false)`: its disjuncts are the ways out of that function (`SecondStart`,
`RefusedStart`, `FailedStart`, `SuccessfulStart`), with `fresh_run` folded into each through
`Kept`. `ImplicitStart` and `Acquire` are `acquire`, `Check`, `Ask` and `Answer` the call on the
acquired client through the forwarder, `ObserveRemote` is `observe_remote`, `Emit` the log call
after the lock, `Shutdown`, `CloseRuntime` and `CloseAdapter` are `shutdown`. An option record says
what resolution and construction do with it (`resolves`, `builds`); `StartResolve` is where that is
worked out. `InstanceKey` writes the warn-once line of a key that had to be random. `logged`,
`lastErrorFrom` and `past` are histories that no guard reads. The warnings
of the resolver are left to `StartResolve`. User callbacks (the environment lookup, the log sink)
neither call back into the SDK nor panic here.

**StartResolve.** `pick` walks a list of sources; here one action asks one source, and the answer
is chosen when it is asked, which is when the code calls the environment. `IgnoreKey`, `TakeKey`,
`NoKey`, `TakeEnvironment`, `NoEnvironment`, `AskRetired`, `TakeUrl`, `NoUrl` are the outcomes of
`resolve`, `resolve_key`, `resolve_url` and `no_key_error`; `Build` is `init_fireweave` with the
adapter's second check. Values are classes: a key is of the project's family or foreign, a name a
development name or not, an endpoint its scheme, its host and whether the resolver's stricter
parser takes the rest. A blank value is unset, as `trimmed` makes it.

**RustRuntime.** `state` and `initError` are `RuntimeInner`, `closed`, `ready` and `agent` the
adapter. Each is read or written by one action, because the code takes the mutex, or touches the
atomic, for that step alone. `Gate` is `lifecycle_error`, `CheckClosed` to `Answer` the adapter's
`resolve` and `register_target`, `MayRetry` the bound of its loop, `Decide` the second look at the
lifecycle when a decision is built. `use` is how the application came by the runtime and never
changes: `"sanctioned"` is `init_fireweave`, which shares it once it is initialised; otherwise any
thread may initialise it and call `mark_stale`. What is promised of the sanctioned use alone says
so. Arguments, context and decision are in `Evaluation`.

**Evaluation.** `Ask` to `Decide` are the stretches of one read between two locks or two loads:
arguments and the merged layers (`Validate`), the lifecycle (`Gate`), then what each adapter does.
Between any two the application may set a layer, mark stale, shut down, register a target or set
the in-memory table and its fault. `BodyOf` is the request body, `Declarable` and `LocalSeeds` the
control points file. A key is its length and whether it has a control character, an attribute
value what the limits measure of it, a JSON value its type and what tells it from others. The
initialisation of the runtime, and the retry of a remote registration, are in `RustRuntime`.

**Redaction.** A message is a sequence of tokens, each a piece that every pass takes or leaves
whole. The passes are written as the scanners of the code, `Shows` as the patterns of the
contract. White space is of two kinds: ASCII, the only one the passes look for (`Blanks`), and
other, of which the collapse makes the same blank (`White`); a message without the other kind is
`Plain`. `Messages` are those errors are made of: without a placeholder in them, and of any length.

**WebRuntime.** One action is one stretch between awaits: `SetContext`, `RefreshStart` and
`InitializeRefresh` run up to the await on the prefetch, `Answer`, `Fail` and `Ceiling` are the
three ways it ends, `ShutdownStart`, `Flushed`, `AdapterClose`, `ShutdownDone` the four stretches
of shutdown. `cache` is the context its decisions were fetched for, which is all the properties
tell apart. `Reads` is the set of answers `evaluateSync` may give in a state; it is synchronous and
changes nothing. `awaited`, chosen at first, says whether the application awaits its prefetching
calls and its shutdown, or lets calls overlap in any way.

**Capture.** `Take` is `flush` up to its await, `Delivered` and `Undelivered` the two ways the
request ends, with the `unshift` of the batch; `Beacon` is the unload path. `Observe` is whatever
records in the browser; `EvaluateStart`, `EvaluateEnd` and `EvaluateFail` are Node's `evaluate`
either side of its await, with the dedup window `seen`. `ShutdownStart` is the runtime's `shutdown`
up to the await on its flush, `AdapterShutdown` and `AdapterClose` the adapter's (which in Node
closes first, so its own flush returns at once), `ShutdownDone` and `Deadline` what ends it. An
observation is its place in `recorded`; `gone`, `sent`, `owed`, `overlapped` and `abandoned` are
histories no guard reads. The adapter is ready from the start, and what an application records on a
Node adapter directly, past the runtime, is left out. `sdk`, chosen at first, says which of the two
it is; they share the queue line by line.

**WebStart.** `Start` is `start` up to where it leaves the boot to itself, `Boots` and `BootFails`
what follows the first prefetch, `LeaveChain` to `RememberUser` the stretches of `identify`,
`reset` and `forget` in `fw.ts`, `SetPersistence` and `DeviceRegistered` those that are in no
chain, `ShutdownCall` and `ShutdownSlot` the two halves of `shutdown`. A client is known by the
generation of the start that built it, and what it decides by the key it was last told; the
prefetches under that key are `WebRuntime`'s. READY, STALE and ERROR are one state here. `wanted`,
`straddled` and `unread` are histories: no guard reads them, and they name who should be signed in
and the two situations in which that is not promised (section 5).

## 3. Runs

| run | instance | shows |
|---|---|---|
| `singleton` | 2 threads, 2 clients, 3 configurations, 5 explicit and 3 environment options, 1 key, 2 ids, 2 failure kinds, fair | the safety invariants of the slot; the environment comes first; the slot implements `ClientSlot`; every call returns |
| `singleton_implicit_again` | as `singleton` | *violated*: finding 1 |
| `singleton_last_error` | as `singleton` | *violated*: finding 2 |
| `runtime_shared` | 2 threads, 1 retryable and 1 terminal kind, both uses, fair | in sanctioned use the runtime implements `Lifecycle` and late calls are told; in either use late calls send nothing and calls return |
| `web_runtime` | 3 calls, 4 contexts (two ordinary, one oversized, one without a key), awaited or overlapping freely, fair | awaited: the runtime implements `PrefetchCache`, and reads follow the context; either way: late calls are silent, and calls end although the backend may never answer |
| `web_revived` | overlapping calls | *violated*: finding 3 |
| `capture` | both SDKs, 3 calls, 2 exposures, 2 observations, fair | each observation in one place, in order, sent before a shutdown returns; an exposure once; shutdowns return |
| `web_start` | 2 identity calls, 1 awaited shutdown, 1 user, 3 kinds of start, 3 generations, storage that works or refuses | no client is forgotten; the last identity call wins; nothing is stored without consent |
| `start_resolve` | all options and environments over 2 keys, 6 endpoints, 2 names | precedence, acceptance, warnings |
| `evaluate` | 1 reading thread against the application, 3 adapters, contexts at each limit | reads keep `ControlPointRead`; bodies are clean; groups agree; local mode serves what was declared |
| `redaction` | every message of up to 5 of 11 tokens, those of 7 that assign within a URL, and those of 6 that become an assignment by the collapse, redacted twice | of a plain message nothing shows but what section 5 says of user information, and it settles; prose of any white space stays |
| `redaction_again` | every message of up to 3 of the tokens | *violated*: finding 4 |

**Bounds and why they suffice.** In the slot, a client can be taken out and replaced once
(2 clients), which is the least for an old and a new client to exist together with a thread on
each; a third repeats the case. Two threads are enough for every pair of sections to interleave;
the invariants relate at most two threads, and the proofs are for any number. `MCOptions` has one
representative of every way out of `start_locked`: two remote configurations and a local one (to
differ in a signature, and for the missing-key line), an id and none, a sink and none, one that does
not resolve and one that does not build. In `runtime_shared` one thread is enough to initialise and
then call while the other shuts down, which is every pair of operations under way at once; the
proofs are for any number. The web runtime's run has three calls: an
older one, one that overtakes it, and a shutdown; the proofs are for any number. `capture` has three calls, so that two flushes and a shutdown, or two shutdowns
and an evaluation, are under way at once, over two observations, the least that have an order.
A registration makes at most two requests, which is the code's own bound.
The resolver's run has a value of every class, and every endpoint class the two parsers tell
apart: http and https, loopback and not, another scheme, no host, and one that only the core takes.

Reads do not write anything another read looks at, so `evaluate` has one reader, and everything
the application may change is enabled between its steps. Its limits are small (2 attributes,
3-byte keys, 2-byte values, depth 3, 24 bytes in all) so that contexts on both sides of each one
exist; the length of a control point key is the code's 256. The shortest secrets of `redaction`
are two or three tokens, so five tokens hold one inside, beside or overlapping another; only user
information with an assignment in it that leaves something behind takes seven, and an assignment
whose parts other white space keeps apart until the collapse six.

`web_start` is the one run with a state constraint (`Bounds`): three generations, that is two
starts and a shutdown or a shutdown either side of a start, at most one device registration under
way, and the last generation followed only while it has a client or is getting one. A start that
finds an identity call unfinished is followed only while that call is the only one made. The two
identity calls are interchangeable (`Symmetric`); no liveness is checked there.

**Fairness.** Only steps of a call that has begun are fair, and only weakly: a thread that holds
no lock is scheduled, an HTTP request ends because both adapters set a timeout
(`timeout_global` in `remote.rs`, the abort timer and the ceiling in the browser). In `WebRuntime`
the answer itself is not fair, only the ceiling is, so boot is shown to end with a backend that
never answers. In `Capture` only the end of a request by refusal or its
timer is fair, not its delivery, and not Node's deadline. No call has to be made: starting, reading and shutting down are never fair.

**Deadlock** is checked in every run but four: `capture` stops once the SDK is shut down,
`start_resolve` and `redaction` end when they have their outcome, and in `web_start` each call is
made once.

## 4. Proofs

Every theorem is for all values of the constants, under the named assumptions of the modules
(which TLC evaluates in the runs).

* `StartSingletonProofs`: `IInv` conjoins the safety invariants with what they need: a thread that
  uses or closes a client holds one that was built (`ThreadsOK`); two threads never close the same
  client, nor one that is still in the slot (`ClosersOK`); a line carried or written is on record
  as warned (`LinesOnRecord`). `NoClientForgotten` alone is not inductive: `CloseAdapter` of one
  thread would break it for another that closes the same client. One lemma per action shows
  `IInv` preserved. `EnvironmentComesFirst` has an invariant of its own: a slot that is unstarted
  again has an instance key handed out. `ImplementsClientSlot` maps `Init` to `Init` and each step
  to `Install`, `Remove`, `Close` or a stutter.
* `RustRuntimeProofs`: types need that a failing initialisation carries its error and that a
  sender has tries left (`FailureCarried`, `TriesLeft`). `ClosedHolds` carries
  `LateCallsSendNothing`: `closed` is never reset, and a late call never passes it.
  `use` is kept, and in sanctioned use nobody initialises once the runtime is shared: from that
  `LateCallsAreTold` and the refinement of `Lifecycle`, whose phase is the provider state in
  sanctioned use only.
* `WebRuntimeProofs`: `ClosedHolds` likewise for late calls, however calls overlap; `awaited` is
  kept, and while it holds `OneAtATime` says that what a prefetch carries is the present
  context, from which `ReadsFollowContext` and the refinement of `PrefetchCache` follow.
* `CaptureProofs`: every step leaves the queue, the batches and their histories alone, records, or
  moves one sequence between two of them (`StepKinds`); the sequence lemmas before it say what that
  does to elements and order. `EachOnce` is then inductive. `LeaveInOrder` is not: that two batches
  are out contradicts it only later, so `Line` adds that at most one is while none has overlapped.
  `Kept` (what was not sent waits in the queue) carries `ShutdownSends`, `Window` (what was recorded
  is in the window until the adapter closes) `ExposedOnce`.
* `WebStartProofs`: `ClientInv` carries `NoClientForgotten`: boots have generations of their own, none
  newer than the slot's, and while the present one boots there is no client; so the client a boot
  brings is the only one or is closed at once. `NothingWithoutConsent` needs only that storage keeps
  its shape, and that whatever adds to it (`Gains`) asks for consent when it writes. `TypeOK` is
  inductive with the kind each waiting call is of (`OfItsKind`), with an identity there while a
  start boots or is in force, and with its id minted unless the application supplied it (`TypeInv`).
  `TheLastCallWins` is about a start that found every earlier call finished (`InForce`). Its
  unfinished calls stand in one line, of which only the first is not queued (`Serialized`, by a rank
  that each new call extends, since `Calls` is any set); what runs has a client (`Gated`), which has
  been told the current key (`StartOrClient`); the key wanted is that of the last in the line, and
  the current key is the wanted one when the line is empty (`Follows`); storage follows the current
  key, but for an `identify` between its switch and its write (`Persisted`). All of these were
  checked by TLC in the instance of `web_start` before they were proved.
* `RedactionProofs`: messages of any length. `Scan` is a recursive function; `Runs` says without
  recursion which place of the text each place of the result came from, and `ScanRuns` proves that
  such maps exist, by induction on what is left to scan. Each pass is then shown to hide its own
  kind of secret (`BearerHidden`, `UserinfoHidden`, `AssignmentHidden`, `KeyHidden`) and to uncover
  none of the others: a secret in what a pass left would be one in the text it was given. Of
  assignments the exact statement, `Hidden`, keeps more than that no value shows, namely that nothing
  of a value is left behind its placeholder (`Assigned`), without which the next redaction would take
  more. No pass brings in white space (`PassesKeepPlain`), so that the collapse of a plain text
  leaves its blanks where the passes saw them (`CollapsePlain`); there alone it uncovers nothing. So
  `RedactHides`, for every plain text, one with placeholders in it included, and from it
  `NothingEverShows`, a property of steps that needs no invariant but the type. A scan that puts
  back what it takes leaves its text (`ScanIdentity`), and what was redacted has no white space to
  collapse (`RedactTidies`): so `ProseAlwaysStays`, of messages with any white space, and
  `PlainAlwaysSettles`.
* `EvaluationProofs`: what a read carries from one step to the next is known at each place it may be
  in: the arguments passed (`Validated`, `Passed`), the body was made from the merged context
  (`Bodies`), the adapter's steps are its own (`LocalSteps`). From these `SentBodiesClean`,
  `GroupsAgree` and `LocalServesWhatWasDeclared`, for any number of readers; and each step is a
  step of `ControlPointRead` or a stutter.
* `StartResolveProofs`: the names asked so far, each once, are exactly the unset ones before the
  present source (`UnsetUpTo`); so a value taken is the one the start means (`Ask`), meanings are
  unique (`Meanings`), and each phase knows what has been settled (`Phases`). From it
  `PrecedenceFollowed`, `ReadsAreLazy` and `ResolvedAlwaysAccepted`; with `Typed` also `TypeCorrect`,
  and with the warnings given so far (`Warns`: a legacy name is warned of exactly when its answer was
  taken, and at most one key is ignored) `WarnsExactly`.

Some properties are proved and in no run: `SecondStartHarmless` of the slot, `LazyReads` of the resolver,
`RegisteredStays` of local mode, `MissesAreTold` and `KeepsLastGood` of the browser's runtime.

**Model-checked only.** Liveness (`CallsReturn` of both runtimes and the slot, `ShutdownReturns`, and the fair part of
`ClientSlot` in `OneSlot`): fairness and ENABLED are beyond the prover. Every other invariant and
action property of a passing run is also proved. Induction over data is done by least elements (`LeastNatural` in
`RedactionProofs`), because the library's induction theorems take an operator as a parameter.

The ids a page mints are drawn from the set `Minted`, and `Mintable` makes a call wait when all of
them are in use: a bound of the model, not of the code, and eight are more than the run uses at once.

## 5. Findings

1. `NothingStartsImplicitlyAgain`: after `shutdown`, a `start` whose instance id contradicts the
   key handed out returns an error, but `fresh_run` has already made the slot unstarted
   (`start/state.rs:209`), so that the next read starts FireWeave from the environment. The comment
   on `shutdown` (`state.rs:791`) says that nothing starts implicitly afterwards.
   The trace is a shutdown, an `instance_key()`, the refused start and a read.
   `EnvironmentStartsFirst` shows that this is the only way.
2. `LastErrorIsOfThisClient`: a read in flight over a shutdown and a new start writes the old
   client's failure into the new run's status (`state.rs:476`, against the comment at `:744`).
3. `ShutdownIsTerminal`: in the browser a prefetch in flight over a shutdown sets READY when it
   answers (`runtime.ts:195`, against `docs/troubleshooting.md:12`). Calls begun afterwards still
   send nothing (`LateCallsSendNothing`), but evaluations serve the late decisions. Dart asks
   again after each await.
4. `ScrubsToItself`: the collapse makes a blank of any white space (`errors.rs:420`), the passes
   before it look for ASCII white space alone (`is_space`, `:279`). So the word Bearer, a no-break
   space and a token become a bearer token that shows, against `errors.rs:11` ("No secrets in
   messages"), and that a second redaction takes, against `tests/redaction_contract.rs:43` ("a
   scrubbed line scrubs to itself"). The same holds of a variable's name and its value. What is proved
   and checked of the redaction is therefore of plain messages, but for `ProseStays`.

The models show more that a document speaks against. The properties that hold say what they except;
these have no run of their own:

* A Rust runtime shared *before* it is initialised leaves `Shutdown` again when an initialisation
  finishes late (`runtime.rs:158`), against `docs/troubleshooting.md:12`: "a shut-down runtime is
  terminal — construct a new one". `init_fireweave` never shares one so early; `KeepsLifecycle` is of
  the runtimes it makes. Finding 3 is the same in the browser.
* A batch of observations refused in the flush of a shutdown is not sent again: Node's adapter sets
  `closed` before its own flush (`remote.ts:333`), so that only the runtime's sends, and the browser's
  adapter flushes once more (`remote.ts:292`) and closes, whatever became of it or was recorded
  meanwhile. `docs/privacy.md:66` says "queues drain on flush/shutdown". `ShutdownSends` is what holds:
  each observation recorded before is offered at least once.
* A context with groups under both spellings is sent with the alias's (`remote.rs:194`) and matched
  in memory on the canonical ones. `docs/identity.md:57` says "when both are present, the canonical keys
  win". `GroupsAgree` is of contexts that are `SpelledOnce`.
* A first prefetch in the browser that fails before the ceiling leaves STALE (`runtime.ts:197`), and
  reads answer so, where `spec/control-points.md:65` has ERROR for "backend unreachable / slow, no
  earlier successful fetch". Dart and Swift answer ERROR.
* `Bearer https://u:p@host` loses its scheme to the first pass, and then no URL is seen in it: `u:p`
  stays, where `contracts/errors.json` says that "in `scheme://userinfo@host`" the user information
  becomes the placeholder. The contract's patterns, in the contract's order, do the same.
  `NothingShows` reads user information as the contract's pattern does, after the scheme is gone.
* An assignment may lose a value with a `://` in it, and what is left around the placeholder then
  reads as user information, which the second pass has already been over: `word://FIREWEAVE_KEY=://'@`
  becomes `word://FIREWEAVE_KEY=[REDACTED]'@`, and a second redaction takes it all, against
  `tests/redaction_contract.rs:43` again. No value shows in it; `NothingShows` and `PlainSettles`
  except it.
* Node's window of exposures is "cleared on flush / shutdown" (`runtime.ts:113`), but
  `clearEvaluateExposureDedup` has no caller and only shutdown flushes, so the queue and the window
  grow until then. Once a deadline has ended a shutdown, an evaluation in flight may record its
  exposure a second time: hence `abandoned` in `ExposedOnce`.

And more that no document speaks of:

* A call that overlaps a shutdown may be told `NotReady` when it reads `closed` before and `ready`
  after the adapter's two writes (`remote.rs:172`, `:285`); and a stale runtime that is shut down
  while a read is under way labels it TARGETING_MATCH.
* `register_target` with an empty key succeeds in local mode and is refused in remote mode; the local
  and in-memory adapters never look whether they are closed, the runtime above them does.
* A failure of a call still under way after a shutdown is noted in a slot without a client
  (`state.rs:476`); the next start forgets it.
* In the browser, a call that an earlier start left unfinished runs beside the new start's chain
  (`straddled`), and a start in `memory` leaves an earlier page's signed-in key in storage
  (`unread`): `LastCallWins` excepts both. `forget` while no client runs keeps the old id as the
  current key, and consenting again stores it as a signed-in user. A device registration under way
  may write a forgotten id back after consent is given again. `identify` with the key of a switch
  whose prefetch failed does nothing.
* A browser shutdown called while another is pending also undoes a start made in between, and a
  `start` right after a shutdown that was not awaited is swallowed.

## 6. Plan

Done: the Rust SDK from the slot to its adapters, the browser's start profile and runtime, the queue
of observations of browser and Node, and four abstract promises. What would come next, most important first:

1. `SwiftRuntime`, `DartRuntime`: implement `PrefetchCache` under overlap; the guards they have
   and the browser lacks (`ControlPointsCacheBox.swift`, `runtime.dart`).
2. `NodeSingleton` (its shutdown awaits readiness and then replaces the slot), and variants of
   `StartSingleton` for Go (observes a given client), Java (lock-free reads) and Python.
3. Composition of `StartResolve` with `StartSingleton`: `resolves` and `builds` as its outcomes;
   the derivation of the instance key (`start/instance.rs`).

## 7. Not modelled, and why

* Of Rust: validation of the client options' shape, vendor hints beyond their being left out of a
  body, the serialised forms (`to_json`), `invoke_capability` (it only names what is missing), the
  user-agent channel, the test hook `force_state`, the derivation of an instance key.
* Of the browser: the domain layer, which mirrors Rust's and appears as an outcome (`Acceptable`,
  `Keyed`); state listeners; log lines and status; policy resolution of the start profile.
* The other languages: the contract is the same; they are modelled where their concurrency
  differs, in the order of the plan.
* HTTP, TLS, JSON and the wording of messages: no property here is about them.
* fw-server: it answers, refuses, is slow or silent; nothing is said of its own state, so a
  registration applied twice after a timeout is not told apart from one applied once.
* User callbacks that panic or call back into the SDK while the slot's lock is held.
* Fixtures, conformance runners, test server, scripts, examples.
