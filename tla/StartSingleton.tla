--------------------------- MODULE StartSingleton ---------------------------
(***************************************************************************)
(* The process-wide singleton of the Rust start profile                    *)
(* (sdks/rust/src/start/state.rs): one mutex-guarded record, the explicit  *)
(* start, the implicit start a first read makes, reads and registrations   *)
(* through the forwarding adapter, the observer of remote failures,        *)
(* instance_key and shutdown, called by several threads.                   *)
(*                                                                         *)
(* Everything the code does under one lock acquisition is one step here:   *)
(* the lock is released before a log line is written, before the started   *)
(* client is asked, before a remote failure is noted and before a client   *)
(* is closed, and at each of those points other threads run.               *)
(***************************************************************************)
EXTENDS Naturals

CONSTANTS
    Threads,        \* application threads
    Clients,        \* clients the process may build (bounds the starts)
    NoClient,
    Cfgs,           \* what a resolution yields: mode, url, key, hosts, control points
    LocalCfgs,      \* the ones in local mode
    Options,        \* the StartOptions explicit starts pass
    EnvOptions,     \* StartOptions::default(), by what the environment holds
    Keys,           \* control point keys
    PointsOf,       \* the control points a local configuration defines
    Ids,            \* instance keys
    DerivedIds,     \* what FIREWEAVE_INSTANCE_ID, the host name or chance gives
    RandomIds,      \* the ones of chance
    Sinks,          \* log sinks
    RemoteFailures, \* REMOTE_FAILURES, the kinds that are observed
    None

\* resolves: resolve() accepts the options; builds: init_fireweave accepts
\* what it resolved to (its own validation, the host allowlist).
Option == [cfg : Cfgs, resolves : BOOLEAN, builds : BOOLEAN,
           id : Ids \cup {None}, log : Sinks \cup {None}]

ASSUME OptionsAssumption ==
    /\ Options \subseteq Option
    /\ EnvOptions \subseteq {o \in Option : o.id = None /\ o.log = None}
ASSUME NamesAssumption ==
    /\ NoClient \notin Clients
    /\ None \notin Cfgs \cup Ids \cup Sinks \cup RemoteFailures \cup {"resolve", "build"}
    /\ "ok" \notin RemoteFailures
    /\ LocalCfgs \subseteq Cfgs
    /\ RandomIds \subseteq DerivedIds /\ DerivedIds \subseteq Ids
    /\ PointsOf \in [LocalCfgs -> SUBSET Keys]

VARIABLES
    \* struct Singleton
    state, implicit, implicitTried, resolved, sig, client, err,
    instanceOption, instanceKey, log, warned, remoteWarned, lastErrorKind,
    \* the clients built: their runtime and adapter, and their configuration
    clients, clientCfg,
    \* each thread: where it is, the client it holds, the lines it has still
    \* to write, the answer it got
    pc, held, lines, answer,
    \* histories, read by properties only: the lines written so far, the
    \* client whose failure lastErrorKind is, and the furthest the process has
    \* come: no start decided yet, one decided, a shutdown made
    logged, lastErrorFrom, past

singleton == <<state, implicit, implicitTried, resolved, sig, client, err,
               instanceOption, instanceKey, log, warned, remoteWarned, lastErrorKind>>
built   == <<clients, clientCfg>>
threads == <<pc, held, lines, answer>>
history == <<logged, lastErrorFrom, past>>
vars    == <<singleton, built, threads, history>>

-----------------------------------------------------------------------------
\* The lines the process logs once: a failed start, a key missing from the
\* local control points, an instance key of chance, a remote failure kind.
StartLine(cfg)   == <<"start", cfg>>
MissingLine(key) == <<"missing", key>>
RemoteLine(kind) == <<"remote", kind>>
RandomLine       == <<"random", None>>
WarnLines   == ({"start"} \X Cfgs) \cup ({"missing"} \X Keys) \cup {RandomLine}
RemoteLines == {"remote"} \X RemoteFailures

SigOf(o) == [cfg |-> o.cfg, id |-> o.id]

Init ==
    /\ state = "unstarted"
    /\ implicit = FALSE
    /\ implicitTried = FALSE
    /\ resolved = None
    /\ sig = None
    /\ client = NoClient
    /\ err = None
    /\ instanceOption = None
    /\ instanceKey = None
    /\ log = None
    /\ warned = {}
    /\ remoteWarned = {}
    /\ lastErrorKind = None
    /\ clients = [c \in Clients |-> "unbuilt"]
    /\ clientCfg = [c \in Clients |-> None]
    /\ pc = [t \in Threads |-> "idle"]
    /\ held = [t \in Threads |-> NoClient]
    /\ lines = [t \in Threads |-> {}]
    /\ answer = [t \in Threads |-> None]
    /\ logged = {}
    /\ lastErrorFrom = NoClient
    /\ past = "none"

-----------------------------------------------------------------------------
(* start_locked, one operator per way out of it. `imp` is its `implicit`.  *)

\* fresh_run: what a start after a failed or shut-down one forgets first.
Kept(value, initial) ==
    IF state \in {"failed", "shutdown"} THEN initial ELSE value

\* How far the process has come with a start decided.
Started == IF past = "none" THEN "start" ELSE past

\* A bad second start, or one that conflicts with the running client, is an
\* error; an identical one is a no-op. None of them touches anything.
SecondStart(o) ==
    /\ state = "ready"
    /\ UNCHANGED <<singleton, lastErrorFrom, past>>

\* Mutant: the check against the key already handed out is dropped.
InstanceConflictIgnored(o) == FALSE

\* The instance id differs from the instance key already handed out.
InstanceConflict(o) ==
    /\ o.id # None
    /\ instanceKey \notin {None, o.id}

\* Mutant: the running client is not looked at.
BeginsRegardless(o) == o.resolves /\ ~InstanceConflict(o)

\* The start begins: it resolves, and nothing stands in its way.
Begins(o) == state # "ready" /\ o.resolves /\ ~InstanceConflict(o)

\* An error, after fresh_run and before anything else is recorded.
RefusedStart(o) ==
    /\ state # "ready"
    /\ o.resolves
    /\ InstanceConflict(o)
    /\ state' = Kept(state, "unstarted")
    /\ implicit' = Kept(implicit, FALSE)
    /\ implicitTried' = Kept(implicitTried, FALSE)
    /\ resolved' = Kept(resolved, None)
    /\ sig' = Kept(sig, None)
    /\ client' = Kept(client, NoClient)
    /\ err' = Kept(err, None)
    /\ lastErrorKind' = Kept(lastErrorKind, None)
    /\ lastErrorFrom' = Kept(lastErrorFrom, NoClient)
    /\ UNCHANGED <<instanceOption, instanceKey, log, warned, remoteWarned, past>>

\* What a failed start leaves for the reads to report.
Reason(o) == IF o.resolves THEN "build" ELSE "resolve"

\* resolve() or init_fireweave says no; reads report the error from now on.
\* Only a start whose options resolve begins, so only it sets the log sink.
FailedStart(o, imp) ==
    /\ \/ state # "ready" /\ ~o.resolves
       \/ Begins(o) /\ ~o.builds
    /\ state' = "failed"
    /\ implicit' = Kept(implicit, FALSE)
    /\ implicitTried' = TRUE
    /\ resolved' = Kept(resolved, None)
    /\ sig' = Kept(sig, None)
    /\ client' = Kept(client, NoClient)
    /\ err' = Reason(o)
    /\ lastErrorKind' = Kept(lastErrorKind, None)
    /\ lastErrorFrom' = Kept(lastErrorFrom, NoClient)
    /\ warned' = warned \cup (IF imp \/ o.resolves THEN {StartLine(o.cfg)} ELSE {})
    /\ log' = IF o.resolves /\ o.log # None THEN o.log ELSE log
    /\ past' = Started
    /\ UNCHANGED <<instanceOption, instanceKey, remoteWarned>>

\* The client c is built and every later read is served by it. What is
\* warned about is left to the caller; the resolver's own warnings are not
\* modelled.
SuccessfulStart(o, imp, c) ==
    /\ Begins(o)
    /\ o.builds
    /\ clients[c] = "unbuilt"
    /\ state' = "ready"
    /\ implicit' = imp
    /\ implicitTried' = TRUE
    /\ resolved' = o.cfg
    /\ sig' = SigOf(o)
    /\ client' = c
    /\ err' = None
    /\ lastErrorKind' = Kept(lastErrorKind, None)
    /\ lastErrorFrom' = Kept(lastErrorFrom, NoClient)
    /\ instanceOption' = IF o.id # None THEN o.id ELSE instanceOption
    /\ log' = IF o.log # None THEN o.log ELSE log
    /\ past' = Started
    /\ UNCHANGED <<instanceKey, remoteWarned>>

Build(o, c) ==
    /\ clients' = [clients EXCEPT ![c] = "open"]
    /\ clientCfg' = [clientCfg EXCEPT ![c] = o.cfg]

-----------------------------------------------------------------------------
(* Threads. `Leave` ends a locked section: the thread goes on to `next`,   *)
(* writing the lines the section returned first when there are any.        *)

Leave(t, next, c, ls) ==
    /\ pc' = [pc EXCEPT ![t] = IF ls = {} THEN next ELSE "emit"]
    /\ held' = [held EXCEPT ![t] = c]
    /\ lines' = [lines EXCEPT ![t] = ls]

\* emit: outside the lock. A reader goes on to the client it acquired.
Emit(t) ==
    /\ pc[t] = "emit"
    /\ pc' = [pc EXCEPT ![t] = IF held[t] = NoClient THEN "idle" ELSE "check"]
    /\ lines' = [lines EXCEPT ![t] = {}]
    /\ logged' = logged \cup lines[t]
    /\ UNCHANGED <<singleton, built, held, answer, lastErrorFrom, past>>

Start(t, o) ==
    /\ pc[t] = "idle"
    /\ \/ SecondStart(o) /\ UNCHANGED built
       \/ RefusedStart(o) /\ UNCHANGED built
       \/ FailedStart(o, FALSE) /\ UNCHANGED built
       \/ /\ \E c \in Clients : SuccessfulStart(o, FALSE, c) /\ Build(o, c)
          /\ UNCHANGED warned
    /\ Leave(t, "idle", NoClient, warned' \ warned)
    /\ UNCHANGED <<answer, logged>>

\* A key missing from the local control points, which acquire warns about.
Missing(cfg, key) ==
    IF cfg \in LocalCfgs /\ key # None /\ key \notin PointsOf[cfg]
      THEN {MissingLine(key)}
      ELSE {}

\* Mutant: any read without a running client starts one.
StartsImplicitlyAgain == state # "ready"

\* acquire: nothing has started yet, so this read or registration will.
StartsImplicitly == state = "unstarted" /\ ~implicitTried

\* acquire, when nothing has started yet: the environment decides, on this
\* read of `key` or registration (key = None).
ImplicitStart(t, o, key) ==
    /\ pc[t] = "idle"
    /\ StartsImplicitly
    /\ \/ /\ FailedStart(o, TRUE)
          /\ UNCHANGED built
          /\ Leave(t, "idle", NoClient, warned' \ warned)
       \/ \E c \in Clients :
             /\ SuccessfulStart(o, TRUE, c)
             /\ Build(o, c)
             /\ warned' = warned \cup Missing(o.cfg, key)
             /\ Leave(t, "check", c, warned' \ warned)
    /\ UNCHANGED <<answer, logged>>

\* acquire, after that. With no running client the read serves its default
\* and is over.
Acquire(t, key) ==
    /\ pc[t] = "idle"
    /\ ~StartsImplicitly
    /\ warned' = warned \cup (IF state = "ready" THEN Missing(resolved, key) ELSE {})
    /\ Leave(t, IF client = NoClient THEN "idle" ELSE "check", client, warned' \ warned)
    /\ UNCHANGED <<state, implicit, implicitTried, resolved, sig, client, err,
                   instanceOption, instanceKey, log, remoteWarned, lastErrorKind>>
    /\ UNCHANGED <<built, answer, history>>

\* Mutant: the read waits until the client it acquired is open.
CheckWaits(t) ==
    /\ pc[t] = "check"
    /\ clients[held[t]] = "open"
    /\ pc' = [pc EXCEPT ![t] = "ask"]
    /\ UNCHANGED <<singleton, built, held, lines, answer, history>>

\* Forwarder: the acquired client's lifecycle is read, without the lock.
Check(t) ==
    /\ pc[t] = "check"
    /\ IF clients[held[t]] = "open"
         THEN pc' = [pc EXCEPT ![t] = "ask"] /\ UNCHANGED held
         ELSE pc' = [pc EXCEPT ![t] = "idle"] /\ held' = [held EXCEPT ![t] = NoClient]
    /\ UNCHANGED <<singleton, built, lines, answer, history>>

\* The adapter: the remote one refuses once it is closed, the local one
\* answers from its table whether closed or not.
Ask(t) ==
    /\ pc[t] = "ask"
    /\ IF clientCfg[held[t]] \notin LocalCfgs /\ clients[held[t]] # "closed"
         THEN pc' = [pc EXCEPT ![t] = "asked"] /\ UNCHANGED held
         ELSE pc' = [pc EXCEPT ![t] = "idle"] /\ held' = [held EXCEPT ![t] = NoClient]
    /\ UNCHANGED <<singleton, built, lines, answer, history>>

\* Mutant: every failure is observed, not only the REMOTE_FAILURES.
AnswerUnfiltered(t, kind) ==
    /\ pc[t] = "asked"
    /\ pc' = [pc EXCEPT ![t] = "observe"]
    /\ answer' = [answer EXCEPT ![t] = kind]
    /\ UNCHANGED <<singleton, built, held, lines, history>>

\* fw-server answers, refuses or does not answer in time: "ok" is every
\* outcome that is not one of the observed failures.
Answer(t, kind) ==
    /\ pc[t] = "asked"
    /\ IF kind = "ok"
         THEN /\ pc' = [pc EXCEPT ![t] = "idle"]
              /\ held' = [held EXCEPT ![t] = NoClient]
              /\ UNCHANGED answer
         ELSE /\ pc' = [pc EXCEPT ![t] = "observe"]
              /\ answer' = [answer EXCEPT ![t] = kind]
              /\ UNCHANGED held
    /\ UNCHANGED <<singleton, built, lines, history>>

\* Mutant: the line is written again each time.
RemoteLinesEachTime(kind) == {RemoteLine(kind)}

\* The line for a failure kind the process has not logged yet.
NewRemoteLines(kind) == {RemoteLine(k) : k \in {kind} \ remoteWarned}

\* observe_remote: under the lock again, whatever has happened since.
ObserveRemote(t) ==
    /\ pc[t] = "observe"
    /\ lastErrorKind' = answer[t]
    /\ lastErrorFrom' = held[t]
    /\ remoteWarned' = remoteWarned \cup {answer[t]}
    /\ answer' = [answer EXCEPT ![t] = None]
    /\ Leave(t, "idle", NoClient, NewRemoteLines(answer[t]))
    /\ UNCHANGED <<state, implicit, implicitTried, resolved, sig, client, err,
                   instanceOption, instanceKey, log, warned>>
    /\ UNCHANGED <<built, logged, past>>

\* What a derivation warns about: a key of chance, not kept over restarts.
Chance(id) == IF instanceOption = None /\ id \in RandomIds THEN {RandomLine} ELSE {}

\* instance_key: derived on first use, the option before the environment.
InstanceKey(t) ==
    /\ pc[t] = "idle"
    /\ IF instanceKey # None
         THEN UNCHANGED <<instanceKey, warned>>
         ELSE /\ instanceKey' \in IF instanceOption # None THEN {instanceOption} ELSE DerivedIds
              /\ warned' = warned \cup Chance(instanceKey')
    /\ Leave(t, "idle", NoClient, warned' \ warned)
    /\ UNCHANGED <<state, implicit, implicitTried, resolved, sig, client, err,
                   instanceOption, log, remoteWarned, lastErrorKind>>
    /\ UNCHANGED <<built, answer, history>>

\* Mutant: the client is forgotten instead of closed.
AfterTakingForgets == "idle"

\* shutdown closes the client it took, if there was one.
AfterTaking == IF client = NoClient THEN "idle" ELSE "close"

\* shutdown, its locked part: the client is taken out of the singleton.
Shutdown(t) ==
    /\ pc[t] = "idle"
    /\ state' = "shutdown"
    /\ implicitTried' = TRUE
    /\ client' = NoClient
    /\ Leave(t, AfterTaking, client, {})
    /\ UNCHANGED <<implicit, resolved, sig, err, instanceOption, instanceKey,
                   log, warned, remoteWarned, lastErrorKind>>
    /\ past' = "shutdown"
    /\ UNCHANGED <<built, answer, logged, lastErrorFrom>>

\* ... and the rest, after the lock: the runtime's state, then the adapter.
CloseRuntime(t) ==
    /\ pc[t] = "close"
    /\ clients' = [clients EXCEPT ![held[t]] = "closing"]
    /\ pc' = [pc EXCEPT ![t] = "closeAdapter"]
    /\ UNCHANGED <<singleton, clientCfg, held, lines, answer, history>>

CloseAdapter(t) ==
    /\ pc[t] = "closeAdapter"
    /\ clients' = [clients EXCEPT ![held[t]] = "closed"]
    /\ pc' = [pc EXCEPT ![t] = "idle"]
    /\ held' = [held EXCEPT ![t] = NoClient]
    /\ UNCHANGED <<singleton, clientCfg, lines, answer, history>>

\* The steps a call makes once it has begun.
Step(t) ==
    \/ Emit(t)
    \/ Check(t)
    \/ Ask(t)
    \/ \E k \in RemoteFailures \cup {"ok"} : Answer(t, k)
    \/ ObserveRemote(t)
    \/ CloseRuntime(t)
    \/ CloseAdapter(t)

Call(t) ==
    \/ \E o \in Options : Start(t, o)
    \/ \E o \in EnvOptions, key \in Keys \cup {None} : ImplicitStart(t, o, key)
    \/ \E key \in Keys \cup {None} : Acquire(t, key)
    \/ InstanceKey(t)
    \/ Shutdown(t)

Next == \E t \in Threads : Call(t) \/ Step(t)

SafeSpec == Init /\ [][Next]_vars

\* A call that has begun goes on; no application has to call anything.
Spec == SafeSpec /\ \A t \in Threads : WF_vars(Step(t))

-----------------------------------------------------------------------------
TypeOK ==
    /\ state \in {"unstarted", "ready", "failed", "shutdown"}
    /\ implicit \in BOOLEAN
    /\ implicitTried \in BOOLEAN
    /\ resolved \in Cfgs \cup {None}
    /\ sig \in [cfg : Cfgs, id : Ids \cup {None}] \cup {None}
    /\ client \in Clients \cup {NoClient}
    /\ err \in {"resolve", "build", None}
    /\ instanceOption \in Ids \cup {None}
    /\ instanceKey \in Ids \cup {None}
    /\ log \in Sinks \cup {None}
    /\ warned \subseteq WarnLines
    /\ remoteWarned \subseteq RemoteFailures
    /\ lastErrorKind \in RemoteFailures \cup {None}
    /\ clients \in [Clients -> {"unbuilt", "open", "closing", "closed"}]
    /\ clientCfg \in [Clients -> Cfgs \cup {None}]
    /\ pc \in [Threads -> {"idle", "emit", "check", "ask", "asked", "observe",
                           "close", "closeAdapter"}]
    /\ held \in [Threads -> Clients \cup {NoClient}]
    /\ lines \in [Threads -> SUBSET (WarnLines \cup RemoteLines)]
    /\ answer \in [Threads -> RemoteFailures \cup {None}]
    /\ logged \subseteq WarnLines \cup RemoteLines
    /\ lastErrorFrom \in Clients \cup {NoClient}
    /\ past \in {"none", "start", "shutdown"}

\* There is a client exactly while the singleton is ready; it is open, and
\* what status() reports and a second start is compared with is its own
\* configuration. (start_locked, shutdown, fresh_run)
ReadyDescribesClient ==
    /\ state = "ready" <=> client # NoClient
    /\ state = "ready" => /\ clients[client] = "open"
                          /\ resolved = clientCfg[client]
                          /\ sig.cfg = resolved

\* No client is forgotten open: one that is not in the singleton is being
\* closed by the thread whose shutdown took it. Two shutdowns, or a shutdown
\* and a start, may overlap in any order. (shutdown, start_locked)
NoClientForgotten ==
    \A c \in Clients :
        clients[c] \in {"open", "closing"} =>
            \/ c = client
            \/ \E t \in Threads : held[t] = c /\ pc[t] \in {"close", "closeAdapter"}

\* A failed start has its reason for reads and status() to report, and a
\* singleton that is ready or was never started has none left over from an
\* earlier run. (start_locked, fresh_run)
FailureHasReason ==
    /\ state = "failed" => err # None
    /\ state \in {"ready", "unstarted"} => err = None

\* What status() reports is what the slot has: a state that is ready with an
\* open client and its configuration, or failed with a reason, or neither.
\* Starts that fail or are refused, shutdowns and the answers of calls still
\* under way come in between in any order. (start_locked, shutdown, status)
StatusDescribesSlot == ReadyDescribesClient /\ FailureHasReason

\* The key instance_key() handed out is the running start's own instance id
\* whenever that start names one, over any sequence of starts, shutdowns and
\* derivations. (start_locked's check, instance_key)
InstanceKeyAgrees ==
    state = "ready" /\ sig.id # None =>
        instanceOption = sig.id /\ instanceKey \in {None, sig.id}

\* Each of the warn-once lines reaches the log at most once in the life of
\* the process: no two threads carry the same line out of the lock, and none
\* carries one that was written before. (warn_once, observe_remote, emit)
LoggedOnce ==
    \A t \in Threads : \A l \in lines[t] :
        /\ l \notin logged
        /\ \A u \in Threads \ {t} : l \notin lines[u]

\* A start on top of a running client changes nothing that start decided:
\* neither the client nor its configuration, the implicit mark, the instance
\* id or the log sink. (start_locked's early returns)
SecondStartHarmless ==
    [][state = "ready" /\ state' = "ready" =>
        UNCHANGED <<implicit, resolved, sig, client, err, instanceOption, log>>]_vars

\* Once a start has been made or shut down, the environment starts FireWeave
\* only where a start can contradict the instance key handed out: that start
\* is refused after fresh_run has forgotten the run before it. (acquire,
\* start_locked, shutdown)
EnvironmentStartsFirst ==
    [][implicit' /\ state' = "ready" /\ state # "ready" =>
        past = "none" \/ instanceKey # None]_vars

\* After a shutdown nothing starts implicitly. (shutdown's promise; acquire,
\* start_locked)
NothingStartsImplicitlyAgain ==
    [][implicit' /\ state' = "ready" /\ state # "ready" => past # "shutdown"]_vars

\* The last_error_kind status() reports beside a running client is a failure
\* that client got back. (observe_remote, fresh_run, Status)
LastErrorIsOfThisClient ==
    state = "ready" /\ lastErrorKind # None => lastErrorFrom = client

\* Every read, registration, start and shutdown returns. (the whole facade)
CallsReturn == \A t \in Threads : pc[t] # "idle" ~> pc[t] = "idle"

\* The singleton keeps the promise of ClientSlot.
Slot == INSTANCE ClientSlot WITH
    slot  <- client,
    live  <- {c \in Clients : clients[c] \in {"open", "closing"}},
    spent <- {c \in Clients : clients[c] = "closed"}

\* Starts and shutdowns on any threads implement the one-slot promise: only
\* new clients enter, only into an empty slot, and one taken out is closed.
OneSlot == Slot!Spec
=============================================================================
