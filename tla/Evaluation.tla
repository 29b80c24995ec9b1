----------------------------- MODULE Evaluation -----------------------------
(***************************************************************************)
(* A control point read from end to end, over each of the three adapters   *)
(* (sdks/rust/src/application/client.rs, ports.rs and runtime.rs,          *)
(*  sdks/rust/src/domain/validation.rs, decision.rs and types.rs,          *)
(*  sdks/rust/src/infrastructure/adapters/local.rs, memory.rs, remote.rs,  *)
(*  sdks/rust/src/start/control_points.rs), and registration in process.   *)
(*                                                                         *)
(* A read validates its arguments, takes a copy of the context layers      *)
(* under the runtime's lock, reads the lifecycle under it again, and asks  *)
(* the adapter with no lock of the runtime held. Between any two of these  *)
(* the application may set a context layer, go stale, shut down, or change *)
(* what the in-memory adapter holds. RustRuntime has initialisation and    *)
(* remote registration; the runtime here is one init_fireweave returned.   *)
(*                                                                         *)
(* A JSON value is its type and what tells it apart from others of that    *)
(* type; decisions leave out the variant and the message.                  *)
(***************************************************************************)
EXTENDS Context, Sequences

CONSTANTS
    Threads,
    Backends,         \* among "local", "memory", "remote"
    JsonValues,       \* [type, value]
    Keys,             \* control point keys: [name, length, control]
    Calls,            \* [method, key, type, default, context, payload]
    GlobalLayers, ClientLayers,  \* contexts the layers are set to
    Declarations,     \* sequences of [key, local]: a control points file
    Fixtures,         \* functions from keys to what a fixture says of them
    Items,            \* what fw-server may say of a key; absent fields missing
    RequestErrors,    \* error kinds a request may end with
    Targets,          \* [targetingKey, kind, properties]; absent fields missing
    RequireTargetingKey

MaxControlPointKeyLength == 256

FlagTypes == {"boolean", "string", "number", "object"}

BooleanValue(b) == [type |-> "boolean", value |-> b]
Null            == [type |-> "null", value |-> None]

ASSUME BackendsAssumption == Backends \subseteq {"local", "memory", "remote"}
ASSUME ValuesAssumption ==
    /\ \A v \in JsonValues : v.type \in FlagTypes \cup {"null"}
    /\ {Null, BooleanValue(TRUE), BooleanValue(FALSE)} \subseteq JsonValues
ASSUME KeysAssumption == \A key \in Keys : key.length \in Nat /\ key.control \in BOOLEAN
ASSUME CallsAssumption ==
    \A q \in Calls : /\ q.key \in Keys
                     /\ q.type \in FlagTypes
                     /\ q.default \in JsonValues
                     /\ IsContext(q.context)
                     /\ q.payload \in BOOLEAN
ASSUME LayersAssumption == \A c \in GlobalLayers \cup ClientLayers : IsContext(c)
ASSUME DeclarationsAssumption ==
    \A e \in Declarations : \A i \in DOMAIN e : e[i].key \in Keys /\ e[i].local \in BOOLEAN
ASSUME ErrorsAssumption ==
    RequestErrors \subseteq ErrorKind /\ None \notin UNION {ErrorKind, Codes, FireweaveError}
ASSUME RequestsAssumption == None \notin [request : Calls, open : BOOLEAN]

VARIABLES
    backend, seeds,               \* the adapter, and a local one's dev_flags
    state,                        \* RuntimeInner
    globalContext, clientContext,
    closed, ready,                \* FireweaveRemoteAdapter
    definitions, fault,           \* InMemoryAdapter
    targets,                      \* FireweaveLocalAdapter
    pc, request, merged, body, resolution, answer,  \* each thread's read
    registering,                  \* each thread's target on its way
    \* histories: the state a read began in, the targets acknowledged
    began, acknowledged

setup    == <<backend, seeds>>
layers   == <<globalContext, clientContext>>
adapter  == <<closed, ready, definitions, fault>>
read     == <<pc, request, merged, body, resolution, answer, began>>
register == <<targets, registering, acknowledged>>
vars     == <<setup, state, layers, adapter, read, register>>

-----------------------------------------------------------------------------
(* Arguments: what the nine methods can be called with, and the two checks *)
(* that come before the context.                                           *)

\* An array is an "object" too.
MatchesExpectedType(value, type) == value.type = type

\* The typed methods take a default of their own type and no options; an
\* object's default may be any value, and a number's not a number, which JSON
\* knows as null.
Callable(q) ==
    \/ q.method = "evaluate"
    \/ /\ ~q.payload
       /\ \/ q.type = "object"
          \/ q.default.type = q.type
          \/ q.type = "number" /\ q.default = Null

Requests == {q \in Calls : Callable(q)}

ValidKey(key) ==
    key.length > 0 /\ key.length <= MaxControlPointKeyLength /\ ~key.control

ValidateArguments(q) ==
    IF ~ValidKey(q.key) THEN New("ControlPointNotFound")
    ELSE IF ~MatchesExpectedType(q.default, q.type) THEN New("TypeMismatch")
    ELSE None

-----------------------------------------------------------------------------
(* A control points file: every key valid and declared once, or the        *)
(* program does not start.                                                 *)

\* Mutant: keys are not checked where they are declared.
DeclarableOnce(entries) ==
    \A i, j \in DOMAIN entries : entries[i].key = entries[j].key => i = j

Declarable(entries) ==
    /\ \A i \in DOMAIN entries : ValidKey(entries[i].key)
    /\ \A i, j \in DOMAIN entries : entries[i].key = entries[j].key => i = j

LocalSeeds(entries) ==
    [k \in {entries[i].key : i \in DOMAIN entries} |->
        (CHOOSE e \in {entries[i] : i \in DOMAIN entries} : e.key = k).local]

-----------------------------------------------------------------------------
(* Resolutions                                                             *)

Field(record, name, absent) == IF name \in DOMAIN record THEN record[name] ELSE absent

Hit(value) ==
    [value |-> value, enabled |-> TRUE, matched |-> TRUE, version |-> None,
     vendorId |-> None, reasonCode |-> None, payload |-> FALSE, reason |-> None,
     fromCache |-> FALSE]

Miss == [Hit(Null) EXCEPT !.matched = FALSE]

Reasons == {"TARGETING_MATCH", "SPLIT", "DISABLED", "DEFAULT", "STALE", "CACHED",
            "STATIC", "ERROR"}

ASSUME ReasonsAssumption == None \notin Reasons

\* Fixtures and fw-server give reasons of the contract, if they give any.
WellFormed(raw) ==
    /\ Field(raw, "value", Null) \in JsonValues
    /\ Field(raw, "reason", None) \in Reasons \cup {None}

ASSUME FixturesAssumption ==
    \A f \in Fixtures : \A k \in DOMAIN f : WellFormed(f[k])
ASSUME ItemsAssumption == \A item \in Items : WellFormed(item)

\* The local adapter: a seeded value, switched on whatever it is.
ResolveLocal(key) ==
    IF key \in DOMAIN seeds
      THEN [Hit(BooleanValue(seeds[key])) EXCEPT !.reason = "STATIC"]
      ELSE Miss

\* What a fixture leaves out of a definition.
DefinitionOf(raw) ==
    [value |-> Field(raw, "value", Null), enabled |-> Field(raw, "enabled", TRUE),
     version |-> Field(raw, "version", None), id |-> Field(raw, "id", None),
     code |-> Field(raw, "code", None), index |-> Field(raw, "index", None),
     payload |-> Field(raw, "payload", FALSE), reason |-> Field(raw, "reason", None),
     fromCache |-> Field(raw, "fromCache", FALSE),
     targetingKey |-> Field(raw, "matchTargetingKey", None),
     attributes |-> Field(raw, "matchAttribute", {}) \cup Field(raw, "matchPerson", {}),
     groups |-> Field(raw, "matchGroups", {})]

\* Conditions on attributes are pairs of a key and a value, on groups pairs
\* of a group type and a group.
ConditionsMatch(d, context) ==
    /\ d.targetingKey \in {None, context.targetingKey}
    /\ \A c \in d.attributes :
           c[1] \in DOMAIN context.attributes /\ context.attributes[c[1]] = c[2]
    /\ d.groups \subseteq IF Groups(context) = None THEN {} ELSE Groups(context).members

\* The vendor's id and code only for a matched condition.
Attributed(d) == None \notin {d.id, d.index, d.code}

ResolveDefinition(d, context) ==
    [value |-> d.value, enabled |-> d.enabled, matched |-> ConditionsMatch(d, context),
     version |-> d.version,
     vendorId |-> IF Attributed(d) THEN d.id ELSE None,
     reasonCode |-> IF Attributed(d) THEN d.code ELSE None,
     payload |-> d.payload, reason |-> d.reason, fromCache |-> d.fromCache]

\* An item of fw-server's answer, as it stands.
ResolveItem(item) ==
    [value |-> Field(item, "value", Null), enabled |-> Field(item, "enabled", TRUE),
     matched |-> TRUE, version |-> Field(item, "version", None),
     vendorId |-> Field(item, "vendorId", None),
     reasonCode |-> Field(item, "reasonCode", None),
     payload |-> Field(item, "payload", FALSE), reason |-> Field(item, "reason", None),
     fromCache |-> FALSE]

-----------------------------------------------------------------------------
(* The request body: groups and group properties travel on their own, and  *)
(* neither hints nor anything else of FireWeave's travels at all. Both     *)
(* spellings at once: the alias is read last.                              *)

\* Mutant: only the alias is looked for.
LiftAlias(attributes, canonical, alias) ==
    IF alias \in DOMAIN attributes /\ attributes[alias].object THEN attributes[alias] ELSE None

Lift(attributes, canonical, alias) ==
    LET spelled == {k \in {canonical, alias} \cap DOMAIN attributes : attributes[k].object}
    IN IF alias \in spelled THEN attributes[alias]
       ELSE IF canonical \in spelled THEN attributes[canonical]
       ELSE None

\* Mutant: vendor hints are sent along.
SendableWithHints(attributes, k) ==
    /\ k \notin Carriers \cup ForeignKeys
    /\ ~(k \in Aliases /\ attributes[k].object)

Sendable(attributes, k) ==
    /\ k \notin UNION {HintKeys, Carriers, ForeignKeys}
    /\ ~(k \in Aliases /\ attributes[k].object)

BodyOf(context) ==
    LET attributes == context.attributes
    IN [targetingKey |-> context.targetingKey,
        attributes |-> [k \in {k \in DOMAIN attributes : Sendable(attributes, k)} |->
                           attributes[k]],
        groups |-> Lift(attributes, "fireweave.groups", "groups"),
        groupProperties |->
            Lift(attributes, "fireweave.groupProperties", "groupProperties")]

-----------------------------------------------------------------------------
(* Decisions                                                               *)

ErrorDecision(q, e) ==
    [value |-> q.default, reason |-> "ERROR", errorKind |-> e.kind,
     errorCode |-> OpenFeatureCode(e),
     metadata |-> {"fireweave.errorKind"} \cup
                  (IF e.kind = "ControlPointNotFound" /\ e.quotaLimited
                     THEN {"fireweave.quotaLimited"} ELSE {})]

Given(q, reason, value, metadata) ==
    [value |-> value, reason |-> reason, errorKind |-> None, errorCode |-> None,
     metadata |-> metadata]

\* Mutant: a reason nobody gave is passed on.
ReasonAsGiven(r, now) == IF r.enabled THEN r.reason ELSE "DISABLED"

\* A reason of the adapter's own comes before what the runtime knows.
ReasonOf(r, now) ==
    IF r.reason # None THEN r.reason
    ELSE IF ~r.enabled THEN "DISABLED"
    ELSE IF r.fromCache \/ now = "stale" THEN "STALE"
    ELSE "TARGETING_MATCH"

MetadataOf(q, r) ==
    UNION {IF r.version # None THEN {"fireweave.controlPointVersion"} ELSE {},
           IF None \notin {r.vendorId, r.reasonCode}
             THEN {"fireweave.vendorControlPointId", "fireweave.reasonCode"} ELSE {},
           IF r.fromCache THEN {"fireweave.fromCache"} ELSE {},
           IF q.payload /\ r.payload THEN {"fireweave.payload"} ELSE {}}

DecisionFromResolution(q, r, now) ==
    IF ~r.matched THEN Given(q, "DEFAULT", q.default, {})
    ELSE IF ~MatchesExpectedType(r.value, q.type) THEN ErrorDecision(q, New("TypeMismatch"))
    ELSE Given(q, ReasonOf(r, now), r.value, MetadataOf(q, r))

\* The *_value methods take the value out again.
ValueOf(q, d) ==
    IF q.method = "value" /\ ~MatchesExpectedType(d.value, q.type) THEN q.default ELSE d.value

-----------------------------------------------------------------------------
(* The read: each action is what one lock, or one load, covers.            *)

Init ==
    /\ backend \in Backends
    /\ seeds \in IF backend = "local" THEN {LocalSeeds(e) : e \in {e \in Declarations : Declarable(e)}}
                                      ELSE {<<>>}
    /\ state = "ready"
    /\ globalContext = NoContext
    /\ clientContext = NoContext
    /\ closed = FALSE
    /\ ready = TRUE
    /\ definitions \in IF backend = "memory" THEN Fixtures ELSE {<<>>}
    /\ fault = None
    /\ targets = <<>>
    /\ pc = [t \in Threads |-> "idle"]
    /\ request = [t \in Threads |-> None]
    /\ merged = [t \in Threads |-> NoContext]
    /\ body = [t \in Threads |-> None]
    /\ resolution = [t \in Threads |-> None]
    /\ answer = [t \in Threads |-> None]
    /\ registering = [t \in Threads |-> None]
    /\ began = [t \in Threads |-> None]
    /\ acknowledged = {}

\* A call under way keeps copies of its own, and lets go of them.
scratch == <<merged, body, resolution>>

Return(t, decision) ==
    /\ pc' = [pc EXCEPT ![t] = "idle"]
    /\ answer' = [answer EXCEPT ![t] = [decision |-> decision,
                                        value |-> ValueOf(request[t], decision)]]
    /\ merged' = [merged EXCEPT ![t] = NoContext]
    /\ body' = [body EXCEPT ![t] = None]
    /\ resolution' = [resolution EXCEPT ![t] = None]

Fail(t, e) == Return(t, ErrorDecision(request[t], e))

Proceed(t, next) == pc' = [pc EXCEPT ![t] = next] /\ UNCHANGED answer

Resolved(t, r) ==
    /\ Proceed(t, "decide")
    /\ resolution' = [resolution EXCEPT ![t] = r]
    /\ UNCHANGED <<merged, body>>

\* What no step of a read changes.
outside == <<setup, state, layers, adapter, register>>

Ask(t, q) ==
    /\ pc[t] = "idle"
    /\ pc' = [pc EXCEPT ![t] = "validate"]
    /\ request' = [request EXCEPT ![t] = q]
    /\ answer' = [answer EXCEPT ![t] = None]
    /\ began' = [began EXCEPT ![t] = state]
    /\ UNCHANGED <<outside, scratch>>

MergedContext(invocation) == MergeContexts(globalContext, clientContext, invocation)

\* Key, default, context: all before the lifecycle, the layers in one read.
Validate(t) ==
    LET q       == request[t]
        context == MergedContext(q.context)
        failure == IF ValidateArguments(q) # None THEN ValidateArguments(q)
                   ELSE ValidateContext(context, RequireTargetingKey)
    IN /\ pc[t] = "validate"
       /\ IF failure # None
            THEN Fail(t, failure)
            ELSE /\ Proceed(t, "gate")
                 /\ merged' = [merged EXCEPT ![t] = context]
                 /\ UNCHANGED <<body, resolution>>
       /\ UNCHANGED <<outside, request, began>>

\* Mutant: a closed runtime is not turned away.
MayPassOnceStarted == TRUE

MayPass == state \in {"ready", "stale"}

FirstStep == CASE backend = "local" -> "lookup"
               [] backend = "memory" -> "fault"
               [] backend = "remote" -> "closed"

Gate(t) ==
    /\ pc[t] = "gate"
    /\ IF MayPass THEN Proceed(t, FirstStep) /\ UNCHANGED scratch
                  ELSE Fail(t, New("AlreadyClosed"))
    /\ UNCHANGED <<outside, request, began>>

ReadFault(t) ==
    /\ pc[t] = "fault"
    /\ IF fault = None THEN Proceed(t, "lookup") /\ UNCHANGED scratch
                       ELSE Fail(t, New(fault))
    /\ UNCHANGED <<outside, request, began>>

\* Neither in-process adapter asks whether it was closed.
LookupLocal(t) ==
    /\ pc[t] = "lookup"
    /\ backend = "local"
    /\ Resolved(t, ResolveLocal(request[t].key))
    /\ UNCHANGED <<outside, request, began>>

LookupDefinition(t) ==
    LET key == request[t].key
    IN /\ pc[t] = "lookup"
       /\ backend = "memory"
       /\ IF key \in DOMAIN definitions
            THEN Resolved(t, ResolveDefinition(DefinitionOf(definitions[key]), merged[t]))
            ELSE Fail(t, New("ControlPointNotFound"))
       /\ UNCHANGED <<outside, request, began>>

CheckClosed(t) ==
    /\ pc[t] = "closed"
    /\ IF closed THEN Fail(t, New("AlreadyClosed"))
                 ELSE Proceed(t, "ready") /\ UNCHANGED scratch
    /\ UNCHANGED <<outside, request, began>>

Keyed(context) == ValidateTargetingKey(context, TRUE) = None

CheckReady(t) ==
    /\ pc[t] = "ready"
    /\ IF ~ready THEN Fail(t, New("NotReady"))
       ELSE IF ~Keyed(merged[t]) THEN Fail(t, TargetingKeyMissing)
       ELSE /\ Proceed(t, "sent")
            /\ body' = [body EXCEPT ![t] = BodyOf(merged[t])]
            /\ UNCHANGED <<merged, resolution>>
    /\ UNCHANGED <<outside, request, began>>

Unanswered(t) ==
    /\ pc[t] = "sent"
    /\ \E kind \in RequestErrors : Fail(t, New(kind))
    /\ UNCHANGED <<outside, request, began>>

\* fw-server knows nothing of the key, or answers about others only.
NoItem == [found |-> FALSE]

Answered(t) ==
    /\ pc[t] = "sent"
    /\ \E item \in Items \cup {NoItem}, limited \in BOOLEAN :
          IF Field(item, "found", TRUE) THEN Resolved(t, ResolveItem(item))
                                        ELSE Fail(t, NotFound(limited))
    /\ UNCHANGED <<outside, request, began>>

Decide(t) ==
    /\ pc[t] = "decide"
    /\ Return(t, DecisionFromResolution(request[t], resolution[t], state))
    /\ UNCHANGED <<outside, request, began>>

-----------------------------------------------------------------------------
(* Registration in local mode: recorded in process, in one write.          *)

TargetOf(g) ==
    [kind |-> Field(g, "kind", "user"), properties |-> Field(g, "properties", {}),
     environment |-> Field(g, "environment", None)]

RegisterTarget(t, g) ==
    /\ pc[t] = "idle"
    /\ backend = "local"
    /\ MayPass
    /\ pc' = [pc EXCEPT ![t] = "register"]
    /\ registering' = [registering EXCEPT ![t] = g]
    /\ UNCHANGED <<setup, state, layers, adapter, targets, acknowledged,
                   scratch, request, answer, began>>

RecordTarget(t) ==
    LET g == registering[t]
    IN /\ pc[t] = "register"
       /\ targets' = [k \in DOMAIN targets \cup {g.targetingKey} |->
                         IF k = g.targetingKey THEN TargetOf(g) ELSE targets[k]]
       /\ acknowledged' = acknowledged \cup {g.targetingKey}
       /\ Proceed(t, "idle")
       /\ UNCHANGED <<setup, state, layers, adapter, registering, scratch, request, began>>

-----------------------------------------------------------------------------
(* What goes on meanwhile.                                                 *)

SetGlobalContext(c) ==
    /\ globalContext' = c
    /\ UNCHANGED <<setup, state, clientContext, adapter, read, register>>

SetClientContext(c) ==
    /\ clientContext' = c
    /\ UNCHANGED <<setup, state, globalContext, adapter, read, register>>

SetFlags(f) ==
    /\ backend = "memory"
    /\ definitions' = f
    /\ UNCHANGED <<setup, state, layers, closed, ready, fault, read, register>>

SetFault(f) ==
    /\ backend = "memory"
    /\ fault' = f
    /\ UNCHANGED <<setup, state, layers, closed, ready, definitions, read, register>>

MarkStale ==
    /\ state = "ready"
    /\ state' = "stale"
    /\ UNCHANGED <<setup, layers, adapter, read, register>>

Shutdown ==
    /\ state # "shutdown"
    /\ state' = "shutdown"
    /\ UNCHANGED <<setup, layers, adapter, read, register>>

CloseAdapter ==
    /\ state = "shutdown"
    /\ ~closed
    /\ closed' = TRUE
    /\ UNCHANGED <<setup, state, layers, ready, definitions, fault, read, register>>

UnreadyAdapter ==
    /\ backend = "remote"
    /\ closed /\ ready
    /\ ready' = FALSE
    /\ UNCHANGED <<setup, state, layers, closed, definitions, fault, read, register>>

-----------------------------------------------------------------------------
Reading(t) ==
    \/ \E q \in Requests : Ask(t, q)
    \/ Validate(t) \/ Gate(t)
    \/ ReadFault(t) \/ LookupLocal(t) \/ LookupDefinition(t)
    \/ CheckClosed(t) \/ CheckReady(t) \/ Unanswered(t) \/ Answered(t)
    \/ Decide(t)

Registering(t) == (\E g \in Targets : RegisterTarget(t, g)) \/ RecordTarget(t)

Meanwhile ==
    \/ \E c \in GlobalLayers \cup {NoContext} : SetGlobalContext(c)
    \/ \E c \in ClientLayers \cup {NoContext} : SetClientContext(c)
    \/ \E f \in Fixtures : SetFlags(f)
    \/ \E f \in RequestErrors \cup {None} : SetFault(f)
    \/ MarkStale \/ Shutdown \/ CloseAdapter \/ UnreadyAdapter

Next == (\E t \in Threads : Reading(t) \/ Registering(t)) \/ Meanwhile

Spec == Init /\ [][Next]_vars

-----------------------------------------------------------------------------
(* Properties                                                              *)

MetadataKeys ==
    {"fireweave.errorKind", "fireweave.quotaLimited", "fireweave.controlPointVersion",
     "fireweave.vendorControlPointId", "fireweave.reasonCode", "fireweave.fromCache",
     "fireweave.payload"}

InCall(t) == pc[t] \notin {"idle", "register"}

IsResolution(r) ==
    /\ r.value \in JsonValues
    /\ r.reason \in Reasons \cup {None}

Decision ==
    [value : JsonValues, reason : Reasons, errorKind : ErrorKind \cup {None},
     errorCode : Codes \cup {None}, metadata : SUBSET MetadataKeys]

\* Every piece of the runtime, its adapters and a read keeps its type, and a
\* read in flight has what its next step needs.
TypeOK ==
    /\ backend \in {"local", "memory", "remote"}
    /\ state \in {"ready", "stale", "shutdown"}
    /\ IsContext(globalContext) /\ IsContext(clientContext)
    /\ closed \in BOOLEAN /\ ready \in BOOLEAN
    /\ fault \in RequestErrors \cup {None}
    /\ backend = "memory" => definitions \in Fixtures
    /\ pc \in [Threads -> {"idle", "validate", "gate", "fault", "lookup", "closed",
                           "ready", "sent", "decide", "register"}]
    /\ request \in [Threads -> Requests \cup {None}]
    /\ began \in [Threads -> {"ready", "stale", "shutdown", None}]
    /\ \A f \in {merged, body, resolution, answer, registering} : DOMAIN f = Threads
    /\ \A t \in Threads :
           /\ IsContext(merged[t])
           /\ InCall(t) => request[t] \in Requests /\ answer[t] = None
           /\ pc[t] = "decide" => IsResolution(resolution[t])
           /\ answer[t] # None => /\ answer[t].decision \in Decision
                                  /\ answer[t].value \in JsonValues

\* A read keeps its promise whatever happens between its steps: it comes
\* back with the default and a reason, or with a value of the type asked
\* for and its metadata whole; the typed getters return just that value;
\* and a read that began after the shutdown is served nothing.
Promised == INSTANCE ControlPointRead
    WITH Readers <- Threads,
         asked   <- [t \in Threads |->
                        IF InCall(t) THEN [request |-> request[t],
                                           open |-> began[t] # "shutdown"]
                                     ELSE None],
         open    <- state # "shutdown"

KeepsReturnDiscipline == Promised!Spec

\* What goes to fw-server was validated whole, as it was after the layers
\* were laid over each other: the key can be one, there is a targeting key,
\* and no hint, reserved or FireWeave name, and nothing over a limit, is in
\* the attributes.
SentBodiesClean ==
    \A t \in Threads : body[t] # None =>
        /\ request[t].key.length \in 1..MaxControlPointKeyLength
        /\ body[t].targetingKey \notin {None, ""}
        /\ DOMAIN body[t].attributes \cap
               UNION {HintKeys, ForeignKeys, ReservedKeys, DefaultReserved, Carriers} = {}
        /\ Cardinality(DOMAIN body[t].attributes) <= Limits.attributeCount
        /\ \A k \in DOMAIN body[t].attributes : FitsAttribute(k, body[t].attributes[k])

SpelledOnce(context) ==
    /\ ~({"groups", "fireweave.groups"} \subseteq DOMAIN context.attributes)
    /\ ~({"groupProperties", "fireweave.groupProperties"} \subseteq DOMAIN context.attributes)

\* The groups fw-server is told of are those the in-memory adapter matches
\* on, for a context that spells each of them one way.
GroupsAgree ==
    \A t \in Threads : body[t] # None /\ SpelledOnce(merged[t]) =>
        /\ body[t].groups = Groups(merged[t])
        /\ body[t].groupProperties = GroupProperties(merged[t])

\* In local mode a control point of the file is served as it was declared
\* and every other one by the caller's default, without an error; only a
\* wrong type, a bad argument or a closed runtime is one.
AsDeclared(q, d) ==
    /\ d.errorKind \in {None, "ControlPointNotFound", "TypeMismatch", "InvalidContext",
                        "AlreadyClosed"}
    /\ d.errorKind = "ControlPointNotFound" => q.key \notin DOMAIN seeds
    /\ d.errorKind = None =>
          \/ q.key \in DOMAIN seeds /\ d.value = BooleanValue(seeds[q.key])
                                   /\ d.reason = "STATIC"
          \/ q.key \notin DOMAIN seeds /\ d.value = q.default /\ d.reason = "DEFAULT"

LocalServesWhatWasDeclared ==
    \A t \in Threads :
        backend = "local" /\ answer[t] # None => AsDeclared(request[t], answer[t].decision)

\* A target whose registration was acknowledged in local mode stays among
\* the registered ones, over later registrations and over the shutdown.
RegisteredStays == acknowledged \subseteq DOMAIN targets
=============================================================================
