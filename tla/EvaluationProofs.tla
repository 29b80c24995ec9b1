-------------------------- MODULE EvaluationProofs --------------------------
(***************************************************************************)
(* What Evaluation keeps, for any number of threads, keys, contexts,       *)
(* limits and answers. A read in flight carries what its earlier steps     *)
(* made sure of: Validated and Passed say what, Bodies and LocalSteps what *)
(* the adapter added. From them follow the promise of ControlPointRead     *)
(* and the safety properties.                                              *)
(***************************************************************************)
EXTENDS Evaluation, FiniteSetTheorems, TLAPS

-----------------------------------------------------------------------------
(* Errors and the decisions made of them.                                  *)

\* Every constructor makes an error of the taxonomy.
LEMMA Occurrences ==
    /\ \A kind \in ErrorKind : New(kind) \in FireweaveError /\ New(kind).kind = kind
    /\ \A limited \in BOOLEAN : NotFound(limited) \in FireweaveError
                                /\ NotFound(limited).kind = "ControlPointNotFound"
    /\ TargetingKeyMissing \in FireweaveError /\ TargetingKeyMissing.kind = "InvalidContext"
  BY DEF New, NotFound, TargetingKeyMissing, FireweaveError, ErrorKind

\* The code of an error is one of the contract's, and the missing targeting
\* key is reported of an invalid context only.
LEMMA CodesOfErrors ==
    ASSUME NEW e \in FireweaveError
    PROVE  /\ OpenFeatureCode(e) \in Codes
           /\ OpenFeatureCode(e) = "TARGETING_KEY_MISSING" => e.kind = "InvalidContext"
  BY DEF FireweaveError, OpenFeatureCode, BaseCode, Codes, ErrorKind

\* A request has the fields a call has.
LEMMA RequestFields ==
    ASSUME NEW q \in Requests
    PROVE  /\ q \in Calls /\ q.key \in Keys /\ q.type \in FlagTypes
           /\ q.default \in JsonValues /\ IsContext(q.context)
  BY CallsAssumption DEF Requests

\* An error decision fails the read as promised.
LEMMA ErrorsFail ==
    ASSUME NEW q \in Requests, NEW e \in FireweaveError
    PROVE  /\ ErrorDecision(q, e) \in Decision
           /\ Promised!Failed(q, ErrorDecision(q, e))
           /\ ErrorDecision(q, e).errorKind = e.kind
           /\ ErrorDecision(q, e).value = q.default
  <1>1. e.kind \in ErrorKind
    BY DEF FireweaveError
  <1>2. q.default \in JsonValues
    BY RequestFields
  <1>3. ErrorDecision(q, e).metadata \subseteq MetadataKeys
    BY DEF ErrorDecision, MetadataKeys
  <1>4. ErrorDecision(q, e) \in Decision
    BY <1>1, <1>2, <1>3, CodesOfErrors DEF ErrorDecision, Decision, Reasons
  <1>5. Promised!Failed(q, ErrorDecision(q, e))
    BY <1>1, CodesOfErrors
    DEF ErrorDecision, Promised!Failed, Promised!ErrorKind, Promised!Codes, ErrorKind, Codes
  <1> QED
    BY <1>4, <1>5 DEF ErrorDecision

-----------------------------------------------------------------------------
(* Resolutions and the decisions made of them.                             *)

\* What each adapter resolves to is a resolution.
LEMMA LocalResolves ==
    ASSUME NEW key, key \in DOMAIN seeds => seeds[key] \in BOOLEAN
    PROVE  IsResolution(ResolveLocal(key))
  BY ValuesAssumption DEF ResolveLocal, IsResolution, Hit, Miss, BooleanValue, Null, Reasons

LEMMA DefinitionResolves ==
    ASSUME NEW raw, WellFormed(raw), NEW context
    PROVE  IsResolution(ResolveDefinition(DefinitionOf(raw), context))
  BY DEF WellFormed, IsResolution, ResolveDefinition, DefinitionOf

LEMMA ItemResolves ==
    ASSUME NEW item \in Items
    PROVE  IsResolution(ResolveItem(item))
  BY ItemsAssumption DEF WellFormed, IsResolution, ResolveItem

\* The decision made of a resolution is one of the three kinds promised.
LEMMA ResolutionsDecide ==
    ASSUME NEW q \in Requests, NEW r, IsResolution(r), NEW now
    PROVE  LET d == DecisionFromResolution(q, r, now)
           IN /\ d \in Decision
              /\ \/ Promised!Failed(q, d)
                 \/ Promised!Undecided(q, d)
                 \/ Promised!Served(q, d)
              /\ d.value = q.default \/ MatchesExpectedType(d.value, q.type)
  <1> DEFINE d == DecisionFromResolution(q, r, now)
  <1>1. CASE ~r.matched
    <2>1. d = Given(q, "DEFAULT", q.default, {})
      BY <1>1 DEF DecisionFromResolution
    <2>2. d \in Decision
      BY <2>1, RequestFields DEF Given, Decision, Reasons
    <2>3. Promised!Undecided(q, d)
      BY <2>1 DEF Given, Promised!Undecided, Promised!NoError
    <2> QED
      BY <2>1, <2>2, <2>3 DEF Given
  <1>2. CASE r.matched /\ ~MatchesExpectedType(r.value, q.type)
    <2>1. d = ErrorDecision(q, New("TypeMismatch"))
      BY <1>2 DEF DecisionFromResolution
    <2>2. New("TypeMismatch") \in FireweaveError
      BY Occurrences DEF ErrorKind
    <2> QED
      BY <2>1, <2>2, ErrorsFail
  <1>3. CASE r.matched /\ MatchesExpectedType(r.value, q.type)
    <2>1. d = Given(q, ReasonOf(r, now), r.value, MetadataOf(q, r))
      BY <1>3 DEF DecisionFromResolution
    <2>2. ReasonOf(r, now) \in Reasons
      BY DEF IsResolution, ReasonOf, Reasons
    <2>3. MetadataOf(q, r) \subseteq MetadataKeys
      BY DEF MetadataOf, MetadataKeys
    <2>4. d \in Decision
      BY <2>1, <2>2, <2>3 DEF Given, Decision, IsResolution
    <2>5. Promised!Paired(MetadataOf(q, r))
      BY DEF MetadataOf, Promised!Paired
    <2>6. "fireweave.errorKind" \notin MetadataOf(q, r)
      BY DEF MetadataOf
    <2>7. Promised!Served(q, d)
      BY <1>3, <2>1, <2>5, <2>6
      DEF Given, Promised!Served, Promised!NoError, Promised!MatchesExpectedType,
          MatchesExpectedType
    <2> QED
      BY <1>3, <2>1, <2>4, <2>7 DEF Given
  <1> QED
    BY <1>1, <1>2, <1>3

-----------------------------------------------------------------------------
(* Contexts.                                                               *)

LEMMA NoContextIsContext == IsContext(NoContext)
  BY FS_EmptySet DEF IsContext, NoContext

\* Laying one context over another makes a context.
LEMMA LayersMakeContexts ==
    ASSUME NEW later, IsContext(later), NEW earlier, IsContext(earlier)
    PROVE  IsContext(Layer(later, earlier))
  <1> DEFINE merged_ == Layer(later, earlier)
             names   == DOMAIN earlier.attributes \cup DOMAIN later.attributes
  <1>1. DOMAIN merged_ = {"targetingKey", "attributes"}
    BY DEF Layer
  <1>2. merged_.targetingKey \in TargetingKeys \cup {None}
    BY DEF Layer, IsContext
  <1>3. merged_.attributes = Over(later.attributes, earlier.attributes)
    BY DEF Layer
  <1>4. DOMAIN merged_.attributes = names
    BY <1>3 DEF Over
  <1>5. IsFiniteSet(names)
    BY FS_Union DEF IsContext
  <1>6. \A k \in names : merged_.attributes[k] \in AttributeValues
    BY <1>3 DEF Over, IsContext
  <1> QED
    BY <1>1, <1>2, <1>4, <1>5, <1>6 DEF IsContext

\* The context a read works on is one.
LEMMA MergedIsContext ==
    ASSUME IsContext(globalContext), IsContext(clientContext),
           NEW c, IsContext(c)
    PROVE  IsContext(MergedContext(c))
  BY NoContextIsContext, LayersMakeContexts DEF MergedContext, MergeContexts

\* What is sent of a valid context with a targeting key is clean.
LEMMA ValidBodiesClean ==
    ASSUME NEW context, IsContext(context), NEW required,
           ValidateContext(context, required) = None,
           Keyed(context)
    PROVE  LET b == BodyOf(context)
           IN /\ b.targetingKey \notin {None, ""}
              /\ DOMAIN b.attributes \cap
                     UNION {HintKeys, ForeignKeys, ReservedKeys, DefaultReserved, Carriers} = {}
              /\ Cardinality(DOMAIN b.attributes) <= Limits.attributeCount
              /\ \A k \in DOMAIN b.attributes : FitsAttribute(k, b.attributes[k])
  <1> DEFINE attributes == context.attributes
             sent == {k \in DOMAIN attributes : Sendable(attributes, k)}
             b == BodyOf(context)
  <1>1. New("InvalidContext") # None /\ TargetingKeyMissing # None
    BY Occurrences, ErrorsAssumption DEF ErrorKind
  <1>2. ~HasReservedKey(attributes) /\ WithinLimits(context)
    BY <1>1 DEF ValidateContext
  <1>3. b.targetingKey \notin {None, ""}
    BY <1>1 DEF Keyed, ValidateTargetingKey, BodyOf
  <1>4. DOMAIN b.attributes = sent /\ \A k \in sent : b.attributes[k] = attributes[k]
    BY DEF BodyOf
  <1>5. sent \cap UNION {HintKeys, ForeignKeys, ReservedKeys, DefaultReserved, Carriers} = {}
    BY <1>2 DEF Sendable, HasReservedKey
  <1>6. IsFiniteSet(DOMAIN attributes)
    BY DEF IsContext
  <1>7. IsFiniteSet(sent) /\ Cardinality(sent) <= Cardinality(DOMAIN attributes)
    BY <1>6, FS_Subset
  <1>8. Cardinality(sent) \in Nat /\ Cardinality(DOMAIN attributes) \in Nat
    BY <1>6, <1>7, FS_CardinalityType
  <1>9. Cardinality(DOMAIN attributes) <= Limits.attributeCount /\ Limits.attributeCount \in Nat
    BY <1>2, LimitsAssumption DEF WithinLimits, ContextLimits
  <1>10. Cardinality(sent) <= Limits.attributeCount
    BY <1>7, <1>8, <1>9
  <1>11. \A k \in sent : FitsAttribute(k, attributes[k])
    BY <1>2 DEF WithinLimits
  <1> QED
    BY <1>3, <1>4, <1>5, <1>10, <1>11

\* Both sides find the same groups in a context that spells them one way.
LEMMA SpelledOnceAgrees ==
    ASSUME NEW context, SpelledOnce(context)
    PROVE  /\ BodyOf(context).groups = Groups(context)
           /\ BodyOf(context).groupProperties = GroupProperties(context)
  BY DEF SpelledOnce, BodyOf, Lift, Groups, GroupProperties, Carried

-----------------------------------------------------------------------------
(* The inductive invariant.                                                *)

PastValidation == {"gate", "fault", "lookup", "closed", "ready", "sent", "decide"}

Validated ==
    \A t \in Threads : pc[t] \in PastValidation =>
        /\ ValidateArguments(request[t]) = None
        /\ ValidateContext(merged[t], RequireTargetingKey) = None

Passed ==
    \A t \in Threads :
        /\ InCall(t) /\ began[t] = "shutdown" => state = "shutdown"
        /\ pc[t] \in PastValidation \ {"gate"} => began[t] # "shutdown"

Bodies ==
    \A t \in Threads : body[t] # None =>
        /\ pc[t] \in {"sent", "decide"}
        /\ body[t] = BodyOf(merged[t])
        /\ Keyed(merged[t])

LocalSteps ==
    backend = "local" =>
        /\ \A t \in Threads : pc[t] \notin {"fault", "closed", "ready", "sent"}
        /\ \A t \in Threads : pc[t] = "decide" => resolution[t] = ResolveLocal(request[t].key)
        /\ \A k \in DOMAIN seeds : ValidKey(k) /\ seeds[k] \in BOOLEAN

IInv ==
    /\ TypeOK
    /\ Validated
    /\ Passed
    /\ Bodies
    /\ LocalSteps
    /\ LocalServesWhatWasDeclared

\* What a step of one thread's read leaves alone: everyone else's.
Quiet == UNCHANGED <<outside, request, began>>

\* The parts of the invariant that only speak of what a step leaves alone
\* or of other threads survive it; the rest is up to the step.
LEMMA InitIInv ==
    ASSUME Init
    PROVE  IInv
  <1>1. TypeOK
    BY NoContextIsContext, BackendsAssumption DEF Init, TypeOK, InCall
  <1>2. Validated /\ Passed /\ Bodies /\ LocalServesWhatWasDeclared
    BY DEF Init, Validated, Passed, Bodies, LocalServesWhatWasDeclared, PastValidation, InCall
  <1>3. LocalSteps
    <2> SUFFICES ASSUME backend = "local"
                 PROVE  \A k \in DOMAIN seeds : ValidKey(k) /\ seeds[k] \in BOOLEAN
      BY DEF Init, LocalSteps
    <2>1. PICK e \in Declarations : Declarable(e) /\ seeds = LocalSeeds(e)
      BY DEF Init
    <2>2. \A k \in DOMAIN seeds : \E i \in DOMAIN e : e[i].key = k
      BY <2>1 DEF LocalSeeds
    <2>3. ASSUME NEW k \in DOMAIN seeds
          PROVE  seeds[k] \in BOOLEAN
      <3> DEFINE x == CHOOSE x \in {e[i] : i \in DOMAIN e} : x.key = k
      <3>1. x \in {e[i] : i \in DOMAIN e}
        BY <2>2
      <3>2. seeds[k] = x.local
        BY <2>1 DEF LocalSeeds
      <3> QED
        BY <3>1, <3>2, DeclarationsAssumption
    <2>4. \A k \in DOMAIN seeds : ValidKey(k)
      BY <2>1, <2>2 DEF Declarable
    <2> QED
      BY <2>3, <2>4
  <1> QED
    BY <1>1, <1>2, <1>3 DEF IInv

-----------------------------------------------------------------------------
(* Three shapes of a step: a read returns, goes on, or is not concerned.   *)

\* A read that returns a decision, as local mode would make it if it is on.
LEMMA Returning ==
    ASSUME IInv, NEW t \in Threads, InCall(t), NEW d \in Decision,
           Return(t, d), Quiet,
           backend = "local" => AsDeclared(request[t], d)
    PROVE  IInv'
  <1> USE DEF Quiet, outside, setup, layers, adapter, register
  <1>1. request[t] \in Requests /\ request[t].default \in JsonValues
    BY RequestFields DEF IInv, TypeOK
  <1>2. ValueOf(request[t], d) \in JsonValues
    BY <1>1 DEF ValueOf, Decision
  <1>3. pc' = [pc EXCEPT ![t] = "idle"] /\ pc'[t] = "idle"
    BY DEF IInv, TypeOK, Return
  <1>4. TypeOK'
    BY <1>2, <1>3, NoContextIsContext DEF IInv, TypeOK, Return, InCall
  <1>5. Validated'
    BY <1>3 DEF IInv, TypeOK, Validated, Return, PastValidation
  <1>6. Passed'
    BY <1>3 DEF IInv, TypeOK, Passed, Return, PastValidation, InCall
  <1>7. Bodies'
    BY <1>3 DEF IInv, TypeOK, Bodies, Return
  <1>8. LocalSteps'
    BY <1>3 DEF IInv, TypeOK, LocalSteps, Return, ResolveLocal
  <1>9. LocalServesWhatWasDeclared'
    BY <1>3 DEF IInv, TypeOK, LocalServesWhatWasDeclared, Return, AsDeclared
  <1> QED
    BY <1>4, <1>5, <1>6, <1>7, <1>8, <1>9 DEF IInv

\* A read that is given an error to return.
LEMMA Failing ==
    ASSUME IInv, NEW t \in Threads, InCall(t), NEW e \in FireweaveError,
           Fail(t, e), Quiet,
           backend = "local" =>
               \/ e.kind \in {"TypeMismatch", "InvalidContext", "AlreadyClosed"}
               \/ e.kind = "ControlPointNotFound" /\ request[t].key \notin DOMAIN seeds
    PROVE  IInv'
  <1>1. request[t] \in Requests
    BY DEF IInv, TypeOK
  <1>2. /\ ErrorDecision(request[t], e) \in Decision
        /\ ErrorDecision(request[t], e).errorKind = e.kind
    BY <1>1, ErrorsFail
  <1>3. e.kind # None
    BY ErrorsAssumption DEF FireweaveError
  <1>4. backend = "local" => AsDeclared(request[t], ErrorDecision(request[t], e))
    BY <1>2, <1>3 DEF AsDeclared
  <1> QED
    BY <1>2, <1>4, Returning DEF Fail

\* A read that goes on to another step of its adapter, with nothing new.
LEMMA GoingOn ==
    ASSUME IInv, NEW t \in Threads, pc[t] \in PastValidation \ {"decide", "sent"},
           NEW next \in PastValidation \ {"gate", "decide"},
           Proceed(t, next), Quiet, UNCHANGED scratch,
           began[t] # "shutdown",
           backend = "local" => next = "lookup"
    PROVE  IInv'
  <1> USE DEF Quiet, outside, setup, layers, adapter, register, scratch
  <1>1. pc' = [pc EXCEPT ![t] = next] /\ pc'[t] = next /\ InCall(t)
    BY DEF IInv, TypeOK, Proceed, PastValidation, InCall
  <1>2. TypeOK'
    BY <1>1 DEF IInv, TypeOK, Proceed, InCall, PastValidation
  <1>3. Validated'
    BY <1>1 DEF IInv, TypeOK, Validated, PastValidation
  <1>4. Passed'
    BY <1>1 DEF IInv, TypeOK, Passed, PastValidation, InCall
  <1>5. Bodies'
    BY <1>1 DEF IInv, TypeOK, Bodies, PastValidation
  <1>6. LocalSteps'
    BY <1>1 DEF IInv, TypeOK, LocalSteps, ResolveLocal, PastValidation
  <1>7. LocalServesWhatWasDeclared'
    BY <1>1 DEF IInv, TypeOK, LocalServesWhatWasDeclared, Proceed, AsDeclared
  <1> QED
    BY <1>2, <1>3, <1>4, <1>5, <1>6, <1>7 DEF IInv

\* A read its adapter has a resolution for.
LEMMA Resolving ==
    ASSUME IInv, NEW t \in Threads, pc[t] \in {"lookup", "sent"},
           NEW r, IsResolution(r), Resolved(t, r), Quiet,
           backend = "local" => r = ResolveLocal(request[t].key)
    PROVE  IInv'
  <1> USE DEF Quiet, outside, setup, layers, adapter, register
  <1>1. /\ pc' = [pc EXCEPT ![t] = "decide"] /\ pc'[t] = "decide" /\ InCall(t)
        /\ resolution' = [resolution EXCEPT ![t] = r] /\ resolution'[t] = r
        /\ UNCHANGED <<merged, body, answer>>
    BY DEF IInv, TypeOK, Proceed, Resolved, InCall
  <1>2. TypeOK'
    BY <1>1 DEF IInv, TypeOK, InCall
  <1>3. Validated'
    BY <1>1 DEF IInv, TypeOK, Validated, PastValidation
  <1>4. Passed'
    BY <1>1 DEF IInv, TypeOK, Passed, PastValidation, InCall
  <1>5. Bodies'
    BY <1>1 DEF IInv, TypeOK, Bodies
  <1>6. LocalSteps'
    BY <1>1 DEF IInv, TypeOK, LocalSteps, ResolveLocal
  <1>7. LocalServesWhatWasDeclared'
    BY <1>1 DEF IInv, TypeOK, LocalServesWhatWasDeclared, AsDeclared
  <1> QED
    BY <1>2, <1>3, <1>4, <1>5, <1>6, <1>7 DEF IInv

\* A step outside every read that does not touch the table of declared
\* values, nor opens what was shut down.
LEMMA Elsewhere ==
    ASSUME IInv, UNCHANGED <<setup, read>>,
           TypeOK',
           state = "shutdown" => state' = "shutdown"
    PROVE  IInv'
  <1> USE DEF setup, read
  <1>1. Validated' /\ Bodies'
    BY DEF IInv, Validated, Bodies
  <1>2. Passed'
    BY DEF IInv, Passed, InCall
  <1>3. LocalSteps' /\ LocalServesWhatWasDeclared'
    BY DEF IInv, LocalSteps, LocalServesWhatWasDeclared, ResolveLocal, AsDeclared
  <1> QED
    BY <1>1, <1>2, <1>3 DEF IInv

-----------------------------------------------------------------------------
(* The steps of a read.                                                    *)

\* What a read is refused for its arguments or its context.
LEMMA Refusals ==
    /\ \A q \in Requests : ValidateArguments(q) # None =>
           /\ ValidateArguments(q) \in FireweaveError
           /\ \/ ValidateArguments(q).kind = "TypeMismatch"
              \/ ValidateArguments(q).kind = "ControlPointNotFound" /\ ~ValidKey(q.key)
    /\ \A context, required : ValidateContext(context, required) # None =>
           /\ ValidateContext(context, required) \in FireweaveError
           /\ ValidateContext(context, required).kind = "InvalidContext"
  <1>1. /\ New("ControlPointNotFound") \in FireweaveError
        /\ New("TypeMismatch") \in FireweaveError
        /\ New("InvalidContext") \in FireweaveError
        /\ New("ControlPointNotFound").kind = "ControlPointNotFound"
        /\ New("TypeMismatch").kind = "TypeMismatch"
        /\ New("InvalidContext").kind = "InvalidContext"
    BY Occurrences DEF ErrorKind
  <1>2. TargetingKeyMissing \in FireweaveError /\ TargetingKeyMissing.kind = "InvalidContext"
    BY Occurrences
  <1> QED
    BY <1>1, <1>2 DEF ValidateArguments, ValidateContext, ValidateTargetingKey

LEMMA AskKeeps ==
    ASSUME IInv, NEW t \in Threads, NEW q \in Requests, Ask(t, q)
    PROVE  IInv'
  <1> USE DEF Ask, outside, setup, layers, adapter, register, scratch
  <1>1. /\ pc' = [pc EXCEPT ![t] = "validate"] /\ pc'[t] = "validate"
        /\ body[t] = None
    BY DEF IInv, TypeOK, Bodies
  <1>2. TypeOK'
    <2>1. /\ request' \in [Threads -> Requests \cup {None}] /\ request'[t] = q
          /\ began' \in [Threads -> {"ready", "stale", "shutdown", None}]
          /\ DOMAIN answer' = Threads /\ answer'[t] = None
      BY DEF IInv, TypeOK
    <2>2. \A u \in Threads \ {t} : /\ pc'[u] = pc[u] /\ request'[u] = request[u]
                                  /\ began'[u] = began[u] /\ answer'[u] = answer[u]
      BY DEF IInv, TypeOK
    <2> QED
      BY <1>1, <2>1, <2>2 DEF IInv, TypeOK, InCall
  <1>3. Validated'
    BY <1>1 DEF IInv, TypeOK, Validated, PastValidation
  <1>7. Bodies'
    BY <1>1 DEF IInv, TypeOK, Bodies
  <1>4. Passed'
    <2>1. state' = state /\ began'[t] = state
      BY DEF IInv, TypeOK
    <2>2. \A u \in Threads \ {t} : pc'[u] = pc[u] /\ began'[u] = began[u]
      BY DEF IInv, TypeOK
    <2> QED
      BY <1>1, <2>1, <2>2 DEF IInv, Passed, PastValidation, InCall
  <1>5. LocalSteps'
    BY <1>1 DEF IInv, TypeOK, LocalSteps, ResolveLocal
  <1>6. LocalServesWhatWasDeclared'
    BY <1>1 DEF IInv, TypeOK, LocalServesWhatWasDeclared, AsDeclared
  <1> QED
    BY <1>2, <1>3, <1>7, <1>4, <1>5, <1>6 DEF IInv

LEMMA ValidateKeeps ==
    ASSUME IInv, NEW t \in Threads, Validate(t)
    PROVE  IInv'
  <1> DEFINE q       == request[t]
             context == MergedContext(q.context)
             refused == ValidateContext(context, RequireTargetingKey)
  <1>0. pc[t] = "validate" /\ Quiet
    <2>1. pc[t] = "validate"
      BY Zenon DEF Validate
    <2>2. UNCHANGED <<outside, request, began>>
      BY Zenon DEF Validate
    <2> QED
      BY <2>1, <2>2 DEF Quiet
  <1>1. InCall(t) /\ q \in Requests /\ Quiet /\ pc[t] = "validate"
    BY <1>0 DEF IInv, TypeOK, InCall
  <1>2. CASE ValidateArguments(q) # None
    <2>1. Fail(t, ValidateArguments(q))
      BY <1>2 DEF Validate
    <2>2. backend = "local" /\ ~ValidKey(q.key) => q.key \notin DOMAIN seeds
      BY DEF IInv, LocalSteps
    <2> QED
      BY <1>1, <1>2, <2>1, <2>2, Refusals, Failing
  <1>3. CASE ValidateArguments(q) = None /\ refused # None
    <2>1. Fail(t, refused)
      BY <1>3 DEF Validate
    <2> QED
      BY <1>1, <1>3, <2>1, Refusals, Failing
  <1>4. CASE ValidateArguments(q) = None /\ refused = None
    <2> USE DEF Quiet, outside, setup, layers, adapter, register
    <2>1. /\ pc' = [pc EXCEPT ![t] = "gate"] /\ pc'[t] = "gate"
          /\ merged' = [merged EXCEPT ![t] = context] /\ merged'[t] = context
          /\ UNCHANGED <<body, resolution, answer>>
      BY <1>4 DEF Validate, Proceed, IInv, TypeOK
    <2>2. IsContext(context)
      BY <1>1, RequestFields, MergedIsContext DEF IInv, TypeOK
    <2>3. TypeOK'
      BY <1>1, <2>1, <2>2 DEF IInv, TypeOK, InCall
    <2>4. Validated'
      BY <1>1, <1>4, <2>1 DEF IInv, TypeOK, Validated, PastValidation
    <2>5. Passed'
      BY <1>1, <2>1 DEF IInv, TypeOK, Passed, PastValidation, InCall
    <2>6. Bodies'
      BY <1>1, <2>1 DEF IInv, TypeOK, Bodies
    <2>7. LocalSteps' /\ LocalServesWhatWasDeclared'
      BY <1>1, <2>1
      DEF IInv, TypeOK, LocalSteps, ResolveLocal, LocalServesWhatWasDeclared, AsDeclared
    <2> QED
      BY <2>3, <2>4, <2>5, <2>6, <2>7 DEF IInv
  <1> QED
    BY <1>2, <1>3, <1>4

LEMMA GateKeeps ==
    ASSUME IInv, NEW t \in Threads, Gate(t)
    PROVE  IInv'
  <1>1. pc[t] = "gate" /\ InCall(t) /\ Quiet
    BY DEF Gate, InCall, Quiet
  <1>2. CASE MayPass
    <2>1. Proceed(t, FirstStep) /\ UNCHANGED scratch
      BY <1>2 DEF Gate
    <2>2. FirstStep \in PastValidation \ {"gate", "decide"}
      BY DEF IInv, TypeOK, FirstStep, PastValidation
    <2>3. backend = "local" => FirstStep = "lookup"
      BY DEF FirstStep
    <2>4. began[t] # "shutdown"
      BY <1>1, <1>2 DEF IInv, Passed, MayPass
    <2> QED
      BY <1>1, <2>1, <2>2, <2>3, <2>4, GoingOn DEF PastValidation
  <1>3. CASE ~MayPass
    <2>1. Fail(t, New("AlreadyClosed"))
      BY <1>3 DEF Gate
    <2>2. New("AlreadyClosed") \in FireweaveError /\ New("AlreadyClosed").kind = "AlreadyClosed"
      BY Occurrences DEF ErrorKind
    <2> QED
      BY <1>1, <2>1, <2>2, Failing
  <1> QED
    BY <1>2, <1>3

LEMMA ReadFaultKeeps ==
    ASSUME IInv, NEW t \in Threads, ReadFault(t)
    PROVE  IInv'
  <1>1. pc[t] = "fault" /\ InCall(t) /\ Quiet /\ backend # "local" /\ began[t] # "shutdown"
    BY DEF ReadFault, InCall, Quiet, IInv, Passed, LocalSteps, PastValidation
  <1>2. CASE fault = None
    BY <1>1, <1>2, GoingOn DEF ReadFault, PastValidation
  <1>3. CASE fault # None
    <2>1. New(fault) \in FireweaveError
      BY <1>3, Occurrences, ErrorsAssumption DEF IInv, TypeOK
    <2> QED
      BY <1>1, <1>3, <2>1, Failing DEF ReadFault
  <1> QED
    BY <1>2, <1>3

LEMMA LookupLocalKeeps ==
    ASSUME IInv, NEW t \in Threads, LookupLocal(t)
    PROVE  IInv'
  <1>1. pc[t] = "lookup" /\ Quiet /\ backend = "local"
    BY DEF LookupLocal, Quiet
  <1>2. IsResolution(ResolveLocal(request[t].key))
    BY <1>1, LocalResolves DEF IInv, LocalSteps
  <1> QED
    BY <1>1, <1>2, Resolving DEF LookupLocal

LEMMA LookupDefinitionKeeps ==
    ASSUME IInv, NEW t \in Threads, LookupDefinition(t)
    PROVE  IInv'
  <1> DEFINE key == request[t].key
  <1>1. pc[t] = "lookup" /\ InCall(t) /\ Quiet /\ backend = "memory"
    BY DEF LookupDefinition, Quiet, InCall
  <1>2. CASE key \in DOMAIN definitions
    <2>1. WellFormed(definitions[key])
      BY <1>1, <1>2, FixturesAssumption DEF IInv, TypeOK
    <2>2. IsResolution(ResolveDefinition(DefinitionOf(definitions[key]), merged[t]))
      BY <2>1, DefinitionResolves
    <2> QED
      BY <1>1, <1>2, <2>2, Resolving DEF LookupDefinition
  <1>3. CASE key \notin DOMAIN definitions
    <2>1. New("ControlPointNotFound") \in FireweaveError
      BY Occurrences DEF ErrorKind
    <2> QED
      BY <1>1, <1>3, <2>1, Failing DEF LookupDefinition
  <1> QED
    BY <1>2, <1>3

LEMMA CheckClosedKeeps ==
    ASSUME IInv, NEW t \in Threads, CheckClosed(t)
    PROVE  IInv'
  <1>1. pc[t] = "closed" /\ InCall(t) /\ Quiet /\ backend # "local" /\ began[t] # "shutdown"
    BY DEF CheckClosed, InCall, Quiet, IInv, Passed, LocalSteps, PastValidation
  <1>2. CASE closed
    <2>1. New("AlreadyClosed") \in FireweaveError
      BY Occurrences DEF ErrorKind
    <2> QED
      BY <1>1, <1>2, <2>1, Failing DEF CheckClosed
  <1>3. CASE ~closed
    BY <1>1, <1>3, GoingOn DEF CheckClosed, PastValidation
  <1> QED
    BY <1>2, <1>3

LEMMA CheckReadyKeeps ==
    ASSUME IInv, NEW t \in Threads, CheckReady(t)
    PROVE  IInv'
  <1>1. /\ pc[t] = "ready" /\ InCall(t) /\ Quiet /\ backend # "local"
        /\ began[t] # "shutdown"
    <2>1. pc[t] = "ready" /\ Quiet
      BY Zenon DEF CheckReady, Quiet
    <2>2. InCall(t)
      BY <2>1 DEF InCall
    <2>3. backend # "local"
      BY <2>1 DEF IInv, LocalSteps
    <2>4. began[t] # "shutdown"
      BY <2>1 DEF IInv, Passed, PastValidation
    <2> QED
      BY <2>1, <2>2, <2>3, <2>4
  <1>2. CASE ~ready
    <2>1. New("NotReady") \in FireweaveError
      BY Occurrences DEF ErrorKind
    <2> QED
      BY <1>1, <1>2, <2>1, Failing DEF CheckReady
  <1>3. CASE ready /\ ~Keyed(merged[t])
    BY <1>1, <1>3, Occurrences, Failing DEF CheckReady
  <1>4. CASE ready /\ Keyed(merged[t])
    <2> USE DEF Quiet, outside, setup, layers, adapter, register
    <2>1. /\ pc' = [pc EXCEPT ![t] = "sent"] /\ pc'[t] = "sent"
          /\ body' = [body EXCEPT ![t] = BodyOf(merged[t])]
          /\ UNCHANGED <<merged, resolution, answer>>
      BY <1>4 DEF CheckReady, Proceed, IInv, TypeOK
    <2>2. TypeOK'
      BY <1>1, <2>1 DEF IInv, TypeOK, InCall
    <2>3. Validated'
      BY <1>1, <2>1 DEF IInv, TypeOK, Validated, PastValidation
    <2>4. Passed'
      BY <1>1, <2>1 DEF IInv, TypeOK, Passed, PastValidation, InCall
    <2>5. Bodies'
      BY <1>1, <1>4, <2>1 DEF IInv, TypeOK, Bodies
    <2>6. LocalSteps' /\ LocalServesWhatWasDeclared'
      BY <1>1, <2>1
      DEF IInv, TypeOK, LocalSteps, ResolveLocal, LocalServesWhatWasDeclared, AsDeclared
    <2> QED
      BY <2>2, <2>3, <2>4, <2>5, <2>6 DEF IInv
  <1> QED
    BY <1>2, <1>3, <1>4

LEMMA UnansweredKeeps ==
    ASSUME IInv, NEW t \in Threads, Unanswered(t)
    PROVE  IInv'
  <1>1. pc[t] = "sent" /\ InCall(t) /\ Quiet /\ backend # "local"
    BY DEF Unanswered, InCall, Quiet, IInv, LocalSteps
  <1>2. PICK kind \in RequestErrors : Fail(t, New(kind))
    BY DEF Unanswered
  <1>3. New(kind) \in FireweaveError
    BY Occurrences, ErrorsAssumption
  <1> QED
    BY <1>1, <1>2, <1>3, Failing

LEMMA AnsweredKeeps ==
    ASSUME IInv, NEW t \in Threads, Answered(t)
    PROVE  IInv'
  <1>1. pc[t] = "sent" /\ InCall(t) /\ Quiet /\ backend # "local"
    BY DEF Answered, InCall, Quiet, IInv, LocalSteps
  <1>2. PICK item \in Items \cup {NoItem}, limited \in BOOLEAN :
            IF Field(item, "found", TRUE) THEN Resolved(t, ResolveItem(item))
                                          ELSE Fail(t, NotFound(limited))
    BY DEF Answered
  <1>3. CASE Field(item, "found", TRUE)
    <2>1. item \in Items
      BY <1>3 DEF NoItem, Field
    <2> QED
      BY <1>1, <1>2, <1>3, <2>1, ItemResolves, Resolving
  <1>4. CASE ~Field(item, "found", TRUE)
    BY <1>1, <1>2, <1>4, Occurrences, Failing
  <1> QED
    BY <1>3, <1>4

LEMMA DecideKeeps ==
    ASSUME IInv, NEW t \in Threads, Decide(t)
    PROVE  IInv'
  <1> DEFINE q == request[t]
             r == resolution[t]
             d == DecisionFromResolution(q, r, state)
  <1>1. pc[t] = "decide" /\ InCall(t) /\ Quiet /\ Return(t, d)
    BY DEF Decide, InCall, Quiet
  <1>2. q \in Requests /\ IsResolution(r)
    BY <1>1 DEF IInv, TypeOK
  <1>3. d \in Decision
    BY <1>2, ResolutionsDecide
  <1>4. ASSUME backend = "local"
        PROVE  AsDeclared(q, d)
    <2>1. r = ResolveLocal(q.key)
      BY <1>1, <1>4 DEF IInv, LocalSteps
    <2>2. CASE q.key \notin DOMAIN seeds
      <3>1. d = Given(q, "DEFAULT", q.default, {})
        BY <2>1, <2>2 DEF ResolveLocal, Miss, Hit, DecisionFromResolution
      <3> QED
        BY <2>2, <3>1 DEF Given, AsDeclared
    <2>3. CASE q.key \in DOMAIN seeds
      <3>1. r.matched /\ r.value = BooleanValue(seeds[q.key]) /\ r.reason = "STATIC"
        BY <2>1, <2>3 DEF ResolveLocal, Hit
      <3>2. CASE MatchesExpectedType(r.value, q.type)
        <4>1. d = Given(q, ReasonOf(r, state), r.value, MetadataOf(q, r))
          BY <3>1, <3>2 DEF DecisionFromResolution
        <4>2. ReasonOf(r, state) = "STATIC"
          BY <3>1, ReasonsAssumption DEF ReasonOf, Reasons
        <4>3. d.value = BooleanValue(seeds[q.key]) /\ d.errorKind = None
              /\ d.reason = "STATIC"
          BY <3>1, <4>1, <4>2 DEF Given
        <4>4. None # "ControlPointNotFound"
          BY ErrorsAssumption DEF ErrorKind
        <4> QED
          BY <2>3, <4>3, <4>4 DEF AsDeclared
      <3>3. CASE ~MatchesExpectedType(r.value, q.type)
        <4>1. d = ErrorDecision(q, New("TypeMismatch"))
          BY <3>1, <3>3 DEF DecisionFromResolution
        <4>2. d.errorKind = "TypeMismatch"
          BY <4>1, <1>2, Occurrences, ErrorsFail DEF ErrorKind
        <4>3. None # "TypeMismatch"
          BY ErrorsAssumption DEF ErrorKind
        <4> QED
          BY <4>2, <4>3 DEF AsDeclared
      <3> QED
        BY <3>2, <3>3
    <2> QED
      BY <2>2, <2>3
  <1> QED
    BY <1>1, <1>3, <1>4, Returning

-----------------------------------------------------------------------------
(* The other steps, and all of them together.                              *)

LEMMA RegistrationKeeps ==
    ASSUME IInv, NEW t \in Threads, Registering(t)
    PROVE  IInv'
  <1> USE DEF setup, layers, adapter, scratch
  <1>1. PICK next \in {"idle", "register"} :
            /\ pc[t] \in {"idle", "register"}
            /\ pc' = [pc EXCEPT ![t] = next]
            /\ UNCHANGED <<setup, state, layers, adapter, scratch, request, answer, began>>
            /\ DOMAIN registering' = Threads
    <2>1. CASE \E g \in Targets : RegisterTarget(t, g)
      BY <2>1 DEF RegisterTarget, IInv, TypeOK
    <2>2. CASE RecordTarget(t)
      BY <2>2 DEF RecordTarget, Proceed, IInv, TypeOK
    <2> QED
      BY <2>1, <2>2 DEF Registering
  <1>2. pc'[t] = next
    BY <1>1 DEF IInv, TypeOK
  <1>3. TypeOK'
    BY <1>1, <1>2 DEF IInv, TypeOK, InCall
  <1>4. Validated' /\ Bodies'
    BY <1>1, <1>2 DEF IInv, TypeOK, Validated, Bodies, PastValidation
  <1>5. Passed'
    BY <1>1, <1>2 DEF IInv, TypeOK, Passed, PastValidation, InCall
  <1>6. LocalSteps'
    BY <1>1, <1>2 DEF IInv, TypeOK, LocalSteps, ResolveLocal
  <1>7. LocalServesWhatWasDeclared'
    BY <1>1 DEF IInv, TypeOK, LocalServesWhatWasDeclared, AsDeclared
  <1> QED
    BY <1>3, <1>4, <1>5, <1>6, <1>7 DEF IInv

LEMMA MeanwhileKeeps ==
    ASSUME IInv, Meanwhile
    PROVE  IInv'
  <1> USE DEF setup, layers, adapter, read, register
  <1>1. UNCHANGED <<setup, read>> /\ (state = "shutdown" => state' = "shutdown")
    BY DEF Meanwhile, SetGlobalContext, SetClientContext, SetFlags, SetFault, MarkStale,
           Shutdown, CloseAdapter, UnreadyAdapter
  <1>2. TypeOK'
    <2>1. ASSUME NEW c \in GlobalLayers \cup {NoContext}, SetGlobalContext(c)
          PROVE  TypeOK'
      <3>1. IsContext(c)
        BY <2>1, LayersAssumption, NoContextIsContext
      <3> QED
        BY <2>1, <3>1 DEF SetGlobalContext, IInv, TypeOK, InCall
    <2>2. ASSUME NEW c \in ClientLayers \cup {NoContext}, SetClientContext(c)
          PROVE  TypeOK'
      <3>1. IsContext(c)
        BY <2>2, LayersAssumption, NoContextIsContext
      <3> QED
        BY <2>2, <3>1 DEF SetClientContext, IInv, TypeOK, InCall
    <2>3. ASSUME NEW f \in Fixtures, SetFlags(f)
          PROVE  TypeOK'
      BY <2>3 DEF SetFlags, IInv, TypeOK, InCall
    <2>4. ASSUME NEW f \in RequestErrors \cup {None}, SetFault(f)
          PROVE  TypeOK'
      BY <2>4 DEF SetFault, IInv, TypeOK, InCall
    <2>5. CASE MarkStale \/ Shutdown
      BY <2>5 DEF MarkStale, Shutdown, IInv, TypeOK, InCall
    <2>6. CASE CloseAdapter \/ UnreadyAdapter
      BY <2>6 DEF CloseAdapter, UnreadyAdapter, IInv, TypeOK, InCall
    <2> QED
      BY <2>1, <2>2, <2>3, <2>4, <2>5, <2>6 DEF Meanwhile
  <1> QED
    BY <1>1, <1>2, Elsewhere

LEMMA StutteringKeeps ==
    ASSUME IInv, UNCHANGED vars
    PROVE  IInv'
  <1>1. TypeOK'
    BY DEF vars, setup, layers, adapter, read, register, IInv, TypeOK, InCall
  <1> QED
    BY <1>1, Elsewhere DEF vars

LEMMA NextKeeps ==
    ASSUME IInv, [Next]_vars
    PROVE  IInv'
  <1>1. ASSUME NEW t \in Threads, Reading(t)
        PROVE  IInv'
    BY <1>1, AskKeeps, ValidateKeeps, GateKeeps, ReadFaultKeeps, LookupLocalKeeps,
       LookupDefinitionKeeps, CheckClosedKeeps, CheckReadyKeeps, UnansweredKeeps,
       AnsweredKeeps, DecideKeeps DEF Reading
  <1> QED
    BY <1>1, RegistrationKeeps, MeanwhileKeeps, StutteringKeeps DEF Next

\* At every step of every read, its arguments, its body and its lookups are
\* what the merged context of the read makes them.
THEOREM Invariance == Spec => []IInv
  BY InitIInv, NextKeeps, PTL DEF Spec

-----------------------------------------------------------------------------
(* What follows.                                                           *)

\* The runtime, its adapters and the reads keep their types, with any number
\* of reads and registrations under way.
THEOREM TypeCorrect == Spec => []TypeOK
  <1>1. IInv => TypeOK
    BY DEF IInv
  <1> QED
    BY <1>1, Invariance, PTL

\* Whatever layers are set while a read is on its way, no attribute the
\* limits or the reserved names forbid reaches fw-server, nor a read without
\* a targeting key (runtime.rs evaluate, remote.rs serialize_evaluation_body).
THEOREM BodiesClean == Spec => []SentBodiesClean
  <1>1. IInv => SentBodiesClean
    <2> SUFFICES ASSUME IInv, NEW t \in Threads, body[t] # None
                 PROVE  /\ request[t].key.length \in 1..MaxControlPointKeyLength
                        /\ body[t].targetingKey \notin {None, ""}
                        /\ DOMAIN body[t].attributes \cap
                               UNION {HintKeys, ForeignKeys, ReservedKeys, DefaultReserved,
                                      Carriers} = {}
                        /\ Cardinality(DOMAIN body[t].attributes) <= Limits.attributeCount
                        /\ \A k \in DOMAIN body[t].attributes :
                               FitsAttribute(k, body[t].attributes[k])
      BY DEF SentBodiesClean
    <2>1. /\ body[t] = BodyOf(merged[t]) /\ Keyed(merged[t]) /\ IsContext(merged[t])
          /\ ValidateArguments(request[t]) = None
          /\ ValidateContext(merged[t], RequireTargetingKey) = None
          /\ request[t] \in Requests
      BY DEF IInv, Bodies, Validated, TypeOK, PastValidation, InCall
    <2>2. ValidKey(request[t].key)
      <3>1. New("ControlPointNotFound") # None
        BY Occurrences, ErrorsAssumption DEF ErrorKind
      <3> QED
        BY <2>1, <3>1 DEF ValidateArguments
    <2>3. request[t].key.length \in Nat
      BY <2>1, RequestFields, KeysAssumption
    <2>4. request[t].key.length \in 1..MaxControlPointKeyLength
      BY <2>2, <2>3 DEF ValidKey, MaxControlPointKeyLength
    <2> QED
      BY <2>1, <2>4, ValidBodiesClean
  <1> QED
    BY <1>1, Invariance, PTL

\* The service and the in-memory adapter see the same groups in a context
\* that spells them one way (remote.rs lift, memory.rs groups).
THEOREM GroupsAlwaysAgree == Spec => []GroupsAgree
  <1>1. IInv => GroupsAgree
    BY SpelledOnceAgrees DEF IInv, Bodies, GroupsAgree
  <1> QED
    BY <1>1, Invariance, PTL

\* A control points file is served as declared in local mode, whatever is
\* asked and whatever happens to the runtime meanwhile (local.rs, runtime.rs).
THEOREM LocalServes == Spec => []LocalServesWhatWasDeclared
  <1>1. IInv => LocalServesWhatWasDeclared
    BY DEF IInv
  <1> QED
    BY <1>1, Invariance, PTL

\* An acknowledged target is never lost again in local mode, by any number
\* of registrations at once or by the shutdown (local.rs register_target).
THEOREM TargetsStay == Spec => []RegisteredStays
  <1>1. Init => RegisteredStays
    BY DEF Init, RegisteredStays
  <1>2. RegisteredStays /\ [Next]_vars => RegisteredStays'
    <2> SUFFICES ASSUME RegisteredStays, [Next]_vars
                 PROVE  RegisteredStays'
      OBVIOUS
    <2>1. ASSUME NEW t \in Threads, RecordTarget(t)
          PROVE  RegisteredStays'
      BY <2>1 DEF RecordTarget, RegisteredStays
    <2>2. CASE UNCHANGED <<targets, acknowledged>>
      BY <2>2 DEF RegisteredStays
    <2>3. \/ \E t \in Threads : RecordTarget(t)
          \/ UNCHANGED <<targets, acknowledged>>
      <3> USE DEF outside, register
      <3>1. ASSUME NEW t \in Threads, Reading(t)
            PROVE  UNCHANGED <<targets, acknowledged>>
        BY <3>1
        DEF Reading, Ask, Validate, Gate, ReadFault, LookupLocal, LookupDefinition,
            CheckClosed, CheckReady, Unanswered, Answered, Decide
      <3>2. ASSUME NEW t \in Threads, NEW g \in Targets, RegisterTarget(t, g)
            PROVE  UNCHANGED <<targets, acknowledged>>
        BY <3>2 DEF RegisterTarget
      <3>3. Meanwhile => UNCHANGED <<targets, acknowledged>>
        BY DEF Meanwhile, SetGlobalContext, SetClientContext, SetFlags, SetFault,
               MarkStale, Shutdown, CloseAdapter, UnreadyAdapter
      <3> QED
        BY <3>1, <3>2, <3>3 DEF Next, Registering, vars
    <2> QED
      BY <2>1, <2>2, <2>3
  <1> QED
    BY <1>1, <1>2, PTL DEF Spec

-----------------------------------------------------------------------------
(* The promise of ControlPointRead.                                        *)

\* Every step of a read asks, fails, decides, or goes on unnoticed.
LEMMA StepsOfARead ==
    ASSUME IInv, NEW t \in Threads, Reading(t)
    PROVE  \/ \E q \in Requests : Ask(t, q)
           \/ InCall(t) /\ Quiet /\ \E e \in FireweaveError : Fail(t, e)
           \/ Decide(t)
           \/ /\ InCall(t) /\ Quiet
              /\ \E next \in PastValidation : Proceed(t, next)
  <1> DEFINE Fails == InCall(t) /\ Quiet /\ \E e \in FireweaveError : Fail(t, e)
             Goes  == InCall(t) /\ Quiet /\ \E next \in PastValidation : Proceed(t, next)
  <1>1. CASE Validate(t)
    <2>1. InCall(t) /\ request[t] \in Requests
      BY <1>1 DEF Validate, InCall, IInv, TypeOK
    <2>2. Quiet
      BY Zenon, <1>1 DEF Validate, Quiet
    <2>3. \/ \E e \in FireweaveError : Fail(t, e)
          \/ Proceed(t, "gate")
      BY <1>1, <2>1, Refusals DEF Validate
    <2> QED
      BY <2>1, <2>2, <2>3 DEF PastValidation
  <1>2. CASE Gate(t)
    <2>1. InCall(t) /\ Quiet
      BY <1>2 DEF Gate, Quiet, InCall
    <2>2. New("AlreadyClosed") \in FireweaveError
      BY Occurrences DEF ErrorKind
    <2>3. FirstStep \in PastValidation
      BY DEF IInv, TypeOK, FirstStep, PastValidation
    <2> QED
      BY <1>2, <2>1, <2>2, <2>3 DEF Gate
  <1>3. CASE ReadFault(t)
    <2>1. InCall(t) /\ Quiet
      BY <1>3 DEF ReadFault, Quiet, InCall
    <2>2. fault # None => New(fault) \in FireweaveError
      BY Occurrences, ErrorsAssumption DEF IInv, TypeOK
    <2> QED
      BY <1>3, <2>1, <2>2 DEF ReadFault, PastValidation
  <1>4. CASE LookupLocal(t)
    <2>1. InCall(t) /\ Quiet
      BY <1>4 DEF LookupLocal, Quiet, InCall
    <2> QED
      BY <1>4, <2>1 DEF LookupLocal, Resolved, PastValidation
  <1>5. CASE LookupDefinition(t)
    <2>1. InCall(t) /\ Quiet
      BY <1>5 DEF LookupDefinition, Quiet, InCall
    <2>2. New("ControlPointNotFound") \in FireweaveError
      BY Occurrences DEF ErrorKind
    <2> QED
      BY <1>5, <2>1, <2>2 DEF LookupDefinition, Resolved, PastValidation
  <1>6. CASE CheckClosed(t)
    <2>1. InCall(t) /\ Quiet
      BY <1>6 DEF CheckClosed, Quiet, InCall
    <2>2. New("AlreadyClosed") \in FireweaveError
      BY Occurrences DEF ErrorKind
    <2> QED
      BY <1>6, <2>1, <2>2 DEF CheckClosed, PastValidation
  <1>7. CASE CheckReady(t)
    <2>1. pc[t] = "ready" /\ Quiet
      BY Zenon, <1>7 DEF CheckReady, Quiet
    <2>2. InCall(t)
      BY <2>1 DEF InCall
    <2>3. New("NotReady") \in FireweaveError /\ TargetingKeyMissing \in FireweaveError
      BY Occurrences DEF ErrorKind
    <2>4. \/ Fail(t, New("NotReady"))
          \/ Fail(t, TargetingKeyMissing)
          \/ Proceed(t, "sent")
      BY <1>7 DEF CheckReady
    <2> QED
      BY <2>1, <2>2, <2>3, <2>4 DEF PastValidation
  <1>8. CASE Unanswered(t)
    <2>1. InCall(t) /\ Quiet
      BY <1>8 DEF Unanswered, Quiet, InCall
    <2> QED
      BY <1>8, <2>1, Occurrences, ErrorsAssumption DEF Unanswered
  <1>9. CASE Answered(t)
    <2>1. InCall(t) /\ Quiet
      BY <1>9 DEF Answered, Quiet, InCall
    <2> QED
      BY <1>9, <2>1, Occurrences DEF Answered, Resolved, PastValidation
  <1> QED
    BY <1>1, <1>2, <1>3, <1>4, <1>5, <1>6, <1>7, <1>8, <1>9 DEF Reading

\* The typed methods give the value of the decision, for a decision that has
\* the caller's default or a value of the type asked for.
LEMMA ValueIsTheDecisions ==
    ASSUME NEW q, NEW d, d.value = q.default \/ MatchesExpectedType(d.value, q.type)
    PROVE  ValueOf(q, d) = d.value
  BY DEF ValueOf

\* A read that returns a disciplined decision answers as promised.
LEMMA ReturnsAnswer ==
    ASSUME IInv, NEW t \in Threads, InCall(t), NEW d, Return(t, d), Quiet,
           Promised!Disciplined([request |-> request[t], open |-> began[t] # "shutdown"],
                                [decision |-> d, value |-> ValueOf(request[t], d)])
    PROVE  Promised!Answer(t)
  <1> DEFINE asked == [u \in Threads |->
                          IF InCall(u) THEN [request |-> request[u],
                                             open |-> began[u] # "shutdown"]
                                       ELSE None]
             ask   == [request |-> request[t], open |-> began[t] # "shutdown"]
  <1>1. asked[t] = ask
    OBVIOUS
  <1>2. ask \in [request : Calls, open : BOOLEAN]
    BY DEF IInv, TypeOK, Requests
  <1>3. asked[t] # None
    BY <1>1, <1>2, RequestsAssumption
  <1>4. asked' = [asked EXCEPT ![t] = None]
    <2>1. pc'[t] = "idle" /\ \A u \in Threads \ {t} : pc'[u] = pc[u]
      BY DEF IInv, TypeOK, Return
    <2> QED
      BY <2>1 DEF InCall, Quiet
  <1>5. /\ answer'[t] = [decision |-> d, value |-> ValueOf(request[t], d)]
        /\ \A u \in Threads \ {t} : answer'[u] = answer[u]
    BY DEF Return, IInv, TypeOK
  <1>6. UNCHANGED state
    BY DEF Quiet, outside
  <1>7. Promised!Disciplined(asked[t], answer'[t])
    BY <1>1, <1>5
  <1> QED
    BY <1>3, <1>4, <1>5, <1>6, <1>7 DEF Promised!Answer

LEMMA FailsAsPromised ==
    ASSUME IInv, NEW t \in Threads, InCall(t), NEW e \in FireweaveError, Fail(t, e), Quiet
    PROVE  Promised!Answer(t)
  <1> DEFINE q == request[t]
             d == ErrorDecision(q, e)
  <1>1. q \in Requests
    BY DEF IInv, TypeOK
  <1>2. Promised!Failed(q, d) /\ d.value = q.default
    BY <1>1, ErrorsFail
  <1>3. ValueOf(q, d) = d.value
    BY <1>2, ValueIsTheDecisions
  <1>4. Promised!Disciplined([request |-> q, open |-> began[t] # "shutdown"],
                             [decision |-> d, value |-> ValueOf(q, d)])
    BY <1>2, <1>3 DEF Promised!Disciplined
  <1> QED
    BY <1>4, ReturnsAnswer DEF Fail

LEMMA DecidesAsPromised ==
    ASSUME IInv, NEW t \in Threads, Decide(t)
    PROVE  Promised!Answer(t)
  <1> DEFINE q == request[t]
             d == DecisionFromResolution(q, resolution[t], state)
  <1>1. pc[t] = "decide" /\ InCall(t) /\ Quiet /\ Return(t, d)
    BY DEF Decide, InCall, Quiet
  <1>2. /\ q \in Requests /\ IsResolution(resolution[t])
        /\ began[t] # "shutdown"
        /\ ValidateArguments(q) = None
    BY <1>1 DEF IInv, TypeOK, Passed, Validated, PastValidation
  <1>3. MatchesExpectedType(q.default, q.type)
    <2>1. New("TypeMismatch") # None /\ New("ControlPointNotFound") # None
      BY Occurrences, ErrorsAssumption DEF ErrorKind
    <2> QED
      BY <1>2, <2>1 DEF ValidateArguments
  <1>4. /\ Promised!Failed(q, d) \/ Promised!Undecided(q, d) \/ Promised!Served(q, d)
        /\ d.value = q.default \/ MatchesExpectedType(d.value, q.type)
    BY <1>2, ResolutionsDecide
  <1>5. ValueOf(q, d) = d.value
    BY <1>4, ValueIsTheDecisions
  <1>6. Promised!Disciplined([request |-> q, open |-> began[t] # "shutdown"],
                             [decision |-> d, value |-> ValueOf(q, d)])
    BY <1>2, <1>3, <1>4, <1>5
    DEF Promised!Disciplined, Promised!MatchesExpectedType, MatchesExpectedType
  <1> QED
    BY <1>1, <1>6, ReturnsAnswer

\* A step that leaves the calls under way and their answers as they were is
\* none of the promise's business.
LEMMA Unnoticed ==
    ASSUME IInv, \A t \in Threads : InCall(t)' = InCall(t),
           UNCHANGED <<request, began, answer>>,
           (state = "shutdown")' = (state = "shutdown")
    PROVE  UNCHANGED Promised!vars
  BY DEF Promised!vars

LEMMA AsksAsPromised ==
    ASSUME IInv, NEW t \in Threads, NEW q \in Requests, Ask(t, q)
    PROVE  Promised!Ask(t, q)
  <1> DEFINE asked == [u \in Threads |->
                          IF InCall(u) THEN [request |-> request[u],
                                             open |-> began[u] # "shutdown"]
                                       ELSE None]
             open  == state # "shutdown"
  <1>1. asked[t] = None
    BY DEF Ask, InCall
  <1>2. /\ pc'[t] = "validate" /\ request'[t] = q /\ began'[t] = state
        /\ answer' = [answer EXCEPT ![t] = None]
        /\ UNCHANGED state
    BY DEF Ask, IInv, TypeOK, outside
  <1>3. \A u \in Threads \ {t} : /\ pc'[u] = pc[u] /\ request'[u] = request[u]
                                /\ began'[u] = began[u]
    BY DEF Ask, IInv, TypeOK
  <1>4. asked' = [asked EXCEPT ![t] = [request |-> q, open |-> open]]
    BY <1>2, <1>3 DEF InCall
  <1> QED
    BY <1>1, <1>2, <1>4 DEF Promised!Ask

\* A read comes back with its default and the reason, or with a value of the
\* type asked for, whatever the service, the application and other threads do
\* between its steps (runtime.rs evaluate, client.rs, ports.rs).
THEOREM KeepsPromise == Spec => KeepsReturnDiscipline
  <1>1. Init => Promised!Init
    BY DEF Init, Promised!Init, InCall
  <1>2. IInv /\ [Next]_vars => [Promised!Next]_Promised!vars
    <2> SUFFICES ASSUME IInv, [Next]_vars
                 PROVE  Promised!Next \/ UNCHANGED Promised!vars
      OBVIOUS
    <2>1. ASSUME NEW t \in Threads, Reading(t)
          PROVE  Promised!Next \/ UNCHANGED Promised!vars
      <3>1. ASSUME NEW q \in Requests, Ask(t, q)
            PROVE  Promised!Next
        BY <3>1, AsksAsPromised DEF Promised!Next
      <3>2. ASSUME InCall(t), Quiet, NEW e \in FireweaveError, Fail(t, e)
            PROVE  Promised!Next
        BY <3>2, FailsAsPromised DEF Promised!Next
      <3>3. CASE Decide(t)
        BY <3>3, DecidesAsPromised DEF Promised!Next
      <3>4. ASSUME InCall(t), Quiet, NEW next \in PastValidation, Proceed(t, next)
            PROVE  UNCHANGED Promised!vars
        <4>1. \A u \in Threads : InCall(u)' = InCall(u)
          BY <3>4 DEF Proceed, InCall, PastValidation, IInv, TypeOK
        <4> QED
          BY <3>4, <4>1, Unnoticed DEF Quiet, outside, Proceed
      <3> QED
        BY <2>1, <3>1, <3>2, <3>3, <3>4, StepsOfARead
    <2>2. ASSUME NEW t \in Threads, Registering(t)
          PROVE  UNCHANGED Promised!vars
      <3>1. \A u \in Threads : InCall(u)' = InCall(u)
        BY <2>2 DEF Registering, RegisterTarget, RecordTarget, Proceed, InCall, IInv, TypeOK
      <3>2. UNCHANGED <<state, request, began, answer>>
        BY <2>2 DEF Registering, RegisterTarget, RecordTarget, Proceed
      <3> QED
        BY <3>1, <3>2, Unnoticed
    <2>3. CASE Shutdown
      <3>1. Promised!Close
        BY <2>3 DEF Shutdown, Promised!Close, read, InCall
      <3> QED
        BY <3>1 DEF Promised!Next
    <2>4. CASE Meanwhile /\ ~Shutdown
      <3>1. UNCHANGED read /\ (state = "shutdown")' = (state = "shutdown")
        BY <2>4
        DEF Meanwhile, SetGlobalContext, SetClientContext, SetFlags, SetFault, MarkStale,
            CloseAdapter, UnreadyAdapter
      <3> QED
        BY <3>1, Unnoticed DEF read, InCall
    <2>5. CASE UNCHANGED vars
      BY <2>5, Unnoticed DEF vars, read, InCall
    <2> QED
      BY <2>1, <2>2, <2>3, <2>4, <2>5 DEF Next
  <1> QED
    BY <1>1, <1>2, Invariance, PTL DEF Spec, KeepsReturnDiscipline, Promised!Spec
=============================================================================
