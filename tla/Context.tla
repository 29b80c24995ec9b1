------------------------------ MODULE Context -------------------------------
(***************************************************************************)
(* Evaluation contexts and what may be in one                              *)
(* (sdks/rust/src/domain/context.rs, sdks/rust/src/domain/validation.rs).  *)
(*                                                                         *)
(* A context is a targeting key and a function from attribute keys to      *)
(* values. An attribute key is a name, with the bytes it takes; a value is *)
(* known by an id, by whether it is a JSON object, by the group            *)
(* memberships it lists if it is, and by the four measures the limits are  *)
(* about: how deep it nests, the longest key and the longest text anywhere *)
(* in it, and the bytes it serialises to.                                  *)
(***************************************************************************)
EXTENDS Naturals, FiniteSets, Folds, Errors

CONSTANTS
    PlainKeys,       \* names of no special meaning
    HintKeys,        \* names that begin with "$": vendor hints
    ForeignKeys,     \* names that begin with "fireweave." and are not sanctioned
    ReservedKeys,    \* reserved by the configuration of the runtime
    AttributeValues, \* [id, object, members, depth, keyBytes, textBytes, bytes]
    TargetingKeys,   \* "" among them
    Bytes,           \* those of each attribute key and targeting key
    Limits,          \* ContextLimits
    None

Carriers        == {"fireweave.groups", "fireweave.groupProperties"}
Aliases         == {"groups", "groupProperties"}
DefaultReserved == {"targetingKey", "kind"}

AttributeKeys ==
    UNION {PlainKeys, HintKeys, ForeignKeys, ReservedKeys, Carriers, Aliases, DefaultReserved}

ASSUME AttributeKeysAssumption ==
    /\ Bytes \in [UNION {AttributeKeys, TargetingKeys, {None}} -> Nat]
    /\ (HintKeys \cup ForeignKeys) \cap (PlainKeys \cup Carriers \cup Aliases) = {}
    /\ PlainKeys \cap (Carriers \cup Aliases) = {}
ASSUME AttributeValuesAssumption ==
    \A v \in AttributeValues :
        /\ v.object \in BOOLEAN
        /\ {v.depth, v.keyBytes, v.textBytes, v.bytes} \subseteq Nat
ContextLimits ==
    [attributeCount : Nat, keyBytes : Nat, valueBytes : Nat, nestingDepth : Nat,
     serializedBytes : Nat]

ASSUME LimitsAssumption == Limits \in ContextLimits
ASSUME TargetingKeysAssumption == None \notin TargetingKeys /\ "" \in TargetingKeys
ASSUME NoObjectAssumption == None \notin AttributeValues

IsContext(c) ==
    /\ DOMAIN c = {"targetingKey", "attributes"}
    /\ c.targetingKey \in TargetingKeys \cup {None}
    /\ DOMAIN c.attributes \subseteq AttributeKeys
    /\ IsFiniteSet(DOMAIN c.attributes)
    /\ \A k \in DOMAIN c.attributes : c.attributes[k] \in AttributeValues

NoContext == [targetingKey |-> None, attributes |-> <<>>]

-----------------------------------------------------------------------------
(* Layers: the later one wins, attribute by attribute.                     *)

Over(later, earlier) ==
    [k \in DOMAIN earlier \cup DOMAIN later |->
        IF k \in DOMAIN later THEN later[k] ELSE earlier[k]]

Layer(later, earlier) ==
    [targetingKey |-> IF later.targetingKey # None THEN later.targetingKey
                                                   ELSE earlier.targetingKey,
     attributes   |-> Over(later.attributes, earlier.attributes)]

MergeContexts(global, client, invocation) ==
    Layer(invocation, Layer(client, Layer(global, NoContext)))

-----------------------------------------------------------------------------
(* Carriers: the canonical spelling before the alias, objects only.        *)

Carried(attributes, canonical, alias) ==
    LET spelled == IF canonical \in DOMAIN attributes THEN canonical ELSE alias
    IN IF spelled \in DOMAIN attributes /\ attributes[spelled].object
         THEN attributes[spelled]
         ELSE None

Groups(context) == Carried(context.attributes, "fireweave.groups", "groups")

GroupProperties(context) ==
    Carried(context.attributes, "fireweave.groupProperties", "groupProperties")

-----------------------------------------------------------------------------
(* Validation. Every failure but the last is the same InvalidContext, so   *)
(* only whether one of them holds is told apart.                           *)

HasReservedKey(attributes) ==
    DOMAIN attributes \cap UNION {DefaultReserved, ReservedKeys, ForeignKeys} # {}

FitsAttribute(k, v) ==
    /\ Bytes[k] <= Limits.keyBytes
    /\ v.keyBytes <= Limits.keyBytes
    /\ v.textBytes <= Limits.valueBytes
    /\ 1 + v.depth <= Limits.nestingDepth

\* The targeting key has no limit of its own: it counts here.
SerializedBytes(context) ==
    MapThenFoldSet(+, Bytes[context.targetingKey],
                   LAMBDA k : Bytes[k] + context.attributes[k].bytes,
                   LAMBDA S : CHOOSE k \in S : TRUE,
                   DOMAIN context.attributes)

WithinLimits(context) ==
    /\ Cardinality(DOMAIN context.attributes) <= Limits.attributeCount
    /\ \A k \in DOMAIN context.attributes : FitsAttribute(k, context.attributes[k])
    /\ SerializedBytes(context) <= Limits.serializedBytes

ValidateTargetingKey(context, required) ==
    IF required /\ context.targetingKey \in {None, ""} THEN TargetingKeyMissing ELSE None

\* What a context is rejected with, or None.
ValidateContext(context, required) ==
    IF HasReservedKey(context.attributes) \/ ~WithinLimits(context)
      THEN New("InvalidContext")
      ELSE ValidateTargetingKey(context, required)
=============================================================================
