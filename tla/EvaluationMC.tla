---------------------------- MODULE EvaluationMC ----------------------------
(* Evaluation over the arguments, layers and answers its guards tell apart. *)
EXTENDS Evaluation

Value(id, object, members, depth, keyBytes, textBytes, bytes) ==
    [id |-> id, object |-> object, members |-> members, depth |-> depth,
     keyBytes |-> keyBytes, textBytes |-> textBytes, bytes |-> bytes]

gold  == Value("gold", FALSE, {}, 0, 0, 2, 2)
iron  == Value("iron", FALSE, {}, 0, 0, 2, 2)
acme  == Value("acme", TRUE, {<<"company", "acme">>}, 1, 2, 2, 4)
other == Value("other", TRUE, {<<"company", "other">>}, 1, 2, 2, 4)
long  == Value("long", FALSE, {}, 0, 0, 3, 3)
wide  == Value("wide", TRUE, {}, 1, 4, 1, 4)
deep  == Value("deep", TRUE, {}, 3, 1, 1, 4)
big   == Value("big", FALSE, {}, 0, 0, 2, 30)

MCValues == {gold, iron, acme, other, long, wide, deep, big}
MCLimits == [attributeCount |-> 2, keyBytes |-> 3, valueBytes |-> 2, nestingDepth |-> 3,
             serializedBytes |-> 24]
MCBytes  == [k \in UNION {AttributeKeys, TargetingKeys, {None}} |->
                CASE k = "overlong" -> 4 [] k = "user" -> 2 [] OTHER -> 1]

Plain(key, attributes) == [targetingKey |-> key, attributes |-> attributes]
One(k, v) == Plain("user", [x \in {k} |-> v])
Two(k, v, l, w) == Plain("user", [x \in {k, l} |-> IF x = k THEN v ELSE w])

MCGlobal == {Plain("org", [plan |-> iron])}
MCClient == {Plain(None, [tier |-> iron, groups |-> acme])}

Invocations ==
    {NoContext, Plain("", <<>>), Plain("user", <<>>)}
    \cup {One("tier", v) : v \in MCValues}
    \cup {One(k, gold) : k \in {"overlong", "$hint", "kind", "tenant", "fireweave.flags", "groups",
                                "fireweave.groups"}}
    \cup {One(k, other) : k \in {"groups", "fireweave.groups", "groupProperties",
                                 "fireweave.groupProperties"}}
    \cup {Two("groups", acme, "fireweave.groups", other), Two("tier", gold, "plan", gold)}

Json(type, value) == [type |-> type, value |-> value]
MCJson == {Null, Json("boolean", TRUE), Json("boolean", FALSE), Json("string", "x"),
           Json("number", 1), Json("object", "{}")}

Key(name, length) == [name |-> name, length |-> length, control |-> FALSE]
checkout == Key("checkout", 8)
search   == Key("search", 256)
control  == [name |-> "control", length |-> 7, control |-> TRUE]
MCKeys   == {checkout, search, control, Key("", 0), Key("longest", 257)}

Call(method, key, type, default, context, payload) ==
    [method |-> method, key |-> key, type |-> type, default |-> default,
     context |-> context, payload |-> payload]

MCCalls ==
    {Call("evaluate", checkout, "boolean", Json("boolean", FALSE), c, TRUE) : c \in Invocations}
    \cup {Call("value", k, "boolean", Json("boolean", TRUE), One("tier", gold), FALSE) : k \in MCKeys}
    \cup {Call(m, checkout, "object", d, One("fireweave.groups", acme), FALSE) :
             m \in {"value", "details"}, d \in {Json("object", "{}"), Json("string", "x")}}
    \cup {Call("value", checkout, "number", Null, One("tier", gold), FALSE)}
    \cup {Call("evaluate", checkout, "string", d, One("tier", gold), FALSE) :
             d \in {Null, Json("string", "x")}}

MCDeclarations ==
    {<<>>,
     <<[key |-> checkout, local |-> TRUE], [key |-> search, local |-> FALSE]>>,
     <<[key |-> checkout, local |-> TRUE], [key |-> checkout, local |-> FALSE]>>,
     <<[key |-> Key("longest", 257), local |-> TRUE]>>}

MCFixtures ==
    {[k \in {checkout} |-> [value |-> Json("boolean", TRUE), id |-> 7, code |-> "c", index |-> 0,
                            matchGroups |-> {<<"company", "acme">>}]],
     [k \in {checkout} |-> [value |-> Json("boolean", TRUE), id |-> 7, code |-> "c", version |-> 2,
                            enabled |-> FALSE, matchTargetingKey |-> "user"]],
     [k \in {checkout} |-> [value |-> Json("string", "x"), fromCache |-> TRUE, payload |-> TRUE,
                            matchAttribute |-> {<<"tier", gold>>}]]}

MCItems ==
    {[value |-> Json("boolean", TRUE), reason |-> "SPLIT", vendorId |-> 7, reasonCode |-> "c"],
     [value |-> Json("boolean", TRUE), vendorId |-> 7, payload |-> TRUE],
     [value |-> Json("string", "x"), found |-> FALSE],
     [reason |-> "DISABLED", enabled |-> FALSE]}

MCTargets == {[targetingKey |-> "user"],
              [targetingKey |-> "user", kind |-> "device", properties |-> {"os"}],
              [targetingKey |-> "org"]}
=============================================================================
