-------------------------- MODULE ControlPointRead --------------------------
(***************************************************************************)
(* What reading a control point promises, whatever serves it: the return   *)
(* discipline of sdks/rust/src/application/runtime.rs and client.rs. A     *)
(* read always comes back with a value: one the backend decided, of the    *)
(* type that was asked for, or the caller's own default with the reason.   *)
(* Nothing is served to a read that began after the runtime was closed.    *)
(***************************************************************************)
EXTENDS Errors

CONSTANTS Readers, Requests, None

VARIABLES
    asked,   \* each reader's request, and whether the runtime was open then
    answer,  \* the value and the decision its last read came back with
    open

vars == <<asked, answer, open>>

MatchesExpectedType(value, type) == value.type = type

\* The vendor's id and the reason code tell a decision apart only together.
Paired(metadata) ==
    "fireweave.vendorControlPointId" \in metadata <=> "fireweave.reasonCode" \in metadata

Failed(q, d) ==
    /\ d.value = q.default
    /\ d.reason = "ERROR"
    /\ d.errorKind \in ErrorKind
    /\ d.errorCode \in Codes
    /\ d.errorCode = "TARGETING_KEY_MISSING" => d.errorKind = "InvalidContext"
    /\ "fireweave.errorKind" \in d.metadata
    /\ "fireweave.quotaLimited" \in d.metadata => d.errorKind = "ControlPointNotFound"

NoError(d) ==
    /\ d.errorKind = None
    /\ d.errorCode = None
    /\ "fireweave.errorKind" \notin d.metadata

Undecided(q, d) == NoError(d) /\ d.value = q.default /\ d.reason = "DEFAULT"

Served(q, d) ==
    /\ NoError(d)
    /\ MatchesExpectedType(d.value, q.type)
    /\ Paired(d.metadata)

Disciplined(ask, a) ==
    /\ a.value = a.decision.value
    /\ \/ Failed(ask.request, a.decision)
       \/ /\ ask.open
          /\ MatchesExpectedType(ask.request.default, ask.request.type)
          /\ Undecided(ask.request, a.decision) \/ Served(ask.request, a.decision)

-----------------------------------------------------------------------------
Init ==
    /\ asked = [r \in Readers |-> None]
    /\ answer = [r \in Readers |-> None]
    /\ open = TRUE

Ask(r, q) ==
    /\ asked[r] = None
    /\ asked' = [asked EXCEPT ![r] = [request |-> q, open |-> open]]
    /\ answer' = [answer EXCEPT ![r] = None]
    /\ UNCHANGED open

Answer(r) ==
    /\ asked[r] # None
    /\ asked' = [asked EXCEPT ![r] = None]
    /\ \A s \in Readers \ {r} : answer'[s] = answer[s]
    /\ Disciplined(asked[r], answer'[r])
    /\ UNCHANGED open

Close ==
    /\ open
    /\ open' = FALSE
    /\ UNCHANGED <<asked, answer>>

Next ==
    \/ \E r \in Readers : (\E q \in Requests : Ask(r, q)) \/ Answer(r)
    \/ Close

Spec == Init /\ [][Next]_vars
=============================================================================
