------------------------------- MODULE Errors -------------------------------
(***************************************************************************)
(* The error taxonomy every part of the Rust SDK answers with              *)
(* (sdks/rust/src/domain/errors.rs): fifteen kinds, which of them a later  *)
(* identical call may succeed at, and the OpenFeature code of an           *)
(* occurrence, which two subtypes override.                                *)
(***************************************************************************)

ErrorKind ==
    {"NotReady", "ControlPointNotFound", "TypeMismatch", "InvalidContext",
     "Authentication", "Authorization", "RateLimited", "Timeout", "Network",
     "BackendUnavailable", "MalformedResponse", "UnsupportedCapability",
     "Configuration", "AlreadyClosed", "Internal"}

IsRetryable(kind) ==
    kind \in {"NotReady", "RateLimited", "Timeout", "Network", "BackendUnavailable"}

BaseCode(kind) ==
    CASE kind \in {"NotReady", "AlreadyClosed"} -> "PROVIDER_NOT_READY"
      [] kind = "ControlPointNotFound" -> "FLAG_NOT_FOUND"
      [] kind = "TypeMismatch" -> "TYPE_MISMATCH"
      [] kind = "InvalidContext" -> "INVALID_CONTEXT"
      [] kind = "MalformedResponse" -> "PARSE_ERROR"
      [] OTHER -> "GENERAL"

Codes == {"PROVIDER_NOT_READY", "FLAG_NOT_FOUND", "TYPE_MISMATCH", "INVALID_CONTEXT",
          "PARSE_ERROR", "GENERAL", "TARGETING_KEY_MISSING", "PROVIDER_FATAL"}

-----------------------------------------------------------------------------
(* An occurrence: its kind and three flags, each of which means something  *)
(* on one kind only. Messages are the business of Redaction.               *)

FireweaveError ==
    [kind : ErrorKind, quotaLimited : BOOLEAN, initFatal : BOOLEAN,
     targetingKeyMissing : BOOLEAN]

New(kind) ==
    [kind |-> kind, quotaLimited |-> FALSE, initFatal |-> FALSE,
     targetingKeyMissing |-> FALSE]

NotFound(limited) == [New("ControlPointNotFound") EXCEPT !.quotaLimited = limited]

TargetingKeyMissing == [New("InvalidContext") EXCEPT !.targetingKeyMissing = TRUE]

Configuration(fatal) == [New("Configuration") EXCEPT !.initFatal = fatal]

OpenFeatureCode(e) ==
    IF e.kind = "InvalidContext" /\ e.targetingKeyMissing THEN "TARGETING_KEY_MISSING"
    ELSE IF e.kind = "Configuration" /\ e.initFatal THEN "PROVIDER_FATAL"
    ELSE BaseCode(e.kind)
=============================================================================
