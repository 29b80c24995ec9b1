----------------------------- MODULE Lifecycle ------------------------------
(***************************************************************************)
(* The life of one runtime as every SDK describes it (spec/modes.md,       *)
(* docs/troubleshooting.md: "a shut-down runtime is terminal"), by the     *)
(* provider-state names the contract fixtures compare: a runtime becomes   *)
(* ready or fatal, may go stale and recover, and is closed once.           *)
(***************************************************************************)
VARIABLE phase

Init == phase = "NOT_READY"

\* Initialisation ends, one way or the other; a fatal one may be retried.
Initialised == phase = "NOT_READY" /\ phase' \in {"READY", "FATAL"}
Retried     == phase = "FATAL"     /\ phase' = "NOT_READY"

\* The cache a runtime serves goes stale, and is refreshed.
Staled    == phase = "READY" /\ phase' = "STALE"
Refreshed == phase = "STALE" /\ phase' = "READY"

\* Shutdown, from anywhere, for good: no action leaves CLOSED.
Closed == phase # "CLOSED" /\ phase' = "CLOSED"

Next == Initialised \/ Retried \/ Staled \/ Refreshed \/ Closed

Spec == Init /\ [][Next]_phase
=============================================================================
