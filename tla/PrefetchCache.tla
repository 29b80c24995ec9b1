--------------------------- MODULE PrefetchCache ---------------------------
(***************************************************************************)
(* What an SDK that reads from a prefetched cache promises (web, Swift and *)
(* Dart; spec/control-points.md, "Return discipline"): it knows the        *)
(* context the application wants decisions for and the one the decisions   *)
(* it serves were fetched for, it calls them fresh only while the two are  *)
(* the same, a fetch that fails takes the freshness and never the          *)
(* decisions, and once closed it serves nothing again.                     *)
(***************************************************************************)
CONSTANTS Contexts, None

VARIABLES
    wanted,   \* the context evaluations are about
    served,   \* the context the served decisions were fetched for, or None
    fresh,    \* they are served as the backend's present answer
    open

vars == <<wanted, served, fresh, open>>

Init ==
    /\ wanted \in Contexts
    /\ served = None
    /\ fresh = FALSE
    /\ open = TRUE

\* Another context is wanted. The old decisions may be called fresh until the
\* fetch it starts has ended, which is what a caller awaits.
Want ==
    /\ wanted' \in Contexts
    /\ fresh' \in {fresh, FALSE}
    /\ UNCHANGED <<served, open>>

Fetched ==
    /\ open
    /\ served' = wanted
    /\ fresh' = TRUE
    /\ UNCHANGED <<wanted, open>>

Degraded ==
    /\ fresh' = FALSE
    /\ UNCHANGED <<wanted, served, open>>

Closed ==
    /\ open' = FALSE
    /\ served' = None
    /\ fresh' = FALSE
    /\ UNCHANGED wanted

Next == Want \/ Fetched \/ Degraded \/ Closed

Spec == Init /\ [][Next]_vars
=============================================================================
