----------------------------- MODULE WebStartMC -----------------------------
(* WebStart on one page: a few calls, each made at most once. *)
EXTENDS WebStart, FiniteSets, TLC

CONSTANTS a, b, x, u, MaxStarts, MaxRegistrations

Symmetric == Permutations(Calls)

\* A stored id, an id the application supplies before it has consent, and
\* local mode.
PageOptions ==
    {[mode |-> "remote", persistence |-> "localStorage", deviceId |-> None],
     [mode |-> "remote", persistence |-> "memory", deviceId |-> AppDevice],
     [mode |-> "local", persistence |-> "localStorage", deviceId |-> None]}

\* A page after one where a visitor signed in: a forget makes it a first visit.
EarlierPages == {[deviceId |-> 1, identity |-> u, registered |-> 1]}

\* Starts and shutdowns bump the generation; the last is followed while it has
\* a client or is getting one, and a start that finds a call unfinished while
\* that is the only call made.
Bounds ==
    /\ generation <= MaxStarts
    /\ Cardinality(registrations) <= MaxRegistrations
    /\ generation < MaxStarts \/ client # None \/ boots # {}
    /\ straddled => \E d \in Calls : calls[d].at = "idle"
=============================================================================
