----------------------------- MODULE ClientSlot -----------------------------
(***************************************************************************)
(* What the start profile promises about the client behind the facade,     *)
(* whatever the language: there is one slot; a start puts a client nobody  *)
(* used before into an empty slot; the client in the slot is never closed  *)
(* under its readers; a client taken out of the slot never comes back and  *)
(* is eventually closed, so that nothing keeps a socket or a timer open.   *)
(* The start-profile modules are shown to implement this one.              *)
(***************************************************************************)
CONSTANTS
    Clients,    \* the clients the process may ever build
    NoClient    \* the empty slot

VARIABLES
    slot,       \* the client reads are served by, or NoClient
    live,       \* clients built and not closed yet
    spent       \* clients closed for good

vars == <<slot, live, spent>>

Init ==
    /\ slot = NoClient
    /\ live = {}
    /\ spent = {}

\* A start succeeds: only ever into an empty slot, only ever a new client.
Install(c) ==
    /\ slot = NoClient
    /\ c \notin live \cup spent
    /\ slot' = c
    /\ live' = live \cup {c}
    /\ UNCHANGED spent

\* A shutdown empties the slot; the client taken out is still open.
Remove ==
    /\ slot # NoClient
    /\ slot' = NoClient
    /\ UNCHANGED <<live, spent>>

\* The client taken out is closed, once.
Close(c) ==
    /\ c \in live
    /\ c # slot
    /\ live' = live \ {c}
    /\ spent' = spent \cup {c}
    /\ UNCHANGED slot

Next ==
    \/ \E c \in Clients : Install(c)
    \/ Remove
    \/ \E c \in Clients : Close(c)

SafeSpec == Init /\ [][Next]_vars

\* No start and no shutdown has to come; a close that is due does.
Spec == SafeSpec /\ \A c \in Clients : WF_vars(Close(c))
=============================================================================
