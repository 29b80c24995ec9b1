------------------------------ MODULE Capture ------------------------------
(***************************************************************************)
(* The queue of observations (exposures and signals) of the browser and    *)
(* the Node SDK, from their recording to their delivery                    *)
(* (sdks/web and sdks/node: infrastructure/adapters/remote.ts,             *)
(*  application/runtime.ts).                                               *)
(*                                                                         *)
(* A flush takes the whole queue as one batch and awaits its request; a    *)
(* batch that is refused, or not answered in time, goes back to the front. *)
(* Meanwhile more is recorded, and other flushes and shutdowns run. Each   *)
(* stretch between two awaits is one action. The two SDKs share the queue  *)
(* and differ in what may record, and in how they shut down:               *)
(*                                                                         *)
(*   web   any call records at once; a page that unloads sends a beacon;   *)
(*         the adapter flushes again and closes after that                 *)
(*   node  an evaluation records once it is answered, unless the same      *)
(*         exposure was recorded before; the adapter closes first, so that *)
(*         its own flush does nothing; a deadline bounds it all            *)
(***************************************************************************)
EXTENDS Naturals, Sequences, Functions

CONSTANTS
    Calls,         \* the calls that may be in flight together
    Exposures,     \* what Node's dedup window tells apart
    Limit,         \* bound: observations recorded in all
    None

ASSUME LimitAssumption == Limit \in Nat
ASSUME NoneAssumption == None \notin Exposures

VARIABLES
    sdk,           \* "web" or "node", chosen at first
    down,          \* the runtime's state is SHUTDOWN
    seen,          \* Node's evaluateExposureSeen
    closed,        \* the adapter's
    pending,       \* the queue; an observation is its place in recorded
    pc,            \* where each call is suspended
    about,         \* the exposure an evaluation is about
    batch,         \* what the request of a flush carries
    returned,      \* calls whose caller a deadline has let go
    \* histories, read by the bound and by properties: every observation, with its
    \* exposure in Node; those handed over for good, and those that were ever
    \* in a request; what a shutdown found recorded when it began; a batch was
    \* taken while another was out; a deadline let a shutdown return unclosed
    recorded, gone, sent, owed, overlapped, abandoned

runtime == <<down, seen>>
adapter == <<closed, pending>>
call    == <<pc, about, batch, returned>>
history == <<recorded, gone, sent, owed, overlapped, abandoned>>
vars    == <<sdk, runtime, adapter, call, history>>

Init ==
    /\ sdk \in {"web", "node"}
    /\ down = FALSE
    /\ seen = {}
    /\ closed = FALSE
    /\ pending = <<>>
    /\ pc = [c \in Calls |-> "idle"]
    /\ about = [c \in Calls |-> None]
    /\ batch = [c \in Calls |-> <<>>]
    /\ returned = [c \in Calls |-> FALSE]
    /\ recorded = <<>>
    /\ gone = {}
    /\ sent = {}
    /\ owed = [c \in Calls |-> {}]
    /\ overlapped = FALSE
    /\ abandoned = FALSE

-----------------------------------------------------------------------------
Go(c, next) == pc' = [pc EXCEPT ![c] = next]

Out(c) == Range(batch[c])

Numbers == 1..Len(recorded)

(* Recording *)

\* Queues an observation about x; nothing once the adapter is closed.
Record(x) ==
    IF closed
      THEN UNCHANGED <<pending, recorded>>
      ELSE /\ Len(recorded) < Limit
           /\ recorded' = Append(recorded, x)
           /\ pending' = Append(pending, Len(recorded) + 1)

\* Web: recordExposure, recordSignal, or a read with sendExposure.
Observe ==
    /\ sdk = "web" /\ ~closed
    /\ Record(None)
    /\ UNCHANGED <<runtime, closed, call, gone, sent, owed, overlapped, abandoned>>

\* Node: an evaluation with sendExposure, up to its await on the backend.
EvaluateStart(c) ==
    /\ sdk = "node" /\ pc[c] = "idle" /\ ~down /\ ~closed
    /\ Go(c, "evaluating")
    /\ \E x \in Exposures : about' = [about EXCEPT ![c] = x]
    /\ owed' = [owed EXCEPT ![c] = {}]
    /\ UNCHANGED <<runtime, adapter, batch, returned,
                   recorded, gone, sent, overlapped, abandoned>>

\* Mutant: exposures are not remembered.
RemembersNothing(x) == seen

Remembers(x) == seen \cup {x}

\* The backend has decided: the exposure is recorded unless it was before,
\* whatever became of the runtime meanwhile.
EvaluateEnd(c) ==
    /\ pc[c] = "evaluating"
    /\ Go(c, "idle")
    /\ about' = [about EXCEPT ![c] = None]
    /\ IF about[c] \in seen
         THEN UNCHANGED <<seen, pending, recorded>>
         ELSE seen' = Remembers(about[c]) /\ Record(about[c])
    /\ UNCHANGED <<down, closed, batch, returned, gone, sent, owed, overlapped, abandoned>>

\* It failed, there was nothing to serve, or nobody to record it for.
EvaluateFail(c) ==
    /\ pc[c] = "evaluating"
    /\ Go(c, "idle")
    /\ about' = [about EXCEPT ![c] = None]
    /\ UNCHANGED <<runtime, adapter, batch, returned, history>>

-----------------------------------------------------------------------------
(* Flushing *)

\* Mutant: the queue is emptied only when the batch is delivered.
LeftAll == pending

\* What a flush leaves in the queue it has taken a batch from.
Left == <<>>

\* flush up to its await: the whole queue is one batch; nothing if the queue
\* is empty or the adapter closed.
Take(c) ==
    IF closed \/ pending = <<>>
      THEN UNCHANGED <<pending, batch, sent, overlapped>>
      ELSE /\ batch' = [batch EXCEPT ![c] = pending]
           /\ pending' = Left
           /\ sent' = sent \cup Range(pending)
           /\ overlapped' = (overlapped \/ \E d \in Calls : batch[d] # <<>>)

\* Web: the runtime's flush. Node: the adapter's, for want of one.
Flush(c) ==
    /\ pc[c] = "idle" /\ ~closed /\ pending # <<>>
    /\ Go(c, "flushing")
    /\ Take(c)
    /\ owed' = [owed EXCEPT ![c] = {}]
    /\ UNCHANGED <<runtime, closed, about, returned, recorded, gone, abandoned>>

\* The unload path hands the batch to the browser and never looks back.
Beacon ==
    /\ sdk = "web" /\ ~closed /\ pending # <<>>
    /\ pending' = <<>>
    /\ gone' = gone \cup Range(pending)
    /\ sent' = sent \cup Range(pending)
    /\ overlapped' = (overlapped \/ \E d \in Calls : batch[d] # <<>>)
    /\ UNCHANGED <<runtime, closed, call, recorded, owed, abandoned>>

\* A call whose flush has ended: flush itself returns, a shutdown goes on.
Settle(c) ==
    /\ batch' = [batch EXCEPT ![c] = <<>>]
    /\ Go(c, IF pc[c] = "flushing" THEN "idle" ELSE pc[c])

Delivered(c) ==
    /\ batch[c] # <<>>
    /\ Settle(c)
    /\ gone' = gone \cup Out(c)
    /\ UNCHANGED <<runtime, adapter, about, returned, recorded, sent, owed, overlapped, abandoned>>

\* Mutant: a batch that was not delivered goes to the end of the queue.
RequeueLast(c) == pending \o batch[c]

Requeue(c) == batch[c] \o pending

\* Mutant: no timer aborts a request that hangs.
EndsNever(c) == FALSE

Ends(c) == batch[c] # <<>>

\* Refused, unreachable, unreadable, or aborted by the request's timer. The
\* backend may have taken the batch; the queue cannot tell.
Undelivered(c) ==
    /\ Ends(c)
    /\ Settle(c)
    /\ pending' = Requeue(c)
    /\ UNCHANGED <<runtime, closed, about, returned, history>>

-----------------------------------------------------------------------------
(* Shutdown: the runtime flushes, has the adapter shut down, and says so.  *)

\* Mutant: the runtime leaves flushing to the adapter.
FlushesFirstNot(c) == UNCHANGED <<pending, batch, sent, overlapped>>

FlushesFirst(c) == Take(c)

ShutdownStart(c) ==
    /\ pc[c] = "idle" /\ ~down
    /\ Go(c, "draining")
    /\ FlushesFirst(c)
    /\ owed' = [owed EXCEPT ![c] = IF closed THEN {} ELSE Numbers]
    /\ UNCHANGED <<runtime, closed, about, returned, recorded, gone, abandoned>>

\* Mutant: a shutdown does not await its flush.
FlushedAlways(c) == TRUE

Flushed(c) == batch[c] = <<>>

\* The adapter's shutdown up to its await: web flushes again, Node closes.
AdapterShutdown(c) ==
    /\ pc[c] = "draining" /\ Flushed(c)
    /\ IF sdk = "web" /\ ~closed
         THEN Go(c, "closing") /\ Take(c) /\ UNCHANGED closed
         ELSE /\ Go(c, "closed")
              /\ closed' = TRUE
              /\ UNCHANGED <<pending, batch, sent, overlapped>>
    /\ UNCHANGED <<runtime, about, returned, recorded, gone, owed, abandoned>>

\* Web: after its flush.
AdapterClose(c) ==
    /\ pc[c] = "closing" /\ Flushed(c)
    /\ Go(c, "closed")
    /\ closed' = TRUE
    /\ UNCHANGED <<runtime, pending, about, batch, returned, history>>

\* Ends the shutdown for its caller. Node forgets what it has seen.
Return ==
    /\ down' = TRUE
    /\ seen' = IF sdk = "node" THEN {} ELSE seen

ShutdownDone(c) ==
    /\ pc[c] = "closed"
    /\ Go(c, "idle")
    /\ returned' = [returned EXCEPT ![c] = FALSE]
    /\ IF returned[c] THEN UNCHANGED runtime ELSE Return
    /\ UNCHANGED <<adapter, about, batch, history>>

\* Node: the deadline wins the race. What it no longer waits for goes on.
Deadline(c) ==
    /\ sdk = "node" /\ pc[c] \in {"draining", "closed"} /\ ~returned[c]
    /\ returned' = [returned EXCEPT ![c] = TRUE]
    /\ Return
    /\ abandoned' = (abandoned \/ ~closed)
    /\ UNCHANGED <<adapter, pc, about, batch, recorded, gone, sent, owed, overlapped>>

-----------------------------------------------------------------------------
Next ==
    /\ \/ Observe \/ Beacon
       \/ \E c \in Calls :
             \/ EvaluateStart(c) \/ EvaluateEnd(c) \/ EvaluateFail(c)
             \/ Flush(c) \/ Delivered(c) \/ Undelivered(c)
             \/ ShutdownStart(c) \/ AdapterShutdown(c) \/ AdapterClose(c)
             \/ ShutdownDone(c) \/ Deadline(c)
    /\ UNCHANGED sdk

Spec == Init /\ [][Next]_vars

\* Every request has a timer and the event loop runs what is due; nothing
\* says that the backend takes anything.
Fairness ==
    \A c \in Calls :
        /\ WF_vars(Undelivered(c) /\ UNCHANGED sdk)
        /\ WF_vars((AdapterShutdown(c) \/ AdapterClose(c) \/ ShutdownDone(c)) /\ UNCHANGED sdk)

LiveSpec == Spec /\ Fairness

-----------------------------------------------------------------------------
(* Properties *)

Shutting(c) == pc[c] \in {"draining", "closing", "closed"} /\ ~returned[c]

\* Every variable keeps its type, and a call has a request or an evaluation
\* under way only where it awaits it.
TypeOK ==
    /\ sdk \in {"web", "node"}
    /\ down \in BOOLEAN /\ closed \in BOOLEAN
    /\ seen \subseteq Exposures
    /\ pending \in Seq(Numbers)
    /\ pc \in [Calls -> {"idle", "evaluating", "flushing", "draining", "closing", "closed"}]
    /\ about \in [Calls -> Exposures \cup {None}]
    /\ batch \in [Calls -> Seq(Numbers)]
    /\ returned \in [Calls -> BOOLEAN]
    /\ recorded \in Seq(Exposures \cup {None}) /\ Len(recorded) <= Limit
    /\ gone \subseteq Numbers /\ sent \subseteq Numbers
    /\ owed \in [Calls -> SUBSET Numbers]
    /\ overlapped \in BOOLEAN /\ abandoned \in BOOLEAN
    /\ \A c \in Calls :
          /\ batch[c] # <<>> => pc[c] \in {"flushing", "draining", "closing"}
          /\ about[c] # None <=> pc[c] = "evaluating"

\* An observation that was queued is at every moment in exactly one place: in
\* the queue, in one batch, or handed over. None is lost or sent by two
\* requests at once, however flushes, failures and shutdowns overlap.
\* (flush's splice and unshift)
EachOnce ==
    /\ Numbers = Range(pending) \cup (UNION {Out(c) : c \in Calls}) \cup gone
    /\ IsInjective(pending)
    /\ gone \cap Range(pending) = {}
    /\ \A c \in Calls :
          /\ IsInjective(batch[c])
          /\ Out(c) \cap (Range(pending) \cup gone) = {}
          /\ \A d \in Calls \ {c} : Out(c) \cap Out(d) = {}

\* While no flush begins during another, observations leave in the order
\* they were recorded, failed attempts and shutdowns included. (flush)
LeaveInOrder ==
    ~overlapped => \A c \in Calls :
        LET waiting == batch[c] \o pending
        IN  /\ \A i, j \in DOMAIN waiting : i < j => waiting[i] < waiting[j]
            /\ \A e \in gone, f \in Range(waiting) : e < f

\* What was recorded before a shutdown was called has been sent at least once
\* when it returns, to its caller's deadline or not, whatever other shutdowns
\* and flushes were under way. (FireweaveRuntime.shutdown's own flush: Node's
\* adapter sends nothing any more)
ShutdownSends ==
    \A c \in Calls : ~Shutting(c) => owed[c] \subseteq sent

\* Node records an exposure once in the life of a client, except when a
\* deadline let a shutdown return before the adapter was closed: that has
\* emptied the window, and an evaluation still under way records again.
\* (emitEvaluateExposure, FireweaveRuntime.shutdown)
ExposedOnce ==
    sdk = "node" /\ ~abandoned => IsInjective(recorded)

\* A shutdown returns though the backend never answers, its own flush, the
\* adapter's and what is recorded meanwhile included.
ShutdownReturns ==
    \A c \in Calls : Shutting(c) ~> ~Shutting(c)
=============================================================================
