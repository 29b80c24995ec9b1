--------------------------- MODULE CaptureProofs ---------------------------
(***************************************************************************)
(* Theorems about the queue of observations, for any calls, exposures and  *)
(* bound, and for both SDKs: its types; that each observation is in one    *)
(* place, leaves in order, and is sent before a shutdown that found it     *)
(* returns; and that Node records an exposure once.                        *)
(***************************************************************************)
EXTENDS Capture, SequenceTheorems, TLAPS

(* Sequences *)

LEMMA RangeOfConcat ==
    ASSUME NEW S, NEW s \in Seq(S), NEW t \in Seq(S)
    PROVE  Range(s \o t) = Range(s) \cup Range(t) /\ Range(s) \subseteq S
<1>1. /\ s \o t \in Seq(S)
      /\ Len(s \o t) = Len(s) + Len(t)
      /\ \A i \in 1..Len(s) + Len(t) :
            (s \o t)[i] = IF i <= Len(s) THEN s[i] ELSE t[i - Len(s)]
  BY ConcatProperties
<1>2. /\ DOMAIN s = 1..Len(s) /\ DOMAIN t = 1..Len(t) /\ DOMAIN (s \o t) = 1..Len(s) + Len(t)
      /\ Len(s) \in Nat /\ Len(t) \in Nat
  BY <1>1, LenProperties
<1>3. ASSUME NEW e \in Range(s) PROVE e \in Range(s \o t) /\ e \in S
  <2>1. PICK i \in 1..Len(s) : e = s[i]
    BY <1>2, <1>3 DEF Range
  <2>2. i \in 1..Len(s) + Len(t) /\ (s \o t)[i] = e
    BY <1>1, <1>2, <2>1
  <2> QED  BY <1>2, <2>1, <2>2, ElementOfSeq DEF Range
<1>4. ASSUME NEW e \in Range(t) PROVE e \in Range(s \o t)
  <2>1. PICK i \in 1..Len(t) : e = t[i]
    BY <1>2, <1>4 DEF Range
  <2>2. i + Len(s) \in 1..Len(s) + Len(t) /\ (s \o t)[i + Len(s)] = e
    BY <1>1, <1>2, <2>1
  <2> QED  BY <1>2, <2>2 DEF Range
<1>5. ASSUME NEW e \in Range(s \o t) PROVE e \in Range(s) \cup Range(t)
  <2>1. PICK i \in 1..Len(s) + Len(t) : e = (s \o t)[i]
    BY <1>2, <1>5 DEF Range
  <2>2. CASE i <= Len(s)
    BY <1>1, <1>2, <2>1, <2>2 DEF Range
  <2>3. CASE ~(i <= Len(s))
    <3>1. i - Len(s) \in 1..Len(t) /\ e = t[i - Len(s)]
      BY <1>1, <1>2, <2>1, <2>3
    <3> QED  BY <1>2, <3>1 DEF Range
  <2> QED  BY <2>2, <2>3
<1> QED  BY <1>3, <1>4, <1>5

LEMMA InjectiveConcat ==
    ASSUME NEW S, NEW s \in Seq(S), NEW t \in Seq(S),
           IsInjective(s), IsInjective(t), Range(s) \cap Range(t) = {}
    PROVE  IsInjective(s \o t)
<1>1. /\ s \o t \in Seq(S)
      /\ Len(s \o t) = Len(s) + Len(t)
      /\ \A i \in 1..Len(s) + Len(t) :
            (s \o t)[i] = IF i <= Len(s) THEN s[i] ELSE t[i - Len(s)]
  BY ConcatProperties
<1>2. /\ DOMAIN s = 1..Len(s) /\ DOMAIN t = 1..Len(t) /\ DOMAIN (s \o t) = 1..Len(s) + Len(t)
      /\ Len(s) \in Nat /\ Len(t) \in Nat
  BY <1>1, LenProperties
<1> SUFFICES ASSUME NEW i \in 1..Len(s) + Len(t), NEW j \in 1..Len(s) + Len(t),
                    (s \o t)[i] = (s \o t)[j]
             PROVE  i = j
  BY <1>2 DEF IsInjective
<1>3. CASE i <= Len(s) /\ j <= Len(s)
  BY <1>1, <1>2, <1>3 DEF IsInjective
<1>4. CASE ~(i <= Len(s)) /\ ~(j <= Len(s))
  <2>1. /\ i - Len(s) \in 1..Len(t) /\ j - Len(s) \in 1..Len(t)
        /\ t[i - Len(s)] = t[j - Len(s)]
    BY <1>1, <1>2, <1>4
  <2>2. i - Len(s) = j - Len(s)
    BY <1>2, <2>1 DEF IsInjective
  <2> QED  BY <1>2, <2>2
<1>5. ASSUME NEW k \in 1..Len(s), NEW l \in 1..Len(s) + Len(t), ~(l <= Len(s)),
             (s \o t)[k] = (s \o t)[l]
      PROVE  FALSE
  <2>1. k \in 1..Len(s) + Len(t) /\ l - Len(s) \in 1..Len(t)
    BY <1>2, <1>5
  <2>2. s[k] = t[l - Len(s)]
    BY <1>1, <1>2, <1>5, <2>1
  <2> QED  BY <1>2, <2>1, <2>2 DEF Range
<1> QED  BY <1>2, <1>3, <1>4, <1>5

LEMMA RangeOfAppend ==
    ASSUME NEW S, NEW s \in Seq(S), NEW e \in S
    PROVE  /\ Append(s, e) \in Seq(S)
           /\ Len(Append(s, e)) = Len(s) + 1
           /\ Range(Append(s, e)) = Range(s) \cup {e}
           /\ IsInjective(s) /\ e \notin Range(s) => IsInjective(Append(s, e))
<1>1. /\ Append(s, e) \in Seq(S) /\ Len(Append(s, e)) = Len(s) + 1 /\ Len(s) \in Nat
      /\ DOMAIN s = 1..Len(s) /\ DOMAIN Append(s, e) = 1..Len(s) + 1
      /\ \A i \in 1..Len(s) : Append(s, e)[i] = s[i]
      /\ Append(s, e)[Len(s) + 1] = e
  OBVIOUS
<1>2. \A i \in 1..Len(s) + 1 : i \in 1..Len(s) \/ i = Len(s) + 1
  BY <1>1
<1>3. Range(Append(s, e)) = Range(s) \cup {e}
  BY <1>1, <1>2 DEF Range
<1>4. IsInjective(s) /\ e \notin Range(s) => IsInjective(Append(s, e))
  BY <1>1, <1>2 DEF IsInjective, Range
<1> QED  BY <1>1, <1>3, <1>4

LEMMA EmptyRange == Range(<<>>) = {} /\ IsInjective(<<>>)
BY DEF Range, IsInjective

LEMMA NonEmptyRange ==
    ASSUME NEW S, NEW s \in Seq(S), s # <<>>
    PROVE  Range(s) # {}
<1>1. 1 \in DOMAIN s
  BY EmptySeq, LenProperties
<1> QED  BY <1>1 DEF Range

-----------------------------------------------------------------------------
(* Types *)

Places == {"idle", "evaluating", "flushing", "draining", "closing", "closed"}

\* What a flush does to the queue, when the call has no request under way.
LEMMA TakeFacts ==
    ASSUME TypeOK, NEW c \in Calls, batch[c] = <<>>, Take(c)
    PROVE  /\ pending' \in Seq(Numbers) /\ sent' \subseteq Numbers /\ overlapped' \in BOOLEAN
           /\ batch' \in [Calls -> Seq(Numbers)]
           /\ \A d \in Calls \ {c} : batch'[d] = batch[d]
           /\ sent \subseteq sent' /\ (overlapped => overlapped')
           /\ ~closed => Range(pending) \subseteq sent' /\ pending' = <<>>
           /\ \/ UNCHANGED <<pending, batch>>
              \/ batch'[c] = pending /\ pending' = <<>>
           /\ batch'[c] # <<>> => overlapped' \/ \A d \in Calls : batch[d] = <<>>
<1>1. CASE closed \/ pending = <<>>
  BY <1>1, EmptyRange DEF Take, TypeOK
<1>2. CASE ~(closed \/ pending = <<>>)
  <2>1. /\ batch' = [batch EXCEPT ![c] = pending] /\ pending' = <<>>
        /\ sent' = sent \cup Range(pending)
        /\ overlapped' = (overlapped \/ \E d \in Calls : batch[d] # <<>>)
    BY <1>2 DEF Take, Left
  <2>2. Range(pending) \subseteq Numbers
    BY RangeOfConcat DEF TypeOK
  <2>3. <<>> \in Seq(Numbers)
    OBVIOUS
  <2> QED  BY <2>1, <2>2, <2>3 DEF TypeOK
<1> QED  BY <1>1, <1>2

LEMMA SettleFacts ==
    ASSUME TypeOK, NEW c \in Calls, batch[c] # <<>>, Settle(c)
    PROVE  /\ batch' \in [Calls -> Seq(Numbers)]
           /\ batch'[c] = <<>> /\ \A d \in Calls \ {c} : batch'[d] = batch[d]
           /\ pc' \in [Calls -> Places] /\ \A d \in Calls \ {c} : pc'[d] = pc[d]
           /\ pc[c] \in {"flushing", "draining", "closing"}
           /\ pc'[c] = IF pc[c] = "flushing" THEN "idle" ELSE pc[c]
<1>1. <<>> \in Seq(Numbers)
  OBVIOUS
<1> QED  BY <1>1 DEF Settle, Go, TypeOK, Places

LEMMA RecordFacts ==
    ASSUME TypeOK, NEW x \in Exposures \cup {None}, Record(x)
    PROVE  /\ recorded' \in Seq(Exposures \cup {None}) /\ Len(recorded') <= Limit
           /\ pending' \in Seq(Numbers')
           /\ Numbers \subseteq Numbers'
           /\ \/ UNCHANGED <<pending, recorded>> /\ closed
              \/ /\ recorded' = Append(recorded, x) /\ ~closed
                 /\ pending' = Append(pending, Len(recorded) + 1)
                 /\ Len(recorded) \in Nat /\ Len(recorded') = Len(recorded) + 1
                 /\ Numbers' = Numbers \cup {Len(recorded) + 1} /\ Len(recorded) + 1 \notin Numbers
<1>1. CASE closed
  BY <1>1 DEF Record, TypeOK, Numbers
<1>2. CASE ~closed
  <2>1. /\ Len(recorded) < Limit /\ recorded' = Append(recorded, x)
        /\ pending' = Append(pending, Len(recorded) + 1)
    BY <1>2 DEF Record
  <2>2. /\ recorded' \in Seq(Exposures \cup {None}) /\ Len(recorded') = Len(recorded) + 1
        /\ Len(recorded) \in Nat
    BY <2>1, RangeOfAppend, LenProperties DEF TypeOK
  <2>3. Numbers' = Numbers \cup {Len(recorded) + 1} /\ Len(recorded) + 1 \notin Numbers
    BY <2>2 DEF Numbers
  <2>4. pending \in Seq(Numbers')
    BY <2>3, SeqMonotonic DEF TypeOK
  <2>5. pending' \in Seq(Numbers')
    BY <2>1, <2>3, <2>4, RangeOfAppend
  <2>6. Len(recorded') <= Limit
    BY <2>1, <2>2, LimitAssumption
  <2> QED  BY <1>2, <2>1, <2>2, <2>3, <2>5, <2>6
<1> QED  BY <1>1, <1>2

LEMMA TypeInit == Init => TypeOK
<1> SUFFICES ASSUME Init PROVE TypeOK
  OBVIOUS
<1>1. /\ pending \in Seq(Numbers) /\ recorded \in Seq(Exposures \cup {None})
      /\ Len(recorded) <= Limit
  BY LimitAssumption DEF Init
<1>2. pc \in [Calls -> Places] /\ about \in [Calls -> Exposures \cup {None}]
  BY DEF Init, Places
<1>3. batch \in [Calls -> Seq(Numbers)]
  BY DEF Init
<1>4. owed \in [Calls -> SUBSET Numbers] /\ returned \in [Calls -> BOOLEAN]
  BY DEF Init
<1>5. \A c \in Calls : pc[c] = "idle" /\ about[c] = None /\ batch[c] = <<>>
  BY DEF Init
<1>6. /\ sdk \in {"web", "node"} /\ down \in BOOLEAN /\ closed \in BOOLEAN /\ seen = {}
      /\ gone = {} /\ sent = {} /\ overlapped \in BOOLEAN /\ abandoned \in BOOLEAN
  BY DEF Init
<1> QED  BY <1>1, <1>2, <1>3, <1>4, <1>5, <1>6 DEF TypeOK, Places

LEMMA TypeNext == TypeOK /\ [Next]_vars => TypeOK'
<1> SUFFICES ASSUME TypeOK, [Next]_vars PROVE TypeOK'
  OBVIOUS
<1>0. sdk' \in {"web", "node"}
  BY DEF Next, vars, TypeOK
<1>1. CASE UNCHANGED vars
  BY <1>1 DEF vars, runtime, adapter, call, history, TypeOK, Numbers
\* What a step that records leaves as it was.
<1>2. ASSUME Numbers \subseteq Numbers',
             recorded' \in Seq(Exposures \cup {None}), Len(recorded') <= Limit,
             pending' \in Seq(Numbers'), seen' \subseteq Exposures,
             pc' \in [Calls -> Places], about' \in [Calls -> Exposures \cup {None}],
             \A c \in Calls :
                /\ batch[c] # <<>> => pc'[c] \in {"flushing", "draining", "closing"}
                /\ about'[c] # None <=> pc'[c] = "evaluating",
             UNCHANGED <<down, closed, batch, returned, gone, sent, owed, overlapped, abandoned>>
      PROVE  TypeOK'
  <2>1. gone' \subseteq Numbers' /\ sent' \subseteq Numbers'
    BY <1>2 DEF TypeOK
  <2>2. owed' \in [Calls -> SUBSET (Numbers')]
    BY <1>2 DEF TypeOK
  <2>3. batch' \in [Calls -> Seq(Numbers')]
    <3>1. \A c \in Calls : batch[c] \in Seq(Numbers')
      BY <1>2, SeqMonotonic DEF TypeOK
    <3> QED  BY <1>2, <3>1 DEF TypeOK
  <2> QED  BY <1>0, <1>2, <2>1, <2>2, <2>3 DEF TypeOK, Places
<1>3. CASE Observe
  BY <1>2, <1>3, RecordFacts DEF Observe, runtime, call, TypeOK, Places
<1>4. ASSUME NEW c \in Calls, EvaluateEnd(c) PROVE TypeOK'
  <2>1. /\ pc[c] = "evaluating" /\ pc' = [pc EXCEPT ![c] = "idle"]
        /\ about' = [about EXCEPT ![c] = None] /\ about[c] \in Exposures
        /\ UNCHANGED <<down, closed, batch, returned, gone, sent, owed, overlapped, abandoned>>
    BY <1>4 DEF EvaluateEnd, Go, TypeOK
  <2>2. CASE about[c] \in seen
    BY <1>2, <1>4, <2>1, <2>2 DEF EvaluateEnd, TypeOK, Places, Numbers
  <2>3. CASE about[c] \notin seen
    <3>1. seen' = seen \cup {about[c]} /\ Record(about[c])
      BY <1>4, <2>3 DEF EvaluateEnd, Remembers
    <3>2. /\ recorded' \in Seq(Exposures \cup {None}) /\ Len(recorded') <= Limit
          /\ pending' \in Seq(Numbers') /\ Numbers \subseteq Numbers'
      BY <2>1, <3>1, RecordFacts
    <3> QED  BY <1>2, <2>1, <3>1, <3>2 DEF TypeOK, Places
  <2> QED  BY <2>2, <2>3
\* Every other step records nothing.
<1>5. ASSUME Numbers' = Numbers, UNCHANGED recorded,
             down' \in BOOLEAN, closed' \in BOOLEAN, seen' \subseteq Exposures,
             pending' \in Seq(Numbers), pc' \in [Calls -> Places],
             about' \in [Calls -> Exposures \cup {None}], batch' \in [Calls -> Seq(Numbers)],
             returned' \in [Calls -> BOOLEAN], gone' \subseteq Numbers, sent' \subseteq Numbers,
             owed' \in [Calls -> SUBSET Numbers], overlapped' \in BOOLEAN, abandoned' \in BOOLEAN,
             \A c \in Calls :
                /\ batch'[c] # <<>> => pc'[c] \in {"flushing", "draining", "closing"}
                /\ about'[c] # None <=> pc'[c] = "evaluating"
      PROVE  TypeOK'
  BY <1>0, <1>5 DEF TypeOK, Places
<1>6. ASSUME NEW c \in Calls, EvaluateStart(c) \/ EvaluateFail(c) PROVE TypeOK'
  <2>1. /\ UNCHANGED <<down, seen, closed, pending, batch, returned, recorded, gone, sent,
                       overlapped, abandoned>>
        /\ pc[c] \in {"idle", "evaluating"} /\ batch[c] = <<>>
    BY <1>6 DEF EvaluateStart, EvaluateFail, TypeOK, runtime, adapter, history
  <2>2. owed' \in [Calls -> SUBSET Numbers]
    BY <1>6 DEF EvaluateStart, EvaluateFail, TypeOK, history
  <2>3. CASE EvaluateStart(c)
    <3>1. PICK x \in Exposures : about' = [about EXCEPT ![c] = x]
      BY <2>3 DEF EvaluateStart
    <3>2. pc' = [pc EXCEPT ![c] = "evaluating"]
      BY <2>3 DEF EvaluateStart, Go
    <3> QED  BY <1>5, <2>1, <2>2, <3>1, <3>2, NoneAssumption DEF TypeOK, Places, Numbers
  <2>4. CASE EvaluateFail(c)
    <3>1. about' = [about EXCEPT ![c] = None] /\ pc' = [pc EXCEPT ![c] = "idle"]
      BY <2>4 DEF EvaluateFail, Go
    <3> QED  BY <1>5, <2>1, <2>2, <3>1 DEF TypeOK, Places, Numbers
  <2> QED  BY <1>6, <2>3, <2>4
<1>7. CASE Beacon
  <2>1. Range(pending) \subseteq Numbers
    BY RangeOfConcat DEF TypeOK
  <2>2. <<>> \in Seq(Numbers)
    OBVIOUS
  <2> QED  BY <1>5, <1>7, <2>1, <2>2 DEF Beacon, TypeOK, Places, Numbers, runtime, call
<1>8. ASSUME NEW c \in Calls, Flush(c) PROVE TypeOK'
  <2>1. /\ pc[c] = "idle" /\ pc' = [pc EXCEPT ![c] = "flushing"] /\ Take(c)
        /\ owed' = [owed EXCEPT ![c] = {}]
        /\ UNCHANGED <<down, seen, closed, about, returned, recorded, gone, abandoned>>
    BY <1>8 DEF Flush, Go, runtime
  <2>2. batch[c] = <<>>
    BY <2>1 DEF TypeOK
  <2>3. /\ pending' \in Seq(Numbers) /\ sent' \subseteq Numbers /\ overlapped' \in BOOLEAN
        /\ batch' \in [Calls -> Seq(Numbers)]
        /\ \A d \in Calls \ {c} : batch'[d] = batch[d]
    BY <2>1, <2>2, TakeFacts
  <2> QED  BY <1>5, <2>1, <2>3 DEF TypeOK, Places, Numbers
<1>9. ASSUME NEW c \in Calls, ShutdownStart(c) PROVE TypeOK'
  <2>1. /\ pc[c] = "idle" /\ pc' = [pc EXCEPT ![c] = "draining"] /\ Take(c)
        /\ owed' = [owed EXCEPT ![c] = IF closed THEN {} ELSE Numbers]
        /\ UNCHANGED <<down, seen, closed, about, returned, recorded, gone, abandoned>>
    BY <1>9 DEF ShutdownStart, FlushesFirst, Go, runtime
  <2>2. batch[c] = <<>>
    BY <2>1 DEF TypeOK
  <2>3. /\ pending' \in Seq(Numbers) /\ sent' \subseteq Numbers /\ overlapped' \in BOOLEAN
        /\ batch' \in [Calls -> Seq(Numbers)]
        /\ \A d \in Calls \ {c} : batch'[d] = batch[d]
    BY <2>1, <2>2, TakeFacts
  <2> QED  BY <1>5, <2>1, <2>3 DEF TypeOK, Places, Numbers
<1>10. ASSUME NEW c \in Calls, AdapterShutdown(c) PROVE TypeOK'
  <2>1. /\ pc[c] = "draining" /\ batch[c] = <<>>
        /\ UNCHANGED <<down, seen, about, returned, recorded, gone, owed, abandoned>>
    BY <1>10 DEF AdapterShutdown, Flushed, runtime
  <2>2. CASE sdk = "web" /\ ~closed
    <3>1. pc' = [pc EXCEPT ![c] = "closing"] /\ Take(c) /\ UNCHANGED closed
      BY <1>10, <2>2 DEF AdapterShutdown, Go
    <3>2. /\ pending' \in Seq(Numbers) /\ sent' \subseteq Numbers /\ overlapped' \in BOOLEAN
          /\ batch' \in [Calls -> Seq(Numbers)]
          /\ \A d \in Calls \ {c} : batch'[d] = batch[d]
      BY <2>1, <3>1, TakeFacts
    <3> QED  BY <1>5, <2>1, <3>1, <3>2 DEF TypeOK, Places, Numbers
  <2>3. CASE ~(sdk = "web" /\ ~closed)
    <3>1. pc' = [pc EXCEPT ![c] = "closed"] /\ closed' = TRUE
          /\ UNCHANGED <<pending, batch, sent, overlapped>>
      BY <1>10, <2>3 DEF AdapterShutdown, Go
    <3> QED  BY <1>5, <2>1, <3>1 DEF TypeOK, Places, Numbers
  <2> QED  BY <2>2, <2>3
<1>11. ASSUME NEW c \in Calls, AdapterClose(c) PROVE TypeOK'
  BY <1>5, <1>11
     DEF AdapterClose, Flushed, Go, TypeOK, Places, Numbers, runtime, history
<1>12. ASSUME NEW c \in Calls, Delivered(c) PROVE TypeOK'
  <2>1. /\ batch[c] # <<>> /\ Settle(c) /\ gone' = gone \cup Range(batch[c])
        /\ UNCHANGED <<down, seen, closed, pending, about, returned, recorded, sent, owed,
                       overlapped, abandoned>>
    BY <1>12 DEF Delivered, Out, runtime, adapter
  <2>2. Range(batch[c]) \subseteq Numbers
    BY RangeOfConcat DEF TypeOK
  <2> QED  BY <1>5, <2>1, <2>2, SettleFacts DEF TypeOK, Places, Numbers
<1>13. ASSUME NEW c \in Calls, Undelivered(c) PROVE TypeOK'
  <2>1. /\ batch[c] # <<>> /\ Settle(c) /\ pending' = batch[c] \o pending
        /\ UNCHANGED <<down, seen, closed, about, returned, recorded, gone, sent, owed,
                       overlapped, abandoned>>
    BY <1>13 DEF Undelivered, Ends, Requeue, runtime, history
  <2>2. pending' \in Seq(Numbers)
    BY <2>1, ConcatProperties DEF TypeOK
  <2> QED  BY <1>5, <2>1, <2>2, SettleFacts DEF TypeOK, Places, Numbers
<1>14. ASSUME NEW c \in Calls, ShutdownDone(c) \/ Deadline(c) PROVE TypeOK'
  <2>1. down' \in BOOLEAN /\ seen' \subseteq Exposures /\ abandoned' \in BOOLEAN
    BY <1>14 DEF ShutdownDone, Deadline, Return, TypeOK, runtime, history
  <2>2. /\ pc' \in [Calls -> Places] /\ \A d \in Calls \ {c} : pc'[d] = pc[d]
        /\ pc[c] \in {"draining", "closed"} /\ pc'[c] \in {pc[c], "idle"}
        /\ pc'[c] # pc[c] => pc[c] = "closed"
        /\ returned' \in [Calls -> BOOLEAN]
    BY <1>14 DEF ShutdownDone, Deadline, Go, TypeOK, Places
  <2>3. UNCHANGED <<closed, pending, about, batch, recorded, gone, sent, owed, overlapped>>
    BY <1>14 DEF ShutdownDone, Deadline, adapter, history
  <2> QED  BY <1>5, <2>1, <2>2, <2>3 DEF TypeOK, Places, Numbers
<1> QED  BY <1>1, <1>3, <1>4, <1>6, <1>7, <1>8, <1>9, <1>10, <1>11, <1>12, <1>13, <1>14 DEF Next

\* Every variable keeps its type; a request is awaited by the call that made it.
THEOREM TypeCorrect == Spec => []TypeOK
BY TypeInit, TypeNext, PTL DEF Spec

-----------------------------------------------------------------------------
(* What a step may do to the queue, the batches and their histories *)

Stays == UNCHANGED <<pending, batch, recorded, gone, sent, overlapped>>

\* Whether a batch is out.
Busy == \E d \in Calls : batch[d] # <<>>

Takes(c) ==
    /\ batch[c] = <<>> /\ ~closed
    /\ batch' = [batch EXCEPT ![c] = pending] /\ pending' = <<>>
    /\ sent' = sent \cup Range(pending)
    /\ overlapped' = (overlapped \/ Busy)
    /\ UNCHANGED <<recorded, gone>>

Delivers(c) ==
    /\ batch[c] # <<>>
    /\ batch' = [batch EXCEPT ![c] = <<>>]
    /\ gone' = gone \cup Out(c)
    /\ UNCHANGED <<pending, recorded, sent, overlapped>>

PutsBack(c) ==
    /\ batch[c] # <<>>
    /\ batch' = [batch EXCEPT ![c] = <<>>]
    /\ pending' = batch[c] \o pending
    /\ UNCHANGED <<recorded, gone, sent, overlapped>>

Beacons ==
    /\ pending' = <<>>
    /\ gone' = gone \cup Range(pending)
    /\ sent' = sent \cup Range(pending)
    /\ overlapped' = (overlapped \/ Busy)
    /\ UNCHANGED <<batch, recorded>>

Records ==
    /\ ~closed
    /\ pending' = Append(pending, Len(recorded) + 1)
    /\ \E x \in Exposures \cup {None} : recorded' = Append(recorded, x)
    /\ Len(recorded) \in Nat /\ Len(recorded') = Len(recorded) + 1
    /\ Numbers' = Numbers \cup {Len(recorded) + 1} /\ Len(recorded) + 1 \notin Numbers
    /\ UNCHANGED <<batch, gone, sent, overlapped>>

LEMMA TakeKinds ==
    ASSUME TypeOK, NEW c \in Calls, batch[c] = <<>>, Take(c), UNCHANGED <<recorded, gone>>
    PROVE  Stays \/ Takes(c)
<1>1. CASE closed \/ pending = <<>>
  BY <1>1 DEF Take, Stays
<1>2. CASE ~(closed \/ pending = <<>>)
  BY <1>2 DEF Take, Takes, Left, Busy
<1> QED  BY <1>1, <1>2

LEMMA RecordKinds ==
    ASSUME TypeOK, NEW x \in Exposures \cup {None}, Record(x),
           UNCHANGED <<batch, gone, sent, overlapped>>
    PROVE  Stays \/ Records
<1>1. CASE UNCHANGED <<pending, recorded>>
  BY <1>1 DEF Stays
<1>2. CASE ~UNCHANGED <<pending, recorded>>
  BY <1>2, RecordFacts DEF Records
<1> QED  BY <1>1, <1>2

LEMMA StepKinds ==
    ASSUME TypeOK, [Next]_vars
    PROVE  \/ Stays \/ Beacons \/ Records
           \/ \E c \in Calls : Takes(c) \/ Delivers(c) \/ PutsBack(c)
<1>1. CASE UNCHANGED vars
  BY <1>1 DEF vars, adapter, call, history, Stays
<1>2. CASE Observe
  <2>1. Record(None) /\ UNCHANGED <<batch, gone, sent, overlapped>>
    BY <1>2 DEF Observe, call
  <2> QED  BY <2>1, RecordKinds
<1>3. CASE Beacon
  BY <1>3 DEF Beacon, Beacons, Busy, call
<1>4. ASSUME NEW c \in Calls, EvaluateStart(c) \/ EvaluateFail(c) \/ AdapterClose(c)
                                \/ ShutdownDone(c) \/ Deadline(c)
      PROVE  Stays
  BY <1>4 DEF EvaluateStart, EvaluateFail, AdapterClose, ShutdownDone, Deadline,
              adapter, history, Stays
<1>5. ASSUME NEW c \in Calls, EvaluateEnd(c) PROVE Stays \/ Records
  <2>1. UNCHANGED <<batch, gone, sent, overlapped>>
    BY <1>5 DEF EvaluateEnd
  <2>2. CASE about[c] \in seen
    BY <1>5, <2>1, <2>2 DEF EvaluateEnd, Stays
  <2>3. CASE about[c] \notin seen
    <3>1. Record(about[c]) /\ about[c] \in Exposures \cup {None}
      BY <1>5, <2>3 DEF EvaluateEnd, TypeOK
    <3> QED  BY <2>1, <3>1, RecordKinds
  <2> QED  BY <2>2, <2>3
<1>6. ASSUME NEW c \in Calls, Flush(c) \/ ShutdownStart(c) PROVE Stays \/ Takes(c)
  <2>1. Take(c) /\ UNCHANGED <<recorded, gone>> /\ pc[c] = "idle"
    BY <1>6 DEF Flush, ShutdownStart, FlushesFirst
  <2>2. batch[c] = <<>>
    BY <2>1 DEF TypeOK
  <2> QED  BY <2>1, <2>2, TakeKinds
<1>7. ASSUME NEW c \in Calls, AdapterShutdown(c) PROVE Stays \/ Takes(c)
  <2>1. batch[c] = <<>> /\ UNCHANGED <<recorded, gone>>
    BY <1>7 DEF AdapterShutdown, Flushed
  <2>2. CASE sdk = "web" /\ ~closed
    BY <1>7, <2>1, <2>2, TakeKinds DEF AdapterShutdown
  <2>3. CASE ~(sdk = "web" /\ ~closed)
    BY <1>7, <2>1, <2>3 DEF AdapterShutdown, Stays
  <2> QED  BY <2>2, <2>3
<1>8. ASSUME NEW c \in Calls, Delivered(c) PROVE Delivers(c)
  BY <1>8 DEF Delivered, Settle, Delivers, adapter
<1>9. ASSUME NEW c \in Calls, Undelivered(c) PROVE PutsBack(c)
  BY <1>9 DEF Undelivered, Ends, Requeue, Settle, PutsBack, history
<1> QED  BY <1>1, <1>2, <1>3, <1>4, <1>5, <1>6, <1>7, <1>8, <1>9 DEF Next

-----------------------------------------------------------------------------
(* Each observation in one place *)

\* A sequence moved between the queue and the batches moves its elements.
LEMMA EachOnceNext == TypeOK /\ EachOnce /\ [Next]_vars => EachOnce'
<1> SUFFICES ASSUME TypeOK, EachOnce, [Next]_vars PROVE EachOnce'
  OBVIOUS
<1>0. /\ pending \in Seq(Numbers) /\ batch \in [Calls -> Seq(Numbers)]
      /\ gone \subseteq Numbers /\ Range(pending) \subseteq Numbers
      /\ \A c \in Calls : Out(c) \subseteq Numbers
  BY RangeOfConcat DEF TypeOK, Out
<1>1. CASE Stays
  BY <1>1 DEF Stays, EachOnce, Numbers, Out
<1>2. CASE Beacons
  <2>1. UNCHANGED <<batch, recorded>> /\ pending' = <<>> /\ gone' = gone \cup Range(pending)
    BY <1>2 DEF Beacons
  <2>2. Numbers' = Numbers /\ \A c \in Calls : Out(c)' = Out(c)
    BY <2>1 DEF Numbers, Out
  <2>3. (UNION {Out(c)' : c \in Calls}) = (UNION {Out(c) : c \in Calls})
    BY <2>2
  <2>4. Range(pending') = {} /\ IsInjective(pending')
    BY <2>1, EmptyRange
  <2>5. Numbers' = Range(pending') \cup (UNION {Out(c)' : c \in Calls}) \cup gone'
    <3>1. Numbers = Range(pending) \cup (UNION {Out(c) : c \in Calls}) \cup gone
      BY DEF EachOnce
    <3> QED  BY <2>1, <2>2, <2>3, <2>4, <3>1
  <2>6. ASSUME NEW c \in Calls
        PROVE  /\ IsInjective(batch'[c])
               /\ Out(c)' \cap (Range(pending') \cup gone') = {}
               /\ \A d \in Calls \ {c} : Out(c)' \cap Out(d)' = {}
    BY <2>1, <2>2, <2>4 DEF EachOnce
  <2> QED  BY <2>4, <2>5, <2>6 DEF EachOnce
<1>3. CASE Records
  <2>1. /\ pending' = Append(pending, Len(recorded) + 1)
        /\ Numbers' = Numbers \cup {Len(recorded) + 1} /\ Len(recorded) + 1 \notin Numbers
        /\ UNCHANGED <<batch, gone>>
    BY <1>3 DEF Records
  <2>2. \A c \in Calls : Out(c)' = Out(c)
    BY <2>1 DEF Out
  <2>3. pending \in Seq(Numbers') /\ Len(recorded) + 1 \in Numbers'
    BY <1>0, <2>1, SeqMonotonic
  <2>4. /\ Range(pending') = Range(pending) \cup {Len(recorded) + 1}
        /\ IsInjective(pending')
    BY <1>0, <2>1, <2>3, RangeOfAppend DEF EachOnce
  <2>5. (UNION {Out(c)' : c \in Calls}) = (UNION {Out(c) : c \in Calls})
    BY <2>2
  <2>6. Numbers' = Range(pending') \cup (UNION {Out(c)' : c \in Calls}) \cup gone'
    BY <2>1, <2>4, <2>5 DEF EachOnce
  <2>7. gone' \cap Range(pending') = {}
    BY <1>0, <2>1, <2>4 DEF EachOnce
  <2>8. ASSUME NEW c \in Calls
        PROVE  /\ IsInjective(batch'[c])
               /\ Out(c)' \cap (Range(pending') \cup gone') = {}
               /\ \A d \in Calls \ {c} : Out(c)' \cap Out(d)' = {}
    BY <1>0, <2>1, <2>2, <2>4 DEF EachOnce
  <2> QED  BY <2>4, <2>6, <2>7, <2>8 DEF EachOnce
<1>4. ASSUME NEW c \in Calls, Takes(c) PROVE EachOnce'
  <2>1. /\ batch[c] = <<>> /\ batch' = [batch EXCEPT ![c] = pending] /\ pending' = <<>>
        /\ UNCHANGED <<recorded, gone>>
    BY <1>4 DEF Takes
  <2>2. /\ Numbers' = Numbers
        /\ Out(c)' = Range(pending) /\ Out(c) = {} /\ batch'[c] = pending
        /\ \A d \in Calls \ {c} : Out(d)' = Out(d) /\ batch'[d] = batch[d]
    BY <1>0, <2>1, EmptyRange DEF Numbers, Out
  <2>3. Numbers' = Range(pending') \cup (UNION {Out(d)' : d \in Calls}) \cup gone'
    <3>1. (UNION {Out(d)' : d \in Calls}) = Range(pending) \cup (UNION {Out(d) : d \in Calls})
      BY <2>2
    <3> QED  BY <2>1, <2>2, <3>1, EmptyRange DEF EachOnce
  <2>4. gone' \cap Range(pending') = {} /\ IsInjective(pending')
    BY <2>1, EmptyRange
  <2>5. ASSUME NEW d \in Calls
        PROVE  /\ IsInjective(batch'[d])
               /\ Out(d)' \cap (Range(pending') \cup gone') = {}
               /\ \A f \in Calls \ {d} : Out(d)' \cap Out(f)' = {}
    <3>1. Range(pending') = {} /\ gone' = gone
      BY <2>1, EmptyRange
    <3>2. CASE d = c
      BY <2>2, <3>1, <3>2 DEF EachOnce
    <3>3. CASE d # c
      BY <2>2, <3>1, <3>3 DEF EachOnce
    <3> QED  BY <3>2, <3>3
  <2> QED  BY <2>3, <2>4, <2>5 DEF EachOnce
<1>5. ASSUME NEW c \in Calls, Delivers(c) PROVE EachOnce'
  <2>1. /\ batch' = [batch EXCEPT ![c] = <<>>] /\ gone' = gone \cup Out(c)
        /\ UNCHANGED <<pending, recorded>>
    BY <1>5 DEF Delivers
  <2>2. /\ Numbers' = Numbers
        /\ Out(c)' = {} /\ batch'[c] = <<>>
        /\ \A d \in Calls \ {c} : Out(d)' = Out(d) /\ batch'[d] = batch[d]
    BY <1>0, <2>1, EmptyRange DEF Numbers, Out
  <2>3. Numbers' = Range(pending') \cup (UNION {Out(d)' : d \in Calls}) \cup gone'
    <3>1. (UNION {Out(d) : d \in Calls}) = Out(c) \cup (UNION {Out(d)' : d \in Calls})
      BY <2>2
    <3> QED  BY <2>1, <2>2, <3>1 DEF EachOnce
  <2>4. gone' \cap Range(pending') = {} /\ IsInjective(pending')
    BY <2>1 DEF EachOnce
  <2>5. ASSUME NEW d \in Calls
        PROVE  /\ IsInjective(batch'[d])
               /\ Out(d)' \cap (Range(pending') \cup gone') = {}
               /\ \A f \in Calls \ {d} : Out(d)' \cap Out(f)' = {}
    <3>1. CASE d = c
      BY <2>2, <3>1, EmptyRange
    <3>2. CASE d # c
      <4>1. /\ IsInjective(batch[d])
            /\ Out(d) \cap (Range(pending) \cup gone) = {} /\ Out(d) \cap Out(c) = {}
            /\ \A f \in Calls \ {d} : Out(d) \cap Out(f) = {}
        BY <3>2 DEF EachOnce
      <4>2. \A f \in Calls \ {d} : Out(d)' \cap Out(f)' = {}
        BY <2>2, <3>2, <4>1
      <4>3. pending' = pending /\ gone' = gone \cup Out(c)
        BY <2>1
      <4> QED  BY <2>2, <3>2, <4>1, <4>2, <4>3
    <3> QED  BY <3>1, <3>2
  <2> QED  BY <2>3, <2>4, <2>5 DEF EachOnce
<1>6. ASSUME NEW c \in Calls, PutsBack(c) PROVE EachOnce'
  <2>1. /\ batch' = [batch EXCEPT ![c] = <<>>] /\ pending' = batch[c] \o pending
        /\ UNCHANGED <<recorded, gone>>
    BY <1>6 DEF PutsBack
  <2>2. /\ Numbers' = Numbers
        /\ Out(c)' = {} /\ batch'[c] = <<>>
        /\ \A d \in Calls \ {c} : Out(d)' = Out(d) /\ batch'[d] = batch[d]
    BY <1>0, <2>1, EmptyRange DEF Numbers, Out
  <2>3. Range(pending') = Out(c) \cup Range(pending)
    BY <1>0, <2>1, RangeOfConcat DEF Out
  <2>4. IsInjective(pending')
    <3>1. IsInjective(batch[c]) /\ IsInjective(pending)
          /\ Range(batch[c]) \cap Range(pending) = {}
      BY DEF EachOnce, Out
    <3> QED  BY <1>0, <2>1, <3>1, InjectiveConcat
  <2>5. Numbers' = Range(pending') \cup (UNION {Out(d)' : d \in Calls}) \cup gone'
    <3>1. (UNION {Out(d) : d \in Calls}) = Out(c) \cup (UNION {Out(d)' : d \in Calls})
      BY <2>2
    <3> QED  BY <2>1, <2>2, <2>3, <3>1 DEF EachOnce
  <2>6. gone' \cap Range(pending') = {}
    BY <2>1, <2>3 DEF EachOnce
  <2>7. ASSUME NEW d \in Calls
        PROVE  /\ IsInjective(batch'[d])
               /\ Out(d)' \cap (Range(pending') \cup gone') = {}
               /\ \A f \in Calls \ {d} : Out(d)' \cap Out(f)' = {}
    <3>1. CASE d = c
      BY <2>2, <3>1, EmptyRange
    <3>2. CASE d # c
      BY <2>1, <2>2, <2>3, <3>2 DEF EachOnce
    <3> QED  BY <3>1, <3>2
  <2> QED  BY <2>4, <2>5, <2>6, <2>7 DEF EachOnce
<1> QED  BY <1>1, <1>2, <1>3, <1>4, <1>5, <1>6, StepKinds

LEMMA EachOnceInit == Init => EachOnce
<1> SUFFICES ASSUME Init PROVE EachOnce
  OBVIOUS
<1>1. /\ pending = <<>> /\ gone = {} /\ recorded = <<>>
      /\ \A c \in Calls : batch[c] = <<>>
  BY DEF Init
<1>2. Numbers = {}
  BY <1>1 DEF Numbers
<1>3. \A c \in Calls : Out(c) = {}
  BY <1>1, EmptyRange DEF Out
<1> QED  BY <1>1, <1>2, <1>3, EmptyRange DEF EachOnce

\* Each observation is in the queue, in one batch or handed over, once.
THEOREM EachExactlyOnce == Spec => []EachOnce
<1>1. TypeOK /\ EachOnce /\ [Next]_vars => EachOnce'
  BY EachOnceNext
<1> QED  BY <1>1, TypeCorrect, EachOnceInit, PTL DEF Spec

-----------------------------------------------------------------------------
(* The order in which they leave *)

Ordered(s) == \A i, j \in DOMAIN s : i < j => s[i] < s[j]

Before(S, T) == \A e \in S, f \in T : e < f

LEMMA OrderedConcat ==
    ASSUME NEW s \in Seq(Nat), NEW t \in Seq(Nat),
           Ordered(s), Ordered(t), Before(Range(s), Range(t))
    PROVE  Ordered(s \o t)
<1>1. /\ s \o t \in Seq(Nat)
      /\ Len(s \o t) = Len(s) + Len(t)
      /\ \A i \in 1..Len(s) + Len(t) :
            (s \o t)[i] = IF i <= Len(s) THEN s[i] ELSE t[i - Len(s)]
  BY ConcatProperties
<1>2. /\ DOMAIN s = 1..Len(s) /\ DOMAIN t = 1..Len(t) /\ DOMAIN (s \o t) = 1..Len(s) + Len(t)
      /\ Len(s) \in Nat /\ Len(t) \in Nat
  BY <1>1, LenProperties
<1> SUFFICES ASSUME NEW i \in 1..Len(s) + Len(t), NEW j \in 1..Len(s) + Len(t), i < j
             PROVE  (s \o t)[i] < (s \o t)[j]
  BY <1>2 DEF Ordered
<1>3. CASE j <= Len(s)
  <2>1. i \in 1..Len(s) /\ j \in 1..Len(s)
    BY <1>2, <1>3
  <2>2. (s \o t)[i] = s[i] /\ (s \o t)[j] = s[j]
    BY <1>1, <1>2, <2>1
  <2> QED  BY <1>2, <2>1, <2>2 DEF Ordered
<1>4. CASE ~(i <= Len(s))
  <2>1. /\ i - Len(s) \in 1..Len(t) /\ j - Len(s) \in 1..Len(t) /\ i - Len(s) < j - Len(s)
        /\ (s \o t)[i] = t[i - Len(s)] /\ (s \o t)[j] = t[j - Len(s)]
    BY <1>1, <1>2, <1>4
  <2> QED  BY <1>2, <2>1 DEF Ordered
<1>5. CASE i <= Len(s) /\ ~(j <= Len(s))
  <2>1. /\ i \in 1..Len(s) /\ j - Len(s) \in 1..Len(t)
        /\ (s \o t)[i] = s[i] /\ (s \o t)[j] = t[j - Len(s)]
    BY <1>1, <1>2, <1>5
  <2>2. s[i] \in Range(s) /\ t[j - Len(s)] \in Range(t)
    BY <1>2, <2>1 DEF Range
  <2> QED  BY <2>1, <2>2 DEF Before
<1> QED  BY <1>3, <1>4, <1>5

LEMMA OrderedAppend ==
    ASSUME NEW s \in Seq(Nat), NEW n \in Nat, Ordered(s), Before(Range(s), {n})
    PROVE  Ordered(Append(s, n))
<1>1. /\ Len(s) \in Nat /\ DOMAIN s = 1..Len(s) /\ DOMAIN Append(s, n) = 1..Len(s) + 1
      /\ \A i \in 1..Len(s) : Append(s, n)[i] = s[i]
      /\ Append(s, n)[Len(s) + 1] = n
  OBVIOUS
<1> SUFFICES ASSUME NEW i \in 1..Len(s) + 1, NEW j \in 1..Len(s) + 1, i < j
             PROVE  Append(s, n)[i] < Append(s, n)[j]
  BY <1>1 DEF Ordered
<1>2. i \in 1..Len(s) /\ s[i] \in Range(s)
  BY <1>1 DEF Range
<1>3. CASE j = Len(s) + 1
  BY <1>1, <1>2, <1>3 DEF Before
<1>4. CASE j # Len(s) + 1
  BY <1>1, <1>2, <1>4 DEF Ordered
<1> QED  BY <1>3, <1>4

\* The order of what has left, is leaving and waits, place by place.
Line ==
    ~overlapped =>
        /\ \A c, d \in Calls : batch[c] # <<>> /\ batch[d] # <<>> => c = d
        /\ Ordered(pending) /\ \A c \in Calls : Ordered(batch[c])
        /\ \A c \in Calls : Before(Out(c), Range(pending)) /\ Before(gone, Out(c))
        /\ Before(gone, Range(pending))

LEMMA EmptyOrdered == Ordered(<<>>) /\ \A S : Before(S, Range(<<>>)) /\ Before(Range(<<>>), S)
BY EmptyRange DEF Ordered, Before

LEMMA LineInit == Init => Line
<1> SUFFICES ASSUME Init PROVE Line
  OBVIOUS
<1>1. pending = <<>> /\ gone = {} /\ \A c \in Calls : batch[c] = <<>>
  BY DEF Init
<1> QED  BY <1>1, EmptyOrdered DEF Line, Out, Before

LEMMA LineNext == TypeOK /\ Line /\ [Next]_vars => Line'
<1> SUFFICES ASSUME TypeOK, Line, [Next]_vars, ~overlapped'
             PROVE  Line'
  BY DEF Line
<1>0. /\ pending \in Seq(Nat) /\ \A c \in Calls : batch[c] \in Seq(Nat)
      /\ batch \in [Calls -> Seq(Numbers)] /\ gone \subseteq Numbers
      /\ Range(pending) \subseteq Numbers /\ \A c \in Calls : Out(c) \subseteq Numbers
      /\ Len(recorded) \in Nat /\ Numbers = 1..Len(recorded)
  <2>1. Numbers \subseteq Nat
    BY DEF Numbers
  <2>2. Len(recorded) \in Nat
    BY LenProperties DEF TypeOK
  <2>3. pending \in Seq(Nat) /\ \A c \in Calls : batch[c] \in Seq(Nat)
    BY <2>1, SeqMonotonic DEF TypeOK
  <2> QED  BY <2>2, <2>3, RangeOfConcat DEF TypeOK, Out, Numbers
<1>1. CASE Stays
  BY <1>1 DEF Stays, Line, Out
<1>2. CASE Beacons
  <2>1. /\ ~overlapped /\ \A c \in Calls : batch[c] = <<>>
        /\ pending' = <<>> /\ \A c \in Calls : batch'[c] = <<>>
    BY <1>2 DEF Beacons, Busy
  <2> QED  BY <2>1, EmptyOrdered DEF Line, Out
<1>3. CASE Records
  <2> DEFINE n == Len(recorded) + 1
  <2>1. /\ pending' = Append(pending, n) /\ UNCHANGED <<batch, gone>> /\ ~overlapped
        /\ \A c \in Calls : Out(c)' = Out(c)
    BY <1>3 DEF Records, Out
  <2>2. n \in Nat /\ \A e \in Numbers : e < n
    BY <1>0
  <2>3. Range(pending') = Range(pending) \cup {n}
    BY <1>0, <2>1, <2>2, RangeOfAppend
  <2>4. /\ Before(Range(pending), {n}) /\ Before(gone, {n})
        /\ \A c \in Calls : Before(Out(c), {n})
    BY <1>0, <2>2 DEF Before
  <2>5. Ordered(pending')
    BY <1>0, <2>1, <2>2, <2>4, OrderedAppend DEF Line
  <2>6. /\ Before(gone', Range(pending'))
        /\ \A c \in Calls : Before(Out(c)', Range(pending')) /\ Before(gone', Out(c)')
    BY <2>1, <2>3, <2>4 DEF Line, Before
  <2>7. /\ \A c, d \in Calls : batch'[c] # <<>> /\ batch'[d] # <<>> => c = d
        /\ \A c \in Calls : Ordered(batch'[c])
    BY <2>1 DEF Line
  <2> QED  BY <2>5, <2>6, <2>7 DEF Line
<1>4. ASSUME NEW c \in Calls, Takes(c) PROVE Line'
  <2>1. /\ ~overlapped /\ \A d \in Calls : batch[d] = <<>>
        /\ pending' = <<>> /\ batch'[c] = pending /\ gone' = gone
        /\ \A d \in Calls \ {c} : batch'[d] = <<>>
    BY <1>0, <1>4 DEF Takes, Busy
  <2>2. \A d, f \in Calls : batch'[d] # <<>> /\ batch'[f] # <<>> => d = f
    BY <2>1
  <2>3. ASSUME NEW d \in Calls
        PROVE  /\ Ordered(batch'[d])
               /\ Before(Out(d)', Range(pending')) /\ Before(gone', Out(d)')
    <3>1. CASE d = c
      BY <2>1, <3>1, EmptyOrdered DEF Line, Out
    <3>2. CASE d # c
      BY <2>1, <3>2, EmptyOrdered DEF Out
    <3> QED  BY <3>1, <3>2
  <2> QED  BY <2>1, <2>2, <2>3, EmptyOrdered DEF Line
\* A call that ends its request leaves no other request out.
<1>5. ASSUME NEW c \in Calls, Delivers(c) \/ PutsBack(c)
      PROVE  /\ ~overlapped /\ \A d \in Calls : batch'[d] = <<>>
             /\ \A d, f \in Calls : batch'[d] # <<>> /\ batch'[f] # <<>> => d = f
             /\ \A d \in Calls : /\ Ordered(batch'[d])
                                 /\ Before(Out(d)', Range(pending')) /\ Before(gone', Out(d)')
  <2>1. /\ ~overlapped /\ batch[c] # <<>> /\ batch'[c] = <<>>
        /\ \A d \in Calls \ {c} : batch'[d] = batch[d]
    BY <1>0, <1>5 DEF Delivers, PutsBack
  <2>2. \A d \in Calls \ {c} : batch[d] = <<>>
    BY <2>1 DEF Line
  <2>3. \A d \in Calls : batch'[d] = <<>>
    BY <2>1, <2>2
  <2> QED  BY <2>1, <2>3, EmptyOrdered DEF Out
<1>6. ASSUME NEW c \in Calls, Delivers(c) PROVE Line'
  <2>1. pending' = pending /\ gone' = gone \cup Out(c)
    BY <1>6 DEF Delivers
  <2>2. Ordered(pending') /\ Before(gone', Range(pending'))
    BY <1>5, <1>6, <2>1 DEF Line, Before
  <2> QED  BY <1>5, <1>6, <2>2 DEF Line
<1>7. ASSUME NEW c \in Calls, PutsBack(c) PROVE Line'
  <2>1. pending' = batch[c] \o pending /\ gone' = gone
    BY <1>7 DEF PutsBack
  <2>2. Range(pending') = Out(c) \cup Range(pending)
    BY <1>0, <2>1, RangeOfConcat DEF Out
  <2>3. Ordered(pending')
    BY <1>0, <1>5, <1>7, <2>1, OrderedConcat DEF Line, Out
  <2>4. Before(gone', Range(pending'))
    BY <1>5, <1>7, <2>1, <2>2 DEF Line, Before
  <2> QED  BY <1>5, <1>7, <2>3, <2>4 DEF Line
<1> QED  BY <1>1, <1>2, <1>3, <1>4, <1>6, <1>7, StepKinds

LEMMA LineOrders == TypeOK /\ Line => LeaveInOrder
<1> SUFFICES ASSUME TypeOK, Line, ~overlapped, NEW c \in Calls
             PROVE  /\ Ordered(batch[c] \o pending)
                    /\ Before(gone, Range(batch[c] \o pending))
  BY DEF LeaveInOrder, Ordered, Before
<1>1. pending \in Seq(Nat) /\ batch[c] \in Seq(Nat)
  <2>1. Numbers \subseteq Nat
    BY DEF Numbers
  <2> QED  BY <2>1, SeqMonotonic DEF TypeOK
<1>2. Range(batch[c] \o pending) = Out(c) \cup Range(pending)
  BY <1>1, RangeOfConcat DEF Out
<1> QED  BY <1>1, <1>2, OrderedConcat DEF Line, Out, Before

\* While no flush begins during another, observations leave as recorded.
THEOREM LeavesInOrder == Spec => []LeaveInOrder
<1>1. TypeOK /\ Line /\ [Next]_vars => Line'
  BY LineNext
<1>2. Spec => []Line
  BY <1>1, TypeCorrect, LineInit, PTL DEF Spec
<1> QED  BY <1>2, LineOrders, TypeCorrect, PTL

-----------------------------------------------------------------------------
(* What a shutdown sends *)

\* What has not been sent waits in the queue; nobody is owed what was not sent.
Kept ==
    /\ Numbers \subseteq sent \cup Range(pending)
    /\ \A c \in Calls : owed[c] \subseteq sent

\* What a step may come to owe.
LEMMA OwedSteps ==
    ASSUME TypeOK, [Next]_vars, NEW c \in Calls
    PROVE  \/ owed'[c] \in {owed[c], {}}
           \/ /\ owed'[c] = Numbers /\ Range(pending) \subseteq sent'
<1>1. CASE UNCHANGED owed
  BY <1>1
<1>2. ASSUME NEW d \in Calls, EvaluateStart(d) \/ Flush(d) PROVE owed'[c] \in {owed[c], {}}
  BY <1>2 DEF EvaluateStart, Flush, TypeOK
<1>3. ASSUME NEW d \in Calls, ShutdownStart(d)
      PROVE  \/ owed'[c] \in {owed[c], {}}
             \/ /\ owed'[c] = Numbers /\ Range(pending) \subseteq sent'
  <2>1. /\ pc[d] = "idle" /\ Take(d)
        /\ owed' = [owed EXCEPT ![d] = IF closed THEN {} ELSE Numbers]
    BY <1>3 DEF ShutdownStart, FlushesFirst
  <2>2. batch[d] = <<>>
    BY <2>1 DEF TypeOK
  <2>3. ~closed => Range(pending) \subseteq sent'
    BY <2>1, <2>2, TakeFacts
  <2> QED  BY <2>1, <2>3 DEF TypeOK
<1>4. CASE Observe \/ Beacon \/ UNCHANGED vars
  BY <1>4, <1>1 DEF Observe, Beacon, vars, history
<1>5. ASSUME NEW d \in Calls, EvaluateEnd(d) \/ EvaluateFail(d) \/ Delivered(d) \/ Undelivered(d)
                                \/ AdapterShutdown(d) \/ AdapterClose(d) \/ ShutdownDone(d)
                                \/ Deadline(d)
      PROVE  UNCHANGED owed
  BY <1>5 DEF EvaluateEnd, EvaluateFail, Delivered, Undelivered, AdapterShutdown, AdapterClose,
              ShutdownDone, Deadline, history
<1> QED  BY <1>1, <1>2, <1>3, <1>4, <1>5 DEF Next

LEMMA KeptInit == Init => Kept
<1> SUFFICES ASSUME Init PROVE Kept
  OBVIOUS
<1>1. recorded = <<>> /\ owed = [c \in Calls |-> {}]
  BY DEF Init
<1> QED  BY <1>1 DEF Kept, Numbers

LEMMA KeptNext == TypeOK /\ Kept /\ [Next]_vars => Kept'
<1> SUFFICES ASSUME TypeOK, Kept, [Next]_vars PROVE Kept'
  OBVIOUS
<1>1. /\ sent \subseteq sent'
      /\ Numbers' \subseteq sent' \cup Range(pending')
  <2>1. CASE Stays
    BY <2>1 DEF Stays, Kept, Numbers
  <2>2. CASE Beacons \/ \E c \in Calls : Takes(c)
    <3>1. UNCHANGED recorded /\ sent' = sent \cup Range(pending)
      BY <2>2 DEF Beacons, Takes
    <3> QED  BY <3>1 DEF Kept, Numbers
  <2>3. CASE Records
    <3> DEFINE n == Len(recorded) + 1
    <3>1. /\ pending' = Append(pending, n) /\ Numbers' = Numbers \cup {n}
          /\ UNCHANGED sent
      BY <2>3 DEF Records
    <3>2. pending \in Seq(Numbers') /\ n \in Numbers'
      BY <3>1, SeqMonotonic DEF TypeOK
    <3>3. Range(pending') = Range(pending) \cup {n}
      BY <3>1, <3>2, RangeOfAppend
    <3> QED  BY <3>1, <3>3 DEF Kept
  <2>4. ASSUME NEW c \in Calls, Delivers(c) \/ PutsBack(c)
        PROVE  sent' = sent /\ Numbers' \subseteq sent' \cup Range(pending')
    <3>1. UNCHANGED <<recorded, sent>> /\ (pending' = pending \/ pending' = batch[c] \o pending)
      BY <2>4 DEF Delivers, PutsBack
    <3>2. pending \in Seq(Numbers) /\ batch[c] \in Seq(Numbers)
      BY DEF TypeOK
    <3>3. Range(pending) \subseteq Range(pending')
      <4>1. Range(batch[c] \o pending) = Range(batch[c]) \cup Range(pending)
        BY <3>2, RangeOfConcat
      <4> QED  BY <3>1, <4>1
    <3> QED  BY <3>1, <3>3 DEF Kept, Numbers
  <2> QED  BY <2>1, <2>2, <2>3, <2>4, StepKinds DEF Beacons, Takes, Records, Stays
<1>2. ASSUME NEW c \in Calls PROVE owed'[c] \subseteq sent'
  BY <1>1, OwedSteps DEF Kept
<1> QED  BY <1>1, <1>2 DEF Kept

\* A shutdown returns with everything sent that it found recorded.
THEOREM ShutdownsSend == Spec => []ShutdownSends
<1>1. TypeOK /\ Kept /\ [Next]_vars => Kept'
  BY KeptNext
<1>2. Spec => []Kept
  BY <1>1, TypeCorrect, KeptInit, PTL DEF Spec
<1>3. Kept => ShutdownSends
  BY DEF Kept, ShutdownSends
<1> QED  BY <1>2, <1>3, PTL

-----------------------------------------------------------------------------
(* Exposures of Node *)

\* The window holds every exposure recorded, until the adapter is closed.
Window ==
    /\ \A c \in Calls : pc[c] = "closed" => closed
    /\ sdk = "node" /\ ~abandoned =>
          IsInjective(recorded) /\ (closed \/ Range(recorded) \subseteq seen)

LEMMA WindowInit == Init => Window
BY EmptyRange DEF Init, Window

LEMMA WindowNext == TypeOK /\ Window /\ [Next]_vars => Window'
<1> SUFFICES ASSUME TypeOK, Window, [Next]_vars PROVE Window'
  OBVIOUS
<1>0. sdk' = sdk
  BY DEF Next, vars
<1>1. CASE UNCHANGED vars
  BY <1>1 DEF vars, runtime, adapter, call, history, Window
<1>2. CASE Observe \/ Beacon
  <2>1. sdk = "web" /\ UNCHANGED <<pc, closed>>
    BY <1>2 DEF Observe, Beacon, call
  <2> QED  BY <1>0, <2>1 DEF Window
<1>3. ASSUME NEW c \in Calls,
             EvaluateStart(c) \/ EvaluateFail(c) \/ Flush(c) \/ Delivered(c) \/ Undelivered(c)
                \/ ShutdownStart(c)
      PROVE  Window'
  <2>1. UNCHANGED <<closed, seen, recorded, abandoned>>
    BY <1>3 DEF EvaluateStart, EvaluateFail, Flush, Delivered, Undelivered, ShutdownStart,
                runtime, adapter, history
  <2>2. \A d \in Calls : pc'[d] = "closed" => pc[d] = "closed"
    BY <1>3 DEF EvaluateStart, EvaluateFail, Flush, Delivered, Undelivered, ShutdownStart,
                Settle, Go, TypeOK
  <2> QED  BY <1>0, <2>1, <2>2 DEF Window
<1>4. ASSUME NEW c \in Calls, EvaluateEnd(c) PROVE Window'
  <2>1. /\ about[c] \in Exposures \cup {None} /\ UNCHANGED <<closed, abandoned>>
        /\ \A d \in Calls : pc'[d] = "closed" => pc[d] = "closed"
    BY <1>4 DEF EvaluateEnd, Go, TypeOK
  <2>2. CASE about[c] \in seen
    BY <1>0, <1>4, <2>1, <2>2 DEF EvaluateEnd, Window
  <2>3. CASE about[c] \notin seen /\ closed
    BY <1>0, <1>4, <2>1, <2>3 DEF EvaluateEnd, Record, Window
  <2>4. CASE about[c] \notin seen /\ ~closed
    <3>1. seen' = seen \cup {about[c]} /\ recorded' = Append(recorded, about[c])
      BY <1>4, <2>4 DEF EvaluateEnd, Remembers, Record
    <3>2. /\ Range(recorded') = Range(recorded) \cup {about[c]}
          /\ IsInjective(recorded) /\ about[c] \notin Range(recorded) => IsInjective(recorded')
      BY <2>1, <3>1, RangeOfAppend DEF TypeOK
    <3> QED  BY <1>0, <2>1, <2>4, <3>1, <3>2 DEF Window
  <2> QED  BY <2>2, <2>3, <2>4
<1>5. ASSUME NEW c \in Calls, AdapterShutdown(c) \/ AdapterClose(c) PROVE Window'
  <2>1. UNCHANGED <<seen, recorded, abandoned>> /\ (closed => closed')
    BY <1>5 DEF AdapterShutdown, AdapterClose, runtime, history
  <2>2. pc'[c] = "closed" => closed'
    BY <1>5 DEF AdapterShutdown, AdapterClose, Go, TypeOK
  <2>3. \A d \in Calls \ {c} : pc'[d] = pc[d]
    BY <1>5 DEF AdapterShutdown, AdapterClose, Go, TypeOK
  <2>4. \A d \in Calls : pc'[d] = "closed" => closed'
    BY <2>1, <2>2, <2>3 DEF Window
  <2>5. sdk' = "node" /\ ~abandoned' =>
            IsInjective(recorded') /\ (closed' \/ Range(recorded') \subseteq seen')
    BY <1>0, <2>1 DEF Window
  <2> QED  BY <2>4, <2>5 DEF Window
<1>6. ASSUME NEW c \in Calls, ShutdownDone(c) \/ Deadline(c) PROVE Window'
  <2>1. /\ UNCHANGED <<closed, recorded>>
        /\ \A d \in Calls : pc'[d] = "closed" => pc[d] = "closed"
    BY <1>6 DEF ShutdownDone, Deadline, Go, TypeOK, adapter, history
  <2>2. ~abandoned' => ~abandoned /\ closed
    BY <1>6 DEF ShutdownDone, Deadline, Window, history
  <2>3. \A d \in Calls : pc'[d] = "closed" => closed'
    BY <2>1 DEF Window
  <2>4. sdk' = "node" /\ ~abandoned' => IsInjective(recorded') /\ closed'
    BY <1>0, <2>1, <2>2 DEF Window
  <2> QED  BY <2>3, <2>4 DEF Window
<1> QED  BY <1>1, <1>2, <1>3, <1>4, <1>5, <1>6 DEF Next

\* Node records an exposure once, but for shutdowns cut short.
THEOREM ExposuresOnce == Spec => []ExposedOnce
<1>1. TypeOK /\ Window /\ [Next]_vars => Window'
  BY WindowNext
<1>2. Spec => []Window
  BY <1>1, TypeCorrect, WindowInit, PTL DEF Spec
<1>3. Window => ExposedOnce
  BY DEF Window, ExposedOnce
<1> QED  BY <1>2, <1>3, PTL
=============================================================================
