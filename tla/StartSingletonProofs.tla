------------------------ MODULE StartSingletonProofs ------------------------
(***************************************************************************)
(* Theorems about the Rust start singleton, for any number of threads,     *)
(* clients, configurations and keys.                                       *)
(***************************************************************************)
EXTENDS StartSingleton, TLAPS

\* A thread that is using or closing a client holds one that was built, and
\* nothing else is held, carried or answered.
ThreadsOK ==
    \A t \in Threads :
        /\ pc[t] \in {"check", "ask", "asked", "observe", "close", "closeAdapter"} =>
              held[t] # NoClient
        /\ pc[t] = "idle" => held[t] = NoClient
        /\ held[t] # NoClient => clients[held[t]] # "unbuilt"
        /\ pc[t] = "observe" <=> answer[t] # None
        /\ pc[t] # "emit" => lines[t] = {}

Closing(t) == pc[t] \in {"close", "closeAdapter"}

\* A client is closed by one thread only, never while the singleton has it.
ClosersOK ==
    \A t \in Threads :
        Closing(t) =>
            /\ held[t] # client
            /\ pc[t] = "close" => clients[held[t]] = "open"
            /\ pc[t] = "closeAdapter" => clients[held[t]] = "closing"
            /\ \A u \in Threads \ {t} : Closing(u) => held[u] # held[t]

\* A line that is carried or written is on record as logged.
LinesOnRecord ==
    \A t \in Threads :
        lines[t] \cup logged \subseteq warned \cup {RemoteLine(k) : k \in remoteWarned}

IInv ==
    /\ TypeOK
    /\ ThreadsOK
    /\ ClosersOK
    /\ ReadyDescribesClient
    /\ NoClientForgotten
    /\ FailureHasReason
    /\ InstanceKeyAgrees
    /\ LinesOnRecord
    /\ LoggedOnce

-----------------------------------------------------------------------------
(* Lines: the tags keep the remote ones apart from the others, and a line  *)
(* that is not on record yet is carried by nobody and was never written.   *)

LEMMA WarnIsNotRemote ==
    ASSUME NEW l \in WarnLines, NEW k
    PROVE  l # RemoteLine(k)
BY DEF WarnLines, RandomLine, RemoteLine

LEMMA RemoteLinesDiffer ==
    ASSUME NEW j, NEW k, RemoteLine(j) = RemoteLine(k)
    PROVE  j = k
BY DEF RemoteLine

LEMMA FreshLines ==
    ASSUME TypeOK, LinesOnRecord, LoggedOnce,
           NEW t \in Threads, NEW ls,
           \A l \in ls : l \notin warned \cup {RemoteLine(k) : k \in remoteWarned},
           lines' = [lines EXCEPT ![t] = ls],
           UNCHANGED logged
    PROVE  LoggedOnce'
<1>1. ASSUME NEW u \in Threads, NEW l \in lines'[u]
      PROVE  l \notin logged' /\ \A v \in Threads \ {u} : l \notin lines'[v]
  <2>1. CASE u = t
    BY <1>1, <2>1 DEF TypeOK, LinesOnRecord
  <2>2. CASE u # t
    BY <1>1, <2>2 DEF TypeOK, LinesOnRecord, LoggedOnce
  <2> QED  BY <2>1, <2>2
<1> QED  BY <1>1 DEF LoggedOnce

-----------------------------------------------------------------------------
(* One lemma per action: a step preserves the invariant.                   *)

\* Writing the lines: they move from the thread to the log.
LEMMA EmitPreserves ==
    ASSUME IInv, NEW t \in Threads,
           Emit(t)
    PROVE  IInv'
<1>1. TypeOK'
  BY DEF IInv, TypeOK, Emit, singleton, built, threads, history
<1>2. ThreadsOK'
  BY DEF IInv, ThreadsOK, TypeOK, Emit, singleton, built, threads,
         history
<1>3. ClosersOK'
  BY DEF IInv, ClosersOK, TypeOK, ThreadsOK, Closing, Emit, singleton,
         built, threads, history
<1>4. NoClientForgotten'
  BY DEF IInv, NoClientForgotten, TypeOK, ThreadsOK, Emit, singleton,
         built, threads, history
<1>5. LinesOnRecord'
  BY DEF IInv, LinesOnRecord, TypeOK, Emit, singleton, built, threads,
         history
<1>6. LoggedOnce'
  BY DEF IInv, LoggedOnce, TypeOK, ThreadsOK, Emit, singleton, built,
         threads, history
<1>7. (ReadyDescribesClient /\ FailureHasReason /\ InstanceKeyAgrees)'
  BY DEF IInv, ReadyDescribesClient, FailureHasReason, InstanceKeyAgrees,
         Emit, singleton, built, threads, history
<1> QED  BY <1>1, <1>2, <1>3, <1>4, <1>5, <1>6, <1>7 DEF IInv

\* The lifecycle check of a read.
LEMMA CheckPreserves ==
    ASSUME IInv, NEW t \in Threads,
           Check(t)
    PROVE  IInv'
<1>1. TypeOK'
  BY DEF IInv, TypeOK, Check, singleton, built, threads, history
<1>2. ThreadsOK'
  BY DEF IInv, ThreadsOK, TypeOK, Check, singleton, built, threads,
         history
<1>3. ClosersOK'
  BY DEF IInv, ClosersOK, TypeOK, ThreadsOK, Closing, Check, singleton,
         built, threads, history
<1>4. NoClientForgotten'
  BY DEF IInv, NoClientForgotten, TypeOK, ThreadsOK, Check, singleton,
         built, threads, history
<1>5. (ReadyDescribesClient /\ FailureHasReason /\ InstanceKeyAgrees /\ LinesOnRecord /\ LoggedOnce)'
  BY DEF IInv, ReadyDescribesClient, FailureHasReason, InstanceKeyAgrees,
         LinesOnRecord, LoggedOnce, Check, singleton, built, threads,
         history
<1> QED  BY <1>1, <1>2, <1>3, <1>4, <1>5 DEF IInv

\* The adapter is asked.
LEMMA AskPreserves ==
    ASSUME IInv, NEW t \in Threads,
           Ask(t)
    PROVE  IInv'
<1>1. TypeOK'
  BY DEF IInv, TypeOK, Ask, singleton, built, threads, history
<1>2. ThreadsOK'
  BY DEF IInv, ThreadsOK, TypeOK, Ask, singleton, built, threads,
         history
<1>3. ClosersOK'
  BY DEF IInv, ClosersOK, TypeOK, ThreadsOK, Closing, Ask, singleton,
         built, threads, history
<1>4. NoClientForgotten'
  BY DEF IInv, NoClientForgotten, TypeOK, ThreadsOK, Ask, singleton,
         built, threads, history
<1>5. (ReadyDescribesClient /\ FailureHasReason /\ InstanceKeyAgrees /\ LinesOnRecord /\ LoggedOnce)'
  BY DEF IInv, ReadyDescribesClient, FailureHasReason, InstanceKeyAgrees,
         LinesOnRecord, LoggedOnce, Ask, singleton, built, threads,
         history
<1> QED  BY <1>1, <1>2, <1>3, <1>4, <1>5 DEF IInv

\* fw-server answers.
LEMMA AnswerPreserves ==
    ASSUME IInv, NEW t \in Threads, NEW kind \in RemoteFailures \cup {"ok"},
           Answer(t, kind)
    PROVE  IInv'
<1>1. TypeOK'
  BY DEF IInv, TypeOK, Answer, singleton, built, threads, history
<1>2. ThreadsOK'
  BY NamesAssumption DEF IInv, ThreadsOK, TypeOK, Answer, singleton,
                         built, threads, history
<1>3. ClosersOK'
  BY DEF IInv, ClosersOK, TypeOK, ThreadsOK, Closing, Answer, singleton,
         built, threads, history
<1>4. NoClientForgotten'
  BY DEF IInv, NoClientForgotten, TypeOK, ThreadsOK, Answer, singleton,
         built, threads, history
<1>5. (ReadyDescribesClient /\ FailureHasReason /\ InstanceKeyAgrees /\ LinesOnRecord /\ LoggedOnce)'
  BY DEF IInv, ReadyDescribesClient, FailureHasReason, InstanceKeyAgrees,
         LinesOnRecord, LoggedOnce, Answer, singleton, built, threads,
         history
<1> QED  BY <1>1, <1>2, <1>3, <1>4, <1>5 DEF IInv

\* A remote failure is noted: its line is new, or there is none.
LEMMA ObserveRemotePreserves ==
    ASSUME IInv, NEW t \in Threads,
           ObserveRemote(t)
    PROVE  IInv'
<1>1. TypeOK'
  BY DEF IInv, TypeOK, ThreadsOK, NewRemoteLines, RemoteLine,
         RemoteLines, ObserveRemote, Leave, built
<1>2. ThreadsOK'
  BY DEF IInv, ThreadsOK, TypeOK, ObserveRemote, Leave, built
<1>3. ClosersOK'
  BY DEF IInv, ClosersOK, TypeOK, ThreadsOK, Closing, ObserveRemote,
         Leave, built
<1>4. NoClientForgotten'
  BY DEF IInv, NoClientForgotten, TypeOK, ThreadsOK, ObserveRemote,
         Leave, built
<1>5. LinesOnRecord'
  BY DEF IInv, LinesOnRecord, TypeOK, NewRemoteLines, ObserveRemote,
         Leave, built
<1>6. LoggedOnce'
  <2>1. \A l \in NewRemoteLines(answer[t]) : l \notin warned \cup {RemoteLine(k) : k \in remoteWarned}
    BY WarnIsNotRemote, RemoteLinesDiffer DEF IInv, TypeOK, ThreadsOK, ObserveRemote, NewRemoteLines
  <2> QED  BY <2>1, FreshLines DEF IInv, ObserveRemote, Leave, threads, history
<1>7. (ReadyDescribesClient /\ FailureHasReason /\ InstanceKeyAgrees)'
  BY DEF IInv, ReadyDescribesClient, FailureHasReason, InstanceKeyAgrees,
         ObserveRemote, Leave, built
<1> QED  BY <1>1, <1>2, <1>3, <1>4, <1>5, <1>6, <1>7 DEF IInv

\* A closing thread closes the runtime of the client it took.
LEMMA CloseRuntimePreserves ==
    ASSUME IInv, NEW t \in Threads,
           CloseRuntime(t)
    PROVE  IInv'
<1>1. TypeOK'
  BY SMTT(60) DEF IInv, TypeOK, ThreadsOK, CloseRuntime, singleton,
                  built, threads, history
<1>2. ThreadsOK'
  BY DEF IInv, ThreadsOK, TypeOK, CloseRuntime, singleton, built,
         threads, history
<1>3. ClosersOK'
  BY DEF IInv, ClosersOK, TypeOK, ThreadsOK, Closing, CloseRuntime,
         singleton, built, threads, history
<1>4. ReadyDescribesClient'
  BY DEF IInv, ReadyDescribesClient, TypeOK, ClosersOK, Closing,
         CloseRuntime, singleton, built, threads, history
<1>5. NoClientForgotten'
  BY DEF IInv, NoClientForgotten, TypeOK, ThreadsOK, ClosersOK, Closing,
         CloseRuntime, singleton, built, threads, history
<1>6. (FailureHasReason /\ InstanceKeyAgrees /\ LinesOnRecord /\ LoggedOnce)'
  BY DEF IInv, FailureHasReason, InstanceKeyAgrees, LinesOnRecord,
         LoggedOnce, CloseRuntime, singleton, built, threads, history
<1> QED  BY <1>1, <1>2, <1>3, <1>4, <1>5, <1>6 DEF IInv

\* ... and then its adapter.
LEMMA CloseAdapterPreserves ==
    ASSUME IInv, NEW t \in Threads,
           CloseAdapter(t)
    PROVE  IInv'
<1>1. TypeOK'
  BY SMTT(60) DEF IInv, TypeOK, ThreadsOK, CloseAdapter, singleton,
                  built, threads, history
<1>2. ThreadsOK'
  BY DEF IInv, ThreadsOK, TypeOK, CloseAdapter, singleton, built,
         threads, history
<1>3. ClosersOK'
  BY DEF IInv, ClosersOK, TypeOK, ThreadsOK, Closing, CloseAdapter,
         singleton, built, threads, history
<1>4. ReadyDescribesClient'
  BY DEF IInv, ReadyDescribesClient, TypeOK, ClosersOK, Closing,
         CloseAdapter, singleton, built, threads, history
<1>5. NoClientForgotten'
  BY DEF IInv, NoClientForgotten, TypeOK, ThreadsOK, ClosersOK, Closing,
         CloseAdapter, singleton, built, threads, history
<1>6. (FailureHasReason /\ InstanceKeyAgrees /\ LinesOnRecord /\ LoggedOnce)'
  BY DEF IInv, FailureHasReason, InstanceKeyAgrees, LinesOnRecord,
         LoggedOnce, CloseAdapter, singleton, built, threads, history
<1> QED  BY <1>1, <1>2, <1>3, <1>4, <1>5, <1>6 DEF IInv

\* The instance key is derived: from the option of the start, if it has one.
LEMMA InstanceKeyPreserves ==
    ASSUME IInv, NEW t \in Threads,
           InstanceKey(t)
    PROVE  IInv'
<1>1. /\ warned \subseteq warned' /\ warned' \subseteq WarnLines
      /\ instanceKey' \in Ids \cup {None}
  BY NamesAssumption DEF IInv, TypeOK, InstanceKey, Chance, WarnLines
<1>2. TypeOK'
  BY <1>1 DEF IInv, TypeOK, InstanceKey, Leave, built, history
<1>3. ThreadsOK'
  BY DEF IInv, ThreadsOK, TypeOK, InstanceKey, Leave, built
<1>4. ClosersOK'
  BY DEF IInv, ClosersOK, TypeOK, Closing, InstanceKey, Leave, built
<1>5. NoClientForgotten'
  BY DEF IInv, NoClientForgotten, TypeOK, ThreadsOK, InstanceKey, Leave, built
<1>6. InstanceKeyAgrees'
  BY NamesAssumption DEF IInv, InstanceKeyAgrees, TypeOK, InstanceKey
<1>7. LinesOnRecord'
  BY <1>1 DEF IInv, LinesOnRecord, TypeOK, InstanceKey, Leave, history
<1>8. LoggedOnce'
  <2>1. \A l \in warned' \ warned : l \notin warned \cup {RemoteLine(k) : k \in remoteWarned}
    BY WarnIsNotRemote, <1>1 DEF IInv, TypeOK
  <2> QED  BY <2>1, FreshLines DEF IInv, InstanceKey, Leave, history
<1>9. (ReadyDescribesClient /\ FailureHasReason)'
  BY DEF IInv, ReadyDescribesClient, FailureHasReason, InstanceKey, built
<1> QED  BY <1>2, <1>3, <1>4, <1>5, <1>6, <1>7, <1>8, <1>9 DEF IInv

\* The client is taken out of the singleton, open and held by this thread only.
LEMMA ShutdownPreserves ==
    ASSUME IInv, NEW t \in Threads,
           Shutdown(t)
    PROVE  IInv'
<1>1. TypeOK'
  BY DEF IInv, TypeOK, Shutdown, Leave, AfterTaking, singleton, built,
         threads, history
<1>2. ThreadsOK'
  BY DEF IInv, ThreadsOK, TypeOK, ReadyDescribesClient, Shutdown, Leave,
         AfterTaking, singleton, built, threads, history
<1>3. ClosersOK'
  BY DEF IInv, ClosersOK, TypeOK, ThreadsOK, Closing,
         ReadyDescribesClient, Shutdown, Leave, AfterTaking, singleton,
         built, threads, history
<1>4. ReadyDescribesClient'
  BY DEF IInv, ReadyDescribesClient, TypeOK, Shutdown, Leave,
         AfterTaking, singleton, built, threads, history
<1>5. NoClientForgotten'
  BY DEF IInv, NoClientForgotten, TypeOK, ThreadsOK, Shutdown, Leave,
         AfterTaking, singleton, built, threads, history
<1>6. FailureHasReason'
  BY DEF IInv, FailureHasReason, TypeOK, Shutdown, Leave, AfterTaking,
         singleton, built, threads, history
<1>7. InstanceKeyAgrees'
  BY DEF IInv, InstanceKeyAgrees, TypeOK, Shutdown, Leave, AfterTaking,
         singleton, built, threads, history
<1>8. LinesOnRecord'
  BY DEF IInv, LinesOnRecord, TypeOK, Shutdown, Leave, AfterTaking,
         singleton, built, threads, history
<1>9. LoggedOnce'
  BY DEF IInv, LoggedOnce, TypeOK, ThreadsOK, Shutdown, Leave,
         AfterTaking, singleton, built, threads, history
<1> QED  BY <1>1, <1>2, <1>3, <1>4, <1>5, <1>6, <1>7, <1>8, <1>9 DEF IInv

\* A read or registration takes the running client, if there is one.
LEMMA AcquirePreserves ==
    ASSUME IInv, NEW t \in Threads, NEW key \in Keys \cup {None},
           Acquire(t, key)
    PROVE  IInv'
<1>1. TypeOK'
  BY NamesAssumption DEF IInv, TypeOK, Missing, MissingLine, WarnLines,
                         Acquire, Leave, singleton, built, threads,
                         history
<1>2. ThreadsOK'
  BY DEF IInv, ThreadsOK, TypeOK, ReadyDescribesClient, Acquire, Leave,
         singleton, built, threads, history
<1>3. ClosersOK'
  BY DEF IInv, ClosersOK, TypeOK, ThreadsOK, Closing, Acquire, Leave,
         singleton, built, threads, history
<1>4. NoClientForgotten'
  BY DEF IInv, NoClientForgotten, TypeOK, ThreadsOK, Acquire, Leave,
         singleton, built, threads, history
<1>5. LinesOnRecord'
  BY DEF IInv, LinesOnRecord, TypeOK, Acquire, Leave, singleton, built,
         threads, history
<1>6. LoggedOnce'
  <2>1. \A l \in warned' \ warned : l \notin warned \cup {RemoteLine(k) : k \in remoteWarned}
    BY WarnIsNotRemote, <1>1 DEF IInv, TypeOK
  <2> QED  BY <2>1, FreshLines DEF IInv, Acquire, Leave, threads, history
<1>7. (ReadyDescribesClient /\ FailureHasReason /\ InstanceKeyAgrees)'
  BY DEF IInv, ReadyDescribesClient, FailureHasReason, InstanceKeyAgrees,
         Acquire, Leave, singleton, built, threads, history
<1> QED  BY <1>1, <1>2, <1>3, <1>4, <1>5, <1>6, <1>7 DEF IInv

\* A start on top of a running client.
LEMMA SecondStartPreserves ==
    ASSUME IInv, NEW t \in Threads, NEW o \in Option, pc[t] = "idle",
           Leave(t, "idle", NoClient, warned' \ warned), UNCHANGED <<answer, logged>>,
           SecondStart(o), UNCHANGED built
    PROVE  IInv'
<1>1. TypeOK'
  BY DEF IInv, TypeOK, SecondStart, Leave, singleton, built, threads,
         history
<1>2. ThreadsOK'
  BY DEF IInv, ThreadsOK, TypeOK, SecondStart, Leave, singleton, built,
         threads, history
<1>3. ClosersOK'
  BY DEF IInv, ClosersOK, TypeOK, ThreadsOK, Closing, SecondStart, Leave,
         singleton, built, threads, history
<1>4. NoClientForgotten'
  BY DEF IInv, NoClientForgotten, TypeOK, ThreadsOK, SecondStart, Leave,
         singleton, built, threads, history
<1>5. LinesOnRecord'
  BY DEF IInv, LinesOnRecord, TypeOK, SecondStart, Leave, singleton,
         built, threads, history
<1>6. LoggedOnce'
  BY DEF IInv, LoggedOnce, TypeOK, ThreadsOK, SecondStart, Leave,
         singleton, built, threads, history
<1>7. (ReadyDescribesClient /\ FailureHasReason /\ InstanceKeyAgrees)'
  BY DEF IInv, ReadyDescribesClient, FailureHasReason, InstanceKeyAgrees,
         SecondStart, Leave, singleton, built, threads, history
<1> QED  BY <1>1, <1>2, <1>3, <1>4, <1>5, <1>6, <1>7 DEF IInv

\* A start whose instance id is not the one handed out.
LEMMA RefusedStartPreserves ==
    ASSUME IInv, NEW t \in Threads, NEW o \in Option, pc[t] = "idle",
           Leave(t, "idle", NoClient, warned' \ warned), UNCHANGED <<answer, logged>>,
           RefusedStart(o), UNCHANGED built
    PROVE  IInv'
<1>1. TypeOK'
  BY DEF IInv, TypeOK, RefusedStart, Kept, Leave, built
<1>2. ThreadsOK'
  BY DEF IInv, ThreadsOK, TypeOK, RefusedStart, Kept, Leave, built
<1>3. ClosersOK'
  BY DEF IInv, ClosersOK, TypeOK, ThreadsOK, Closing,
         ReadyDescribesClient, RefusedStart, Kept, Leave, built
<1>4. ReadyDescribesClient'
  BY DEF IInv, ReadyDescribesClient, TypeOK, RefusedStart, Kept, Leave,
         built
<1>5. NoClientForgotten'
  BY DEF IInv, NoClientForgotten, TypeOK, ThreadsOK,
         ReadyDescribesClient, RefusedStart, Kept, Leave, built
<1>6. FailureHasReason'
  BY DEF IInv, FailureHasReason, TypeOK, RefusedStart, Kept, Leave,
         built
<1>7. InstanceKeyAgrees'
  BY DEF IInv, InstanceKeyAgrees, TypeOK, RefusedStart, Kept, Leave,
         built
<1>8. LinesOnRecord'
  BY DEF IInv, LinesOnRecord, TypeOK, RefusedStart, Kept, Leave, built
<1>9. LoggedOnce'
  BY DEF IInv, LoggedOnce, TypeOK, ThreadsOK, RefusedStart, Kept, Leave,
         built
<1> QED  BY <1>1, <1>2, <1>3, <1>4, <1>5, <1>6, <1>7, <1>8, <1>9 DEF IInv

\* A start that does not resolve or does not build.
LEMMA FailedStartPreserves ==
    ASSUME IInv, NEW t \in Threads, NEW o \in Option, NEW imp \in BOOLEAN, pc[t] = "idle",
           Leave(t, "idle", NoClient, warned' \ warned), UNCHANGED <<answer, logged>>,
           FailedStart(o, imp), UNCHANGED built
    PROVE  IInv'
<1>1. TypeOK'
  <2>1. warned' \subseteq WarnLines
    BY DEF IInv, TypeOK, Option, FailedStart, StartLine, WarnLines
  <2>2. /\ state' \in {"unstarted", "ready", "failed", "shutdown"}
        /\ implicit' \in BOOLEAN /\ implicitTried' \in BOOLEAN
        /\ resolved' \in Cfgs \cup {None}
        /\ sig' \in [cfg : Cfgs, id : Ids \cup {None}] \cup {None}
        /\ client' \in Clients \cup {NoClient}
        /\ err' \in {"resolve", "build", None}
        /\ log' \in Sinks \cup {None}
        /\ lastErrorKind' \in RemoteFailures \cup {None}
        /\ lastErrorFrom' \in Clients \cup {NoClient}
        /\ past' \in {"none", "start", "shutdown"}
    BY DEF IInv, TypeOK, Option, FailedStart, Started, Kept, Reason
  <2> QED  BY <2>1, <2>2 DEF IInv, TypeOK, FailedStart, Leave, built
<1>2. ThreadsOK'
  BY DEF IInv, ThreadsOK, TypeOK, FailedStart, Begins, Kept, Leave,
         built
<1>3. ClosersOK'
  BY DEF IInv, ClosersOK, TypeOK, ThreadsOK, Closing,
         ReadyDescribesClient, FailedStart, Begins, Kept, Leave, built
<1>4. ReadyDescribesClient'
  BY DEF IInv, ReadyDescribesClient, TypeOK, FailedStart, Begins, Kept,
         Leave, built
<1>5. NoClientForgotten'
  BY DEF IInv, NoClientForgotten, TypeOK, ThreadsOK,
         ReadyDescribesClient, FailedStart, Begins, Kept, Leave, built
<1>6. FailureHasReason'
  BY NamesAssumption DEF IInv, FailureHasReason, TypeOK, Reason,
                         FailedStart, Begins, Kept, Leave, built
<1>7. InstanceKeyAgrees'
  BY DEF IInv, InstanceKeyAgrees, TypeOK, FailedStart, Begins, Kept,
         Leave, built
<1>8. LinesOnRecord'
  BY DEF IInv, LinesOnRecord, TypeOK, FailedStart, Begins, Kept, Leave,
         built
<1>9. LoggedOnce'
  <2>1. \A l \in warned' \ warned : l \notin warned \cup {RemoteLine(k) : k \in remoteWarned}
    BY WarnIsNotRemote, <1>1 DEF IInv, TypeOK
  <2> QED  BY <2>1, FreshLines DEF IInv, FailedStart, Leave, threads, history
<1> QED  BY <1>1, <1>2, <1>3, <1>4, <1>5, <1>6, <1>7, <1>8, <1>9 DEF IInv

\* A start that builds a client, explicit or from a read.
LEMMA SuccessfulStartPreserves ==
    ASSUME IInv, NEW t \in Threads, NEW o \in Option, NEW imp \in BOOLEAN,
           NEW c \in Clients, pc[t] = "idle",
           warned \subseteq warned', warned' \subseteq WarnLines,
           \/ Leave(t, "idle", NoClient, warned' \ warned)
           \/ Leave(t, "check", c, warned' \ warned),
           UNCHANGED <<answer, logged>>,
           SuccessfulStart(o, imp, c), Build(o, c)
    PROVE  IInv'
<1>1. TypeOK'
  BY NamesAssumption DEF IInv, TypeOK, Option, SigOf, Started, Kept,
                         SuccessfulStart, Begins, Build, Leave, built
<1>2. ThreadsOK'
  BY NamesAssumption DEF IInv, ThreadsOK, TypeOK, SuccessfulStart,
                         Begins, Build, Leave, built
<1>3. ClosersOK'
  BY NamesAssumption DEF IInv, ClosersOK, TypeOK, ThreadsOK, Closing,
                         SuccessfulStart, Begins, Build, Leave, built
<1>4. ReadyDescribesClient'
  BY NamesAssumption DEF IInv, ReadyDescribesClient, TypeOK, SigOf,
                         SuccessfulStart, Begins, Build, Leave, built
<1>5. NoClientForgotten'
  <2>1. client = NoClient
    BY DEF IInv, ReadyDescribesClient, SuccessfulStart, Begins
  <2>2. ASSUME NEW d \in Clients, clients'[d] \in {"open", "closing"}, d # c
        PROVE  \E u \in Threads : held'[u] = d /\ pc'[u] \in {"close", "closeAdapter"}
    <3>1. clients[d] = clients'[d] /\ d # client
      BY <2>1, <2>2, NamesAssumption DEF IInv, TypeOK, Build
    <3>2. PICK u \in Threads : held[u] = d /\ pc[u] \in {"close", "closeAdapter"}
      BY <2>2, <3>1 DEF IInv, NoClientForgotten
    <3> QED  BY <3>2 DEF IInv, TypeOK, Leave
  <2> QED  BY <2>2 DEF NoClientForgotten, SuccessfulStart
<1>6. FailureHasReason'
  BY DEF IInv, FailureHasReason, TypeOK, SuccessfulStart, Begins, Build,
         Leave, built
<1>7. InstanceKeyAgrees'
  BY DEF IInv, InstanceKeyAgrees, TypeOK, InstanceConflict, SigOf,
         SuccessfulStart, Begins, Build, Leave, built
<1>8. LinesOnRecord'
  BY DEF IInv, LinesOnRecord, TypeOK, SuccessfulStart, Begins, Build,
         Leave, built
<1>9. LoggedOnce'
  <2>1. \A l \in warned' \ warned : l \notin warned \cup {RemoteLine(k) : k \in remoteWarned}
    BY WarnIsNotRemote, <1>1 DEF IInv, TypeOK
  <2> QED  BY <2>1, FreshLines DEF IInv, SuccessfulStart, Leave, threads, history
<1> QED  BY <1>1, <1>2, <1>3, <1>4, <1>5, <1>6, <1>7, <1>8, <1>9 DEF IInv

-----------------------------------------------------------------------------
\* start: one of its four ways out.
LEMMA StartPreserves ==
    ASSUME IInv, NEW t \in Threads, NEW o \in Options, Start(t, o)
    PROVE  IInv'
<1> o \in Option
  BY OptionsAssumption
<1>1. /\ pc[t] = "idle"
      /\ Leave(t, "idle", NoClient, warned' \ warned)
      /\ UNCHANGED <<answer, logged>>
  BY DEF Start
<1>2. CASE SecondStart(o) /\ UNCHANGED built
  BY <1>1, <1>2, SecondStartPreserves
<1>3. CASE RefusedStart(o) /\ UNCHANGED built
  BY <1>1, <1>3, RefusedStartPreserves
<1>4. CASE FailedStart(o, FALSE) /\ UNCHANGED built
  BY <1>1, <1>4, FailedStartPreserves
<1>5. CASE /\ \E c \in Clients : SuccessfulStart(o, FALSE, c) /\ Build(o, c)
           /\ UNCHANGED warned
  <2>1. PICK c \in Clients : SuccessfulStart(o, FALSE, c) /\ Build(o, c)
    BY <1>5
  <2>2. warned \subseteq warned' /\ warned' \subseteq WarnLines
    BY <1>5 DEF IInv, TypeOK
  <2> QED  BY <1>1, <2>1, <2>2, SuccessfulStartPreserves
<1> QED  BY <1>2, <1>3, <1>4, <1>5 DEF Start

\* The implicit start a read makes: the same two outcomes.
LEMMA ImplicitStartPreserves ==
    ASSUME IInv, NEW t \in Threads, NEW o \in EnvOptions,
           NEW key \in Keys \cup {None}, ImplicitStart(t, o, key)
    PROVE  IInv'
<1> o \in Option
  BY OptionsAssumption
<1>1. pc[t] = "idle" /\ UNCHANGED <<answer, logged>>
  BY DEF ImplicitStart
<1>2. CASE /\ FailedStart(o, TRUE)
           /\ UNCHANGED built
           /\ Leave(t, "idle", NoClient, warned' \ warned)
  BY <1>1, <1>2, FailedStartPreserves
<1>3. CASE \E c \in Clients :
              /\ SuccessfulStart(o, TRUE, c)
              /\ Build(o, c)
              /\ warned' = warned \cup Missing(o.cfg, key)
              /\ Leave(t, "check", c, warned' \ warned)
  <2>1. PICK c \in Clients :
              /\ SuccessfulStart(o, TRUE, c)
              /\ Build(o, c)
              /\ warned' = warned \cup Missing(o.cfg, key)
              /\ Leave(t, "check", c, warned' \ warned)
    BY <1>3
  <2>2. warned \subseteq warned' /\ warned' \subseteq WarnLines
    BY <2>1, NamesAssumption DEF IInv, TypeOK, Missing, MissingLine, WarnLines
  <2> QED  BY <1>1, <2>1, <2>2, SuccessfulStartPreserves
<1> QED  BY <1>2, <1>3 DEF ImplicitStart

LEMMA StutterPreserves ==
    ASSUME IInv, UNCHANGED vars
    PROVE  IInv'
BY DEF IInv, TypeOK, ThreadsOK, ClosersOK, Closing, ReadyDescribesClient,
       NoClientForgotten, FailureHasReason, InstanceKeyAgrees, LinesOnRecord,
       LoggedOnce, vars, singleton, built, threads, history

LEMMA InitEstablishes == Init => IInv
<1> SUFFICES ASSUME Init PROVE IInv
  OBVIOUS
<1>1. TypeOK
  BY NamesAssumption DEF Init, TypeOK
<1>2. ThreadsOK /\ ClosersOK /\ ReadyDescribesClient /\ NoClientForgotten
  BY DEF Init, ThreadsOK, ClosersOK, Closing, ReadyDescribesClient, NoClientForgotten
<1>3. FailureHasReason /\ InstanceKeyAgrees /\ LinesOnRecord /\ LoggedOnce
  BY DEF Init, FailureHasReason, InstanceKeyAgrees, LinesOnRecord, LoggedOnce
<1> QED  BY <1>1, <1>2, <1>3 DEF IInv

LEMMA NextPreserves == IInv /\ [Next]_vars => IInv'
<1> SUFFICES ASSUME IInv, [Next]_vars PROVE IInv'
  OBVIOUS
<1>1. CASE UNCHANGED vars
  BY <1>1, StutterPreserves
<1>2. ASSUME NEW t \in Threads, Call(t) PROVE IInv'
  <2>1. CASE \E o \in Options : Start(t, o)
    BY <2>1, StartPreserves
  <2>2. CASE \E o \in EnvOptions, key \in Keys \cup {None} : ImplicitStart(t, o, key)
    BY <2>2, ImplicitStartPreserves
  <2>3. CASE \E key \in Keys \cup {None} : Acquire(t, key)
    BY <2>3, AcquirePreserves
  <2>4. CASE InstanceKey(t)
    BY <2>4, InstanceKeyPreserves
  <2>5. CASE Shutdown(t)
    BY <2>5, ShutdownPreserves
  <2> QED  BY <1>2, <2>1, <2>2, <2>3, <2>4, <2>5 DEF Call
<1>3. ASSUME NEW t \in Threads, Step(t) PROVE IInv'
  <2>1. CASE Emit(t)
    BY <2>1, EmitPreserves
  <2>2. CASE Check(t)
    BY <2>2, CheckPreserves
  <2>3. CASE Ask(t)
    BY <2>3, AskPreserves
  <2>4. CASE \E k \in RemoteFailures \cup {"ok"} : Answer(t, k)
    BY <2>4, AnswerPreserves
  <2>5. CASE ObserveRemote(t)
    BY <2>5, ObserveRemotePreserves
  <2>6. CASE CloseRuntime(t)
    BY <2>6, CloseRuntimePreserves
  <2>7. CASE CloseAdapter(t)
    BY <2>7, CloseAdapterPreserves
  <2> QED  BY <1>3, <2>1, <2>2, <2>3, <2>4, <2>5, <2>6, <2>7 DEF Step
<1> QED  BY <1>1, <1>2, <1>3 DEF Next

-----------------------------------------------------------------------------
(* What follows for every behaviour.                                       *)

LEMMA Invariance == SafeSpec => []IInv
BY InitEstablishes, NextPreserves, PTL DEF SafeSpec

\* The singleton's fields, and each thread's, have their types.
THEOREM TypeCorrect == SafeSpec => []TypeOK
<1>1. IInv => TypeOK
  BY DEF IInv
<1> QED  BY <1>1, Invariance, PTL

\* A running client is open and is the one status() describes, on any number
\* of threads that start, read and shut down.
THEOREM ReadyAlwaysDescribesClient == SafeSpec => []ReadyDescribesClient
<1>1. IInv => ReadyDescribesClient
  BY DEF IInv
<1> QED  BY <1>1, Invariance, PTL

\* No interleaving of starts and shutdowns leaves a client open that nobody
\* will close.
THEOREM ClientsNeverForgotten == SafeSpec => []NoClientForgotten
<1>1. IInv => NoClientForgotten
  BY DEF IInv
<1> QED  BY <1>1, Invariance, PTL

\* A failed start always has a reason to report, and no other state of a
\* singleton that runs or never started keeps one.
THEOREM FailuresHaveReasons == SafeSpec => []FailureHasReason
<1>1. IInv => FailureHasReason
  BY DEF IInv
<1> QED  BY <1>1, Invariance, PTL

\* Whatever starts, reads and shutdowns overlap, status() reports the client
\* that is there, or the reason there is none.
THEOREM StatusAlwaysDescribesSlot == SafeSpec => []StatusDescribesSlot
<1>1. IInv => StatusDescribesSlot
  BY DEF IInv, StatusDescribesSlot
<1> QED  BY <1>1, Invariance, PTL

\* The instance key handed out never contradicts the running start.
THEOREM InstanceKeysAgree == SafeSpec => []InstanceKeyAgrees
<1>1. IInv => InstanceKeyAgrees
  BY DEF IInv
<1> QED  BY <1>1, Invariance, PTL

\* A warn-once line is written at most once, by whichever thread.
THEOREM LinesLoggedOnce == SafeSpec => []LoggedOnce
<1>1. IInv => LoggedOnce
  BY DEF IInv
<1> QED  BY <1>1, Invariance, PTL

\* A start never disturbs the client that is running.
THEOREM SecondStartsHarmless == SafeSpec => SecondStartHarmless
<1> DEFINE Kept7 == UNCHANGED <<implicit, resolved, sig, client, err, instanceOption, log>>
<1>1. ASSUME [Next]_vars, state = "ready", state' = "ready"
      PROVE  Kept7
  <2>1. CASE UNCHANGED vars
    BY <2>1 DEF vars, singleton
  <2>2. ASSUME NEW t \in Threads, Call(t) PROVE Kept7
    BY <1>1, <2>2 DEF Call, Start, SecondStart, RefusedStart, FailedStart,
       SuccessfulStart, Begins, ImplicitStart, StartsImplicitly, Acquire,
       InstanceKey, Shutdown, singleton
  <2>3. ASSUME NEW t \in Threads, Step(t) PROVE Kept7
    BY <2>3 DEF Step, Emit, Check, Ask, Answer, ObserveRemote, CloseRuntime,
       CloseAdapter, singleton
  <2> QED  BY <1>1, <2>1, <2>2, <2>3 DEF Next
<1>2. [Next]_vars => [state = "ready" /\ state' = "ready" => Kept7]_vars
  BY <1>1
<1> QED  BY <1>2, PTL DEF SafeSpec, SecondStartHarmless

-----------------------------------------------------------------------------
(* The environment starts first, or after a refused start.                 *)

\* A singleton that is unstarted again has been through a start that was
\* refused for the instance key handed out.
UnstartedAgain == state = "unstarted" /\ past # "none" => instanceKey # None

LEMMA UnstartedAgainInit == Init => UnstartedAgain
BY DEF Init, UnstartedAgain

LEMMA UnstartedAgainNext == UnstartedAgain /\ [Next]_vars => UnstartedAgain'
<1> SUFFICES ASSUME UnstartedAgain, [Next]_vars PROVE UnstartedAgain'
  OBVIOUS
<1>1. CASE UNCHANGED vars
  BY <1>1 DEF UnstartedAgain, vars, singleton, history
<1>2. ASSUME NEW t \in Threads, Step(t) PROVE UnstartedAgain'
  BY <1>2 DEF UnstartedAgain, Step, Emit, Check, Ask, Answer, ObserveRemote,
     CloseRuntime, CloseAdapter, singleton, history
<1>3. ASSUME NEW t \in Threads, NEW o \in Options, Start(t, o) PROVE UnstartedAgain'
  <2>1. CASE SecondStart(o)
    BY <2>1 DEF UnstartedAgain, SecondStart, singleton
  <2>2. CASE RefusedStart(o)
    BY <2>2 DEF UnstartedAgain, RefusedStart, InstanceConflict
  <2>3. CASE FailedStart(o, FALSE)
    BY <2>3 DEF UnstartedAgain, FailedStart
  <2>4. ASSUME NEW c \in Clients, SuccessfulStart(o, FALSE, c) PROVE UnstartedAgain'
    BY <2>4 DEF UnstartedAgain, SuccessfulStart
  <2> QED  BY <1>3, <2>1, <2>2, <2>3, <2>4 DEF Start
<1>4. ASSUME NEW t \in Threads, NEW o \in EnvOptions, NEW key \in Keys \cup {None},
             ImplicitStart(t, o, key)
      PROVE  UnstartedAgain'
  BY <1>4 DEF UnstartedAgain, ImplicitStart, FailedStart, SuccessfulStart
<1>5. ASSUME NEW t \in Threads, NEW key \in Keys \cup {None}, Acquire(t, key)
      PROVE  UnstartedAgain'
  BY <1>5 DEF UnstartedAgain, Acquire, history
<1>6. ASSUME NEW t \in Threads, InstanceKey(t) PROVE UnstartedAgain'
  BY <1>6 DEF UnstartedAgain, InstanceKey, history
<1>7. ASSUME NEW t \in Threads, Shutdown(t) PROVE UnstartedAgain'
  BY <1>7 DEF UnstartedAgain, Shutdown
<1> QED  BY <1>1, <1>2, <1>3, <1>4, <1>5, <1>6, <1>7 DEF Next, Call

\* The environment starts FireWeave only before every start and shutdown, or
\* once an instance key was handed out that a start may have contradicted.
THEOREM EnvironmentComesFirst == SafeSpec => EnvironmentStartsFirst
<1> DEFINE Starts == implicit' /\ state' = "ready" /\ state # "ready"
<1>1. ASSUME [Next]_vars, Starts PROVE state = "unstarted"
  <2>1. CASE UNCHANGED vars
    BY <1>1, <2>1 DEF vars, singleton
  <2>2. ASSUME NEW t \in Threads, Step(t) PROVE FALSE
    BY <1>1, <2>2 DEF Step, Emit, Check, Ask, Answer, ObserveRemote,
       CloseRuntime, CloseAdapter, singleton
  <2>3. ASSUME NEW t \in Threads, NEW o \in Options, Start(t, o) PROVE FALSE
    BY <1>1, <2>3 DEF Start, SecondStart, RefusedStart, Kept, FailedStart,
       SuccessfulStart, singleton
  <2>4. ASSUME NEW t \in Threads, NEW o \in EnvOptions, NEW key \in Keys \cup {None},
               ImplicitStart(t, o, key)
        PROVE  state = "unstarted"
    BY <2>4 DEF ImplicitStart, StartsImplicitly
  <2>5. ASSUME NEW t \in Threads,
               \/ \E key \in Keys \cup {None} : Acquire(t, key)
               \/ InstanceKey(t) \/ Shutdown(t)
        PROVE  FALSE
    BY <1>1, <2>5 DEF Acquire, InstanceKey, Shutdown
  <2> QED  BY <1>1, <2>1, <2>2, <2>3, <2>4, <2>5 DEF Next, Call
<1>2. UnstartedAgain /\ [Next]_vars => [Starts => past = "none" \/ instanceKey # None]_vars
  BY <1>1 DEF UnstartedAgain
<1>3. SafeSpec => []UnstartedAgain
  BY UnstartedAgainInit, UnstartedAgainNext, PTL DEF SafeSpec
<1> QED  BY <1>2, <1>3, PTL DEF SafeSpec, EnvironmentStartsFirst

-----------------------------------------------------------------------------
(* The refinement: which steps move the slot, and which do not.            *)

\* Nothing moves when the singleton's client and the clients stay.
LEMMA SlotStutters ==
    ASSUME UNCHANGED <<client, clients>>
    PROVE  UNCHANGED Slot!vars
BY DEF Slot!vars

LEMMA SuccessfulStartInstalls ==
    ASSUME IInv, NEW o \in Option, NEW imp \in BOOLEAN, NEW c \in Clients,
           SuccessfulStart(o, imp, c), Build(o, c)
    PROVE  Slot!Install(c)
<1>1. client = NoClient /\ client' = c
  BY DEF IInv, ReadyDescribesClient, SuccessfulStart, Begins
<1>2. clients[c] = "unbuilt" /\ clients' = [clients EXCEPT ![c] = "open"]
  BY DEF SuccessfulStart, Build
<1> QED  BY <1>1, <1>2 DEF IInv, TypeOK, Slot!Install

LEMMA OtherStartsStutter ==
    ASSUME IInv, NEW o \in Option, NEW imp \in BOOLEAN, UNCHANGED built,
           SecondStart(o) \/ RefusedStart(o) \/ FailedStart(o, imp)
    PROVE  UNCHANGED <<client, clients>>
BY DEF IInv, ReadyDescribesClient, SecondStart, RefusedStart, FailedStart, Begins,
       Kept, built, singleton

LEMMA ShutdownRemoves ==
    ASSUME NEW t \in Threads, Shutdown(t)
    PROVE  Slot!Remove \/ UNCHANGED Slot!vars
BY DEF Shutdown, built, Slot!Remove, Slot!vars

LEMMA CloseRuntimeStutters ==
    ASSUME IInv, NEW t \in Threads, CloseRuntime(t)
    PROVE  UNCHANGED Slot!vars
<1>1. held[t] \in Clients /\ clients[held[t]] = "open"
  BY DEF IInv, TypeOK, ThreadsOK, ClosersOK, Closing, CloseRuntime
<1> QED  BY <1>1 DEF IInv, TypeOK, CloseRuntime, singleton, Slot!vars

LEMMA CloseAdapterCloses ==
    ASSUME IInv, NEW t \in Threads, CloseAdapter(t)
    PROVE  \E c \in Clients : Slot!Close(c)
<1>1. held[t] \in Clients /\ clients[held[t]] = "closing" /\ held[t] # client
  BY DEF IInv, TypeOK, ThreadsOK, ClosersOK, Closing, CloseAdapter
<1>2. PICK c \in Clients : c = held[t]
  BY <1>1
<1>3. Slot!Close(c)
  BY <1>1, <1>2 DEF IInv, TypeOK, CloseAdapter, singleton, Slot!Close
<1> QED  BY <1>3

LEMMA StepRefines ==
    IInv /\ [Next]_vars => [Slot!Next]_(Slot!vars)
<1> SUFFICES ASSUME IInv, [Next]_vars PROVE [Slot!Next]_(Slot!vars)
  OBVIOUS
<1>1. CASE UNCHANGED vars
  BY <1>1, SlotStutters DEF vars, singleton, built
<1>2. ASSUME NEW t \in Threads, NEW o \in Options, Start(t, o)
      PROVE  [Slot!Next]_(Slot!vars)
  <2>1. CASE \E c \in Clients : SuccessfulStart(o, FALSE, c) /\ Build(o, c)
    BY <2>1, OptionsAssumption, SuccessfulStartInstalls DEF Slot!Next
  <2>2. CASE /\ UNCHANGED built
             /\ SecondStart(o) \/ RefusedStart(o) \/ FailedStart(o, FALSE)
    BY <2>2, OptionsAssumption, OtherStartsStutter, SlotStutters
  <2> QED  BY <1>2, <2>1, <2>2 DEF Start
<1>3. ASSUME NEW t \in Threads, NEW o \in EnvOptions, NEW key \in Keys \cup {None},
             ImplicitStart(t, o, key)
      PROVE  [Slot!Next]_(Slot!vars)
  <2>1. CASE \E c \in Clients : SuccessfulStart(o, TRUE, c) /\ Build(o, c)
    BY <2>1, OptionsAssumption, SuccessfulStartInstalls DEF Slot!Next
  <2>2. CASE UNCHANGED built /\ FailedStart(o, TRUE)
    BY <2>2, OptionsAssumption, OtherStartsStutter, SlotStutters
  <2> QED  BY <1>3, <2>1, <2>2 DEF ImplicitStart
<1>4. ASSUME NEW t \in Threads, NEW key \in Keys \cup {None}, Acquire(t, key)
      PROVE  [Slot!Next]_(Slot!vars)
  BY <1>4, SlotStutters DEF Acquire, built
<1>5. ASSUME NEW t \in Threads, InstanceKey(t)
      PROVE  [Slot!Next]_(Slot!vars)
  BY <1>5, SlotStutters DEF InstanceKey, built
<1>6. ASSUME NEW t \in Threads, Shutdown(t)
      PROVE  [Slot!Next]_(Slot!vars)
  BY <1>6, ShutdownRemoves DEF Slot!Next
<1>7. ASSUME NEW t \in Threads, Step(t)
      PROVE  [Slot!Next]_(Slot!vars)
  <2>1. CASE \/ Emit(t) \/ Check(t) \/ Ask(t) \/ ObserveRemote(t)
             \/ \E k \in RemoteFailures \cup {"ok"} : Answer(t, k)
    BY <2>1, SlotStutters DEF Emit, Check, Ask, Answer, ObserveRemote, singleton, built
  <2>2. CASE CloseRuntime(t)
    BY <2>2, CloseRuntimeStutters
  <2>3. CASE CloseAdapter(t)
    BY <2>3, CloseAdapterCloses DEF Slot!Next
  <2> QED  BY <1>7, <2>1, <2>2, <2>3 DEF Step
<1> QED  BY <1>1, <1>2, <1>3, <1>4, <1>5, <1>6, <1>7 DEF Next, Call

\* The singleton implements the one-slot promise, liveness apart: only new
\* clients enter, only into an empty slot, and none is closed while in it.
THEOREM ImplementsClientSlot == SafeSpec => Slot!SafeSpec
<1>1. Init => Slot!Init
  BY DEF Init, Slot!Init
<1> QED  BY <1>1, StepRefines, Invariance, PTL DEF SafeSpec, Slot!SafeSpec
=============================================================================
