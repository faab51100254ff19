-------------------------- MODULE DispatcherProofs --------------------------
(***************************************************************************)
(* Proofs about the dispatcher of the user mode library (module            *)
(* Dispatcher), for any number of units, threads and slots.                *)
(***************************************************************************)
EXTENDS Dispatcher, FiniteSetTheorems, TLAPS

-----------------------------------------------------------------------------
(***************************************************************************)
(* The inductive invariant                                                 *)
(***************************************************************************)

Errors == {"SUCCESS", "NO_SYSTEM_RESOURCES", "CREATE_THREAD", "TRANSACT"}

Types ==
  /\ TlsCount \in Nat
  /\ TlsKey \in BOOLEAN
  /\ Btl \in [Unit -> Slot \cup {NULL}]
  /\ DispatcherThread \in [Unit -> Thread \cup {NULL}]
  /\ DispatcherThreadId \in [Unit -> Thread \cup {NULL}]
  /\ DispatcherThreadCount \in [Unit -> Nat]
  /\ DispatcherError \in [Unit -> Errors]
  /\ app \in [Unit -> {"none", "create", "created", "starting", "resume", "wait",
                       "delete", "tlsFini", "gone"}]
  /\ worker \in [Unit -> {"idle", "error", "shutdown"}]
  /\ deferred \in [Unit -> BOOLEAN]
  /\ unitOf \in [Thread -> Unit \cup {NULL}]
  /\ pc \in [Thread -> {"none", "suspended", "alloc", "count", "createThread",
                        "transact", "waiting", "operation", "error", "shutdown",
                        "join", "exit", "flush", "done"}]
  /\ error \in [Thread -> Errors]
  /\ child \in [Thread -> Thread \cup {NULL}]
  /\ source \in [Thread -> Unit \cup {NULL}]
  /\ kernel \in [Slot -> Unit \cup {NULL}]
  /\ asked \in [Unit -> Nat]
  /\ flush \in [Unit -> {"none", "begun", "ended"}]

\* A thread that has not created its child yet, and one that has joined it.
Young == {"suspended", "alloc", "count", "createThread"}
Joined == {"exit", "flush", "done"}

\* A thread belongs to a unit, which the application has not deleted, and so does
\* its child, which has ended when the thread has joined it.
ThreadOK(t) ==
  /\ pc[t] = "none" <=> unitOf[t] = NULL
  /\ pc[t] \in Young \cup {"none"} => child[t] = NULL
  /\ child[t] # NULL => unitOf[child[t]] = unitOf[t]
  /\ pc[t] \in Joined /\ child[t] # NULL => pc[child[t]] = "done"
  /\ pc[t] = "suspended" => app[unitOf[t]] \in {"starting", "resume"}
  /\ pc[t] \notin {"none", "suspended", "done"} => app[unitOf[t]] = "wait"
  /\ pc[t] = "flush" => t = DispatcherThreadId[unitOf[t]]

\* Every thread of a unit is reached from the first one by way of the children.
Chain(u) ==
  \A S \in SUBSET ThreadsOf(u) :
    /\ DispatcherThreadId[u] \in S
    /\ \A x \in S : child[x] # NULL => child[x] \in S
    => S = ThreadsOf(u)

\* Where the application is, and the threads that the unit has then.
UnitOK(u) ==
  /\ app[u] \in {"none", "create", "created"} => ThreadsOf(u) = {}
  /\ app[u] = "starting" => \E t \in Thread : ThreadsOf(u) = {t} /\ pc[t] = "suspended"
  /\ app[u] = "resume" =>
       /\ DispatcherThreadId[u] \in Thread /\ DispatcherThread[u] = DispatcherThreadId[u]
       /\ ThreadsOf(u) = {DispatcherThreadId[u]} /\ pc[DispatcherThreadId[u]] = "suspended"
  /\ app[u] = "wait" =>
       /\ DispatcherThreadId[u] \in ThreadsOf(u) /\ DispatcherThread[u] = DispatcherThreadId[u]
       /\ Chain(u)
  /\ app[u] \in {"delete", "tlsFini", "gone"} => \A t \in ThreadsOf(u) : pc[t] = "done"
  /\ app[u] \in {"created", "starting", "resume", "wait"} => Btl[u] \in Slot
  /\ app[u] \in {"none", "create"} => ~deferred[u]
  /\ app[u] \in {"none", "create", "tlsFini", "gone"} => worker[u] = "idle"

\* One thread at most is about to create another, and the count says how many
\* more there may be.
OneYoung(u) == \A t, x \in ThreadsOf(u) : pc[t] \in Young /\ pc[x] \in Young => t = x
Creating(u) == IF \E t \in ThreadsOf(u) : pc[t] = "createThread" THEN 1 ELSE 0
Counted(u) ==
  ThreadsOf(u) # {} =>
    /\ DispatcherThreadCount[u] >= 1
    /\ Cardinality(ThreadsOf(u)) + DispatcherThreadCount[u] - 1 + Creating(u) <= asked[u]

\* The first thread flushes before it is done, and only it.
FlushOK(u) ==
  /\ flush[u] # "none" =>
       DispatcherThreadId[u] \in ThreadsOf(u) /\ pc[DispatcherThreadId[u]] \in {"flush", "done"}
  /\ CacheSupported /\ DispatcherThreadId[u] \in ThreadsOf(u)
       /\ pc[DispatcherThreadId[u]] = "done" => flush[u] = "ended"

\* The users of the TLS key are counted, and it is there for all who need it.
TlsUsers == {u \in Unit : app[u] \notin {"none", "gone"}}
TlsOK ==
  /\ TlsCount = Cardinality(TlsUsers)
  /\ \A u \in Unit : app[u] \in {"created", "starting", "resume", "wait", "delete"} => TlsKey

Inv ==
  /\ Types
  /\ \A t \in Thread : ThreadOK(t)
  /\ \A u \in Unit : UnitOK(u) /\ OneYoung(u) /\ Counted(u) /\ FlushOK(u)
  /\ TlsOK

-----------------------------------------------------------------------------
(***************************************************************************)
(* Lemmas                                                                  *)
(***************************************************************************)

\* A thread that runs belongs to a unit whose application waits for it.
LEMMA RunningThread ==
  ASSUME Inv, NEW t \in Thread, pc[t] \notin {"none", "suspended", "done"}
  PROVE  unitOf[t] \in Unit /\ app[unitOf[t]] = "wait" /\ t \in ThreadsOf(unitOf[t])
BY DEF Inv, ThreadOK, Types, ThreadsOf

LEMMA ThreadsFinite ==
  ASSUME NEW u
  PROVE  IsFiniteSet(ThreadsOf(u)) /\ Cardinality(ThreadsOf(u)) \in Nat
<1>1. PICK S : S = ThreadsOf(u)
  OBVIOUS
<1>2. S \in SUBSET Thread
  BY <1>1 DEF ThreadsOf
<1>3. IsFiniteSet(S)
  BY <1>2, FS_Subset, DispatcherAssumption
<1> QED
  BY <1>1, <1>3, FS_CardinalityType

LEMMA TlsFrame ==
  ASSUME TlsOK, UNCHANGED <<app, TlsCount, TlsKey>>
  PROVE  TlsOK'
BY DEF TlsOK, TlsUsers

-----------------------------------------------------------------------------
(***************************************************************************)
(* A step of a running thread                                              *)
(***************************************************************************)

\* Thread t goes on; what it goes on to does not undo what it has done.
Goes(t, to) ==
  /\ pc[t] \notin {"none", "suspended", "done"}
  /\ to \notin {"none", "suspended"}
  /\ pc' = [pc EXCEPT ![t] = to]
  /\ to \in Young => pc[t] \in Young
  /\ to \in Joined /\ pc[t] \notin Joined => (child[t] # NULL => pc[child[t]] = "done")
  /\ to = "flush" => t = DispatcherThreadId[unitOf[t]]
  /\ UNCHANGED <<unitOf, child, app, DispatcherThread, DispatcherThreadId, asked, worker, Btl>>
  /\ \A u \in Unit \ {unitOf[t]} : deferred'[u] = deferred[u]

LEMMA GoesThread ==
  ASSUME Inv, NEW t \in Thread, NEW to, Goes(t, to)
  PROVE  \A x \in Thread : ThreadOK(x)'
<1>1. SUFFICES ASSUME NEW x \in Thread
               PROVE  ThreadOK(x)'
  OBVIOUS
<1>2. /\ pc \in [Thread -> {"none", "suspended", "alloc", "count", "createThread",
                            "transact", "waiting", "operation", "error", "shutdown",
                            "join", "exit", "flush", "done"}]
      /\ child \in [Thread -> Thread \cup {NULL}] /\ NULL \notin Thread
      /\ ThreadOK(x) /\ ThreadOK(t)
  BY DispatcherAssumption DEF Inv, Types
<1>3. pc'[t] = to /\ \A y \in Thread \ {t} : pc'[y] = pc[y]
  BY <1>2 DEF Goes
<1>4. unitOf[t] \in Unit /\ app[unitOf[t]] = "wait"
  BY RunningThread DEF Goes
<1>5. UNCHANGED <<unitOf, child, app, DispatcherThreadId>>
  BY DEF Goes
<1>6. \A y \in Thread : pc[y] = "done" => pc'[y] = "done"
  BY <1>3 DEF Goes
<1>7. CASE x = t
  <2>1. unitOf[t] # NULL
    BY <1>4, DispatcherAssumption
  <2>2. child[t] # NULL => unitOf[child[t]] = unitOf[t]
    BY <1>2 DEF ThreadOK
  <2>3. to \in Young => child[t] = NULL
    BY <1>2 DEF ThreadOK, Goes
  <2>4. to \in Joined /\ child[t] # NULL => pc[child[t]] = "done" /\ child[t] \in Thread
    BY <1>2 DEF ThreadOK, Goes
  <2>5. to \in Joined /\ child[t] # NULL => pc'[child[t]] = "done"
    BY <1>6, <2>4
  <2>6. to \notin {"none", "suspended"} /\ (to = "flush" => t = DispatcherThreadId[unitOf[t]])
    BY DEF Goes
  <2> QED
    BY <1>3, <1>4, <1>5, <1>7, <2>1, <2>2, <2>3, <2>5, <2>6 DEF ThreadOK
<1>8. CASE x # t
  <2>1. pc'[x] = pc[x]
    BY <1>3, <1>8
  <2>2. child[x] # NULL => child[x] \in Thread
    BY <1>2
  <2>3. pc[x] \in Joined /\ child[x] # NULL => pc'[child[x]] = "done"
    BY <1>2, <1>6, <2>2 DEF ThreadOK
  <2> QED
    BY <1>2, <1>5, <2>1, <2>3 DEF ThreadOK
<1> QED
  BY <1>7, <1>8

LEMMA GoesUnit ==
  ASSUME Inv, NEW t \in Thread, NEW to, Goes(t, to)
  PROVE  \A u \in Unit : UnitOK(u)' /\ OneYoung(u)'
<1>1. SUFFICES ASSUME NEW u \in Unit
               PROVE  UnitOK(u)' /\ OneYoung(u)'
  OBVIOUS
<1>2. /\ pc \in [Thread -> {"none", "suspended", "alloc", "count", "createThread",
                            "transact", "waiting", "operation", "error", "shutdown",
                            "join", "exit", "flush", "done"}]
      /\ UnitOK(u) /\ OneYoung(u)
  BY DEF Inv, Types
<1>3. pc'[t] = to /\ \A y \in Thread \ {t} : pc'[y] = pc[y]
  BY <1>2 DEF Goes
<1>4. unitOf[t] \in Unit /\ app[unitOf[t]] = "wait"
  BY RunningThread DEF Goes
<1>5. /\ UNCHANGED <<unitOf, child, app, DispatcherThread, DispatcherThreadId, worker, Btl>>
      /\ u # unitOf[t] => deferred'[u] = deferred[u]
  BY DEF Goes
<1>6. ThreadsOf(u)' = ThreadsOf(u) /\ ThreadsOf(u) \subseteq Thread
  BY <1>5 DEF ThreadsOf
<1>7. OneYoung(u)'
  BY <1>2, <1>3, <1>6 DEF OneYoung, Goes
<1>8. app[u] # "wait" => \A x \in ThreadsOf(u) : pc'[x] = pc[x]
  BY <1>3, <1>4, <1>6 DEF ThreadsOf
<1>9. Chain(u)' <=> Chain(u)
  BY <1>5, <1>6 DEF Chain
<1>10. UnitOK(u)'
  <2>1. CASE app[u] = "wait"
    BY <1>2, <1>5, <1>6, <1>9, <2>1 DEF UnitOK
  <2>2. CASE app[u] # "wait"
    <3>1. u # unitOf[t]
      BY <1>4, <2>2
    <3>2. \A x \in ThreadsOf(u) : pc'[x] = pc[x]
      BY <1>8, <2>2
    <3> QED
      BY <1>2, <1>5, <1>6, <2>2, <3>1, <3>2 DEF UnitOK
  <2> QED
    BY <2>1, <2>2
<1> QED
  BY <1>7, <1>10

\* The count, and who has counted down and is to create a thread.
LEMMA GoesCounted ==
  ASSUME Inv, NEW t \in Thread, NEW to, Goes(t, to),
         \/ UNCHANGED DispatcherThreadCount /\ to # "createThread"
         \/ /\ pc[t] = "count" /\ to = "createThread" /\ MoreThreads(unitOf[t])
            /\ DispatcherThreadCount' = [DispatcherThreadCount EXCEPT ![unitOf[t]] = @ - 1]
  PROVE  \A u \in Unit : Counted(u)'
<1>1. SUFFICES ASSUME NEW u \in Unit, ThreadsOf(u)' # {}
               PROVE  /\ DispatcherThreadCount'[u] >= 1
                      /\ Cardinality(ThreadsOf(u)') + DispatcherThreadCount'[u] - 1 + Creating(u)'
                           <= asked'[u]
  BY DEF Counted
<1>2. /\ pc \in [Thread -> {"none", "suspended", "alloc", "count", "createThread",
                            "transact", "waiting", "operation", "error", "shutdown",
                            "join", "exit", "flush", "done"}]
      /\ DispatcherThreadCount \in [Unit -> Nat] /\ asked \in [Unit -> Nat]
      /\ Counted(u) /\ OneYoung(u)
  BY DEF Inv, Types
<1>3. pc'[t] = to /\ \A y \in Thread \ {t} : pc'[y] = pc[y]
  BY <1>2 DEF Goes
<1>4. unitOf[t] \in Unit /\ t \in ThreadsOf(unitOf[t])
  BY RunningThread DEF Goes
<1>5. ThreadsOf(u)' = ThreadsOf(u) /\ ThreadsOf(u) \subseteq Thread /\ UNCHANGED asked
  BY DEF ThreadsOf, Goes
<1>6. PICK n \in Nat : n = Cardinality(ThreadsOf(u))
  BY ThreadsFinite
<1>7. PICK c \in Nat : c = DispatcherThreadCount[u]
  BY <1>2
<1>8. PICK a \in Nat : a = asked[u]
  BY <1>2
<1>9. c >= 1 /\ n + c - 1 + Creating(u) <= a
  BY <1>1, <1>2, <1>5, <1>6, <1>7, <1>8 DEF Counted
<1>10. Creating(u) \in 0 .. 1 /\ Creating(u)' \in 0 .. 1
  BY DEF Creating
<1>11. CASE UNCHANGED DispatcherThreadCount /\ to # "createThread"
  <2>1. Creating(u)' <= Creating(u)
    BY <1>3, <1>5, <1>11 DEF Creating
  <2> QED
    BY <1>5, <1>6, <1>7, <1>8, <1>9, <1>10, <1>11, <2>1
<1>12. CASE /\ pc[t] = "count" /\ to = "createThread" /\ MoreThreads(unitOf[t])
            /\ DispatcherThreadCount' = [DispatcherThreadCount EXCEPT ![unitOf[t]] = @ - 1]
  <2>1. CASE u = unitOf[t]
    <3>1. c > 1 /\ DispatcherThreadCount'[u] = c - 1
      BY <1>2, <1>7, <1>12, <2>1 DEF MoreThreads
    <3>2. \A x \in ThreadsOf(u) : pc[x] # "createThread"
      BY <1>2, <1>4, <1>12, <2>1 DEF OneYoung, Young
    <3>3. Creating(u) = 0
      BY <3>2 DEF Creating
    <3> QED
      BY <1>5, <1>6, <1>7, <1>8, <1>9, <1>10, <3>1, <3>3
  <2>2. CASE u # unitOf[t]
    <3>1. \A x \in ThreadsOf(u) : pc'[x] = pc[x]
      BY <1>3, <1>5, <2>2 DEF ThreadsOf
    <3>2. Creating(u)' = Creating(u)
      BY <1>5, <3>1 DEF Creating
    <3>3. DispatcherThreadCount'[u] = c
      BY <1>2, <1>4, <1>7, <1>12, <2>2
    <3> QED
      BY <1>5, <1>6, <1>7, <1>8, <1>9, <3>2, <3>3
  <2> QED
    BY <2>1, <2>2
<1> QED
  BY <1>11, <1>12

\* Who flushes.
LEMMA GoesFlush ==
  ASSUME Inv, NEW t \in Thread, NEW to, Goes(t, to), flush' \in [Unit -> {"none", "begun", "ended"}],
         \/ /\ UNCHANGED flush /\ pc[t] # "flush"
            /\ to = "done" => ~(t = DispatcherThreadId[unitOf[t]] /\ CacheSupported)
         \/ /\ to = "flush" /\ flush' = [flush EXCEPT ![unitOf[t]] = "begun"]
         \/ /\ pc[t] = "flush" /\ to = "done" /\ flush' = [flush EXCEPT ![unitOf[t]] = "ended"]
  PROVE  \A u \in Unit : FlushOK(u)'
<1>1. SUFFICES ASSUME NEW u \in Unit
               PROVE  FlushOK(u)'
  OBVIOUS
<1>2. /\ pc \in [Thread -> {"none", "suspended", "alloc", "count", "createThread",
                            "transact", "waiting", "operation", "error", "shutdown",
                            "join", "exit", "flush", "done"}]
      /\ flush \in [Unit -> {"none", "begun", "ended"}]
      /\ FlushOK(u) /\ ThreadOK(t)
  BY DEF Inv, Types
<1>3. pc'[t] = to /\ \A y \in Thread \ {t} : pc'[y] = pc[y]
  BY <1>2 DEF Goes
<1>4. unitOf[t] \in Unit /\ t \in ThreadsOf(unitOf[t])
  BY RunningThread DEF Goes
<1>5. ThreadsOf(u)' = ThreadsOf(u) /\ ThreadsOf(u) \subseteq Thread /\ UNCHANGED DispatcherThreadId
  BY DEF ThreadsOf, Goes
<1>6. CASE t # DispatcherThreadId[u]
  <2>1. DispatcherThreadId[u] \in ThreadsOf(u) =>
          pc'[DispatcherThreadId[u]] = pc[DispatcherThreadId[u]]
    BY <1>3, <1>5, <1>6
  <2>2. flush'[u] = flush[u]
    <3>1. CASE u # unitOf[t]
      BY <1>2, <1>4, <3>1
    <3>2. CASE u = unitOf[t]
      <4>1. to # "flush" /\ pc[t] # "flush"
        BY <1>2, <1>6, <3>2 DEF Goes, ThreadOK
      <4> QED
        BY <4>1
    <3> QED
      BY <3>1, <3>2
  <2> QED
    BY <1>2, <1>5, <2>1, <2>2 DEF FlushOK
<1>7. CASE t = DispatcherThreadId[u] /\ u # unitOf[t]
  <2>1. DispatcherThreadId[u] \notin ThreadsOf(u)
    BY <1>7 DEF ThreadsOf
  <2>2. flush'[u] = flush[u]
    BY <1>2, <1>4, <1>7
  <2> QED
    BY <1>2, <1>5, <2>1, <2>2 DEF FlushOK
<1>8. CASE t = DispatcherThreadId[u] /\ u = unitOf[t]
  <2>1. DispatcherThreadId[u] \in ThreadsOf(u) /\ pc'[DispatcherThreadId[u]] = to
    BY <1>3, <1>4, <1>8
  <2>2. CASE /\ UNCHANGED flush /\ pc[t] # "flush"
             /\ to = "done" => ~(t = DispatcherThreadId[unitOf[t]] /\ CacheSupported)
    <3>1. pc[t] # "done"
      BY DEF Goes
    <3>2. flush[u] = "none"
      BY <1>2, <1>8, <2>2, <3>1 DEF FlushOK
    <3> QED
      BY <1>5, <1>8, <2>1, <2>2, <3>2 DEF FlushOK
  <2>3. CASE to = "flush" /\ flush' = [flush EXCEPT ![unitOf[t]] = "begun"]
    BY <1>5, <2>1, <2>3 DEF FlushOK
  <2>4. CASE pc[t] = "flush" /\ to = "done" /\ flush' = [flush EXCEPT ![unitOf[t]] = "ended"]
    <3>1. flush'[u] = "ended"
      BY <1>2, <1>8, <2>4
    <3> QED
      BY <1>5, <2>1, <2>4, <3>1 DEF FlushOK
  <2> QED
    BY <2>2, <2>3, <2>4
<1> QED
  BY <1>6, <1>7, <1>8

LEMMA GoesKeeps ==
  ASSUME Inv, NEW t \in Thread, NEW to, Goes(t, to), Types', UNCHANGED tlsVars,
         \/ UNCHANGED DispatcherThreadCount /\ to # "createThread"
         \/ /\ pc[t] = "count" /\ to = "createThread" /\ MoreThreads(unitOf[t])
            /\ DispatcherThreadCount' = [DispatcherThreadCount EXCEPT ![unitOf[t]] = @ - 1],
         \/ /\ UNCHANGED flush /\ pc[t] # "flush"
            /\ to = "done" => ~(t = DispatcherThreadId[unitOf[t]] /\ CacheSupported)
         \/ /\ to = "flush" /\ flush' = [flush EXCEPT ![unitOf[t]] = "begun"]
         \/ /\ pc[t] = "flush" /\ to = "done" /\ flush' = [flush EXCEPT ![unitOf[t]] = "ended"]
  PROVE  Inv'
<1>1. \A x \in Thread : ThreadOK(x)'
  BY GoesThread
<1>2. \A u \in Unit : UnitOK(u)' /\ OneYoung(u)'
  BY GoesUnit
<1>3. \A u \in Unit : Counted(u)'
  BY GoesCounted
<1>4. flush' \in [Unit -> {"none", "begun", "ended"}]
  BY DEF Types
<1>5. \A u \in Unit : FlushOK(u)'
  BY <1>4, GoesFlush
<1>6. TlsOK'
  BY TlsFrame DEF Inv, Goes, tlsVars
<1> QED
  BY <1>1, <1>2, <1>3, <1>5, <1>6 DEF Inv

\* The steps of a thread that only move it on, and those that set its error.
LEMMA MoveGoes ==
  ASSUME Inv, NEW t \in Thread,
         \/ Alloc(t) \/ Request(t) \/ NoRequest(t) \/ Complete(t) \/ Join(t) \/ NoFlush(t)
  PROVE  Inv'
<1>1. PICK to : /\ pc' = [pc EXCEPT ![t] = to]
                /\ \/ pc[t] = "alloc" /\ to = "count"
                   \/ pc[t] = "waiting" /\ to \in {"operation", "transact"}
                   \/ pc[t] = "operation" /\ to = "transact"
                   \/ pc[t] = "join" /\ to = "exit" /\ ChildDone(t)
                   \/ pc[t] = "exit" /\ to = "done" /\ ~(IsFirst(t) /\ CacheSupported)
  BY DEF Alloc, Request, NoRequest, Complete, Join, NoFlush, Move, Goto
<1>2. UNCHANGED <<tlsVars, objectVars, unitOf, error, child, source, appVars, kernel, flush>>
  BY DEF Alloc, Request, NoRequest, Complete, Join, NoFlush, Move
<1>3. Goes(t, to)
  BY <1>1, <1>2 DEF Goes, Young, Joined, ChildDone, objectVars, appVars
<1>4. Types'
  BY <1>1, <1>2 DEF Inv, Types, tlsVars, objectVars, appVars
<1>5. UNCHANGED DispatcherThreadCount /\ to # "createThread"
  BY <1>1, <1>2 DEF objectVars
<1>6. /\ UNCHANGED flush /\ pc[t] # "flush"
      /\ to = "done" => ~(t = DispatcherThreadId[unitOf[t]] /\ CacheSupported)
  BY <1>1, <1>2 DEF IsFirst
<1> QED
  BY <1>2, <1>3, <1>4, <1>5, <1>6, GoesKeeps

LEMMA FailGoes ==
  ASSUME Inv, NEW t \in Thread,
         AllocFail(t) \/ CreateThreadFail(t) \/ TransactFail(t) \/ Cancelled(t)
  PROVE  Inv'
<1>1. PICK e \in Errors : error' = [error EXCEPT ![t] = e]
  BY DEF AllocFail, CreateThreadFail, TransactFail, Cancelled, Fail, Errors
<1>2. /\ pc[t] \in {"alloc", "createThread", "transact", "waiting"}
      /\ pc' = [pc EXCEPT ![t] = "error"]
      /\ UNCHANGED <<tlsVars, objectVars, unitOf, child, source, appVars, kernel, flush>>
  BY DEF AllocFail, CreateThreadFail, TransactFail, Cancelled, Fail, Goto
<1>3. PICK to : to = "error"
  OBVIOUS
<1>4. Goes(t, to)
  BY <1>2, <1>3 DEF Goes, Young, Joined, objectVars, appVars
<1>5. Types'
  BY <1>1, <1>2 DEF Inv, Types, tlsVars, objectVars, appVars
<1>6. UNCHANGED <<DispatcherThreadCount, flush>> /\ to # "createThread" /\ to # "done"
      /\ pc[t] # "flush"
  BY <1>2, <1>3 DEF objectVars
<1> QED
  BY <1>2, <1>4, <1>5, <1>6, GoesKeeps

LEMMA CountDownGoes ==
  ASSUME Inv, NEW t \in Thread, CountDown(t)
  PROVE  Inv'
<1>1. unitOf[t] \in Unit
  BY RunningThread DEF CountDown
<1>2. PICK to : /\ pc' = [pc EXCEPT ![t] = to] /\ to \in {"transact", "createThread"}
                /\ \/ UNCHANGED DispatcherThreadCount /\ to = "transact"
                   \/ /\ to = "createThread" /\ MoreThreads(unitOf[t])
                      /\ DispatcherThreadCount' =
                           [DispatcherThreadCount EXCEPT ![unitOf[t]] = @ - 1]
  BY DEF CountDown, Goto
<1>3. /\ pc[t] = "count"
      /\ UNCHANGED <<tlsVars, Btl, DispatcherThread, DispatcherThreadId, DispatcherError, unitOf,
                     error, child, source, appVars, kernel, flush>>
  BY DEF CountDown
<1>4. Goes(t, to)
  BY <1>2, <1>3 DEF Goes, Young, Joined, appVars
<1>5. DispatcherThreadCount' \in [Unit -> Nat]
  BY <1>1, <1>2 DEF Inv, Types, MoreThreads
<1>6. Types'
  BY <1>2, <1>3, <1>5 DEF Inv, Types, tlsVars, appVars
<1>7. pc[t] # "flush" /\ UNCHANGED flush /\ to # "done"
  BY <1>2, <1>3
<1>8. \/ UNCHANGED DispatcherThreadCount /\ to # "createThread"
      \/ /\ pc[t] = "count" /\ to = "createThread" /\ MoreThreads(unitOf[t])
         /\ DispatcherThreadCount' = [DispatcherThreadCount EXCEPT ![unitOf[t]] = @ - 1]
  BY <1>2, <1>3
<1> QED
  BY <1>3, <1>4, <1>6, <1>7, <1>8, GoesKeeps

LEMMA TransactGoes ==
  ASSUME Inv, NEW t \in Thread, Transact(t)
  PROVE  Inv'
<1>1. unitOf[t] \in Unit /\ app[unitOf[t]] = "wait"
  BY RunningThread DEF Transact
<1>2. PICK k : /\ k = kernel[Btl[unitOf[t]]] /\ k # NULL
               /\ source' = [source EXCEPT ![t] = k]
  BY DEF Transact
<1>3. k \in Unit
  <2>1. Btl[unitOf[t]] \in Slot
    BY <1>1 DEF Inv, UnitOK
  <2> QED
    BY <1>2, <2>1 DEF Inv, Types
<1>4. /\ pc[t] = "transact" /\ pc' = [pc EXCEPT ![t] = "waiting"]
      /\ UNCHANGED <<tlsVars, objectVars, unitOf, error, child, appVars, kernel, flush>>
  BY DEF Transact, Goto
<1>5. PICK to : to = "waiting"
  OBVIOUS
<1>6. Goes(t, to)
  BY <1>4, <1>5 DEF Goes, Young, Joined, objectVars, appVars
<1>7. Types'
  BY <1>2, <1>3, <1>4 DEF Inv, Types, tlsVars, objectVars, appVars
<1>8. UNCHANGED <<DispatcherThreadCount, flush>> /\ to # "createThread" /\ to # "done"
      /\ pc[t] # "flush"
  BY <1>4, <1>5 DEF objectVars
<1> QED
  BY <1>4, <1>6, <1>7, <1>8, GoesKeeps

LEMMA DeferGoes ==
  ASSUME Inv, NEW t \in Thread, Defer(t)
  PROVE  Inv'
<1>1. unitOf[t] \in Unit
  BY RunningThread DEF Defer
<1>2. /\ pc[t] = "operation" /\ pc' = [pc EXCEPT ![t] = "transact"]
      /\ deferred' = [deferred EXCEPT ![unitOf[t]] = TRUE]
      /\ UNCHANGED <<tlsVars, objectVars, unitOf, error, child, source, app, worker, asked, kernel,
                     flush>>
  BY DEF Defer, Goto
<1>3. PICK to : to = "transact"
  OBVIOUS
<1>4. deferred' \in [Unit -> BOOLEAN] /\ \A u \in Unit \ {unitOf[t]} : deferred'[u] = deferred[u]
  BY <1>1, <1>2 DEF Inv, Types
<1>5. Goes(t, to)
  BY <1>2, <1>3, <1>4 DEF Goes, Young, Joined, objectVars
<1>6. Types'
  BY <1>2, <1>4 DEF Inv, Types, tlsVars, objectVars
<1>7. UNCHANGED <<DispatcherThreadCount, flush>> /\ to # "createThread" /\ to # "done"
      /\ pc[t] # "flush"
  BY <1>2, <1>3 DEF objectVars
<1> QED
  BY <1>2, <1>5, <1>6, <1>7, GoesKeeps

\* SpdIoctlUnprovision and SpdStorageUnitSetDispatcherError keep the types.
LEMMA UnprovisionFits ==
  ASSUME kernel \in [Slot -> Unit \cup {NULL}], NEW g, Unprovision(g)
  PROVE  kernel' \in [Slot -> Unit \cup {NULL}]
BY DEF Unprovision

LEMMA FirstErrorFits ==
  ASSUME NEW a \in Errors, NEW b \in Errors
  PROVE  FirstError(a, b) \in Errors
BY DEF FirstError

LEMMA SetDispatcherErrorGoes ==
  ASSUME Inv, NEW t \in Thread, SetDispatcherError(t)
  PROVE  Inv'
<1>1. unitOf[t] \in Unit
  BY RunningThread DEF SetDispatcherError
<1>2. PICK u \in Unit : u = unitOf[t]
  BY <1>1
<1>3. PICK e : e = FirstError(DispatcherError[u], error[t])
  OBVIOUS
<1>4. e \in Errors
  BY <1>3, FirstErrorFits DEF Inv, Types
<1>5. DispatcherError' = [DispatcherError EXCEPT ![u] = e]
  BY <1>2, <1>3 DEF SetDispatcherError
<1>6. /\ pc[t] = "error" /\ pc' = [pc EXCEPT ![t] = "shutdown"]
      /\ UNCHANGED <<tlsVars, Btl, DispatcherThread, DispatcherThreadId, DispatcherThreadCount,
                     unitOf, error, child, source, appVars, kernel, flush>>
  BY DEF SetDispatcherError, Goto
<1>7. PICK to : to = "shutdown"
  OBVIOUS
<1>8. Goes(t, to)
  BY <1>6, <1>7 DEF Goes, Young, Joined, appVars
<1>9. Types'
  BY <1>4, <1>5, <1>6 DEF Inv, Types, tlsVars, appVars
<1>10. UNCHANGED <<DispatcherThreadCount, flush>> /\ to # "createThread" /\ to # "done"
       /\ pc[t] # "flush"
  BY <1>6, <1>7
<1> QED
  BY <1>6, <1>8, <1>9, <1>10, GoesKeeps

LEMMA HandleShutdownGoes ==
  ASSUME Inv, NEW t \in Thread, HandleShutdown(t)
  PROVE  Inv'
<1>1. PICK g : g = Guid[unitOf[t]]
  OBVIOUS
<1>2. kernel' \in [Slot -> Unit \cup {NULL}]
  BY <1>1, UnprovisionFits DEF Inv, Types, HandleShutdown, ExitShutdown
<1>3. /\ pc[t] = "shutdown" /\ pc' = [pc EXCEPT ![t] = "join"]
      /\ UNCHANGED <<tlsVars, objectVars, unitOf, error, child, source, appVars, flush>>
  BY DEF HandleShutdown, Goto
<1>4. PICK to : to = "join"
  OBVIOUS
<1>5. Goes(t, to)
  BY <1>3, <1>4 DEF Goes, Young, Joined, objectVars, appVars
<1>6. Types'
  BY <1>2, <1>3 DEF Inv, Types, tlsVars, objectVars, appVars
<1>7. UNCHANGED <<DispatcherThreadCount, flush>> /\ to # "createThread" /\ to # "done"
      /\ pc[t] # "flush"
  BY <1>3, <1>4 DEF objectVars
<1> QED
  BY <1>3, <1>5, <1>6, <1>7, GoesKeeps

LEMMA FlushGoes ==
  ASSUME Inv, NEW t \in Thread, BeginFlush(t) \/ EndFlush(t)
  PROVE  Inv'
<1>1. unitOf[t] \in Unit
  BY RunningThread DEF BeginFlush, EndFlush
<1>2. PICK to :
        /\ pc' = [pc EXCEPT ![t] = to]
        /\ \/ /\ pc[t] = "exit" /\ to = "flush" /\ IsFirst(t)
              /\ flush' = [flush EXCEPT ![unitOf[t]] = "begun"]
           \/ /\ pc[t] = "flush" /\ to = "done"
              /\ flush' = [flush EXCEPT ![unitOf[t]] = "ended"]
  BY DEF BeginFlush, EndFlush, Goto
<1>3. UNCHANGED <<tlsVars, objectVars, unitOf, error, child, source, appVars, kernel>>
  BY DEF BeginFlush, EndFlush
<1>4. Goes(t, to)
  BY <1>2, <1>3 DEF Goes, Young, Joined, IsFirst, objectVars, appVars
<1>5. Types'
  BY <1>1, <1>2, <1>3 DEF Inv, Types, tlsVars, objectVars, appVars
<1>6. UNCHANGED DispatcherThreadCount /\ to # "createThread"
  BY <1>2, <1>3 DEF objectVars
<1> QED
  BY <1>2, <1>3, <1>4, <1>5, <1>6, GoesKeeps

-----------------------------------------------------------------------------
(***************************************************************************)
(* A step on behalf of one unit                                            *)
(***************************************************************************)

\* Only unit u and its threads change; a thread may become one of them.
Elsewhere(u) ==
  /\ \A v \in Unit \ {u} :
       /\ app'[v] = app[v] /\ worker'[v] = worker[v] /\ deferred'[v] = deferred[v]
       /\ Btl'[v] = Btl[v] /\ DispatcherThread'[v] = DispatcherThread[v]
       /\ DispatcherThreadId'[v] = DispatcherThreadId[v]
       /\ DispatcherThreadCount'[v] = DispatcherThreadCount[v]
       /\ asked'[v] = asked[v] /\ flush'[v] = flush[v]
  /\ \A t \in Thread : unitOf'[t] = unitOf[t] \/ (unitOf[t] = NULL /\ unitOf'[t] = u)
  /\ \A t \in Thread : unitOf'[t] # u => pc'[t] = pc[t] /\ child'[t] = child[t]

LEMMA ElsewhereThreads ==
  ASSUME Inv, NEW u \in Unit, Elsewhere(u)
  PROVE  \A t \in Thread : unitOf'[t] # u => ThreadOK(t)'
<1>1. SUFFICES ASSUME NEW t \in Thread, unitOf'[t] # u
               PROVE  ThreadOK(t)'
  OBVIOUS
<1>2. unitOf'[t] = unitOf[t] /\ pc'[t] = pc[t] /\ child'[t] = child[t] /\ ThreadOK(t)
  BY <1>1 DEF Elsewhere, Inv
<1>3. unitOf[t] \in Unit \cup {NULL} /\ child[t] \in Thread \cup {NULL} /\ NULL \notin Unit
  BY DispatcherAssumption DEF Inv, Types
<1>4. CASE child[t] # NULL
  <2>1. unitOf[child[t]] = unitOf[t] /\ unitOf[t] # NULL
    BY <1>2, <1>4 DEF ThreadOK
  <2>2. unitOf'[child[t]] = unitOf[t]
    BY <1>3, <1>4, <2>1 DEF Elsewhere
  <2>3. pc'[child[t]] = pc[child[t]]
    BY <1>1, <1>2, <1>3, <1>4, <2>2 DEF Elsewhere
  <2>4. app'[unitOf[t]] = app[unitOf[t]] /\ DispatcherThreadId'[unitOf[t]] = DispatcherThreadId[unitOf[t]]
    BY <1>1, <1>2, <1>3, <2>1 DEF Elsewhere
  <2> QED
    BY <1>2, <2>1, <2>2, <2>3, <2>4 DEF ThreadOK
<1>5. CASE child[t] = NULL
  <2>1. CASE unitOf[t] = NULL
    BY <1>2, <1>5, <2>1 DEF ThreadOK
  <2>2. CASE unitOf[t] \in Unit
    <3>1. app'[unitOf[t]] = app[unitOf[t]] /\ DispatcherThreadId'[unitOf[t]] = DispatcherThreadId[unitOf[t]]
      BY <1>1, <1>2, <2>2 DEF Elsewhere
    <3> QED
      BY <1>2, <1>5, <3>1 DEF ThreadOK
  <2> QED
    BY <1>3, <2>1, <2>2
<1> QED
  BY <1>4, <1>5

LEMMA ElsewhereUnits ==
  ASSUME Inv, NEW u \in Unit, Elsewhere(u)
  PROVE  \A v \in Unit \ {u} : UnitOK(v)' /\ OneYoung(v)' /\ Counted(v)' /\ FlushOK(v)'
<1>1. SUFFICES ASSUME NEW v \in Unit \ {u}
               PROVE  UnitOK(v)' /\ OneYoung(v)' /\ Counted(v)' /\ FlushOK(v)'
  OBVIOUS
<1>2. UnitOK(v) /\ OneYoung(v) /\ Counted(v) /\ FlushOK(v)
  BY DEF Inv
<1>3. ThreadsOf(v)' = ThreadsOf(v) /\ ThreadsOf(v) \subseteq Thread
  BY DispatcherAssumption DEF ThreadsOf, Elsewhere
<1>4. \A t \in ThreadsOf(v) : pc'[t] = pc[t] /\ child'[t] = child[t]
  <2>1. \A t \in ThreadsOf(v) : t \in Thread /\ unitOf'[t] = v
    BY <1>3 DEF ThreadsOf
  <2> QED
    BY <2>1 DEF Elsewhere
<1>5. /\ app'[v] = app[v] /\ worker'[v] = worker[v] /\ deferred'[v] = deferred[v]
      /\ Btl'[v] = Btl[v] /\ DispatcherThread'[v] = DispatcherThread[v]
      /\ DispatcherThreadId'[v] = DispatcherThreadId[v]
      /\ DispatcherThreadCount'[v] = DispatcherThreadCount[v]
      /\ asked'[v] = asked[v] /\ flush'[v] = flush[v]
  BY DEF Elsewhere
<1>6. OneYoung(v)'
  BY <1>2, <1>3, <1>4 DEF OneYoung
<1>7. Counted(v)'
  <2>1. Creating(v)' = Creating(v)
    BY <1>3, <1>4 DEF Creating
  <2> QED
    BY <1>2, <1>3, <1>5, <2>1 DEF Counted
<1>8. FlushOK(v)'
  BY <1>2, <1>3, <1>4, <1>5 DEF FlushOK
<1>9. Chain(v) => Chain(v)'
  <2> SUFFICES ASSUME Chain(v), NEW S \in SUBSET ThreadsOf(v), DispatcherThreadId[v] \in S,
                      \A x \in S : child'[x] # NULL => child'[x] \in S
               PROVE  S = ThreadsOf(v)
    BY <1>3, <1>5 DEF Chain
  <2>1. \A x \in S : child[x] # NULL => child[x] \in S
    BY <1>4
  <2> QED
    BY <2>1 DEF Chain
<1>10. UnitOK(v)'
  <2>1. CASE app[v] = "wait"
    BY <1>2, <1>3, <1>5, <1>9, <2>1 DEF UnitOK
  <2>2. CASE app[v] = "starting"
    <3>1. PICK t \in Thread : ThreadsOf(v) = {t} /\ pc[t] = "suspended"
      BY <1>2, <2>2 DEF UnitOK
    <3>2. pc'[t] = "suspended"
      BY <1>4, <3>1
    <3> QED
      BY <1>2, <1>3, <1>5, <2>2, <3>1, <3>2 DEF UnitOK
  <2>3. CASE app[v] = "resume"
    <3>1. DispatcherThreadId[v] \in ThreadsOf(v)
      BY <1>2, <2>3 DEF UnitOK
    <3> QED
      BY <1>2, <1>3, <1>4, <1>5, <2>3, <3>1 DEF UnitOK
  <2>4. CASE app[v] \notin {"wait", "starting", "resume"}
    BY <1>2, <1>3, <1>4, <1>5, <2>4 DEF UnitOK
  <2> QED
    BY <2>1, <2>2, <2>3, <2>4
<1> QED
  BY <1>6, <1>7, <1>8, <1>10

\* So it is enough to look at the unit itself.
LEMMA UnitKeeps ==
  ASSUME Inv, NEW u \in Unit, Elsewhere(u), Types', TlsOK',
         \A t \in Thread : unitOf'[t] = u => ThreadOK(t)',
         UnitOK(u)', OneYoung(u)', Counted(u)', FlushOK(u)'
  PROVE  Inv'
<1>1. \A t \in Thread : ThreadOK(t)'
  BY ElsewhereThreads
<1>2. \A v \in Unit : UnitOK(v)' /\ OneYoung(v)' /\ Counted(v)' /\ FlushOK(v)'
  BY ElsewhereUnits
<1> QED
  BY <1>1, <1>2 DEF Inv

LEMMA CreateThreadKeeps ==
  ASSUME Inv, NEW t \in Thread, CreateThread(t)
  PROVE  Inv'
<1>1. PICK x \in FreshThread :
        /\ unitOf' = [unitOf EXCEPT ![x] = unitOf[t]]
        /\ child' = [child EXCEPT ![t] = x]
        /\ pc' = [pc EXCEPT ![x] = "alloc", ![t] = "transact"]
  BY DEF CreateThread
<1>2. PICK u \in Unit : u = unitOf[t]
  BY RunningThread DEF CreateThread
<1>3. app[u] = "wait" /\ t \in ThreadsOf(u)
  BY <1>2, RunningThread DEF CreateThread
<1>4. /\ pc[t] = "createThread"
      /\ UNCHANGED <<tlsVars, objectVars, error, source, appVars, kernel, flush>>
  BY DEF CreateThread
<1>5. x \in Thread /\ pc[x] = "none" /\ x # t
  BY <1>4 DEF FreshThread
<1>6. Types
  BY DEF Inv
<1>7. unitOf'[x] = u /\ \A y \in Thread \ {x} : unitOf'[y] = unitOf[y]
  BY <1>1, <1>2, <1>5, <1>6 DEF Types
<1>8. child'[t] = x /\ \A y \in Thread \ {t} : child'[y] = child[y]
  BY <1>1, <1>5, <1>6 DEF Types
<1>9. pc'[x] = "alloc" /\ pc'[t] = "transact" /\ \A y \in Thread \ {x, t} : pc'[y] = pc[y]
  BY <1>1, <1>5, <1>6 DEF Types
<1>10. unitOf[x] = NULL /\ child[x] = NULL /\ NULL \notin Thread /\ NULL \notin Unit
  BY <1>5, DispatcherAssumption DEF Inv, ThreadOK
<1>11. Types'
  <2>1. pc' \in [Thread -> {"none", "suspended", "alloc", "count", "createThread",
                            "transact", "waiting", "operation", "error", "shutdown",
                            "join", "exit", "flush", "done"}]
    BY <1>1, <1>5, <1>6 DEF Types
  <2>2. /\ unitOf' \in [Thread -> Unit \cup {NULL}]
        /\ child' \in [Thread -> Thread \cup {NULL}]
    BY <1>1, <1>2, <1>5, <1>6 DEF Types
  <2> QED
    BY <1>4, <1>6, <2>1, <2>2 DEF Types, tlsVars, objectVars, appVars
<1>12. UNCHANGED <<app, worker, deferred, asked, Btl, DispatcherThread, DispatcherThreadId,
                   DispatcherThreadCount, flush, TlsCount, TlsKey>>
  BY <1>4 DEF tlsVars, objectVars, appVars
<1>13. Elsewhere(u)
  <2>1. \A y \in Thread : unitOf'[y] = unitOf[y] \/ (unitOf[y] = NULL /\ unitOf'[y] = u)
    BY <1>7, <1>10
  <2>2. \A y \in Thread : unitOf'[y] # u => pc'[y] = pc[y] /\ child'[y] = child[y]
    BY <1>2, <1>5, <1>7, <1>8, <1>9
  <2> QED
    BY <1>12, <2>1, <2>2 DEF Elsewhere
<1>14. TlsOK'
  BY <1>12, TlsFrame DEF Inv
<1>15. ThreadsOf(u)' = ThreadsOf(u) \cup {x} /\ x \notin ThreadsOf(u) /\ ThreadsOf(u) \subseteq Thread
  BY <1>5, <1>7, <1>10 DEF ThreadsOf
<1>16. ASSUME NEW y \in Thread, unitOf'[y] = u
       PROVE  ThreadOK(y)'
  <2>1. CASE y = x
    BY <1>3, <1>7, <1>8, <1>5, <1>9, <1>10, <1>12, <2>1 DEF ThreadOK, Young, Joined
  <2>2. CASE y = t
    BY <1>2, <1>3, <1>5, <1>7, <1>8, <1>9, <1>10, <1>12, <2>2 DEF ThreadOK, Young, Joined
  <2>3. CASE y # x /\ y # t
    <3>1. pc'[y] = pc[y] /\ child'[y] = child[y] /\ unitOf'[y] = unitOf[y] /\ ThreadOK(y)
      BY <1>7, <1>8, <1>9, <2>3 DEF Inv
    <3>2. child[y] # NULL => child[y] \in Thread \ {x}
      BY <1>6, <1>10, <1>16, <3>1 DEF Types, ThreadOK
    <3>3. child[y] # NULL => unitOf'[child[y]] = unitOf[y]
      BY <1>7, <3>1, <3>2 DEF ThreadOK
    <3>4. pc[y] \in Joined /\ child[y] # NULL => pc'[child[y]] = "done"
      BY <1>4, <1>9, <3>1, <3>2 DEF ThreadOK
    <3> QED
      BY <1>12, <3>1, <3>3, <3>4 DEF ThreadOK
  <2> QED
    BY <2>1, <2>2, <2>3
<1>17. \A y \in ThreadsOf(u) \ {t} : pc[y] \notin Young
  BY <1>3, <1>4 DEF Inv, OneYoung, Young
<1>18. OneYoung(u)'
  <2>1. \A y \in ThreadsOf(u)' : pc'[y] \in Young => y = x
    BY <1>9, <1>15, <1>17 DEF Young
  <2> QED
    BY <2>1 DEF OneYoung
<1>19. Counted(u)'
  <2>1. PICK n \in Nat : n = Cardinality(ThreadsOf(u))
    BY ThreadsFinite
  <2>2. PICK T : T = ThreadsOf(u)
    OBVIOUS
  <2>3. IsFiniteSet(T) /\ x \notin T
    BY <1>15, <2>2, ThreadsFinite
  <2>4. Cardinality(T \cup {x}) = Cardinality(T) + 1
    BY <2>3, FS_AddElement
  <2>5. Cardinality(ThreadsOf(u)') = n + 1
    BY <1>15, <2>1, <2>2, <2>4
  <2>6. Creating(u) = 1
    BY <1>3, <1>4 DEF Creating
  <2>7. Creating(u)' = 0
    BY <1>9, <1>15, <1>17 DEF Creating, Young
  <2>8. /\ DispatcherThreadCount[u] >= 1 /\ n + DispatcherThreadCount[u] - 1 + 1 <= asked[u]
        /\ DispatcherThreadCount[u] \in Nat /\ asked[u] \in Nat
    BY <1>3, <1>6, <2>1, <2>6 DEF Inv, Counted, Types
  <2> QED
    BY <1>12, <2>1, <2>5, <2>7, <2>8 DEF Counted
<1>20. FlushOK(u)'
  <2>1. FlushOK(u)
    BY DEF Inv
  <2>2. DispatcherThreadId[u] \in ThreadsOf(u) \ {t} =>
          pc'[DispatcherThreadId[u]] = pc[DispatcherThreadId[u]]
    BY <1>9, <1>15
  <2> QED
    BY <1>4, <1>9, <1>12, <1>15, <2>1, <2>2 DEF FlushOK
<1>21. Chain(u)'
  <2> SUFFICES ASSUME NEW S \in SUBSET (ThreadsOf(u) \cup {x}), DispatcherThreadId[u] \in S,
                      \A y \in S : child'[y] # NULL => child'[y] \in S
               PROVE  S = ThreadsOf(u) \cup {x}
    BY <1>12, <1>15 DEF Chain
  <2>1. Chain(u) /\ DispatcherThreadId[u] \in ThreadsOf(u)
    BY <1>3 DEF Inv, UnitOK
  <2>2. \A y \in ThreadsOf(u) : child[y] # NULL => child[y] \in Thread \ {x}
    <3>1. ASSUME NEW y \in ThreadsOf(u), child[y] # NULL PROVE child[y] \in Thread \ {x}
      <4>1. y \in Thread /\ unitOf[y] = u /\ ThreadOK(y)
        BY DEF ThreadsOf, Inv
      <4> QED
        BY <1>6, <1>10, <3>1, <4>1 DEF Types, ThreadOK
    <3> QED
      BY <3>1
  <2>3. child[t] = NULL
    BY <1>4 DEF Inv, ThreadOK, Young
  <2>4. \A y \in S \ {x} : child[y] # NULL => child[y] \in S \ {x}
    BY <1>8, <1>15, <2>2, <2>3
  <2>5. S \ {x} = ThreadsOf(u)
    BY <1>15, <2>1, <2>4 DEF Chain
  <2>6. x \in S
    BY <1>3, <1>8, <1>10, <1>5, <2>5
  <2> QED
    BY <2>5, <2>6
<1>22. UnitOK(u)'
  BY <1>3, <1>12, <1>15, <1>21 DEF Inv, UnitOK
<1> QED
  BY <1>11, <1>13, <1>14, <1>16, <1>18, <1>19, <1>20, <1>22, UnitKeeps

-----------------------------------------------------------------------------
(***************************************************************************)
(* Steps that no dispatcher thread notices                                 *)
(***************************************************************************)

\* The driver's table, the errors, and what is left to the responder.
LEMMA QuietKeeps ==
  ASSUME Inv, Types',
         UNCHANGED <<TlsCount, TlsKey, Btl, DispatcherThread, DispatcherThreadId,
                     DispatcherThreadCount, app, unitOf, pc, child, asked, flush>>,
         \A u \in Unit :
           /\ app[u] \in {"none", "create"} => ~deferred'[u]
           /\ app[u] \in {"none", "create", "tlsFini", "gone"} => worker'[u] = "idle"
  PROVE  Inv'
<1>1. \A t \in Thread : ThreadOK(t)'
  BY DEF Inv, ThreadOK
<1>2. \A u \in Unit : ThreadsOf(u)' = ThreadsOf(u)
  BY DEF ThreadsOf
<1>3. ASSUME NEW u \in Unit
      PROVE  UnitOK(u)' /\ OneYoung(u)' /\ Counted(u)' /\ FlushOK(u)'
  <2>1. UnitOK(u) /\ OneYoung(u) /\ Counted(u) /\ FlushOK(u) /\ ThreadsOf(u)' = ThreadsOf(u)
    BY <1>2 DEF Inv
  <2>2. Chain(u)' <=> Chain(u)
    BY <2>1 DEF Chain
  <2>3. Creating(u)' = Creating(u)
    BY <2>1 DEF Creating
  <2>4. OneYoung(u)' /\ FlushOK(u)'
    BY <2>1 DEF OneYoung, FlushOK
  <2>5. Counted(u)'
    BY <2>1, <2>3 DEF Counted
  <2>6. UnitOK(u)'
    BY <2>1, <2>2 DEF UnitOK
  <2> QED
    BY <2>4, <2>5, <2>6
<1>4. TlsOK'
  BY TlsFrame DEF Inv
<1> QED
  BY <1>1, <1>3, <1>4 DEF Inv

LEMMA StutterKeeps ==
  ASSUME Inv, UNCHANGED vars
  PROVE  Inv'
<1>1. Types'
  BY DEF Inv, Types, vars, tlsVars, objectVars, threadVars, appVars
<1>2. UNCHANGED <<TlsCount, TlsKey, Btl, DispatcherThread, DispatcherThreadId,
                  DispatcherThreadCount, app, unitOf, pc, child, asked, flush, deferred, worker>>
  BY DEF vars, tlsVars, objectVars, threadVars, appVars
<1>3. \A u \in Unit :
        /\ app[u] \in {"none", "create"} => ~deferred'[u]
        /\ app[u] \in {"none", "create", "tlsFini", "gone"} => worker'[u] = "idle"
  BY <1>2 DEF Inv, UnitOK
<1> QED
  BY <1>1, <1>2, <1>3, QuietKeeps

\* SpdStorageUnitShutdown, and the ejection of a disk.
LEMMA KernelKeeps ==
  ASSUME Inv, kernel' \in [Slot -> Unit \cup {NULL}],
         UNCHANGED <<tlsVars, objectVars, threadVars, appVars, flush>>
  PROVE  Inv'
<1>1. Types'
  BY DEF Inv, Types, tlsVars, objectVars, threadVars, appVars
<1>2. UNCHANGED <<TlsCount, TlsKey, Btl, DispatcherThread, DispatcherThreadId,
                  DispatcherThreadCount, app, unitOf, pc, child, asked, flush, deferred, worker>>
  BY DEF tlsVars, objectVars, threadVars, appVars
<1>3. \A u \in Unit :
        /\ app[u] \in {"none", "create"} => ~deferred'[u]
        /\ app[u] \in {"none", "create", "tlsFini", "gone"} => worker'[u] = "idle"
  BY <1>2 DEF Inv, UnitOK
<1> QED
  BY <1>1, <1>2, <1>3, QuietKeeps

LEMMA ShutdownKeeps ==
  ASSUME Inv, NEW u \in Unit, Shutdown(u)
  PROVE  Inv'
<1>1. PICK g : g = Guid[u]
  OBVIOUS
<1>2. kernel' \in [Slot -> Unit \cup {NULL}]
  BY <1>1, UnprovisionFits DEF Inv, Types, Shutdown
<1> QED
  BY <1>2, KernelKeeps DEF Shutdown

LEMMA EjectKeeps ==
  ASSUME Inv, NEW s \in Slot, Eject(s)
  PROVE  Inv'
<1>1. kernel' \in [Slot -> Unit \cup {NULL}]
  BY DEF Inv, Types, Eject
<1> QED
  BY <1>1, KernelKeeps DEF Eject

\* SpdStorageUnitSendResponse, which a unit that is not created yet, or is
\* deleted, does not see.
LEMMA WorkerKeeps ==
  ASSUME Inv, NEW u \in Unit, Worker(u)
  PROVE  Inv'
<1>1. Types /\ UnitOK(u)
  BY DEF Inv
<1>2. app[u] \notin {"none", "create", "tlsFini", "gone"}
  BY <1>1 DEF Types, UnitOK, Worker, SendResponse, SendResponseError, SendResponseShutdown
<1>3. PICK w \in {"idle", "error", "shutdown"} : worker' = [worker EXCEPT ![u] = w]
  BY DEF Worker, SendResponse, SendResponseError, SendResponseShutdown, WorkerGoto
<1>4. /\ deferred' \in [Unit -> BOOLEAN]
      /\ \A v \in Unit \ {u} : deferred'[v] = deferred[v]
  BY <1>1 DEF Types, Worker, SendResponse, SendResponseError, SendResponseShutdown
<1>5. DispatcherError' \in [Unit -> Errors]
  <2>1. CASE SendResponseError(u)
    <3>1. PICK e : e = FirstError(DispatcherError[u], "TRANSACT")
      OBVIOUS
    <3>2. "TRANSACT" \in Errors /\ DispatcherError[u] \in Errors
      BY <1>1 DEF Types, Errors
    <3>3. e \in Errors
      BY <3>1, <3>2, FirstErrorFits
    <3>4. DispatcherError' = [DispatcherError EXCEPT ![u] = e]
      BY <2>1, <3>1 DEF SendResponseError
    <3> QED
      BY <1>1, <3>3, <3>4 DEF Types
  <2>2. CASE SendResponse(u) \/ SendResponseShutdown(u)
    BY <1>1, <2>2 DEF Types, SendResponse, SendResponseShutdown, objectVars
  <2> QED
    BY <2>1, <2>2 DEF Worker
<1>6. kernel' \in [Slot -> Unit \cup {NULL}]
  <2>1. CASE SendResponseShutdown(u)
    <3>1. PICK g : g = Guid[u]
      OBVIOUS
    <3> QED
      BY <1>1, <2>1, <3>1, UnprovisionFits DEF Types, SendResponseShutdown
  <2>2. CASE SendResponse(u) \/ SendResponseError(u)
    BY <1>1, <2>2 DEF Types, SendResponse, SendResponseError
  <2> QED
    BY <2>1, <2>2 DEF Worker
<1>7. UNCHANGED <<TlsCount, TlsKey, Btl, DispatcherThread, DispatcherThreadId,
                  DispatcherThreadCount, app, unitOf, pc, error, child, source, asked, flush>>
  BY DEF Worker, SendResponse, SendResponseError, SendResponseShutdown, tlsVars, objectVars,
         threadVars
<1>8. Types'
  <2>1. worker' \in [Unit -> {"idle", "error", "shutdown"}]
    BY <1>1, <1>3 DEF Types
  <2> QED
    BY <1>1, <1>4, <1>5, <1>6, <1>7, <2>1 DEF Types
<1>9. \A v \in Unit \ {u} : worker'[v] = worker[v] /\ deferred'[v] = deferred[v] /\ UnitOK(v)
  BY <1>1, <1>3, <1>4 DEF Types, Inv
<1>10. \A v \in Unit :
         /\ app[v] \in {"none", "create"} => ~deferred'[v]
         /\ app[v] \in {"none", "create", "tlsFini", "gone"} => worker'[v] = "idle"
  BY <1>2, <1>9 DEF UnitOK
<1> QED
  BY <1>7, <1>8, <1>10, QuietKeeps

-----------------------------------------------------------------------------
(***************************************************************************)
(* The users of the TLS key                                                *)
(***************************************************************************)

LEMMA TlsUsersFinite ==
  IsFiniteSet(TlsUsers) /\ Cardinality(TlsUsers) \in Nat
<1>1. PICK S : S = TlsUsers
  OBVIOUS
<1>2. S \in SUBSET Unit
  BY <1>1 DEF TlsUsers
<1>3. IsFiniteSet(S)
  BY <1>2, FS_Subset, DispatcherAssumption
<1> QED
  BY <1>1, <1>3, FS_CardinalityType

\* A user goes on.
LEMMA TlsMove ==
  ASSUME Types, TlsOK, NEW u \in Unit, NEW l, app' = [app EXCEPT ![u] = l], UNCHANGED tlsVars,
         app[u] \notin {"none", "gone"}, l \notin {"none", "gone"},
         l \in {"created", "starting", "resume", "wait", "delete"} => TlsKey
  PROVE  TlsOK'
<1>1. app'[u] = l /\ \A v \in Unit \ {u} : app'[v] = app[v]
  BY DEF Types
<1>2. TlsUsers' = TlsUsers
  BY <1>1 DEF TlsUsers
<1>3. UNCHANGED <<TlsCount, TlsKey>>
  BY DEF tlsVars
<1>4. TlsCount' = Cardinality(TlsUsers')
  BY <1>2, <1>3 DEF TlsOK
<1>5. \A v \in Unit : app'[v] \in {"created", "starting", "resume", "wait", "delete"} => TlsKey
  BY <1>1 DEF TlsOK
<1> QED
  BY <1>3, <1>4, <1>5 DEF TlsOK

\* The first thread has joined its child, and so on: all the others have ended.
LEMMA JoinedAll ==
  ASSUME Inv, NEW u \in Unit, app[u] = "wait", pc[DispatcherThreadId[u]] \in Joined
  PROVE  \A t \in ThreadsOf(u) \ {DispatcherThreadId[u]} : pc[t] = "done"
<1>1. DispatcherThreadId[u] \in ThreadsOf(u) /\ Chain(u)
  BY DEF Inv, UnitOK
<1>2. PICK S : S = {t \in ThreadsOf(u) : t = DispatcherThreadId[u] \/ pc[t] = "done"}
  OBVIOUS
<1>3. S \in SUBSET ThreadsOf(u) /\ DispatcherThreadId[u] \in S
  BY <1>1, <1>2
<1>4. ASSUME NEW x \in S, child[x] # NULL
      PROVE  child[x] \in S
  <2>1. x \in Thread /\ unitOf[x] = u /\ pc[x] \in Joined /\ ThreadOK(x)
    BY <1>2 DEF ThreadsOf, Joined, Inv
  <2>2. child[x] \in Thread /\ unitOf[child[x]] = u /\ pc[child[x]] = "done"
    BY <1>4, <2>1 DEF ThreadOK, Inv, Types
  <2> QED
    BY <1>2, <2>2 DEF ThreadsOf
<1>5. S = ThreadsOf(u)
  BY <1>1, <1>3, <1>4 DEF Chain
<1> QED
  BY <1>2, <1>5

-----------------------------------------------------------------------------
(***************************************************************************)
(* The steps of the application                                            *)
(***************************************************************************)

\* A step of the application while no thread of its unit runs.
LEMMA IdleKeeps ==
  ASSUME Inv, NEW u \in Unit, Types', TlsOK', UnitOK(u)',
         UNCHANGED <<unitOf, pc, child, flush, asked, DispatcherThreadId>>,
         \A t \in ThreadsOf(u) : pc[t] = "done",
         ThreadsOf(u) = {} \/ UNCHANGED DispatcherThreadCount,
         \A v \in Unit \ {u} :
           /\ app'[v] = app[v] /\ worker'[v] = worker[v] /\ deferred'[v] = deferred[v]
           /\ Btl'[v] = Btl[v] /\ DispatcherThread'[v] = DispatcherThread[v]
           /\ DispatcherThreadCount'[v] = DispatcherThreadCount[v]
  PROVE  Inv'
<1>1. Elsewhere(u)
  BY DEF Elsewhere
<1>2. ThreadsOf(u)' = ThreadsOf(u)
  BY DEF ThreadsOf
<1>3. ASSUME NEW t \in Thread, unitOf'[t] = u
      PROVE  ThreadOK(t)'
  <2>1. pc[t] = "done" /\ ThreadOK(t)
    BY <1>3 DEF Inv, ThreadsOf
  <2> QED
    BY <2>1 DEF ThreadOK, Young
<1>4. OneYoung(u)'
  BY <1>2 DEF OneYoung, Inv
<1>5. Counted(u)'
  <2>1. Creating(u)' = Creating(u)
    BY <1>2 DEF Creating
  <2> QED
    BY <1>2, <2>1 DEF Counted, Inv
<1>6. FlushOK(u)'
  BY <1>2 DEF FlushOK, Inv
<1> QED
  BY <1>1, <1>3, <1>4, <1>5, <1>6, UnitKeeps

LEMMA TlsInitKeeps ==
  ASSUME Inv, NEW u \in Unit, TlsInit(u)
  PROVE  Inv'
<1>1. /\ app[u] = "none" /\ TlsCount' = TlsCount + 1 /\ app' = [app EXCEPT ![u] = "create"]
      /\ TlsCount' = 1 \/ TlsKey' = TlsKey
      /\ UNCHANGED <<objectVars, threadVars, worker, deferred, asked, kernel, flush>>
  BY DEF TlsInit, AppGoto
<1>2. Types /\ TlsOK /\ UnitOK(u)
  BY DEF Inv
<1>3. app'[u] = "create" /\ \A v \in Unit \ {u} : app'[v] = app[v]
  BY <1>1, <1>2 DEF Types
<1>4. PICK T : T = TlsUsers
  OBVIOUS
<1>5. IsFiniteSet(T) /\ Cardinality(T) = TlsCount /\ u \notin T /\ TlsCount \in Nat
  BY <1>1, <1>2, <1>4, TlsUsersFinite DEF TlsOK, TlsUsers, Types
<1>6. TlsUsers' = T \cup {u}
  BY <1>3, <1>4 DEF TlsUsers
<1>7. Cardinality(T \cup {u}) = Cardinality(T) + 1
  BY <1>5, FS_AddElement
<1>8. TlsCount' = Cardinality(TlsUsers')
  BY <1>1, <1>5, <1>6, <1>7
<1>9. ASSUME NEW v \in Unit, app'[v] \in {"created", "starting", "resume", "wait", "delete"}
      PROVE  TlsKey'
  <2>1. v # u /\ app[v] = app'[v]
    BY <1>3, <1>9
  <2>2. TlsKey /\ v \in T
    BY <1>2, <1>4, <1>9, <2>1 DEF TlsOK, TlsUsers
  <2>3. T # {}
    BY <2>2
  <2>4. Cardinality(T) # 0
    BY <1>5, <2>3, FS_EmptySet
  <2>5. TlsCount' # 1
    BY <1>1, <1>5, <2>4
  <2> QED
    BY <1>1, <2>2, <2>5
<1>10. TlsOK'
  BY <1>8, <1>9 DEF TlsOK
<1>11. TlsKey' \in BOOLEAN
  BY <1>2 DEF TlsInit, Types
<1>12. Types'
  <2>1. TlsCount' \in Nat
    BY <1>1, <1>5
  <2>2. app' \in [Unit -> {"none", "create", "created", "starting", "resume", "wait",
                           "delete", "tlsFini", "gone"}]
    BY <1>1, <1>2 DEF Types
  <2> QED
    BY <1>1, <1>2, <1>11, <2>1, <2>2 DEF Types, objectVars, threadVars
<1>13. UNCHANGED <<Btl, DispatcherThread, DispatcherThreadId, DispatcherThreadCount, unitOf, pc,
                   child, flush, asked, worker, deferred>>
  BY <1>1 DEF objectVars, threadVars
<1>14. ThreadsOf(u) = {} /\ ThreadsOf(u)' = ThreadsOf(u)
  BY <1>1, <1>2, <1>13 DEF UnitOK, ThreadsOf
<1>15. UnitOK(u)'
  BY <1>1, <1>2, <1>3, <1>13, <1>14 DEF UnitOK
<1> QED
  BY <1>3, <1>10, <1>12, <1>13, <1>14, <1>15, IdleKeeps

LEMMA CreateFailKeeps ==
  ASSUME Inv, NEW u \in Unit, CreateFail(u)
  PROVE  Inv'
<1>1. /\ app[u] = "create" /\ app' = [app EXCEPT ![u] = "tlsFini"]
      /\ UNCHANGED <<tlsVars, objectVars, threadVars, worker, deferred, asked, kernel, flush>>
  BY DEF CreateFail, AppGoto
<1>2. Types /\ TlsOK /\ UnitOK(u)
  BY DEF Inv
<1>3. app'[u] = "tlsFini" /\ \A v \in Unit \ {u} : app'[v] = app[v]
  BY <1>1, <1>2 DEF Types
<1>4. PICK l : l = "tlsFini"
  OBVIOUS
<1>5. TlsOK'
  BY <1>1, <1>2, <1>4, TlsMove
<1>6. Types'
  BY <1>1, <1>2 DEF Types, tlsVars, objectVars, threadVars
<1>7. UNCHANGED <<Btl, DispatcherThread, DispatcherThreadId, DispatcherThreadCount, unitOf, pc,
                  child, flush, asked, worker, deferred>>
  BY <1>1 DEF objectVars, threadVars
<1>8. ThreadsOf(u) = {} /\ ThreadsOf(u)' = ThreadsOf(u)
  BY <1>1, <1>2, <1>7 DEF UnitOK, ThreadsOf
<1>9. UnitOK(u)'
  BY <1>1, <1>2, <1>3, <1>7, <1>8 DEF UnitOK
<1> QED
  BY <1>3, <1>5, <1>6, <1>7, <1>8, <1>9, IdleKeeps

LEMMA CreateKeeps ==
  ASSUME Inv, NEW u \in Unit, Create(u)
  PROVE  Inv'
<1>1. PICK s \in Slot : kernel' = [kernel EXCEPT ![s] = u] /\ Btl' = [Btl EXCEPT ![u] = s]
  BY DEF Create
<1>2. /\ app[u] = "create" /\ app' = [app EXCEPT ![u] = "created"] /\ TlsKey
      /\ UNCHANGED <<tlsVars, DispatcherThread, DispatcherThreadId, DispatcherThreadCount,
                     DispatcherError, threadVars, worker, deferred, asked, flush>>
  BY DEF Create, AppGoto
<1>3. Types /\ TlsOK /\ UnitOK(u)
  BY DEF Inv
<1>4. app'[u] = "created" /\ \A v \in Unit \ {u} : app'[v] = app[v]
  BY <1>2, <1>3 DEF Types
<1>5. Btl'[u] = s /\ \A v \in Unit \ {u} : Btl'[v] = Btl[v]
  BY <1>1, <1>3 DEF Types
<1>6. PICK l : l = "created"
  OBVIOUS
<1>7. TlsOK'
  BY <1>2, <1>3, <1>6, TlsMove
<1>8. Types'
  <2>1. kernel' \in [Slot -> Unit \cup {NULL}] /\ Btl' \in [Unit -> Slot \cup {NULL}]
    BY <1>1, <1>3 DEF Types
  <2> QED
    BY <1>2, <1>3, <2>1 DEF Types, tlsVars, threadVars
<1>9. UNCHANGED <<DispatcherThread, DispatcherThreadId, DispatcherThreadCount, unitOf, pc,
                  child, flush, asked, worker, deferred>>
  BY <1>2 DEF threadVars
<1>10. ThreadsOf(u) = {} /\ ThreadsOf(u)' = ThreadsOf(u)
  BY <1>2, <1>3, <1>9 DEF UnitOK, ThreadsOf
<1>11. UnitOK(u)'
  BY <1>2, <1>3, <1>4, <1>5, <1>9, <1>10 DEF UnitOK
<1> QED
  BY <1>4, <1>5, <1>7, <1>8, <1>9, <1>10, <1>11, IdleKeeps

LEMMA StartFailKeeps ==
  ASSUME Inv, NEW u \in Unit, NEW n \in ThreadCount, StartFail(u, n)
  PROVE  Inv'
<1>1. /\ app[u] = "created" /\ app' = [app EXCEPT ![u] = "delete"]
      /\ DispatcherThreadCount' = [DispatcherThreadCount EXCEPT ![u] = n]
      /\ UNCHANGED <<tlsVars, Btl, DispatcherThread, DispatcherThreadId, DispatcherError,
                     threadVars, worker, deferred, asked, kernel, flush>>
  BY DEF StartFail, AppGoto
<1>2. Types /\ TlsOK /\ UnitOK(u)
  BY DEF Inv
<1>3. app'[u] = "delete" /\ \A v \in Unit \ {u} : app'[v] = app[v]
  BY <1>1, <1>2 DEF Types
<1>4. PICK l : l = "delete"
  OBVIOUS
<1>5. TlsKey
  BY <1>1, <1>2 DEF TlsOK
<1>6. TlsOK'
  BY <1>1, <1>2, <1>4, <1>5, TlsMove
<1>7. Types'
  <2>1. DispatcherThreadCount' \in [Unit -> Nat]
    BY <1>1, <1>2, DispatcherAssumption DEF Types
  <2> QED
    BY <1>1, <1>2, <2>1 DEF Types, tlsVars, threadVars
<1>8. UNCHANGED <<Btl, DispatcherThread, DispatcherThreadId, unitOf, pc,
                  child, flush, asked, worker, deferred>>
  BY <1>1 DEF threadVars
<1>9. \A v \in Unit \ {u} : DispatcherThreadCount'[v] = DispatcherThreadCount[v]
  BY <1>1, <1>2 DEF Types
<1>10. ThreadsOf(u) = {} /\ ThreadsOf(u)' = ThreadsOf(u)
  BY <1>1, <1>2, <1>8 DEF UnitOK, ThreadsOf
<1>11. UnitOK(u)'
  BY <1>1, <1>2, <1>3, <1>8, <1>10 DEF UnitOK
<1> QED
  BY <1>3, <1>6, <1>7, <1>8, <1>9, <1>10, <1>11, IdleKeeps

LEMMA WaitDispatcherKeeps ==
  ASSUME Inv, NEW u \in Unit, WaitDispatcher(u)
  PROVE  Inv'
<1>1. /\ app[u] = "wait" /\ app' = [app EXCEPT ![u] = "delete"]
      /\ pc[DispatcherThread[u]] = "done"
      /\ DispatcherThread' = [DispatcherThread EXCEPT ![u] = NULL]
      /\ UNCHANGED <<tlsVars, Btl, DispatcherThreadId, DispatcherThreadCount, DispatcherError,
                     threadVars, worker, deferred, asked, kernel, flush>>
  BY DEF WaitDispatcher, AppGoto
<1>2. Types /\ TlsOK /\ UnitOK(u)
  BY DEF Inv
<1>3. app'[u] = "delete" /\ \A v \in Unit \ {u} : app'[v] = app[v]
  BY <1>1, <1>2 DEF Types
<1>4. PICK l : l = "delete"
  OBVIOUS
<1>5. TlsKey
  BY <1>1, <1>2 DEF TlsOK
<1>6. TlsOK'
  <2>1. /\ app' = [app EXCEPT ![u] = l] /\ UNCHANGED tlsVars
        /\ app[u] \notin {"none", "gone"} /\ l \notin {"none", "gone"}
    BY <1>1, <1>4
  <2> QED
    BY ONLY <1>2, <1>5, <2>1, TlsMove, u \in Unit
<1>7. Types'
  <2>1. DispatcherThread' \in [Unit -> Thread \cup {NULL}]
    BY <1>1, <1>2 DEF Types
  <2> QED
    BY <1>1, <1>2, <2>1 DEF Types, tlsVars, threadVars
<1>8. UNCHANGED <<Btl, DispatcherThreadCount, DispatcherThreadId, unitOf, pc,
                  child, flush, asked, worker, deferred>>
  BY <1>1 DEF threadVars
<1>9. \A v \in Unit \ {u} : DispatcherThread'[v] = DispatcherThread[v]
  BY <1>1, <1>2 DEF Types
<1>10. \A t \in ThreadsOf(u) : pc[t] = "done"
  <2>1. pc[DispatcherThreadId[u]] = "done"
    BY <1>1, <1>2 DEF UnitOK
  <2> QED
    BY <1>1, <2>1, JoinedAll DEF Joined
<1>11. ThreadsOf(u)' = ThreadsOf(u)
  BY <1>8 DEF ThreadsOf
<1>12. UnitOK(u)'
  BY <1>3, <1>8, <1>10, <1>11 DEF UnitOK
<1> QED
  BY <1>3, <1>6, <1>7, <1>8, <1>9, <1>10, <1>12, IdleKeeps

LEMMA DeleteKeeps ==
  ASSUME Inv, NEW u \in Unit, Delete(u)
  PROVE  Inv'
<1>1. /\ app[u] = "delete" /\ worker[u] = "idle" /\ app' = [app EXCEPT ![u] = "tlsFini"]
      /\ UNCHANGED <<tlsVars, objectVars, threadVars, worker, deferred, asked, flush>>
  BY DEF Delete, AppGoto
<1>2. Types /\ TlsOK /\ UnitOK(u)
  BY DEF Inv
<1>3. app'[u] = "tlsFini" /\ \A v \in Unit \ {u} : app'[v] = app[v]
  BY <1>1, <1>2 DEF Types
<1>4. PICK l : l = "tlsFini"
  OBVIOUS
<1>5. TlsOK'
  BY <1>1, <1>2, <1>4, TlsMove
<1>6. Types'
  <2>1. PICK g : g = Guid[u]
    OBVIOUS
  <2>2. kernel' \in [Slot -> Unit \cup {NULL}]
    BY <1>2, <2>1, UnprovisionFits DEF Types, Delete
  <2> QED
    BY <1>1, <1>2, <2>2 DEF Types, tlsVars, objectVars, threadVars
<1>7. UNCHANGED <<Btl, DispatcherThread, DispatcherThreadId, DispatcherThreadCount, unitOf, pc,
                  child, flush, asked, worker, deferred>>
  BY <1>1 DEF objectVars, threadVars
<1>8. \A t \in ThreadsOf(u) : pc[t] = "done"
  BY <1>1, <1>2 DEF UnitOK
<1>9. ThreadsOf(u)' = ThreadsOf(u)
  BY <1>7 DEF ThreadsOf
<1>10. UnitOK(u)'
  BY <1>1, <1>3, <1>7, <1>8, <1>9 DEF UnitOK
<1> QED
  BY <1>3, <1>5, <1>6, <1>7, <1>8, <1>10, IdleKeeps

\* SpdStorageUnitTlsFini: when the key is freed nobody needs it.
LEMMA TlsFiniKeeps ==
  ASSUME Inv, NEW u \in Unit, TlsFini(u)
  PROVE  Inv'
<1>1. /\ app[u] = "tlsFini" /\ app' = [app EXCEPT ![u] = "gone"]
      /\ TlsCount' = TlsCount - 1 /\ TlsKey' = (TlsKey /\ ~LastTls)
      /\ UNCHANGED <<objectVars, threadVars, worker, deferred, asked, kernel, flush>>
  BY DEF TlsFini, AppGoto
<1>2. Types /\ TlsOK /\ UnitOK(u)
  BY DEF Inv
<1>3. app'[u] = "gone" /\ \A v \in Unit \ {u} : app'[v] = app[v]
  BY <1>1, <1>2 DEF Types
<1>4. PICK T : T = TlsUsers
  OBVIOUS
<1>5. IsFiniteSet(T) /\ Cardinality(T) = TlsCount /\ u \in T /\ TlsCount \in Nat
  BY <1>1, <1>2, <1>4, TlsUsersFinite DEF TlsOK, TlsUsers, Types
<1>6. TlsUsers' = T \ {u}
  BY <1>3, <1>4 DEF TlsUsers
<1>7. /\ IsFiniteSet(T \ {u}) /\ Cardinality(T \ {u}) = Cardinality(T) - 1
  BY <1>5, FS_RemoveElement
<1>8. TlsCount' = Cardinality(TlsUsers')
  BY <1>1, <1>5, <1>6, <1>7
<1>9. ASSUME NEW v \in Unit, app'[v] \in {"created", "starting", "resume", "wait", "delete"}
      PROVE  TlsKey'
  <2>1. v # u /\ app[v] = app'[v]
    BY <1>3, <1>9
  <2>2. TlsKey /\ v \in T
    BY <1>2, <1>4, <1>9, <2>1 DEF TlsOK, TlsUsers
  <2>3. T \ {u} # {}
    BY <2>1, <2>2
  <2>4. Cardinality(T \ {u}) # 0
    BY <1>7, <2>3, FS_EmptySet
  <2>5. ~LastTls
    BY <1>5, <1>7, <2>4 DEF LastTls
  <2> QED
    BY <1>1, <2>2, <2>5
<1>10. TlsOK'
  BY <1>8, <1>9 DEF TlsOK
<1>11. Types'
  <2>1. TlsCount' \in Nat
    <3>1. Cardinality(T \ {u}) \in Nat
      BY <1>7, FS_CardinalityType
    <3> QED
      BY <1>6, <1>8, <3>1
  <2>2. app' \in [Unit -> {"none", "create", "created", "starting", "resume", "wait",
                           "delete", "tlsFini", "gone"}]
    BY <1>1, <1>2 DEF Types
  <2>3. TlsKey' \in BOOLEAN
    BY <1>1
  <2> QED
    BY <1>1, <1>2, <2>1, <2>2, <2>3 DEF Types, objectVars, threadVars
<1>12. UNCHANGED <<Btl, DispatcherThread, DispatcherThreadId, DispatcherThreadCount, unitOf, pc,
                   child, flush, asked, worker, deferred>>
  BY <1>1 DEF objectVars, threadVars
<1>13. \A t \in ThreadsOf(u) : pc[t] = "done"
  BY <1>1, <1>2 DEF UnitOK
<1>14. ThreadsOf(u)' = ThreadsOf(u)
  BY <1>12 DEF ThreadsOf
<1>15. UnitOK(u)'
  BY <1>1, <1>2, <1>3, <1>12, <1>13, <1>14 DEF UnitOK
<1> QED
  BY <1>3, <1>10, <1>11, <1>12, <1>13, <1>15, IdleKeeps

\* SpdStorageUnitStartDispatcher: the first thread, suspended.
LEMMA StartDispatcherKeeps ==
  ASSUME Inv, NEW u \in Unit, NEW n \in ThreadCount, StartDispatcher(u, n)
  PROVE  Inv'
<1>1. PICK x \in FreshThread :
        unitOf' = [unitOf EXCEPT ![x] = u] /\ pc' = [pc EXCEPT ![x] = "suspended"]
  BY DEF StartDispatcher, Goto, FirstState
<1>2. /\ app[u] = "created" /\ app' = [app EXCEPT ![u] = "starting"]
      /\ DispatcherThreadCount' = [DispatcherThreadCount EXCEPT ![u] = n]
      /\ asked' = [asked EXCEPT ![u] = n]
      /\ UNCHANGED <<tlsVars, Btl, DispatcherThread, DispatcherThreadId, DispatcherError, error,
                     child, source, worker, deferred, kernel, flush>>
  BY DEF StartDispatcher, AppGoto
<1>3. Types /\ TlsOK /\ UnitOK(u) /\ FlushOK(u)
  BY DEF Inv
<1>4. x \in Thread /\ pc[x] = "none" /\ unitOf[x] = NULL /\ child[x] = NULL
  BY DEF FreshThread, Inv, ThreadOK
<1>5. n \in Nat \ {0} /\ NULL \notin Unit /\ NULL \notin Thread
  BY DispatcherAssumption
<1>6. app'[u] = "starting" /\ \A v \in Unit \ {u} : app'[v] = app[v]
  BY <1>2, <1>3 DEF Types
<1>7. unitOf'[x] = u /\ \A y \in Thread \ {x} : unitOf'[y] = unitOf[y]
  BY <1>1, <1>3, <1>4 DEF Types
<1>8. pc'[x] = "suspended" /\ \A y \in Thread \ {x} : pc'[y] = pc[y]
  BY <1>1, <1>3, <1>4 DEF Types
<1>9. /\ DispatcherThreadCount'[u] = n /\ asked'[u] = n
      /\ \A v \in Unit \ {u} : /\ DispatcherThreadCount'[v] = DispatcherThreadCount[v]
                               /\ asked'[v] = asked[v]
  BY <1>2, <1>3 DEF Types
<1>10. PICK l : l = "starting"
  OBVIOUS
<1>11. TlsKey
  BY <1>2, <1>3 DEF TlsOK
<1>12. TlsOK'
  BY <1>2, <1>3, <1>10, <1>11, TlsMove
<1>13. Types'
  <2>1. DispatcherThreadCount' \in [Unit -> Nat] /\ asked' \in [Unit -> Nat]
    BY <1>2, <1>3, <1>5 DEF Types
  <2>2. unitOf' \in [Thread -> Unit \cup {NULL}]
    BY <1>1, <1>3, <1>4 DEF Types
  <2>3. pc' \in [Thread -> {"none", "suspended", "alloc", "count", "createThread",
                            "transact", "waiting", "operation", "error", "shutdown",
                            "join", "exit", "flush", "done"}]
    BY <1>1, <1>3, <1>4 DEF Types
  <2>4. app' \in [Unit -> {"none", "create", "created", "starting", "resume", "wait",
                           "delete", "tlsFini", "gone"}]
    BY <1>2, <1>3 DEF Types
  <2> QED
    BY <1>2, <1>3, <2>1, <2>2, <2>3, <2>4 DEF Types, tlsVars
<1>14. Elsewhere(u)
  <2>1. \A y \in Thread : unitOf'[y] = unitOf[y] \/ (unitOf[y] = NULL /\ unitOf'[y] = u)
    BY <1>4, <1>7
  <2>2. \A y \in Thread : unitOf'[y] # u => pc'[y] = pc[y] /\ child'[y] = child[y]
    BY <1>2, <1>7, <1>8
  <2> QED
    BY <1>2, <1>6, <1>9, <2>1, <2>2 DEF Elsewhere
<1>15. ThreadsOf(u) = {} /\ ThreadsOf(u)' = {x}
  <2>1. ThreadsOf(u) = {}
    BY <1>2, <1>3 DEF UnitOK
  <2>2. \A y \in Thread : unitOf'[y] = u <=> y = x
    BY <1>7, <2>1 DEF ThreadsOf
  <2> QED
    BY <1>4, <2>1, <2>2 DEF ThreadsOf
<1>16. ASSUME NEW y \in Thread, unitOf'[y] = u
       PROVE  ThreadOK(y)'
  <2>1. y = x
    BY <1>15, <1>16 DEF ThreadsOf
  <2>2. child'[x] = NULL
    BY <1>2, <1>4
  <2> QED
    BY <1>5, <1>6, <1>7, <1>8, <2>1, <2>2 DEF ThreadOK, Young, Joined
<1>17. OneYoung(u)'
  BY <1>15 DEF OneYoung
<1>18. Counted(u)'
  <2>1. Cardinality({x}) = 1
    BY FS_Singleton
  <2>2. Creating(u)' = 0
    BY <1>8, <1>15 DEF Creating
  <2>3. Cardinality(ThreadsOf(u)') + DispatcherThreadCount'[u] - 1 + Creating(u)' <= asked'[u]
    BY <1>5, <1>9, <1>15, <2>1, <2>2
  <2> QED
    BY <1>5, <1>9, <2>3 DEF Counted
<1>19. FlushOK(u)'
  <2>1. flush[u] = "none" /\ UNCHANGED <<flush, DispatcherThreadId>>
    BY <1>2, <1>3, <1>15 DEF FlushOK
  <2> QED
    BY <1>8, <1>15, <2>1 DEF FlushOK
<1>20. UnitOK(u)'
  <2>1. \E t \in Thread : ThreadsOf(u)' = {t} /\ pc'[t] = "suspended"
    BY <1>4, <1>8, <1>15
  <2>2. Btl'[u] \in Slot
    BY <1>2, <1>3 DEF UnitOK
  <2> QED
    BY <1>6, <2>1, <2>2 DEF UnitOK
<1> QED
  BY <1>12, <1>13, <1>14, <1>16, <1>17, <1>18, <1>19, <1>20, UnitKeeps

LEMMA StartStoredKeeps ==
  ASSUME Inv, NEW u \in Unit, StartStored(u)
  PROVE  Inv'
<1>1. PICK t \in ThreadsOf(u) :
        /\ DispatcherThread' = [DispatcherThread EXCEPT ![u] = t]
        /\ DispatcherThreadId' = [DispatcherThreadId EXCEPT ![u] = t]
  BY DEF StartStored
<1>2. /\ app[u] = "starting" /\ app' = [app EXCEPT ![u] = "resume"]
      /\ UNCHANGED <<tlsVars, Btl, DispatcherThreadCount, DispatcherError, threadVars,
                     worker, deferred, asked, kernel, flush>>
  BY DEF StartStored, AppGoto
<1>3. Types /\ TlsOK /\ UnitOK(u) /\ FlushOK(u)
  BY DEF Inv
<1>4. t \in Thread /\ ThreadsOf(u) = {t} /\ pc[t] = "suspended"
  <2>1. PICK x \in Thread : ThreadsOf(u) = {x} /\ pc[x] = "suspended"
    BY <1>2, <1>3 DEF UnitOK
  <2> QED
    BY <2>1
<1>5. app'[u] = "resume" /\ \A v \in Unit \ {u} : app'[v] = app[v]
  BY <1>2, <1>3 DEF Types
<1>6. /\ DispatcherThread'[u] = t /\ DispatcherThreadId'[u] = t
      /\ \A v \in Unit \ {u} : /\ DispatcherThread'[v] = DispatcherThread[v]
                               /\ DispatcherThreadId'[v] = DispatcherThreadId[v]
  BY <1>1, <1>3 DEF Types
<1>7. PICK l : l = "resume"
  OBVIOUS
<1>8. TlsKey
  BY <1>2, <1>3 DEF TlsOK
<1>9. TlsOK'
  BY <1>2, <1>3, <1>7, <1>8, TlsMove
<1>10. Types'
  <2>1. /\ DispatcherThread' \in [Unit -> Thread \cup {NULL}]
        /\ DispatcherThreadId' \in [Unit -> Thread \cup {NULL}]
    BY <1>1, <1>3, <1>4 DEF Types
  <2>2. app' \in [Unit -> {"none", "create", "created", "starting", "resume", "wait",
                           "delete", "tlsFini", "gone"}]
    BY <1>2, <1>3 DEF Types
  <2> QED
    BY <1>2, <1>3, <2>1, <2>2 DEF Types, tlsVars, threadVars
<1>11. UNCHANGED <<Btl, DispatcherThreadCount, unitOf, pc, child, flush, asked, worker, deferred>>
  BY <1>2 DEF threadVars
<1>12. Elsewhere(u)
  BY <1>5, <1>6, <1>11 DEF Elsewhere
<1>13. ThreadsOf(u)' = {t}
  BY <1>4, <1>11 DEF ThreadsOf
<1>14. ASSUME NEW y \in Thread, unitOf'[y] = u
       PROVE  ThreadOK(y)'
  <2>1. y = t
    BY <1>13, <1>14 DEF ThreadsOf
  <2>2. ThreadOK(t) /\ unitOf[t] = u
    BY <1>4, <1>11, <1>14, <2>1 DEF Inv
  <2> QED
    BY <1>4, <1>5, <1>11, <2>1, <2>2 DEF ThreadOK, Young, Joined
<1>15. OneYoung(u)'
  BY <1>13 DEF OneYoung
<1>16. Counted(u)'
  <2>1. ThreadsOf(u)' = ThreadsOf(u)
    BY <1>4, <1>13
  <2>2. Creating(u)' = Creating(u)
    BY <1>11, <2>1 DEF Creating
  <2> QED
    BY <1>11, <2>1, <2>2 DEF Counted, Inv
<1>17. FlushOK(u)'
  <2>1. flush[u] = "none"
    BY <1>3, <1>4 DEF FlushOK
  <2> QED
    BY <1>4, <1>6, <1>11, <2>1 DEF FlushOK
<1>18. UnitOK(u)'
  <2>1. Btl'[u] \in Slot
    BY <1>2, <1>3, <1>11 DEF UnitOK
  <2> QED
    BY <1>4, <1>5, <1>6, <1>11, <1>13, <2>1 DEF UnitOK
<1> QED
  BY <1>9, <1>10, <1>12, <1>14, <1>15, <1>16, <1>17, <1>18, UnitKeeps

LEMMA ResumeThreadKeeps ==
  ASSUME Inv, NEW u \in Unit, ResumeThread(u)
  PROVE  Inv'
<1>1. Types /\ TlsOK /\ UnitOK(u) /\ FlushOK(u)
  BY DEF Inv
<1>2. /\ app[u] = "resume" /\ app' = [app EXCEPT ![u] = "wait"]
      /\ UNCHANGED <<tlsVars, objectVars, unitOf, error, child, source, worker, deferred, asked,
                     kernel, flush>>
  BY DEF ResumeThread, AppGoto
<1>3. PICK t \in Thread : t = DispatcherThreadId[u]
  BY <1>1, <1>2 DEF UnitOK
<1>4. DispatcherThread[u] = t /\ ThreadsOf(u) = {t} /\ pc[t] = "suspended"
  BY <1>1, <1>2, <1>3 DEF UnitOK
<1>5. pc' = [pc EXCEPT ![t] = "alloc"]
  BY <1>4 DEF ResumeThread, Goto
<1>6. app'[u] = "wait" /\ \A v \in Unit \ {u} : app'[v] = app[v]
  BY <1>1, <1>2 DEF Types
<1>7. pc'[t] = "alloc" /\ \A y \in Thread \ {t} : pc'[y] = pc[y]
  BY <1>1, <1>5 DEF Types
<1>8. PICK l : l = "wait"
  OBVIOUS
<1>9. TlsKey
  BY <1>1, <1>2 DEF TlsOK
<1>10. TlsOK'
  BY <1>1, <1>2, <1>8, <1>9, TlsMove
<1>11. Types'
  <2>1. pc' \in [Thread -> {"none", "suspended", "alloc", "count", "createThread",
                            "transact", "waiting", "operation", "error", "shutdown",
                            "join", "exit", "flush", "done"}]
    BY <1>1, <1>5 DEF Types
  <2>2. app' \in [Unit -> {"none", "create", "created", "starting", "resume", "wait",
                           "delete", "tlsFini", "gone"}]
    BY <1>1, <1>2 DEF Types
  <2> QED
    BY <1>1, <1>2, <2>1, <2>2 DEF Types, tlsVars, objectVars
<1>12. UNCHANGED <<Btl, DispatcherThread, DispatcherThreadId, DispatcherThreadCount, unitOf, child,
                   flush, asked, worker, deferred>>
  BY <1>2 DEF objectVars
<1>13. ThreadsOf(u)' = {t} /\ unitOf[t] = u
  BY <1>4, <1>12 DEF ThreadsOf
<1>14. Elsewhere(u)
  <2>1. \A y \in Thread : unitOf'[y] # u => pc'[y] = pc[y]
    BY <1>7, <1>12, <1>13
  <2> QED
    BY <1>6, <1>12, <2>1 DEF Elsewhere
<1>15. child[t] = NULL /\ NULL \notin Unit
  BY <1>4, DispatcherAssumption DEF Inv, ThreadOK, Young
<1>16. ASSUME NEW y \in Thread, unitOf'[y] = u
       PROVE  ThreadOK(y)'
  <2>1. y = t
    BY <1>13, <1>16 DEF ThreadsOf
  <2> QED
    BY <1>6, <1>7, <1>12, <1>13, <1>15, <2>1 DEF ThreadOK, Young, Joined
<1>17. OneYoung(u)'
  BY <1>13 DEF OneYoung
<1>18. Counted(u)'
  <2>1. ThreadsOf(u)' = ThreadsOf(u)
    BY <1>4, <1>13
  <2>2. Creating(u)' = Creating(u)
    BY <1>4, <1>7, <1>13 DEF Creating
  <2> QED
    BY <1>12, <2>1, <2>2 DEF Counted, Inv
<1>19. FlushOK(u)'
  <2>1. flush[u] = "none"
    BY <1>1, <1>3, <1>4 DEF FlushOK
  <2> QED
    BY <1>3, <1>7, <1>12, <2>1 DEF FlushOK
<1>20. UnitOK(u)'
  <2>1. Btl'[u] \in Slot
    BY <1>1, <1>2, <1>12 DEF UnitOK
  <2>2. Chain(u)'
    BY <1>3, <1>12, <1>13 DEF Chain
  <2> QED
    BY <1>3, <1>4, <1>6, <1>12, <1>13, <2>1, <2>2 DEF UnitOK
<1> QED
  BY <1>10, <1>11, <1>14, <1>16, <1>17, <1>18, <1>19, <1>20, UnitKeeps

-----------------------------------------------------------------------------
(***************************************************************************)
(* The theorems                                                            *)
(***************************************************************************)

LEMMA InitHolds ==
  ASSUME Init
  PROVE  Inv
<1>1. Types
  BY DEF Init, Types, Errors
<1>2. \A t \in Thread : ThreadOK(t)
  BY DEF Init, ThreadOK, Young, Joined
<1>3. ASSUME NEW u \in Unit
      PROVE  UnitOK(u) /\ OneYoung(u) /\ Counted(u) /\ FlushOK(u)
  <2>1. ThreadsOf(u) = {}
    BY DispatcherAssumption DEF Init, ThreadsOf
  <2>2. app[u] = "none" /\ ~deferred[u] /\ worker[u] = "idle" /\ flush[u] = "none"
    BY DEF Init
  <2>3. UnitOK(u)
    BY <2>1, <2>2 DEF UnitOK
  <2>4. OneYoung(u) /\ Counted(u) /\ FlushOK(u)
    BY <2>1, <2>2 DEF OneYoung, Counted, FlushOK
  <2> QED
    BY <2>3, <2>4
<1>4. TlsOK
  <2>1. TlsUsers = {}
    BY DEF Init, TlsUsers
  <2>2. TlsCount = Cardinality(TlsUsers)
    BY <2>1, FS_EmptySet DEF Init
  <2> QED
    BY <2>2 DEF Init, TlsOK
<1> QED
  BY <1>1, <1>2, <1>3, <1>4 DEF Inv

LEMMA ThreadKeeps ==
  ASSUME Inv, NEW t \in Thread, DispatcherStep(t) \/ Request(t) \/ NoRequest(t)
  PROVE  Inv'
BY MoveGoes, FailGoes, CountDownGoes, CreateThreadKeeps, TransactGoes, DeferGoes,
   SetDispatcherErrorGoes, HandleShutdownGoes, FlushGoes DEF DispatcherStep

LEMMA ApplicationKeeps ==
  ASSUME Inv, NEW u \in Unit, Application(u)
  PROVE  Inv'
BY TlsInitKeeps, CreateFailKeeps, CreateKeeps, StartDispatcherKeeps, StartFailKeeps,
   StartStoredKeeps, ResumeThreadKeeps, WaitDispatcherKeeps, DeleteKeeps, TlsFiniKeeps
   DEF Application

LEMMA NextKeeps ==
  ASSUME Inv, [Next]_vars
  PROVE  Inv'
BY ApplicationKeeps, ShutdownKeeps, WorkerKeeps, ThreadKeeps, EjectKeeps, StutterKeeps DEF Next

\* The invariant of the dispatcher: a chain of threads, each of which ends after
\* the one it created, with a count that bounds it and a TLS key that outlives it.
THEOREM InductiveInvariant == Spec => []Inv
BY InitHolds, NextKeeps, PTL DEF Spec

\* Every variable has its type, and the chain of dispatcher threads never has
\* more threads than SpdStorageUnitStartDispatcher was asked for.
THEOREM TypeCorrect == Spec => []TypeOK
<1>1. ASSUME Inv
      PROVE  TypeOK
  <2>1. Types
    BY <1>1 DEF Inv
  <2>2. TlsCount \in 0 .. Cardinality(Unit)
    <3>1. PICK T : T = TlsUsers
      OBVIOUS
    <3>2. T \in SUBSET Unit
      BY <3>1 DEF TlsUsers
    <3>3. Cardinality(T) <= Cardinality(Unit)
      BY <3>2, FS_Subset, DispatcherAssumption
    <3>4. TlsCount = Cardinality(T) /\ TlsCount \in Nat
      BY <1>1, <2>1, <3>1 DEF Inv, TlsOK, Types
    <3>5. Cardinality(Unit) \in Nat
      BY FS_CardinalityType, DispatcherAssumption
    <3> QED
      BY <3>3, <3>4, <3>5
  <2>3. ASSUME NEW u \in Unit
        PROVE  Cardinality(ThreadsOf(u)) <= asked[u]
    <3>1. PICK n \in Nat : n = Cardinality(ThreadsOf(u))
      BY ThreadsFinite
    <3>2. asked[u] \in Nat /\ DispatcherThreadCount[u] \in Nat /\ Counted(u)
      BY <1>1, <2>1 DEF Types, Inv
    <3>3. CASE ThreadsOf(u) = {}
      BY <3>1, <3>2, <3>3, FS_EmptySet
    <3>4. CASE ThreadsOf(u) # {}
      <4>1. Creating(u) \in 0 .. 1
        BY DEF Creating
      <4> QED
        BY <3>1, <3>2, <3>4, <4>1 DEF Counted
    <3> QED
      BY <3>3, <3>4
  <2> QED
    BY <2>1, <2>2, <2>3 DEF TypeOK, Types, Errors
<1> QED
  BY <1>1, InductiveInvariant, PTL

\* The final flush is the last operation of a unit, and
\* SpdStorageUnitWaitDispatcher returns only after it: however early a thread
\* fails, the first joins the chain before it flushes.
THEOREM AlwaysFlushIsLast == Spec => []FlushIsLast
<1>1. ASSUME Inv
      PROVE  FlushIsLast
  <2>1. SUFFICES ASSUME NEW u \in Unit
        PROVE  /\ flush[u] # "none" =>
                    \A t \in ThreadsOf(u) \ {DispatcherThreadId[u]} : pc[t] = "done"
               /\ app[u] = "wait" /\ CacheSupported /\ pc[DispatcherThread[u]] = "done" =>
                    flush[u] = "ended"
    BY DEF FlushIsLast
  <2>2. Types /\ UnitOK(u) /\ FlushOK(u)
    BY <1>1 DEF Inv
  <2>3. ASSUME flush[u] # "none"
        PROVE  \A t \in ThreadsOf(u) \ {DispatcherThreadId[u]} : pc[t] = "done"
    <3>1. DispatcherThreadId[u] \in ThreadsOf(u) /\ pc[DispatcherThreadId[u]] \in {"flush", "done"}
      BY <2>2, <2>3 DEF FlushOK
    <3>2. CASE app[u] = "wait"
      BY <1>1, <3>1, <3>2, JoinedAll DEF Joined
    <3>3. CASE app[u] \in {"delete", "tlsFini", "gone"}
      BY <2>2, <3>3 DEF UnitOK
    <3>4. app[u] \notin {"none", "create", "created", "starting", "resume"}
      BY <2>2, <3>1 DEF UnitOK
    <3> QED
      BY <2>2, <3>2, <3>3, <3>4 DEF Types
  <2>4. app[u] = "wait" /\ CacheSupported /\ pc[DispatcherThread[u]] = "done" => flush[u] = "ended"
    BY <2>2 DEF UnitOK, FlushOK
  <2> QED
    BY <2>3, <2>4
<1> QED
  BY <1>1, InductiveInvariant, PTL

\* Nobody uses a unit after SpdStorageUnitDelete freed it, or the TLS key after
\* SpdStorageUnitTlsFini freed it.
THEOREM AlwaysNoUseAfterFree == Spec => []NoUseAfterFree
<1>1. ASSUME Inv
      PROVE  NoUseAfterFree
  <2>1. \A u \in Unit : app[u] \in {"tlsFini", "gone"} =>
          (\A t \in ThreadsOf(u) : pc[t] = "done") /\ worker[u] = "idle"
    BY <1>1 DEF Inv, UnitOK
  <2>2. ASSUME NEW t \in Thread, pc[t] \notin {"none", "done"}
        PROVE  TlsKey
    <3>1. unitOf[t] \in Unit /\ app[unitOf[t]] \in {"starting", "resume", "wait"}
      BY <1>1, <2>2 DEF Inv, ThreadOK, Types
    <3> QED
      BY <1>1, <3>1 DEF Inv, TlsOK
  <2> QED
    BY <2>1, <2>2 DEF NoUseAfterFree
<1> QED
  BY <1>1, InductiveInvariant, PTL

\* The error that the application finds is the first one: neither a thread on its
\* way out nor the responder replaces it.  This is the action part of
\* FailureStopsAll.
THEOREM FirstErrorStays ==
  Spec => [][\A u \in Unit : DispatcherError[u] # "SUCCESS" =>
               DispatcherError'[u] = DispatcherError[u]]_vars
<1>1. ASSUME Inv, Next, NEW u \in Unit, DispatcherError[u] # "SUCCESS"
      PROVE  DispatcherError'[u] = DispatcherError[u]
  <2>1. DispatcherError \in [Unit -> Errors]
    BY <1>1 DEF Inv, Types
  <2>2. \A e : FirstError(DispatcherError[u], e) = DispatcherError[u]
    BY <1>1 DEF FirstError
  <2>3. CASE \E v \in Unit : Application(v) \/ Shutdown(v)
    BY <2>3 DEF Application, Shutdown, TlsInit, CreateFail, Create, StartDispatcher, StartFail,
                StartStored, ResumeThread, WaitDispatcher, Delete, TlsFini, objectVars
  <2>4. CASE \E v \in Unit : Worker(v)
    BY <2>1, <2>2, <2>4 DEF Worker, SendResponse, SendResponseError, SendResponseShutdown,
                            objectVars
  <2>5. CASE \E t \in Thread : DispatcherStep(t) \/ Request(t) \/ NoRequest(t)
    <3>1. PICK t \in Thread : DispatcherStep(t) \/ Request(t) \/ NoRequest(t)
      BY <2>5
    <3>2. CASE SetDispatcherError(t)
      BY <2>1, <2>2, <3>2 DEF SetDispatcherError
    <3>3. CASE ~SetDispatcherError(t)
      <4>1. UNCHANGED DispatcherError
        BY <3>1, <3>3
           DEF DispatcherStep, Request, NoRequest, Alloc, AllocFail, CountDown, CreateThread,
               CreateThreadFail, Transact, TransactFail, Cancelled, Complete, Defer,
               HandleShutdown, Join, BeginFlush, EndFlush, NoFlush, Move, Fail, objectVars
      <4> QED
        BY <4>1
    <3> QED
      BY <3>2, <3>3
  <2>6. CASE \E s \in Slot : Eject(s)
    BY <2>6 DEF Eject, objectVars
  <2> QED
    BY <1>1, <2>3, <2>4, <2>5, <2>6 DEF Next
<1>2. ASSUME Inv, [Next]_vars
      PROVE  [\A u \in Unit : DispatcherError[u] # "SUCCESS" =>
                DispatcherError'[u] = DispatcherError[u]]_vars
  BY <1>1, <1>2
<1> QED
  BY <1>2, InductiveInvariant, PTL DEF Spec
=============================================================================
