----------------------------- MODULE Dispatcher -----------------------------
(***************************************************************************)
(* The user mode library: src/shared/stgunit.c, used the way the header    *)
(* and the rawdisk program use it.  A process creates storage units,       *)
(* starts a dispatcher for each, waits for it and deletes the unit, while  *)
(* a console handler, or the driver, may shut the unit down.               *)
(*                                                                         *)
(* The dispatcher of a unit is a chain of threads: each creates the next   *)
(* one and, on its way out, waits for it.  A thread fetches requests of    *)
(* the slot its unit was provisioned in and runs the operations of the     *)
(* unit's Interface.  The first thread flushes the unit at the end.        *)
(*                                                                         *)
(* The driver is module StorageUnit seen from one process: a table of      *)
(* slots, each with the kernel unit that was provisioned for a unit of the *)
(* library.  Every call of the library into the driver is one step, except *)
(* that a transact waits.                                                  *)
(***************************************************************************)
EXTENDS Integers, FiniteSets

CONSTANTS
  Unit,            \* SPD_STORAGE_UNIT objects, each created at most once
  Thread,          \* dispatcher threads
  Slot,            \* Btl values
  Guid,            \* StorageUnitParams.Guid of each unit
  ThreadCount,     \* values for the parameter of SpdStorageUnitStartDispatcher
  CacheSupported,  \* StorageUnitParams.CacheSupported, with a Flush operation
  NULL

ASSUME DispatcherAssumption ==
  /\ IsFiniteSet(Unit) /\ IsFiniteSet(Thread)
  /\ DOMAIN Guid = Unit
  /\ ThreadCount \subseteq Nat \ {0}
  /\ CacheSupported \in BOOLEAN
  /\ NULL \notin Unit \cup Thread \cup Slot

VARIABLES
  TlsCount, TlsKey,  \* SpdStorageUnitTlsCount; whether the key is allocated
  \* fields of each SPD_STORAGE_UNIT
  Btl, DispatcherThread, DispatcherThreadId, DispatcherThreadCount,
  DispatcherError,
  app,               \* where the application is with each unit
  worker,            \* where its asynchronous responder is
  deferred,          \* an operation that will be answered by SendResponse
  \* for each dispatcher thread: its unit, position, error, child, and the
  \* kernel unit it waits in or serves a request of
  unitOf, pc, error, child, source,
  kernel,            \* [Slot -> the unit provisioned there, or NULL]
  \* history: the number of threads asked for, and the final flush
  asked, flush

tlsVars    == <<TlsCount, TlsKey>>
objectVars == <<Btl, DispatcherThread, DispatcherThreadId,
                DispatcherThreadCount, DispatcherError>>
threadVars == <<unitOf, pc, error, child, source>>
appVars    == <<app, worker, deferred, asked>>
vars == <<tlsVars, objectVars, threadVars, appVars, kernel, flush>>

Goto(t, l) == pc' = [pc EXCEPT ![t] = l]
AppGoto(u, l) == app' = [app EXCEPT ![u] = l]

\* A thread that CreateThread can return, and the threads of a unit.
FreshThread == {t \in Thread : pc[t] = "none"}
ThreadsOf(u) == {t \in Thread : unitOf[t] = u}

-----------------------------------------------------------------------------
(***************************************************************************)
(* The driver, as far as one process sees it                               *)
(***************************************************************************)

\* SpdIoctlUnprovision: by Guid, whichever unit that is.
Unprovision(g) ==
  kernel' = [s \in Slot |->
               IF kernel[s] # NULL /\ Guid[kernel[s]] = g THEN NULL ELSE kernel[s]]

\* The disk is ejected or the adapter goes away.
Eject(s) ==
  /\ kernel[s] # NULL
  /\ kernel' = [kernel EXCEPT ![s] = NULL]
  /\ UNCHANGED <<tlsVars, objectVars, threadVars, appVars, flush>>

-----------------------------------------------------------------------------
(***************************************************************************)
(* The application: SpdStorageUnitCreate                                   *)
(***************************************************************************)

\* Under SpdStorageUnitTlsLock.  TlsAlloc may fail.
TlsInit(u) ==
  /\ app[u] = "none"
  /\ TlsCount' = TlsCount + 1
  /\ IF TlsCount' = 1 THEN TlsKey' \in BOOLEAN ELSE UNCHANGED TlsKey
  /\ AppGoto(u, "create")
  /\ UNCHANGED <<objectVars, threadVars, worker, deferred, asked, kernel, flush>>

\* The key is missing, or SpdStorageUnitHandleOpen fails: another unit has the
\* Guid, no slot is free, or there is no device.
CreateFail(u) ==
  /\ app[u] = "create"
  /\ AppGoto(u, "tlsFini")
  /\ UNCHANGED <<tlsVars, objectVars, threadVars, worker, deferred, asked, kernel,
                 flush>>

Create(u) ==
  /\ app[u] = "create"
  /\ TlsKey
  /\ \A s \in Slot : kernel[s] # NULL => Guid[kernel[s]] # Guid[u]
  /\ \E s \in Slot :
       /\ kernel[s] = NULL
       /\ kernel' = [kernel EXCEPT ![s] = u]
       /\ Btl' = [Btl EXCEPT ![u] = s]
  /\ AppGoto(u, "created")
  /\ UNCHANGED <<tlsVars, DispatcherThread, DispatcherThreadId,
                 DispatcherThreadCount, DispatcherError, threadVars, worker,
                 deferred, asked, flush>>

-----------------------------------------------------------------------------
(***************************************************************************)
(* SpdStorageUnitStartDispatcher, -WaitDispatcher, -Shutdown and -Delete   *)
(***************************************************************************)

\* CreateThread makes the thread, then stores its identifier and returns its
\* handle.  The thread is suspended meanwhile.
FirstState == "suspended"

StartDispatcher(u, n) ==
  /\ app[u] = "created"
  /\ DispatcherThread[u] = NULL
  /\ DispatcherThreadCount' = [DispatcherThreadCount EXCEPT ![u] = n]
  /\ asked' = [asked EXCEPT ![u] = n]
  /\ \E t \in FreshThread :
       /\ unitOf' = [unitOf EXCEPT ![t] = u]
       /\ Goto(t, FirstState)
  /\ AppGoto(u, "starting")
  /\ UNCHANGED <<tlsVars, Btl, DispatcherThread, DispatcherThreadId,
                 DispatcherError, error, child, source, worker, deferred, kernel,
                 flush>>

\* CreateThread fails: the application gives up and deletes the unit.
StartFail(u, n) ==
  /\ app[u] = "created"
  /\ DispatcherThreadCount' = [DispatcherThreadCount EXCEPT ![u] = n]
  /\ AppGoto(u, "delete")
  /\ UNCHANGED <<tlsVars, Btl, DispatcherThread, DispatcherThreadId,
                 DispatcherError, threadVars, worker, deferred, asked, kernel, flush>>

StartStored(u) ==
  /\ app[u] = "starting"
  /\ \E t \in ThreadsOf(u) :
       /\ \A x \in ThreadsOf(u) : child[x] # t
       /\ DispatcherThread' = [DispatcherThread EXCEPT ![u] = t]
       /\ DispatcherThreadId' = [DispatcherThreadId EXCEPT ![u] = t]
  /\ AppGoto(u, "resume")
  /\ UNCHANGED <<tlsVars, Btl, DispatcherThreadCount, DispatcherError, threadVars,
                 worker, deferred, asked, kernel, flush>>

ResumeThread(u) ==
  /\ app[u] = "resume"
  /\ IF pc[DispatcherThread[u]] = "suspended"
     THEN Goto(DispatcherThread[u], "alloc") ELSE UNCHANGED pc
  /\ AppGoto(u, "wait")
  /\ UNCHANGED <<tlsVars, objectVars, unitOf, error, child, source, worker,
                 deferred, asked, kernel, flush>>

WaitDispatcher(u) ==
  /\ app[u] = "wait"
  /\ pc[DispatcherThread[u]] = "done"
  /\ DispatcherThread' = [DispatcherThread EXCEPT ![u] = NULL]
  /\ AppGoto(u, "delete")
  /\ UNCHANGED <<tlsVars, Btl, DispatcherThreadId, DispatcherThreadCount,
                 DispatcherError, threadVars, worker, deferred, asked, kernel, flush>>

\* SpdStorageUnitShutdown, through a guard that the application clears before
\* it deletes the unit.
Shutdown(u) ==
  /\ app[u] \in {"created", "starting", "resume", "wait"}
  /\ Unprovision(Guid[u])
  /\ UNCHANGED <<tlsVars, objectVars, threadVars, appVars, flush>>

\* SpdStorageUnitDelete: shut down, close and free the unit; then
\* SpdStorageUnitTlsFini.  The application has no responder at work.
Delete(u) ==
  /\ app[u] = "delete"
  /\ worker[u] = "idle"
  /\ Unprovision(Guid[u])
  /\ AppGoto(u, "tlsFini")
  /\ UNCHANGED <<tlsVars, objectVars, threadVars, worker, deferred, asked, flush>>

\* Faulty variant of the test for the last user of the key: it is missing.
LastTls_Any == TRUE
LastTls == TlsCount - 1 = 0
TlsFini(u) ==
  /\ app[u] = "tlsFini"
  /\ TlsCount' = TlsCount - 1
  /\ TlsKey' = (TlsKey /\ ~LastTls)
  /\ AppGoto(u, "gone")
  /\ UNCHANGED <<objectVars, threadVars, worker, deferred, asked, kernel, flush>>

-----------------------------------------------------------------------------
(***************************************************************************)
(* SpdStorageUnitDispatcherThread                                          *)
(***************************************************************************)

\* A step of t that only moves it on.
Move(t, from, to) ==
  /\ pc[t] = from
  /\ Goto(t, to)
  /\ UNCHANGED <<tlsVars, objectVars, unitOf, error, child, source, appVars,
                 kernel, flush>>

\* goto exit with an error.
Fail(t, from, e) ==
  /\ pc[t] = from
  /\ Goto(t, "error")
  /\ error' = [error EXCEPT ![t] = e]
  /\ UNCHANGED <<tlsVars, objectVars, unitOf, child, source, appVars, kernel, flush>>

\* BufferAlloc and TlsSetValue
Alloc(t) == Move(t, "alloc", "count")
AllocFail(t) == Fail(t, "alloc", "NO_SYSTEM_RESOURCES")

\* 1 < DispatcherThreadCount.  Faulty variant: off by one.
MoreThreads_OffByOne(u) == 0 < DispatcherThreadCount[u]
MoreThreads(u) == 1 < DispatcherThreadCount[u]
CountDown(t) ==
  LET u == unitOf[t]
  IN  /\ pc[t] = "count"
      /\ IF MoreThreads(u)
         THEN /\ DispatcherThreadCount' = [DispatcherThreadCount EXCEPT ![u] = @ - 1]
              /\ Goto(t, "createThread")
         ELSE Goto(t, "transact") /\ UNCHANGED DispatcherThreadCount
      /\ UNCHANGED <<tlsVars, Btl, DispatcherThread, DispatcherThreadId,
                     DispatcherError, unitOf, error, child, source, appVars,
                     kernel, flush>>

CreateThread(t) ==
  /\ pc[t] = "createThread"
  /\ \E x \in FreshThread :
       /\ unitOf' = [unitOf EXCEPT ![x] = unitOf[t]]
       /\ child' = [child EXCEPT ![t] = x]
       /\ pc' = [pc EXCEPT ![x] = "alloc", ![t] = "transact"]
  /\ UNCHANGED <<tlsVars, objectVars, error, source, appVars, kernel, flush>>
CreateThreadFail(t) == Fail(t, "createThread", "CREATE_THREAD")

\* SpdStorageUnitHandleTransact: the slot is looked up by Btl; the response,
\* if any, is delivered and the thread waits for a request.
Transact(t) ==
  LET k == kernel[Btl[unitOf[t]]]
  IN  /\ pc[t] = "transact"
      /\ k # NULL
      /\ Goto(t, "waiting")
      /\ source' = [source EXCEPT ![t] = k]
      /\ UNCHANGED <<tlsVars, objectVars, unitOf, error, child, appVars, kernel, flush>>

\* No unit is in the slot, or the process may not transact with it, or its
\* buffer cannot be locked: other threads may still wait in the driver.
TransactFail(t) == Fail(t, "transact", "TRANSACT")

\* The wait ends with a request, for which an operation of the Interface is
\* called; with no request (Hint 0); or because the queue is stopped.
Provisioned(k) == \E s \in Slot : kernel[s] = k
Request(t) == Move(t, "waiting", "operation") /\ Provisioned(source[t])
NoRequest(t) == Move(t, "waiting", "transact")
Cancelled(t) == Fail(t, "waiting", "TRANSACT") /\ ~Provisioned(source[t])

\* The operation is complete, or is left to SpdStorageUnitSendResponse.
Complete(t) == Move(t, "operation", "transact")
Defer(t) ==
  /\ pc[t] = "operation"
  /\ ~deferred[unitOf[t]]
  /\ Goto(t, "transact")
  /\ deferred' = [deferred EXCEPT ![unitOf[t]] = TRUE]
  /\ UNCHANGED <<tlsVars, objectVars, unitOf, error, child, source, app, worker,
                 asked, kernel, flush>>

\* SpdStorageUnitSetDispatcherError keeps the first error.
FirstError(old, new) == IF old = "SUCCESS" THEN new ELSE old
SetDispatcherError(t) ==
  LET u == unitOf[t]
  IN  /\ pc[t] = "error"
      /\ DispatcherError' = [DispatcherError EXCEPT ![u] = FirstError(@, error[t])]
      /\ Goto(t, "shutdown")
      /\ UNCHANGED <<tlsVars, Btl, DispatcherThread, DispatcherThreadId,
                     DispatcherThreadCount, unitOf, error, child, source, appVars,
                     kernel, flush>>

\* SpdStorageUnitHandleShutdown on the way out.  Faulty variant: missing.
ExitShutdown_Missing(u) == UNCHANGED kernel
ExitShutdown(u) == Unprovision(Guid[u])
HandleShutdown(t) ==
  /\ pc[t] = "shutdown"
  /\ ExitShutdown(unitOf[t])
  /\ Goto(t, "join")
  /\ UNCHANGED <<tlsVars, objectVars, unitOf, error, child, source, appVars, flush>>

\* WaitForSingleObject of the thread this one created.  Faulty variant: no wait.
ChildDone_NoWait(t) == TRUE
ChildDone(t) == child[t] # NULL => pc[child[t]] = "done"
Join(t) == Move(t, "join", "exit") /\ ChildDone(t)

\* The first thread flushes the unit.
IsFirst(t) == t = DispatcherThreadId[unitOf[t]]
BeginFlush(t) ==
  /\ pc[t] = "exit"
  /\ IsFirst(t) /\ CacheSupported
  /\ Goto(t, "flush")
  /\ flush' = [flush EXCEPT ![unitOf[t]] = "begun"]
  /\ UNCHANGED <<tlsVars, objectVars, unitOf, error, child, source, appVars, kernel>>
EndFlush(t) ==
  /\ pc[t] = "flush"
  /\ Goto(t, "done")
  /\ flush' = [flush EXCEPT ![unitOf[t]] = "ended"]
  /\ UNCHANGED <<tlsVars, objectVars, unitOf, error, child, source, appVars, kernel>>
NoFlush(t) == Move(t, "exit", "done") /\ ~(IsFirst(t) /\ CacheSupported)

-----------------------------------------------------------------------------
(***************************************************************************)
(* SpdStorageUnitSendResponse, called by a thread of the application       *)
(***************************************************************************)

WorkerGoto(u, l) == worker' = [worker EXCEPT ![u] = l]

SendResponse(u) ==
  /\ deferred[u]
  /\ app[u] \notin {"tlsFini", "gone"}
  /\ worker[u] = "idle"
  /\ deferred' = [deferred EXCEPT ![u] = FALSE]
  /\ \/ WorkerGoto(u, "error")
     \/ kernel[Btl[u]] # NULL /\ WorkerGoto(u, "idle")
  /\ UNCHANGED <<tlsVars, objectVars, threadVars, app, asked, kernel, flush>>

SendResponseError(u) ==
  /\ worker[u] = "error"
  /\ DispatcherError' = [DispatcherError EXCEPT ![u] = FirstError(@, "TRANSACT")]
  /\ WorkerGoto(u, "shutdown")
  /\ UNCHANGED <<tlsVars, Btl, DispatcherThread, DispatcherThreadId,
                 DispatcherThreadCount, threadVars, app, deferred, asked, kernel,
                 flush>>

SendResponseShutdown(u) ==
  /\ worker[u] = "shutdown"
  /\ Unprovision(Guid[u])
  /\ WorkerGoto(u, "idle")
  /\ UNCHANGED <<tlsVars, objectVars, threadVars, app, deferred, asked, flush>>

-----------------------------------------------------------------------------

Init ==
  /\ TlsCount = 0
  /\ TlsKey = FALSE
  /\ Btl = [u \in Unit |-> NULL]
  /\ DispatcherThread = [u \in Unit |-> NULL]
  /\ DispatcherThreadId = [u \in Unit |-> NULL]
  /\ DispatcherThreadCount = [u \in Unit |-> 0]
  /\ DispatcherError = [u \in Unit |-> "SUCCESS"]
  /\ app = [u \in Unit |-> "none"]
  /\ worker = [u \in Unit |-> "idle"]
  /\ deferred = [u \in Unit |-> FALSE]
  /\ unitOf = [t \in Thread |-> NULL]
  /\ pc = [t \in Thread |-> "none"]
  /\ error = [t \in Thread |-> "SUCCESS"]
  /\ child = [t \in Thread |-> NULL]
  /\ source = [t \in Thread |-> NULL]
  /\ kernel = [s \in Slot |-> NULL]
  /\ asked = [u \in Unit |-> 0]
  /\ flush = [u \in Unit |-> "none"]

Application(u) ==
  \/ TlsInit(u) \/ CreateFail(u) \/ Create(u)
  \/ \E n \in ThreadCount : StartDispatcher(u, n) \/ StartFail(u, n)
  \/ StartStored(u) \/ ResumeThread(u) \/ WaitDispatcher(u)
  \/ Delete(u) \/ TlsFini(u)

\* What a dispatcher thread does by itself.
DispatcherStep(t) ==
  \/ Alloc(t) \/ AllocFail(t)
  \/ CountDown(t) \/ CreateThread(t) \/ CreateThreadFail(t)
  \/ Transact(t) \/ TransactFail(t) \/ Cancelled(t)
  \/ Complete(t) \/ Defer(t)
  \/ SetDispatcherError(t) \/ HandleShutdown(t) \/ Join(t)
  \/ BeginFlush(t) \/ EndFlush(t) \/ NoFlush(t)

Worker(u) == SendResponse(u) \/ SendResponseError(u) \/ SendResponseShutdown(u)

Next ==
  \/ \E u \in Unit : Application(u) \/ Shutdown(u) \/ Worker(u)
  \/ \E t \in Thread : DispatcherStep(t) \/ Request(t) \/ NoRequest(t)
  \/ \E s \in Slot : Eject(s)

Spec == Init /\ [][Next]_vars

\* The scheduler runs every thread; an operation of the Interface returns.
\* Requests, shutdown and ejection need not happen.
FairSpec ==
  /\ Spec
  /\ \A u \in Unit :
       /\ WF_vars(Application(u))
       /\ WF_vars(SendResponseError(u) \/ SendResponseShutdown(u))
  /\ \A t \in Thread : WF_vars(DispatcherStep(t))

-----------------------------------------------------------------------------
(***************************************************************************)
(* Properties                                                              *)
(***************************************************************************)

\* Every variable has its type, and the chain of threads never has more threads
\* than were asked for, although the count is decremented without
\* synchronisation.
TypeOK ==
  /\ TlsCount \in 0 .. Cardinality(Unit)
  /\ TlsKey \in BOOLEAN
  /\ Btl \in [Unit -> Slot \cup {NULL}]
  /\ DispatcherThread \in [Unit -> Thread \cup {NULL}]
  /\ DispatcherThreadId \in [Unit -> Thread \cup {NULL}]
  /\ DispatcherThreadCount \in [Unit -> Nat]
  /\ DispatcherError \in
       [Unit -> {"SUCCESS", "NO_SYSTEM_RESOURCES", "CREATE_THREAD", "TRANSACT"}]
  /\ app \in [Unit -> {"none", "create", "created", "starting", "resume", "wait",
                       "delete", "tlsFini", "gone"}]
  /\ worker \in [Unit -> {"idle", "error", "shutdown"}]
  /\ deferred \in [Unit -> BOOLEAN]
  /\ unitOf \in [Thread -> Unit \cup {NULL}]
  /\ pc \in [Thread -> {"none", "suspended", "alloc", "count", "createThread",
                        "transact", "waiting", "operation", "error", "shutdown",
                        "join", "exit", "flush", "done"}]
  /\ error \in [Thread -> {"SUCCESS", "NO_SYSTEM_RESOURCES", "CREATE_THREAD", "TRANSACT"}]
  /\ child \in [Thread -> Thread \cup {NULL}]
  /\ source \in [Thread -> Unit \cup {NULL}]
  /\ kernel \in [Slot -> Unit \cup {NULL}]
  /\ asked \in [Unit -> Nat]
  /\ flush \in [Unit -> {"none", "begun", "ended"}]
  /\ \A u \in Unit : Cardinality(ThreadsOf(u)) <= asked[u]

\* The final flush is the last operation of a unit: when it begins every other
\* thread of the dispatcher has ended, and none is created later, so no
\* request that was served is left out of it.  SpdStorageUnitWaitDispatcher
\* returns only after it: the first thread, however early it fails, knows that
\* it is the first.
FlushIsLast ==
  \A u \in Unit :
    /\ flush[u] # "none" =>
         \A t \in ThreadsOf(u) \ {DispatcherThreadId[u]} : pc[t] = "done"
    /\ app[u] = "wait" /\ CacheSupported /\ pc[DispatcherThread[u]] = "done" =>
         flush[u] = "ended"

\* Nobody uses a unit after SpdStorageUnitDelete freed it: waiting for the
\* first thread waits for the whole chain.  And the TLS key outlives every
\* thread that sets a value with it, also when other units come and go.
NoUseAfterFree ==
  /\ \A u \in Unit : app[u] \in {"tlsFini", "gone"} =>
       (\A t \in ThreadsOf(u) : pc[t] = "done") /\ worker[u] = "idle"
  /\ \A t \in Thread : pc[t] \notin {"none", "done"} => TlsKey

\* When one thread fails, or the unit is shut down or ejected, the whole
\* dispatcher stops and the application gets to delete the unit; and the error
\* that the application finds is the first, which tells why the dispatcher
\* stopped, not what the shutdown made of the other threads.  (A unit whose slot
\* was given to another unit meanwhile is not covered: its threads go on with
\* the requests of that unit, for they transact by Btl.)
SlotTaken(u) == \E s \in Slot : Btl[u] = s /\ kernel[s] \notin {u, NULL}
FailureStopsAll ==
  /\ \A u \in Unit :
       app[u] = "wait" /\ (DispatcherError[u] # "SUCCESS" \/ ~Provisioned(u))
         ~> app[u] = "gone" \/ SlotTaken(u)
  /\ [][\A u \in Unit : DispatcherError[u] # "SUCCESS" =>
          DispatcherError'[u] = DispatcherError[u]]_vars
=============================================================================
