------------------------------ MODULE Launcher ------------------------------
(***************************************************************************)
(* The launcher service (src/launcher/launcher.c) and the clients of its   *)
(* pipe (src/launcher/launchctl.c, src/shared/launch.c, secpipe.c).        *)
(*                                                                         *)
(* The service starts a process for every instance of a storage unit that  *)
(* a client asks for, keeps the instances in a list, and stops them on     *)
(* request or when it is stopped itself.  Instances of a class that is     *)
(* Persistent are entered into the registry, from where they are started   *)
(* again after a restart of the system.                                    *)
(*                                                                         *)
(* Three kinds of threads share the list: the thread that serves the pipe, *)
(* the thread that starts the service and its persistent instances, and a  *)
(* callback of the thread pool for every process that ends.  What they do  *)
(* within SvcInstanceLock is one step; the count of references changes     *)
(* outside of it.  An instance is known by its process, whose identifier   *)
(* is free for reuse once the last handle is closed.                       *)
(***************************************************************************)
EXTENDS Integers, Sequences, FiniteSets, SequencesExt

CONSTANTS
  Name,        \* names of instances, of one class
  NoArgs,      \* those that are started without arguments
  Unreadable,  \* those with a name or a value that does not fit the buffers of
               \* SvcInstanceStartAllPersistent
  User,        \* users of the pipe
  StopRight,   \* users whom the Security of the class lets stop every instance
  Pid,         \* process identifiers
  Handle,      \* values of handles
  Volumes,     \* the largest number of volumes of one process
  NULL

ASSUME LauncherAssumption ==
  /\ IsFiniteSet(Name) /\ NoArgs \subseteq Name /\ Unreadable \subseteq Name
  /\ StopRight \subseteq User
  /\ IsFiniteSet(Pid) /\ IsFiniteSet(Handle)
  /\ Volumes \in Nat
  /\ NULL \notin Name \cup User \cup Pid \cup Handle

VARIABLES
  svc,                                  \* the status of the service
  SvcEvent, SvcInstanceEvent,           \* its events
  SvcInstanceList,                      \* the processes of the instances in the list
  inst,                                 \* the SVC_INSTANCE of each process
  proc,                                 \* what the process does
  handle, timers,                       \* handles to volumes and to processes to kill
  reclosed,                             \* for properties: a handle closed in error
  registry,                             \* the values below Instances, in their order
  main, srv, cb,                        \* the threads
  lock,                                 \* SvcInstanceLock is held from step to step
  pipe, peer, msg, client               \* the pipe and its clients

listVars == <<SvcInstanceList, SvcInstanceEvent, inst>>
procVars == <<proc, handle, timers, reclosed>>
pipeVars == <<pipe, peer, msg, client>>
vars == <<svc, SvcEvent, listVars, procVars, registry, main, srv, cb, lock, pipeVars>>

\* The rights on an instance that matter here: who may stop it.
Entry == [name : Name, sd : SUBSET User]
Instance == [name : Name, sd : SUBSET User,
             RefCount : 0 .. 2, VolumeHandles : SUBSET Handle]

ASSUME NullAssumption == NULL \notin Instance

\* The commands.  "other" are those that change nothing: SpdLaunchCmdGetInfo,
\* SpdLaunchCmdGetNameList and malformed ones.
Command ==
  [kind : {"start", "stop", "stopForced"}, name : Name] \cup [kind : {"other"}, name : {NULL}]

Free == <<"free", NULL>>
FreeHandle == {h \in Handle : handle[h] = Free}

\* "seen" is for a property: the values that were looked at, and those that came
\* to a place which was passed already, because they were stored there meanwhile
\* or because a deletion in front moved them.
MainIdle == [at |-> "off", J |-> 0, entry |-> NULL, obj |-> NULL, seen |-> {}]
SrvIdle == [at |-> "off", user |-> NULL, cmd |-> NULL, obj |-> NULL, todo |-> {}]

-----------------------------------------------------------------------------
(***************************************************************************)
(* Instances                                                               *)
(***************************************************************************)

\* SvcInstanceLookup, by name or by process (class ".pid.").
Lookup(n) == {p \in SvcInstanceList : inst[p].name = n}

\* Faulty variant: the name is not looked up.
NameFree_Unchecked(n) == TRUE
NameFree(n) == Lookup(n) = {}

\* An instance is created with two references, one for its creator and one for
\* the callback.  Faulty variant: the callback's is forgotten.
FirstRefCount_One == 1
FirstRefCount == 2

NewInstance(e) ==
  [name |-> e.name, sd |-> e.sd, RefCount |-> FirstRefCount, VolumeHandles |-> {}]

\* The process runs, and may end, from here on.  Its identifier is one that no
\* process has and no open handle refers to.
CreateProcess(p) ==
  /\ inst[p] = NULL /\ proc[p] = "none" /\ \A h \in Handle : handle[h] # <<"dup", p>>
  /\ proc' = [proc EXCEPT ![p] = "running"]
  /\ UNCHANGED <<handle, timers, reclosed>>

\* SvcInstanceCreate, within SvcInstanceLock: it succeeds, or it fails in one of
\* many ways and leaves nothing behind.
Create(p, e) ==
  /\ ~lock
  /\ NameFree(e.name)
  /\ CreateProcess(p)
  /\ inst' = [inst EXCEPT ![p] = NewInstance(e)]
  /\ cb' = [cb EXCEPT ![p] = "armed"]
  /\ SvcInstanceList' = SvcInstanceList \cup {p}
  /\ SvcInstanceEvent' = FALSE
CreateFails == ~lock /\ UNCHANGED <<listVars, procVars, cb>>

\* SvcInstanceRelease: the count goes down; the thread that brings it to zero
\* takes the instance out of the list, and then frees it.
CountDown(p) == inst' = [inst EXCEPT ![p].RefCount = @ - 1]
IsLast(p) == inst[p].RefCount = 1

\* The event is set by whoever empties the list.
NowEmpty(p) == SvcInstanceList = {p}
RemoveEntry(p) ==
  /\ ~lock
  /\ SvcInstanceList' = SvcInstanceList \ {p}
  /\ SvcInstanceEvent' = (SvcInstanceEvent \/ NowEmpty(p))
  /\ UNCHANGED inst

CloseVolumes(p) == [h \in Handle |-> IF h \in inst[p].VolumeHandles THEN Free ELSE handle[h]]
FreeInstance(p) ==
  /\ handle' = CloseVolumes(p)
  /\ inst' = [inst EXCEPT ![p] = NULL]
  /\ proc' = [proc EXCEPT ![p] = "none"]
  /\ cb' = [cb EXCEPT ![p] = "none"]
  /\ UNCHANGED <<SvcInstanceList, SvcInstanceEvent, timers, reclosed>>

\* KillProcess: control-break with a timer on a duplicate d of the process
\* handle, control-break without a timer when d is NULL, or termination.  "closed"
\* are the handles closed afterwards, "kept" the ones kept with the instance.  A
\* handle closed afterwards may have become d in the meantime.
KillProcess(p, how, d, kept, closed) ==
  /\ proc' = IF proc[p] = "exited" \/ how = "spare" THEN proc ELSE [proc EXCEPT ![p] = how]
  /\ timers' = timers \cup (IF d = NULL THEN {} ELSE {<<p, d>>})
  /\ reclosed' = (reclosed \/ d \in closed)
  /\ handle' = [h \in Handle |-> IF h \in closed THEN Free
                                 ELSE IF h = d THEN <<"dup", p>>
                                 ELSE IF h \in kept THEN <<"vol", p>> ELSE handle[h]]
KillModes == {"breaking", "exited"}
Timer(p, how, free) == IF how = "breaking" /\ proc[p] # "exited" THEN {NULL} \cup free ELSE {NULL}

\* GetVolumeOwnerProcessId: which volumes belong to the process is left open, and
\* so is whether it can be found out.
MayBeOwned(vols, n) == Cardinality(vols) <= n

\* OpenAndDismountVolumesForProcessId: the handles to up to n volumes of the
\* process, which are locked and dismounted.
OpenAndDismountVolumes(n) == {vols \in SUBSET FreeHandle : MayBeOwned(vols, n)}

\* SvcInstanceKill while the volumes can be locked, or are already.  The handles
\* to the volumes are kept with the instance; those that are left, because there
\* is no memory to keep them, are closed at the end.  Faulty variant: all are.
Left_All(vols, kept) == vols
Left(vols, kept) == vols \ kept
KillUnused(p) ==
  \E vols \in IF inst[p].VolumeHandles # {} THEN {{}} ELSE OpenAndDismountVolumes(Volumes),
     how \in KillModes :
    \E kept \in {{}, vols}, d \in Timer(p, how, FreeHandle \ vols) :
      /\ KillProcess(p, how, d, kept, Left(vols, kept))
      /\ inst' = [inst EXCEPT ![p].VolumeHandles = @ \cup kept]

\* SvcInstanceKill while some volume is in use: ERROR_DEVICE_IN_USE.  The handles
\* are closed at once, and again at the end; without Forced there is no more.
KillInUse(p, forced) ==
  \E vols \in OpenAndDismountVolumes(Volumes - 1),
     how \in (IF forced THEN KillModes ELSE {"spare"}) :
    /\ inst[p].VolumeHandles = {}
    /\ \E d \in Timer(p, how, FreeHandle) : KillProcess(p, how, d, {}, vols)
    /\ UNCHANGED inst

-----------------------------------------------------------------------------
(***************************************************************************)
(* Processes                                                               *)
(***************************************************************************)

\* A process ends by itself; one that has outlived the service that started it
\* is noticed by nobody.
Exit(p) ==
  /\ \/ /\ proc[p] \in {"running", "breaking"}
        /\ proc' = [proc EXCEPT ![p] = "exited"]
     \/ /\ proc[p] = "orphan"
        /\ proc' = [proc EXCEPT ![p] = "none"]
  /\ UNCHANGED <<svc, SvcEvent, listVars, handle, timers, reclosed, registry, main, srv, cb, lock, pipeVars>>

\* A process that got control-break and was given no timer ends ("we hope").
Respond(p) ==
  /\ ~reclosed /\ ~(\E h \in Handle : <<p, h>> \in timers)
  /\ proc[p] = "breaking" /\ Exit(p)

\* KillProcessWait: the process has ended or the time is out.  The handle is
\* used whatever it refers to by now.  Faulty variant: there is no timeout.
Elapsed_Never(p) == proc[p] = "exited"
Elapsed(p) == TRUE
KillProcessWait(p, h) ==
  /\ <<p, h>> \in timers
  /\ Elapsed(p)
  /\ proc' = IF handle[h][1] = "dup" /\ proc[handle[h][2]] \in {"running", "breaking"}
             THEN [proc EXCEPT ![handle[h][2]] = "exited"] ELSE proc
  /\ handle' = [handle EXCEPT ![h] = Free]
  /\ timers' = timers \ {<<p, h>>}
  /\ UNCHANGED <<svc, SvcEvent, listVars, reclosed, registry, main, srv, cb, lock, pipeVars>>

\* SvcInstanceTerminated runs when the process has ended.
Terminated(p) ==
  /\ \/ /\ cb[p] = "armed" /\ proc[p] = "exited"
        /\ CountDown(p)
        /\ cb' = [cb EXCEPT ![p] = IF IsLast(p) THEN "remove" ELSE "done"]
        /\ UNCHANGED <<SvcInstanceList, SvcInstanceEvent, procVars>>
     \/ /\ cb[p] = "remove"
        /\ RemoveEntry(p)
        /\ cb' = [cb EXCEPT ![p] = "free"]
        /\ UNCHANGED procVars
     \/ /\ cb[p] = "free"
        /\ FreeInstance(p)
  /\ UNCHANGED <<svc, SvcEvent, registry, main, srv, lock, pipeVars>>

-----------------------------------------------------------------------------
(***************************************************************************)
(* The thread that starts the service                                      *)
(***************************************************************************)

\* SvcOnStart fails to create the events, the pipe or the thread.
StartFails ==
  /\ svc = "off"
  /\ svc' = "stopped"
  /\ UNCHANGED <<SvcEvent, listVars, procVars, registry, main, srv, cb, lock, pipeVars>>

\* SvcOnStart, which also starts the thread that serves the pipe.
StartService ==
  /\ svc = "off"
  /\ svc' = "start_pending"
  /\ SvcEvent' = FALSE /\ SvcInstanceEvent' = TRUE
  /\ main' = [MainIdle EXCEPT !.at = "enum", !.J = 1]
  /\ srv' = [SrvIdle EXCEPT !.at = "connect"]
  /\ pipe' = "listening"
  /\ UNCHANGED <<SvcInstanceList, inst, procVars, registry, cb, lock, peer, msg, client>>

\* SvcEntry reports that the service is running when SvcOnStart has returned.
SvcEntry == svc' = "running"

\* SvcInstanceStartAllPersistent asks for the value with index J.  One that was
\* stored without arguments is passed over; the first that RegEnumValueW cannot
\* return (ERROR_MORE_DATA) ends the enumeration, as if there were no more.  It
\* is the last call of SvcOnStart.
Readable(e) == e.name \notin Unreadable
EnumValue ==
  /\ main.at = "enum"
  /\ IF main.J <= Len(registry) /\ Readable(registry[main.J])
     THEN LET e == registry[main.J]
              m == [main EXCEPT !.seen = @ \cup {e.name}]
          IN  /\ main' = IF e.name \in NoArgs THEN [m EXCEPT !.J = @ + 1]
                         ELSE [m EXCEPT !.at = "create", !.entry = e]
              /\ UNCHANGED svc
     ELSE /\ main' = [MainIdle EXCEPT !.at = "done"]
          /\ SvcEntry
  /\ UNCHANGED <<SvcEvent, listVars, procVars, registry, srv, cb, lock, pipeVars>>

\* Faulty variant: an error ends the enumeration, as if there were no more.
AfterError_Break == [main EXCEPT !.at = "enum", !.J = Cardinality(Name) + 1, !.entry = NULL]
AfterError == [main EXCEPT !.at = "enum", !.J = @ + 1, !.entry = NULL]
NextValue == [main EXCEPT !.at = "enum", !.J = @ + 1, !.entry = NULL, !.obj = NULL]

\* SvcInstanceCreate, with the security descriptor that was stored.  Then
\* SvcInstanceRelease.
MainStep ==
  /\ \/ /\ main.at = "create"
        /\ \E p \in Pid : /\ Create(p, main.entry)
                          /\ main' = [main EXCEPT !.at = "release", !.obj = p]
     \/ main.at = "create" /\ CreateFails /\ main' = AfterError
     \/ /\ main.at = "release"
        /\ CountDown(main.obj)
        /\ main' = IF IsLast(main.obj) THEN [main EXCEPT !.at = "remove"] ELSE NextValue
        /\ UNCHANGED <<SvcInstanceList, SvcInstanceEvent, procVars, cb>>
     \/ /\ main.at = "remove"
        /\ RemoveEntry(main.obj)
        /\ main' = [main EXCEPT !.at = "free"]
        /\ UNCHANGED <<procVars, cb>>
     \/ /\ main.at = "free"
        /\ FreeInstance(main.obj)
        /\ main' = NextValue
  /\ UNCHANGED <<svc, SvcEvent, registry, srv, lock, pipeVars>>

-----------------------------------------------------------------------------
(***************************************************************************)
(* The thread that serves the pipe                                         *)
(***************************************************************************)

\* DisconnectNamedPipe: a client that waits for the answer gets an error.
Disconnect ==
  /\ pipe' = "disconnected"
  /\ peer' = NULL
  /\ msg' = NULL
  /\ client' = IF peer = NULL \/ pipe # "connected" THEN client
               ELSE [client EXCEPT ![peer] = "idle"]
Serve == srv' = [SrvIdle EXCEPT !.at = "connect"]

\* SvcPipeWaitResult finds SvcEvent set: the thread leaves its loop.
SrvStop ==
  /\ srv.at \in {"connect", "read", "write"}
  /\ SvcEvent
  /\ srv' = [SrvIdle EXCEPT !.at = "stopAll"]
  /\ UNCHANGED <<svc, SvcEvent, listVars, procVars, registry, main, cb, lock, pipeVars>>

\* ConnectNamedPipe.  A client that has left already is found out by ReadFile.
\* Faulty variant: such a client makes the thread connect again.
Connected_NoData == pipe = "connected"
Connected == pipe \in {"connected", "closing"}
SrvConnect ==
  /\ srv.at = "connect" /\ ~SvcEvent
  /\ \/ pipe = "disconnected" /\ pipe' = "listening" /\ UNCHANGED srv
     \/ Connected /\ srv' = [srv EXCEPT !.at = "read"] /\ UNCHANGED pipe
  /\ UNCHANGED <<svc, SvcEvent, listVars, procVars, registry, main, cb, lock, peer, msg, client>>

\* ReadFile and ImpersonateNamedPipeClient: a client that has left or cannot be
\* impersonated is disconnected; if the thread cannot revert, it ends its loop.
SrvRead ==
  /\ srv.at = "read" /\ ~SvcEvent
  /\ \/ /\ msg # NULL
        /\ srv' = [srv EXCEPT !.at = "transact", !.user = msg.user, !.cmd = msg.cmd]
        /\ msg' = NULL
        /\ UNCHANGED <<pipe, peer, client>>
     \/ /\ msg # NULL \/ pipe = "closing"
        /\ Disconnect
        /\ Serve
     \/ /\ msg # NULL
        /\ Disconnect
        /\ srv' = [SrvIdle EXCEPT !.at = "stopAll"]
  /\ UNCHANGED <<svc, SvcEvent, listVars, procVars, registry, main, cb, lock>>

\* SvcPipeTransactResult
Reply == srv' = [SrvIdle EXCEPT !.at = "write"]

\* SvcInstanceStart: the user who starts an instance gets the right to stop it.
UserRights(u) == StopRight \cup {u}
TransactStart ==
  /\ srv.at = "transact" /\ srv.cmd.kind = "start"
  /\ \/ \E p \in Pid :
          /\ Create(p, [name |-> srv.cmd.name, sd |-> UserRights(srv.user)])
          /\ srv' = [SrvIdle EXCEPT !.at = "persist", !.obj = p]
     \/ CreateFails /\ Reply
  /\ UNCHANGED <<svc, SvcEvent, registry, main, lock, pipeVars>>

\* SvcInstanceSetPersistent: RegSetKeyValue replaces a value or adds one.
\* Faulty variant: it always adds one.
IndexOf(n) == {i \in 1 .. Len(registry) : registry[i].name = n}
SetPersistent_Append(e) == registry' = Append(registry, e)
SetPersistent(e) ==
  registry' = IF IndexOf(e.name) = {} THEN Append(registry, e)
              ELSE [i \in 1 .. Len(registry) |-> IF registry[i].name = e.name THEN e ELSE registry[i]]
\* A value added at a place that the enumeration has passed is not looked at, and
\* a deletion at such a place shifts the next value past it.
Passed(i) == i < main.J \/ (i = main.J /\ main.at # "enum")
PassedOver(i) == {registry[k].name : k \in {k \in 2 .. Len(registry) :
                                             Passed(i) /\ Passed(k - 1) /\ ~Passed(k)}}
AddedPast(n) == IF Passed(Len(registry) + 1) THEN {n} ELSE {}
DeletePersistent(n) ==
  \/ IndexOf(n) = {} /\ UNCHANGED <<registry, main>>
  \/ \E i \in IndexOf(n) :
       /\ registry' = RemoveAt(registry, i)
       /\ main' = [main EXCEPT !.seen = (@ \ {n}) \cup PassedOver(i)]

\* The rest of SvcInstanceStart.  It ignores an error of SetPersistent.
SrvRelease ==
  /\ \/ /\ srv.at = "persist"
        /\ \/ /\ SetPersistent([name |-> inst[srv.obj].name, sd |-> inst[srv.obj].sd])
              /\ main' = [main EXCEPT !.seen = @ \cup AddedPast(inst[srv.obj].name)]
           \/ UNCHANGED <<registry, main>>
        /\ srv' = [srv EXCEPT !.at = "release"]
        /\ UNCHANGED <<listVars, procVars, cb>>
     \/ /\ srv.at = "release"
        /\ CountDown(srv.obj)
        /\ IF IsLast(srv.obj) THEN srv' = [srv EXCEPT !.at = "remove"] ELSE Reply
        /\ UNCHANGED <<SvcInstanceList, SvcInstanceEvent, procVars, registry, main, cb>>
     \/ /\ srv.at = "remove"
        /\ RemoveEntry(srv.obj)
        /\ srv' = [srv EXCEPT !.at = "free"]
        /\ UNCHANGED <<procVars, registry, main, cb>>
     \/ /\ srv.at = "free"
        /\ FreeInstance(srv.obj)
        /\ Reply
        /\ UNCHANGED <<registry, main>>
  /\ UNCHANGED <<svc, SvcEvent, lock, pipeVars>>

\* SvcInstanceStop.  The entry is deleted only if SvcInstanceKill succeeded; an
\* error of the deletion is ignored.
AccessCheck(u, p) == u \in inst[p].sd
TransactStop ==
  /\ srv.at = "transact" /\ srv.cmd.kind \in {"stop", "stopForced"}
  /\ \/ \E p \in Lookup(srv.cmd.name) :
          /\ AccessCheck(srv.user, p)
          /\ \/ KillUnused(p) /\ (DeletePersistent(inst[p].name) \/ UNCHANGED <<registry, main>>)
             \/ KillInUse(p, srv.cmd.kind = "stopForced") /\ UNCHANGED <<registry, main>>
     \/ /\ \A p \in Lookup(srv.cmd.name) : ~AccessCheck(srv.user, p)
        /\ UNCHANGED <<inst, procVars, registry, main>>
  /\ Reply
  /\ UNCHANGED <<svc, SvcEvent, SvcInstanceList, SvcInstanceEvent, cb, lock, pipeVars>>

\* SvcInstanceGetInfo, SvcInstanceGetNameList and commands that are malformed.
TransactOther ==
  /\ srv.at = "transact" /\ srv.cmd.kind = "other"
  /\ Reply
  /\ UNCHANGED <<svc, SvcEvent, listVars, procVars, registry, main, cb, lock, pipeVars>>

\* The command that was read decides.
SvcPipeTransact == TransactStart \/ TransactStop \/ TransactOther

\* WriteFile completes the client's TransactNamedPipe; then DisconnectNamedPipe.
SrvWrite ==
  /\ srv.at = "write" /\ ~SvcEvent
  /\ Disconnect
  /\ Serve
  /\ UNCHANGED <<svc, SvcEvent, listVars, procVars, registry, main, cb, lock>>

\* SvcInstanceStopAndWaitAll kills all instances within the lock and waits
\* until the list is empty, but not for ever.
StopAll ==
  /\ \/ /\ srv.at = "stopAll"
        /\ lock' = TRUE
        /\ srv' = [srv EXCEPT !.at = "killing", !.todo = SvcInstanceList]
        /\ UNCHANGED <<inst, procVars>>
     \/ /\ srv.at = "killing"
        /\ \E p \in srv.todo :
             /\ KillUnused(p) \/ KillInUse(p, TRUE)
             /\ srv' = [srv EXCEPT !.todo = @ \ {p}]
        /\ UNCHANGED lock
     \/ /\ srv.at = "killing" /\ srv.todo = {}
        /\ lock' = FALSE
        /\ srv' = [srv EXCEPT !.at = "wait"]
        /\ UNCHANGED <<inst, procVars>>
  /\ UNCHANGED <<svc, SvcEvent, SvcInstanceList, SvcInstanceEvent, registry, main, cb, pipeVars>>

\* Then the service reports that it has stopped.
Stopped ==
  /\ srv.at = "wait"
  /\ \/ SvcInstanceEvent /\ srv' = [srv EXCEPT !.at = "stopped"]
     \/ srv' = [srv EXCEPT !.at = "timedOut"]
  /\ svc' = "stopped"
  /\ UNCHANGED <<SvcEvent, listVars, procVars, registry, main, cb, lock, pipeVars>>

-----------------------------------------------------------------------------
(***************************************************************************)
(* The service                                                             *)
(***************************************************************************)

\* SvcCtrlHandler is called with SERVICE_CONTROL_STOP only while the service
\* accepts it.  Faulty variant: it does so before all instances are started.
AcceptsStop_Pending == svc \in {"start_pending", "running"}
AcceptsStop == svc = "running"
Control ==
  /\ AcceptsStop
  /\ svc' = "stop_pending"
  /\ SvcEvent' = TRUE
  /\ UNCHANGED <<listVars, procVars, registry, main, srv, cb, lock, pipeVars>>

\* The process of the service ends: after it has stopped, or at any time, when
\* the system is restarted.  With it end the processes of its instances that are
\* in its job.  The others live on: those of a class without JobControl and
\* those that could not be assigned to the job.
Alive == {p \in Pid : proc[p] \in {"running", "breaking"}}
End(outlive) ==
  /\ svc' = "off"
  /\ SvcEvent' = FALSE /\ SvcInstanceEvent' = TRUE
  /\ SvcInstanceList' = {}
  /\ inst' = [p \in Pid |-> NULL]
  /\ proc' = [p \in Pid |-> IF p \in outlive THEN "orphan" ELSE "none"]
  /\ handle' = [h \in Handle |-> Free]
  /\ timers' = {} /\ reclosed' = FALSE
  /\ main' = MainIdle /\ srv' = SrvIdle
  /\ cb' = [p \in Pid |-> "none"]
  /\ lock' = FALSE
  /\ pipe' = "none" /\ peer' = NULL /\ msg' = NULL
  /\ client' = [u \in User |-> "idle"]
  /\ UNCHANGED registry
Orphans == {p \in Pid : proc[p] = "orphan"}
ProcessEnd == svc = "stopped" /\ \E outside \in SUBSET Alive : End(Orphans \cup outside)
SystemRestart == svc # "off" /\ End({})

-----------------------------------------------------------------------------
(***************************************************************************)
(* The clients                                                             *)
(***************************************************************************)

\* SpdCallNamedPipeSecurely opens the pipe; if it is busy, it waits and tries
\* once more.
ClientOpen(u) ==
  /\ client[u] \in {"idle", "busy"}
  /\ \/ /\ pipe = "listening"
        /\ pipe' = "connected" /\ peer' = u
        /\ client' = [client EXCEPT ![u] = "open"]
     \/ /\ pipe \notin {"listening", "none"}
        /\ client' = [client EXCEPT ![u] = IF @ = "idle" THEN "busy" ELSE "idle"]
        /\ UNCHANGED <<pipe, peer>>
  /\ UNCHANGED <<svc, SvcEvent, listVars, procVars, registry, main, srv, cb, lock, msg>>

\* TransactNamedPipe, with a command of launchctl.
ClientTransact(u) ==
  /\ client[u] = "open"
  /\ \E c \in Command : msg' = [user |-> u, cmd |-> c]
  /\ client' = [client EXCEPT ![u] = "wait"]
  /\ UNCHANGED <<svc, SvcEvent, listVars, procVars, registry, main, srv, cb, lock, pipe, peer>>

\* The client closes the pipe before it has sent a command, or is killed.
ClientLeave(u) ==
  /\ client[u] \in {"open", "wait"}
  /\ client' = [client EXCEPT ![u] = "idle"]
  /\ pipe' = "closing" /\ peer' = NULL
  /\ UNCHANGED <<svc, SvcEvent, listVars, procVars, registry, main, srv, cb, lock, msg>>

-----------------------------------------------------------------------------

Init ==
  /\ svc = "off"
  /\ SvcEvent = FALSE /\ SvcInstanceEvent = TRUE
  /\ SvcInstanceList = {}
  /\ inst = [p \in Pid |-> NULL]
  /\ proc = [p \in Pid |-> "none"]
  /\ handle = [h \in Handle |-> Free]
  /\ timers = {} /\ reclosed = FALSE
  /\ registry = <<>>
  /\ main = MainIdle /\ srv = SrvIdle
  /\ cb = [p \in Pid |-> "none"]
  /\ lock = FALSE
  /\ pipe = "none" /\ peer = NULL /\ msg = NULL
  /\ client = [u \in User |-> "idle"]

ServerStep ==
  \/ SrvStop \/ SrvConnect \/ SrvRead
  \/ SvcPipeTransact \/ SrvRelease
  \/ SrvWrite \/ StopAll \/ Stopped

StarterStep == EnumValue \/ MainStep

Next ==
  \/ StartFails \/ StartService \/ StarterStep \/ ServerStep
  \/ Control \/ ProcessEnd \/ SystemRestart
  \/ \E p \in Pid : Exit(p) \/ Terminated(p)
  \/ \E p \in Pid, h \in Handle : KillProcessWait(p, h)
  \/ \E u \in User : ClientOpen(u) \/ ClientTransact(u) \/ ClientLeave(u)

Spec == Init /\ [][Next]_vars

\* Every thread of the service runs, timers end, and a process that cannot be
\* timed reacts to control-break.  Other processes, clients and the system are
\* free to do nothing.
FairSpec ==
  /\ Spec
  /\ WF_vars(StarterStep)
  /\ WF_vars(ServerStep)
  /\ WF_vars(ProcessEnd)
  /\ \A p \in Pid : WF_vars(Terminated(p)) /\ WF_vars(Respond(p))
  /\ \A p \in Pid, h \in Handle : WF_vars(KillProcessWait(p, h))

-----------------------------------------------------------------------------
(***************************************************************************)
(* Properties                                                              *)
(***************************************************************************)

\* Every variable has its type; the registry has one value for a name.
TypeOK ==
  /\ svc \in {"off", "start_pending", "running", "stop_pending", "stopped"}
  /\ SvcEvent \in BOOLEAN /\ SvcInstanceEvent \in BOOLEAN /\ lock \in BOOLEAN
  /\ reclosed \in BOOLEAN
  /\ SvcInstanceList \in SUBSET Pid
  /\ inst \in [Pid -> Instance \cup {NULL}]
  /\ proc \in [Pid -> {"none", "running", "breaking", "exited", "orphan"}]
  /\ handle \in [Handle -> {Free} \cup ({"vol", "dup"} \X Pid)]
  /\ timers \in SUBSET (Pid \X Handle)
  /\ registry \in Seq(Entry) /\ \A n \in Name : Cardinality(IndexOf(n)) <= 1
  /\ main \in [at : {"off", "enum", "create", "release", "remove", "free", "done"},
               J : 0 .. Cardinality(Name) + 1, entry : Entry \cup {NULL},
               obj : Pid \cup {NULL}, seen : SUBSET Name]
  /\ srv \in [at : {"off", "connect", "read", "transact", "persist", "release", "remove",
                    "free", "write", "stopAll", "killing", "wait", "stopped", "timedOut"},
              user : User \cup {NULL}, cmd : Command \cup {NULL},
              obj : Pid \cup {NULL}, todo : SUBSET Pid]
  /\ cb \in [Pid -> {"none", "armed", "remove", "free", "done"}]
  /\ pipe \in {"none", "listening", "connected", "closing", "disconnected"}
  /\ peer \in User \cup {NULL}
  /\ msg \in [user : User, cmd : Command] \cup {NULL}
  /\ client \in [User -> {"idle", "busy", "open", "wait"}]

\* The threads that hold a reference to p, and those that are to free it.
Holders(p) ==
  {t \in {"main", "srv", "cb"} :
     \/ t = "main" /\ main.obj = p /\ main.at = "release"
     \/ t = "srv" /\ srv.obj = p /\ srv.at \in {"persist", "release"}
     \/ t = "cb" /\ cb[p] = "armed"}
Releasers(p) ==
  {t \in {"main", "srv", "cb"} :
     \/ t = "main" /\ main.obj = p /\ main.at \in {"remove", "free"}
     \/ t = "srv" /\ srv.obj = p /\ srv.at \in {"remove", "free"}
     \/ t = "cb" /\ cb[p] \in {"remove", "free"}}

\* The creator of an instance and the callback of its process release it in any
\* order and outside of the lock: it is freed by exactly one of them, never
\* while one of them or the list still refers to it, and never not at all.
FreedOnce ==
  \A p \in Pid :
    IF inst[p] = NULL
    THEN Holders(p) \cup Releasers(p) = {} /\ p \notin SvcInstanceList
    ELSE /\ inst[p].RefCount = Cardinality(Holders(p))
         /\ Cardinality(Releasers(p)) = (IF Holders(p) = {} THEN 1 ELSE 0)

\* As long as the service lives, it loses sight of no process that it has
\* started: whatever runs can be found by its name, so that it can be stopped.
\* Processes that an earlier service left behind, outside of its job, cannot.
NoStrayProcess ==
  \A p \in Pid :
    proc[p] \in {"running", "breaking"} => p \in SvcInstanceList /\ Lookup(inst[p].name) = {p}

\* "if ... the child process does not exit timely we will terminate it": the
\* handle that the timer of KillProcess terminates is that of the process.
KillHandleValid == \A t \in timers : handle[t[2]] = <<"dup", t[1]>>

\* The handles that keep the volumes of a process locked stay open until the
\* instance is freed, and none is left open then, and the handle that the timer
\* of KillProcess terminates is that of its process, as long as SvcInstanceKill
\* has not closed a handle that had just been opened under the value of one that
\* was closed before (KillInUse): from then on a timer closes a handle that may
\* be any other by that time.
VolumeHandlesKept ==
  \A h \in Handle, p \in Pid :
    handle[h] = <<"vol", p>> <=> inst[p] # NULL /\ h \in inst[p].VolumeHandles
VolumesStayLocked == ~reclosed => VolumeHandlesKept /\ KillHandleValid

\* When a service that was told to stop reports that it has stopped, and has
\* not waited in vain, no instance is left: SvcInstanceEvent, which it waits
\* for, is set exactly when the list is empty, although instances come and go
\* meanwhile, and none is started behind its back.
StopLeavesNone ==
  /\ SvcInstanceEvent <=> SvcInstanceList = {}
  /\ svc = "stopped" /\ SvcEvent /\ srv.at = "stopped" => SvcInstanceList = {}

\* "This would ensure that the Launcher restarts any existing rawdisk mounts upon
\* system restart": when the service has started, it has looked at every entry
\* of the registry in front of the first that does not fit its buffers, whatever
\* clients start and stop meanwhile and whether or not the starts succeed.  It
\* passes over no entry but those of instances that clients have just started,
\* and those that were moved by a deletion in front to a place already passed.
RestartsAll ==
  [][main.at = "enum" /\ main'.at = "done" =>
       \A i \in 1 .. Len(registry) :
         (\A k \in 1 .. i : Readable(registry[k])) => registry[i].name \in main.seen]_vars

\* A process that was told to end does, and its instance goes away, so that the
\* name is free again, unless a handle was closed in error: then the timer may
\* find another handle than that of its process.
KilledGoes == \A p \in Pid : proc[p] = "breaking" ~> inst[p] = NULL \/ reclosed

\* A client that has sent a command, or has left without, does not keep the pipe
\* for ever, whatever its command was and whether or not it is still there.
ClientServed ==
  pipe = "closing" \/ (\E u \in User : client[u] = "wait") ~> pipe \notin {"connected", "closing"}
=============================================================================
