---------------------------- MODULE StorageUnit -----------------------------
(***************************************************************************)
(* The table of storage units of the adapter and the lifetime of a unit:   *)
(* src/sys/stgunit.c, and the handlers that provision, look up, use and    *)
(* unprovision units: the service ioctls (src/sys/ioctl.c), the SRB        *)
(* functions (src/sys/io.c), bus resets (src/sys/adapter.c), the process   *)
(* notify routine and the PnP dispatch routine (src/sys/dispatch.c).       *)
(*                                                                         *)
(* A kernel thread runs one call at a time.  What a call does under        *)
(* DeviceExtension->SpinLock is one step; so is each access to a unit      *)
(* between two such sections, because other threads run in between.        *)
(* The queue of a unit (module Ioq) is reduced to whether it is stopped    *)
(* and whether it holds an SRB.                                            *)
(***************************************************************************)
EXTENDS Integers, FiniteSets, FiniteSetsExt

CONSTANTS
  Unit,       \* addresses the pool may return for an SPD_STORAGE_UNIT
  Guid,       \* StorageUnitParams.Guid
  Process,    \* process identifiers
  Thread,     \* kernel threads
  Device,     \* disk device objects, each started at most once
  Capacity,   \* StorageUnitCapacity
  NULL

ASSUME StorageUnitAssumption ==
  /\ Capacity \in Nat \ {0}
  /\ IsFiniteSet(Thread)
  /\ NULL \notin Unit \cup Guid \cup Process \cup Device

Slot == 0 .. (Capacity - 1)

VARIABLES
  \* SPD_DEVICE_EXTENSION
  StorageUnits, StorageUnitCount,
  \* the allocated units, and the fields of the unit at each address
  heap, RefCount, UnitGuid, OwnerProcessId, TransactProcessId, DeviceObject,
  IoqStopped, IoqPending,
  \* the calls in progress
  call,
  \* running processes, and the slot a disk device was started for
  alive, deviceSlot,
  \* whether a call ever passed the unlocked test of SpdStorageUnitUnprovision
  \* for a unit that it had not taken out of the table (not in the code)
  raced

tableVars == <<StorageUnits, StorageUnitCount>>
paramVars == <<UnitGuid, OwnerProcessId>>
fieldVars == <<paramVars, TransactProcessId, DeviceObject>>
ioqVars   == <<IoqStopped, IoqPending>>
envVars   == <<alive, deviceSlot>>
vars      == <<tableVars, heap, RefCount, fieldVars, ioqVars, call, envVars, raced>>

\* A call: the operation, where it is, the process it acts for, its Guid,
\* device and unit pointer, the slots it still has to visit, and whether it
\* took its unit out of the table.
Call == [op : {"none", "provision", "unprovision", "removeDevice", "transact",
               "setTransactPid", "setDevice", "executeScsi", "reset", "stop"},
         at : {"idle", "insert", "discard", "lookup", "use", "wait", "remove",
               "test", "stop", "dereference", "free", "pnp"},
         pid : Process \cup {NULL}, guid : Guid \cup {NULL},
         dev : Device \cup {NULL}, unit : Unit \cup {NULL},
         todo : SUBSET Slot, removed : BOOLEAN]

Idle == [op |-> "none", at |-> "idle", pid |-> NULL, guid |-> NULL,
         dev |-> NULL, unit |-> NULL, todo |-> {}, removed |-> FALSE]

Occupied == {i \in Slot : StorageUnits[i] # NULL}
InTable(u) == \E i \in Slot : StorageUnits[i] = u

Continue(t, c) == call' = [call EXCEPT ![t] = c]
Goto(t, l) == Continue(t, [call[t] EXCEPT !.at = l])

\* A call begins on a thread that has nothing else to do.
Begin(t, c) == call[t] = Idle /\ Continue(t, c)

\* The loops over slots go on with the next slot, or the call returns.
NextSlot(c) ==
  IF c.todo = {} THEN Idle
  ELSE [c EXCEPT !.at = IF c.op = "unprovision" THEN "remove" ELSE "lookup",
                 !.unit = NULL, !.removed = FALSE]

-----------------------------------------------------------------------------
(***************************************************************************)
(* SpdStorageUnitProvision                                                 *)
(***************************************************************************)

\* Allocate and fill in a unit that nobody else can see yet.
Provision(t, p, g) ==
  \E u \in Unit \ heap :
    /\ p \in alive
    /\ Begin(t, [Idle EXCEPT !.op = "provision", !.at = "insert",
                             !.pid = p, !.unit = u])
    /\ heap' = heap \cup {u}
    /\ RefCount' = [RefCount EXCEPT ![u] = 1]
    /\ UnitGuid' = [UnitGuid EXCEPT ![u] = g]
    /\ OwnerProcessId' = [OwnerProcessId EXCEPT ![u] = p]
    /\ TransactProcessId' = [TransactProcessId EXCEPT ![u] = p]
    /\ DeviceObject' = [DeviceObject EXCEPT ![u] = NULL]
    /\ IoqStopped' = [IoqStopped EXCEPT ![u] = FALSE]
    /\ IoqPending' = [IoqPending EXCEPT ![u] = FALSE]
    /\ UNCHANGED <<tableVars, envVars, raced>>

\* The scan of the table stops at a unit with the same Guid.  Faulty variant:
\* it stops at the first free slot.
Duplicate_BeforeFree(u) ==
  \E i \in Occupied : UnitGuid[StorageUnits[i]] = UnitGuid[u] /\ 0 .. i \subseteq Occupied
Duplicate(u) == \E i \in Occupied : UnitGuid[StorageUnits[i]] = UnitGuid[u]
FreeSlots == Slot \ Occupied

Insert(t) ==
  LET u == call[t].unit
  IN  /\ call[t].at = "insert"
      /\ IF ~Duplicate(u) /\ FreeSlots # {}
         THEN /\ StorageUnits' = [StorageUnits EXCEPT ![Min(FreeSlots)] = u]
              /\ StorageUnitCount' = StorageUnitCount + 1
              /\ Continue(t, Idle)
         ELSE Goto(t, "discard") /\ UNCHANGED tableVars
      /\ UNCHANGED <<heap, RefCount, fieldVars, ioqVars, envVars, raced>>

\* SpdIoqDelete, which aborts what is queued unless the queue is stopped, and
\* SpdFree.
FreeUnit(u) ==
  /\ heap' = heap \ {u}
  /\ RefCount' = [RefCount EXCEPT ![u] = 0]
  /\ UnitGuid' = [UnitGuid EXCEPT ![u] = NULL]
  /\ OwnerProcessId' = [OwnerProcessId EXCEPT ![u] = NULL]
  /\ TransactProcessId' = [TransactProcessId EXCEPT ![u] = NULL]
  /\ DeviceObject' = [DeviceObject EXCEPT ![u] = NULL]
  /\ IoqStopped' = [IoqStopped EXCEPT ![u] = FALSE]
  /\ IoqPending' = [IoqPending EXCEPT ![u] = @ /\ IoqStopped[u]]

\* STATUS_OBJECT_NAME_COLLISION or STATUS_CANNOT_MAKE: free the unit again.
Discard(t) ==
  /\ call[t].at = "discard"
  /\ FreeUnit(call[t].unit)
  /\ Continue(t, Idle)
  /\ UNCHANGED <<tableVars, envVars, raced>>

-----------------------------------------------------------------------------
(***************************************************************************)
(* SpdStorageUnitUnprovision and its callers                               *)
(***************************************************************************)

\* SpdIoctlUnprovision
IoctlUnprovision(t, p, g) ==
  /\ p \in alive
  /\ Begin(t, [Idle EXCEPT !.op = "unprovision", !.at = "remove",
                           !.pid = p, !.guid = g])
  /\ UNCHANGED <<tableVars, heap, RefCount, fieldVars, ioqVars, envVars, raced>>

\* SpdStorageUnitGetUseBitmap for a process: the scan ends when it has found
\* StorageUnitCount units.  Faulty variant: it ends one unit early.
UseBitmap_Short(p) ==
  LET match == {i \in Occupied : OwnerProcessId[StorageUnits[i]] = p}
  IN  {i \in match : Cardinality({j \in match : j < i}) + 1 < StorageUnitCount}
UseBitmap(p) ==
  LET match == {i \in Occupied : OwnerProcessId[StorageUnits[i]] = p}
  IN  {i \in match : Cardinality({j \in match : j < i}) < StorageUnitCount}

\* The call is made by a thread of the process, or is its notify routine; the
\* removal of a device runs in a system thread.
InCall(x, p) == call[x].pid = p /\ call[x].dev = NULL

\* The last thread of a process ends; in its context the system calls
\* SpdDeviceExtensionNotifyRoutine, which unprovisions the units of the
\* process one slot after the other.
ProcessExit(t, p) ==
  /\ p \in alive
  /\ \A x \in Thread : ~InCall(x, p)
  /\ alive' = alive \ {p}
  /\ Begin(t, NextSlot([Idle EXCEPT !.op = "unprovision", !.pid = p,
                                    !.todo = UseBitmap(p)]))
  /\ UNCHANGED <<tableVars, heap, RefCount, fieldVars, ioqVars, deviceSlot, raced>>

\* The identifier of a process is reused once its exit has been handled.
ProcessStart(p) ==
  /\ p \notin alive
  /\ \A t \in Thread : ~InCall(t, p)
  /\ alive' = alive \cup {p}
  /\ UNCHANGED <<tableVars, heap, RefCount, fieldVars, ioqVars, call, deviceSlot, raced>>

\* The slot that a call names by Guid or, in the notify routine, by index.
Target(c) ==
  IF c.guid # NULL
  THEN {i \in Occupied : UnitGuid[StorageUnits[i]] = c.guid}
  ELSE {Min(c.todo)} \cap Occupied

\* StorageUnitCount--.  Faulty variant: it is forgotten.
CountDown_Missing == StorageUnitCount
CountDown == StorageUnitCount - 1

\* ProcessId == StorageUnit->OwnerProcessId under the lock.
IsOwner(c, u) == c.pid = OwnerProcessId[u]

\* Under the lock: look the unit up and take it out of the table, if the
\* process owns it.
Remove(t) ==
  LET c == [call[t] EXCEPT !.todo = IF @ = {} THEN {} ELSE @ \ {Min(@)}]
      found == Target(call[t])
  IN  /\ call[t].at = "remove"
      /\ IF found = {}
         THEN Continue(t, NextSlot(c)) /\ UNCHANGED tableVars
         ELSE LET i == Min(found)
                  u == StorageUnits[i]
              IN  /\ Continue(t, [c EXCEPT !.at = "test", !.unit = u,
                                           !.removed = IsOwner(c, u)])
                  /\ IF IsOwner(c, u)
                     THEN /\ StorageUnits' = [StorageUnits EXCEPT ![i] = NULL]
                          /\ StorageUnitCount' = CountDown
                     ELSE UNCHANGED tableVars
      /\ UNCHANGED <<heap, RefCount, fieldVars, ioqVars, envVars, raced>>

\* What a read of OwnerProcessId returns: freed memory may hold anything, or
\* be another unit by now.
OwnerRead(u) == IF u \in heap THEN {OwnerProcessId[u]} ELSE Process \cup {NULL}

\* After the lock is released: read OwnerProcessId again.  A call that did not
\* take the unit out of the table holds no reference to it, and goes on all
\* the same if the value is its process by now.
TestOwner(t) ==
  LET c == call[t]
  IN  /\ c.at = "test"
      /\ \E owner \in OwnerRead(c.unit) :
           IF owner = c.pid
           THEN Goto(t, "stop") /\ raced' = (raced \/ ~c.removed)
           ELSE Continue(t, NextSlot(c)) /\ UNCHANGED raced
      /\ UNCHANGED <<tableVars, heap, RefCount, fieldVars, ioqVars, envVars>>

\* SpdIoqReset of the unit's queue, with its faulty variants: waiters are not
\* released; queued SRB's are not aborted.
StopQueue_KeepRunning(u) == IoqStopped
StopQueue(u) == [IoqStopped EXCEPT ![u] = TRUE]
AbortSrbs_Keep(u) == IoqPending
AbortSrbs(u) == [IoqPending EXCEPT ![u] = FALSE]

StopIoq(t) ==
  /\ call[t].at = "stop"
  /\ IoqStopped' = StopQueue(call[t].unit)
  /\ IoqPending' = AbortSrbs(call[t].unit)
  /\ Goto(t, "dereference")
  /\ UNCHANGED <<tableVars, heap, RefCount, fieldVars, envVars, raced>>

-----------------------------------------------------------------------------
(***************************************************************************)
(* References                                                              *)
(***************************************************************************)

\* A handler that looks a unit up by its slot: transact and set transact pid
\* on behalf of a process; SCSI commands, resets and the completion of service
\* IRP's on behalf of Storport.  A bus reset and SpdHwCompleteServiceIrp visit
\* all slots.
ServiceRequest(t, op, p, i) ==
  /\ op \in {"transact", "setTransactPid"}
  /\ p \in alive
  /\ Begin(t, [Idle EXCEPT !.op = op, !.at = "lookup", !.pid = p, !.todo = {i}])
  /\ UNCHANGED <<tableVars, heap, RefCount, fieldVars, ioqVars, envVars, raced>>

StorportRequest(t, op, slots) ==
  /\ \/ op \in {"executeScsi", "reset"} /\ Cardinality(slots) = 1
     \/ op \in {"reset", "stop"} /\ slots = Slot
  /\ Begin(t, [Idle EXCEPT !.op = op, !.at = "lookup", !.todo = slots])
  /\ UNCHANGED <<tableVars, heap, RefCount, fieldVars, ioqVars, envVars, raced>>

\* IRP_MN_START_DEVICE of a disk: SpdStorageUnitGlobalSetDevice.
StartDevice(t, d, i) ==
  /\ deviceSlot[d] = NULL
  /\ deviceSlot' = [deviceSlot EXCEPT ![d] = i]
  /\ Begin(t, [Idle EXCEPT !.op = "setDevice", !.at = "lookup", !.dev = d,
                           !.todo = {i}])
  /\ UNCHANGED <<tableVars, heap, RefCount, fieldVars, ioqVars, alive, raced>>

\* StorageUnit->RefCount++.  Faulty variant: it is forgotten.
RefCountUp_Missing(u) == RefCount
RefCountUp(u) == [RefCount EXCEPT ![u] = @ + 1]

\* SpdStorageUnitReferenceByBtl
ReferenceByBtl(t) ==
  LET i == Min(call[t].todo)
      c == [call[t] EXCEPT !.todo = @ \ {i}]
      u == StorageUnits[i]
  IN  /\ call[t].at = "lookup"
      /\ IF u = NULL
         THEN Continue(t, NextSlot(c)) /\ UNCHANGED RefCount
         ELSE /\ Continue(t, [c EXCEPT !.at = "use", !.unit = u])
              /\ RefCount' = RefCountUp(u)
      /\ UNCHANGED <<tableVars, heap, fieldVars, ioqVars, envVars, raced>>

\* What each handler does with the unit it holds.
SetTransactPid(t) ==
  LET c == call[t]
  IN  /\ c.at = "use" /\ c.op = "setTransactPid"
      /\ \E p \in Process :
           TransactProcessId' = [TransactProcessId EXCEPT ![c.unit] = p]
      /\ Goto(t, "dereference")
      /\ UNCHANGED <<tableVars, heap, RefCount, paramVars, DeviceObject, ioqVars,
                     envVars, raced>>

SetDevice(t) ==
  LET c == call[t]
  IN  /\ c.at = "use" /\ c.op = "setDevice"
      /\ DeviceObject' = [DeviceObject EXCEPT ![c.unit] =
                            IF @ = NULL THEN c.dev ELSE @]
      /\ Goto(t, "dereference")
      /\ UNCHANGED <<tableVars, heap, RefCount, paramVars, TransactProcessId,
                     ioqVars, envVars, raced>>

\* SpdSrbExecuteScsi posts an SRB; one that needs no queue leaves it alone.
ExecuteScsi(t) ==
  LET c == call[t]
  IN  /\ c.at = "use" /\ c.op = "executeScsi"
      /\ \E post \in BOOLEAN :
           IoqPending' = [IoqPending EXCEPT ![c.unit] =
                            @ \/ (post /\ ~IoqStopped[c.unit])]
      /\ Goto(t, "dereference")
      /\ UNCHANGED <<tableVars, heap, RefCount, fieldVars, IoqStopped, envVars, raced>>

\* SpdIoqReset(FALSE), or SpdIoqReset(TRUE) in SpdHwCompleteServiceIrp.
ResetUnit(t) ==
  LET c == call[t]
  IN  /\ c.at = "use" /\ c.op \in {"reset", "stop"}
      /\ IoqPending' = [IoqPending EXCEPT ![c.unit] = FALSE]
      /\ IoqStopped' = [IoqStopped EXCEPT ![c.unit] = @ \/ c.op = "stop"]
      /\ Goto(t, "dereference")
      /\ UNCHANGED <<tableVars, heap, RefCount, fieldVars, envVars, raced>>

\* SpdIoctlTransact: the process must be the one set to transact.  It may
\* bring a response, and then waits for an SRB.
Transact(t) ==
  LET c == call[t]
  IN  /\ c.at = "use" /\ c.op = "transact"
      /\ IF TransactProcessId[c.unit] # c.pid
         THEN Goto(t, "dereference") /\ UNCHANGED IoqPending
         ELSE /\ Goto(t, "wait")
              /\ \E rsp \in BOOLEAN :
                   IoqPending' = [IoqPending EXCEPT ![c.unit] = @ /\ ~rsp]
      /\ UNCHANGED <<tableVars, heap, RefCount, fieldVars, IoqStopped, envVars, raced>>

TransactReturn(t) ==
  /\ call[t].at = "wait"
  /\ IoqStopped[call[t].unit] \/ IoqPending[call[t].unit]
  /\ Goto(t, "dereference")
  /\ UNCHANGED <<tableVars, heap, RefCount, fieldVars, ioqVars, envVars, raced>>

\* The wait is cancelled, or no request was asked for.
TransactCancelled(t) ==
  /\ call[t].at = "wait"
  /\ Goto(t, "dereference")
  /\ UNCHANGED <<tableVars, heap, RefCount, fieldVars, ioqVars, envVars, raced>>

\* SpdStorageUnitDereference; the unit is freed after the lock is released.
\* Faulty variant: the caller that brings the count to one frees the unit.
LastReference_One(u) == RefCount[u] <= 2
LastReference(u) == RefCount[u] - 1 = 0

Return(c) ==
  IF c.op = "removeDevice" THEN [c EXCEPT !.at = "pnp", !.unit = NULL]
  ELSE NextSlot(c)

Dereference(t) ==
  LET u == call[t].unit
  IN  /\ call[t].at = "dereference"
      /\ RefCount' = [RefCount EXCEPT ![u] = @ - 1]
      /\ IF LastReference(u) THEN Goto(t, "free")
         ELSE Continue(t, Return(call[t]))
      /\ UNCHANGED <<tableVars, heap, fieldVars, ioqVars, envVars, raced>>

Free(t) ==
  /\ call[t].at = "free"
  /\ FreeUnit(call[t].unit)
  /\ Continue(t, Return(call[t]))
  /\ UNCHANGED <<tableVars, envVars, raced>>

-----------------------------------------------------------------------------
(***************************************************************************)
(* IRP_MN_REMOVE_DEVICE of a disk                                          *)
(***************************************************************************)

\* SpdStorageUnitReferenceByDevice, and the copy of Guid and OwnerProcessId.
RemoveDevice(t, d) ==
  LET found == {i \in Occupied : DeviceObject[StorageUnits[i]] = d}
      u == StorageUnits[Min(found)]
  IN  /\ deviceSlot[d] # NULL
      /\ \A x \in Thread : call[x].dev # d
      /\ found # {}
      /\ Begin(t, [Idle EXCEPT !.op = "removeDevice", !.at = "dereference",
                               !.dev = d, !.unit = u, !.guid = UnitGuid[u],
                               !.pid = OwnerProcessId[u]])
      /\ RefCount' = RefCountUp(u)
      /\ UNCHANGED <<tableVars, heap, fieldVars, ioqVars, envVars, raced>>

\* StorPortDispatchPnp has returned: unprovision by the Guid and the process
\* that were copied.
RemoveDevicePnp(t) ==
  /\ call[t].at = "pnp"
  /\ Continue(t, [call[t] EXCEPT !.op = "unprovision", !.at = "remove"])
  /\ UNCHANGED <<tableVars, heap, RefCount, fieldVars, ioqVars, envVars, raced>>

-----------------------------------------------------------------------------

\* SpdDeviceExtensionInit
Init ==
  /\ StorageUnits = [i \in Slot |-> NULL]
  /\ StorageUnitCount = 0
  /\ heap = {}
  /\ RefCount = [u \in Unit |-> 0]
  /\ UnitGuid = [u \in Unit |-> NULL]
  /\ OwnerProcessId = [u \in Unit |-> NULL]
  /\ TransactProcessId = [u \in Unit |-> NULL]
  /\ DeviceObject = [u \in Unit |-> NULL]
  /\ IoqStopped = [u \in Unit |-> FALSE]
  /\ IoqPending = [u \in Unit |-> FALSE]
  /\ call = [t \in Thread |-> Idle]
  /\ alive = Process
  /\ deviceSlot = [d \in Device |-> NULL]
  /\ raced = FALSE

BeginCall(t) ==
  \/ \E p \in Process : \/ \E g \in Guid : Provision(t, p, g) \/ IoctlUnprovision(t, p, g)
                        \/ ProcessExit(t, p)
                        \/ \E i \in Slot, op \in {"transact", "setTransactPid"} :
                             ServiceRequest(t, op, p, i)
  \/ \E op \in {"executeScsi", "reset", "stop"}, slots \in SUBSET Slot :
       StorportRequest(t, op, slots)
  \/ \E d \in Device : RemoveDevice(t, d) \/ \E i \in Slot : StartDevice(t, d, i)

\* What a thread inside the driver does next, whatever the others do.
Step(t) ==
  \/ Insert(t) \/ Discard(t)
  \/ Remove(t) \/ TestOwner(t) \/ StopIoq(t)
  \/ ReferenceByBtl(t) \/ Dereference(t) \/ Free(t)
  \/ SetTransactPid(t) \/ SetDevice(t) \/ ExecuteScsi(t) \/ ResetUnit(t)
  \/ Transact(t) \/ TransactReturn(t)
  \/ RemoveDevicePnp(t)

\* No slot and no call refers to freed memory, but for calls about to do the
\* unlocked test.
Intact ==
  /\ \A i \in Occupied : StorageUnits[i] \in heap
  /\ \A t \in Thread : call[t].unit # NULL /\ call[t].at # "test" => call[t].unit \in heap

\* The program is followed until it refers to freed memory: what it does from
\* there on is undefined.
Undefined == ~Intact /\ UNCHANGED vars

Next ==
  \/ Intact /\ \E t \in Thread : BeginCall(t) \/ Step(t) \/ TransactCancelled(t)
  \/ Intact /\ \E p \in Process : ProcessStart(p)
  \/ Undefined

Spec == Init /\ [][Next]_vars

\* The scheduler runs a thread inside the driver until it waits or returns.
FairSpec == Spec /\ \A t \in Thread : WF_vars(Intact /\ Step(t))

-----------------------------------------------------------------------------
(***************************************************************************)
(* Properties                                                              *)
(***************************************************************************)

\* Every variable has its type; the counter of units, by which
\* SpdStorageUnitGetUseBitmap ends its scan, counts the occupied slots.
TypeOK ==
  /\ StorageUnits \in [Slot -> Unit \cup {NULL}]
  /\ StorageUnitCount = Cardinality(Occupied)
  /\ heap \in SUBSET Unit
  /\ RefCount \in [Unit -> Int]
  /\ UnitGuid \in [Unit -> Guid \cup {NULL}]
  /\ OwnerProcessId \in [Unit -> Process \cup {NULL}]
  /\ TransactProcessId \in [Unit -> Process \cup {NULL}]
  /\ DeviceObject \in [Unit -> Device \cup {NULL}]
  /\ IoqStopped \in [Unit -> BOOLEAN]
  /\ IoqPending \in [Unit -> BOOLEAN]
  /\ call \in [Thread -> Call]
  /\ alive \in SUBSET Process
  /\ deviceSlot \in [Device -> Slot \cup {NULL}]
  /\ raced \in BOOLEAN

\* The calls that hold a counted reference to u.
Holders(u) ==
  {t \in Thread :
     /\ call[t].unit = u
     /\ \/ call[t].at \in {"insert", "discard", "use", "wait", "stop", "dereference"}
        \/ call[t].at = "test" /\ call[t].removed}

\* The number of references to a unit: its slot in the table and the calls
\* that looked it up.
CountsReferences ==
  \A u \in heap :
    RefCount[u] = Cardinality({i \in Slot : StorageUnits[i] = u})
                    + Cardinality(Holders(u))

\* No slot refers to a unit that has been freed, and no call does that has
\* looked it up; the thread that frees a unit is the only one left that knows
\* it, but for calls of other processes that are about to be denied.
ReferencesAllocated ==
  /\ \A i \in Occupied : StorageUnits[i] \in heap
  /\ \A u \in Unit : Holders(u) # {} => u \in heap
  /\ \A t \in Thread : call[t].at = "free" =>
       /\ call[t].unit \in heap
       /\ ~InTable(call[t].unit)
       /\ \A x \in Thread \ {t} :
            call[x].unit = call[t].unit => call[x].at = "test" /\ ~call[x].removed

\* Two provisioned units never have the same Guid, so that the Guid, from
\* which the serial number is made, names a disk.
GuidsDiffer ==
  \A i, j \in Occupied :
    UnitGuid[StorageUnits[i]] = UnitGuid[StorageUnits[j]] => i = j

\* An SRB is queued only at an allocated unit.
QueuesAllocated == \A u \in Unit : IoqPending[u] => u \in heap

\* The properties below say what the code keeps as long as no call has passed
\* the unlocked test of SpdStorageUnitUnprovision (stgunit.c:304) for a unit
\* that it had not taken out of the table.  DeniedFreesNothing shows that a
\* call can.

\* A unit's RefCount is the number of references to it: its slot in the table
\* and the calls that looked it up, until the unlocked test is passed wrongly.
RefCountExact == ~raced => CountsReferences

\* Until the unlocked test is passed wrongly, freed memory is accessed by that
\* test alone, in a call that is to be denied: no slot refers to a unit that
\* has been freed, no call that looked a unit up finds it freed, and a unit is
\* freed once.
NoDangling == ~raced => ReferencesAllocated

\* Until the unlocked test is passed wrongly, two provisioned units never have
\* the same Guid, whichever calls provision and unprovision units at once.
TableConsistent == ~raced => GuidsDiffer

\* No SRB that was accepted disappears with its unit: whatever the order of
\* posting, stopping and deleting the queue, an SRB is aborted before the
\* queue is freed, until the unlocked test is passed wrongly.
NoSrbLost == ~raced => QueuesAllocated

\* A slot whose owner has exited is one that the notify routine is about to
\* visit.
OwnerAlive ==
  \A i \in Occupied :
    LET p == OwnerProcessId[StorageUnits[i]]
    IN  p \in alive \/ \E t \in Thread :
                          call[t].op = "unprovision" /\ call[t].pid = p
                            /\ i \in call[t].todo

\* A unit does not outlive the process that provisioned it, and leaves the
\* table only on behalf of that process, until the unlocked test is passed
\* wrongly.
OwnerLifetime ==
  [][~raced' => OwnerAlive' /\ \A i \in Occupied : StorageUnits'[i] # StorageUnits[i] =>
       \E t \in Thread : /\ call'[t].at = "test" /\ call'[t].unit = StorageUnits[i]
                         /\ call'[t].pid = OwnerProcessId[StorageUnits[i]]]_vars

\* A unit that is not (or no longer) in the table is eventually freed or
\* inserted: stopping its queue releases the threads that hold it, unless the
\* unlocked test is passed wrongly.
RemovedIsFreed ==
  \A u \in Unit : u \in heap /\ ~InTable(u) ~> u \notin heap \/ InTable(u) \/ raced

\* What the test of process access says (ioctl-test.c:1177): unprovisioning a
\* unit of another process is denied.  Such a call at any rate frees no unit.
\* It does: the unit may be freed, and its memory become a unit of the calling
\* process, before OwnerProcessId is read again at stgunit.c:304.
DeniedFreesNothing ==
  \A t \in Thread : call[t].op = "unprovision" /\ ~call[t].removed => call[t].at # "free"
=============================================================================
