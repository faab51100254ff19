# WinSpd: a TLA+ verification project

WinSpd lets a user mode process present a disk to Windows. A Storport virtual
miniport driver (`src/src/sys`) receives SCSI requests and queues them; the
process fetches them with a *transact* ioctl, serves them and sends responses
back. A user mode library (`src/src/shared`, built into the DLL) runs the
threads that do so, a launcher service (`src/src/launcher`) starts and stops
such processes.

This directory models that system in TLA+, checks the models with TLC and
proves theorems about them with TLAPS. `PROJECT.json` lists the components,
the runs, the source lines behind each definition, the hazards and the
theorems.

## Inventory

| Component | State | Operations | Hard behaviours |
|---|---|---|---|
| I/O queue (`sys/ioq.c`, `sys/driver.h`, completion in `sys/scsi.c`) | pending list, process list, hash buckets threaded through SRB extensions, queued event, stopped flag | post, start processing, end processing, abort command, reset, stop | responses racing resets and aborts; one event for many waiters; reuse of SRB extensions; transfers split in chunks |
| Storage unit table (`sys/stgunit.c`) | slots, counter, reference counts, owner, device object | provision, unprovision, reference, dereference, use bitmap, notify routine | lifetime races between unprovision, lookups, process exit and device removal |
| Service ioctls (`sys/ioctl.c`) | that of the two above | provision, unprovision, list, transact, set transact process id, completion of service IRP's | waiting inside an ioctl while the unit goes away |
| SRB functions (`sys/io.c`), SCSI layer (`sys/scsi.c`) | SRB extension | StartIo, abort, resets; CDB decoding, range checks, reports, chunking, completion | 32-bit arithmetic on lengths; boundaries of the medium; transfers in several requests |
| rawdisk storage unit (`tst/rawdisk/rawdisk.c`) | a file mapped into memory | create, read, write, flush, unmap, delete | faults half way through a copy; a power failure after a promise |
| Adapter, PnP dispatch, driver load (`sys/adapter.c`, `sys/dispatch.c`, `sys/driver.c`) | global device extension under a resource, device of a unit | find adapter, free, bus reset, start and remove device | device removal racing unprovision; removal of the adapter racing process exit |
| Dispatcher (`shared/stgunit.c`) | thread chain, thread count, first error, handle, TLS counter | create, start, wait, shutdown, delete, send response | error in one thread must stop all; the final flush must come last |
| Pipe transport (`shared/stghandle.c`, test client `stgtest/stgtest.c`) | pipe, connection generation, hint table, units of the process | open, transact, shutdown, close | reconnects racing transacts; late responses |
| Launcher (`launcher/launcher.c`, clients `launcher/launchctl.c`, `shared/launch.c`, `shared/secpipe.c`) | instances, processes, volume handles, kill timers, persistent registry entries, pipe | start, stop, get info, list, start persistent, service start and stop | processes that end by themselves; stop racing termination; restart of the system |
| MBR and integer parsing (`shared/mbr.c`, `shared/strtoint.c`) | none | compute, parse | boundaries, overflow |
| .NET host (`dotnet/StorageUnitHost.cs`) | pointer to the unit | start, shutdown, wait, dispose | those of the dispatcher it wraps |
| Tools, installer, shell extension, logging | none of interest | | not modelled: pure I/O |

How they interact: Storport calls the SRB functions, which look a unit up in
the table, take a reference and post to its queue. The process calls the
service ioctls, which look the unit up the same way; a transact ends the
processing of one SRB and waits for the next. Unprovisioning, the exit of the
process and the removal of the disk device take the unit out of the table and
stop its queue, which wakes the waiting transacts, and the last reference frees
the unit.

What makes each part correct is stated as properties below; the hazards behind
them are in `PROJECT.json`.

## Modules

| Module | What it is |
|---|---|
| `Ioq` | the I/O queue of one storage unit, with the SRB extension, the queued event, the transact loop and the SCSI callbacks that drive it |
| `SrbService` | what the queue promises to Storport: every SRB is refused, or accepted and completed once; a stop aborts everything and is final |
| `StorageUnit` | the table of units in the driver, their reference counts, owners and devices, and the calls that use them |
| `Scsi` | the SCSI layer as operators: what a command asks for, which ones are refused, what is reported, how a transfer is cut |
| `RawDisk` | the SCSI layer composed with the rawdisk unit, its file, the process, and power failures |
| `Dispatcher` | the user mode library: unit objects, the chain of dispatcher threads, shutdown, the final flush, asynchronous responses |
| `StgPipe` | the pipe transport of the library, with its test client |
| `Launcher` | the launcher service: instances, processes, registry, pipe server, clients |
| `IoqProofs`, `StorageUnitProofs`, `StgPipeProofs`, `DispatcherProofs`, `LauncherProofs`, `RawDiskProofs` | theorems about these components, for all values of the constants |
| `MCIoq`, `MCStorageUnit`, `MCDispatcher`, `MCStgPipe`, `MCLauncher`, `MCRawDisk` | model values, commands and symmetry for TLC |

### Ioq

The variables in the first two groups are the fields of `SPD_IOQ` and
`SPD_SRB_EXTENSION`, under their names; `ProcessBuckets` holds each chain as a
sequence, and `HashNext` is kept beside it so that the links the code follows
are checked, not assumed (`BucketsIndexProcessList`). Storport's side is
`srbStatus`, `srbExt`, `srbLength`, `completions` and, for the SRB's that ask for
an abort, `abortStatus`. `pc` places each transact thread; `owed` holds the
requests user mode was given and has not answered; `acked` is a history variable.

Every function of `ioq.c` works under `Ioq->SpinLock` and is one step.
`SpdIoqStartProcessingSrb` waits before it locks, which makes it two
(`Wake`, then one of `StartProcessingSrb`, `-Empty`, `-Stopped`), and the loop
of `SpdIoctlTransact` around it adds `CheckStopped`. `SpdIoqEndProcessingSrb`
splits into `EndIgnored`, `EndError`, `EndSuccess` and `EndRepost` by what the
code finds and what the completion callback returns. `SpdIoqReset` is `Reset`
or `Stop`.

Abstractions and assumptions:

* The event is a flag: `SpdQeventSetNoLock` inserts the one entry of a kernel
  queue if it is not there, a waiter removes it.
* Data is left out, lengths are in blocks. Length 0 stands for SYNCHRONIZE
  CACHE and UNMAP, which are never split.
* A thread never waits with a timeout: the only caller passes none.
* User mode answers only hints it was given, each once. A response that comes
  after a reset is kept: its hint may by then belong to another SRB at the same
  address. `SuccessCoversTransfer` excludes exactly these extensions
  (`Tainted`): for them the code cannot tell the two apart.
* `AbortCommand` passes the abort SRB itself to `SpdIoqCancelSrb`, as
  `SpdSrbAbortCommand` does. Its extension is one that no pending SRB uses.
  `RemoveEntryList` then works on whatever an earlier SRB left in `ListEntry`
  and may stop the system; the model has the steps that get past it, which
  leave the lists as they are. The abort SRB is completed there and again by
  `SpdHwStartIo` (`AbortReturns`): the run `ioq_abort`. No other property
  depends on what the abort SRB itself is told.

### StorageUnit

A kernel thread runs one call at a time (`call[t]`). Each section under
`DeviceExtension->SpinLock` is one step and so is every access outside of it:
`SpdStorageUnitUnprovision` is `Remove` (locked), `TestOwner` (the second,
unlocked comparison), `StopIoq`, `Dereference` (locked) and `Free`. `heap` is
the set of units allocated. The queue of a unit is reduced to whether it is
stopped and whether it holds an SRB.

* `TestOwner` reads a unit that the call holds no reference to, if the unit
  belongs to another process. When the unit was freed the read returns anything
  (`OwnerRead`), and when its memory is a new unit the owner of that one. If the
  value is the calling process the call goes on to stop and dereference a unit
  that it has not taken out of the table. The history variable `raced` records
  that; the run `storage_unit_race` shows where it leads, and the other
  properties of the module say what holds until it happens. A program that has
  referred to freed memory otherwise than in this test is not followed further
  (`Undefined`).
* The removal of a disk device unprovisions by a copied Guid and process
  (`sys/dispatch.c:90`); a unit that the process provisions meanwhile under the
  same Guid is taken out instead. The model has this step and no property
  forbids it.
* A process identifier is reused only when the notify routine has handled the
  exit. A disk device is started at most once.
* Left out: a failing allocation (nothing changes, except that
  `stgunit.c:246` then reads through a null pointer), the global resource and
  `SpdDeviceExtensionInit`/`-Fini`.

### Scsi and RawDisk

`Scsi` has no state: its operators take the parameters of the unit and the
command. The widths of the integers are constants (`W8` to `W64`), so that the
wrap-arounds of `BlockCount * BlockLength`, of `EndBlockAddress` and of the
sense information happen in a small instance. A check is a list of conditions
and results in the order of the code's early returns (`FirstOf`).

`RawDisk` runs commands through it: `Execute` is `SpdSrbExecuteScsi`, `Prepare`
and `Complete` are the callbacks of the queue, one request at a time; `Serve` is
the operation of rawdisk. `view` is the mapped file, `file` the medium.
`WriteBack`, `Kill` and `PowerLoss` are the operating system's: a killed process
loses nothing that is in the mapping, a power failure loses what was not written
back. A copy into the mapping may fault after any block, a flush may fail, an
reset may leave a request with the process, which serves it late (`late`).

* A block is the unit of content: the i-th block of every write's buffer
  holds i.
* `durable` and `spoiled` are history variables: the blocks whose content was
  promised to be kept, and those a late request wrote while a command was in
  progress. The driver cannot call a request back, so the properties leave the
  spoiled blocks out.
* Transfers of 2^32 bytes and more, whose length wraps (`scsi.c:559`), are in
  the model; the command succeeds although blocks were not moved. Reads and writes
  of that length are left out of `TransferExact` and `PromiseKept` (`Fits`).
* What a `SYNCHRONIZE CACHE` leaves on the medium is what the 32-bit length that
  `FlushInternal` passes on covers (`Flushed`); with 0 blocks it succeeds without
  a flush (`scsi.c:591`). `PromiseKept` speaks of these blocks. That a successful
  `SYNCHRONIZE CACHE` has flushed its whole range is stated by `SyncComplete`,
  which does not hold for ranges of more than 2^32 bytes and is not one of the
  runs. A failing `UNMAP` is not reported (`rawdisk.c:197`): modelled as it is. A power failure during the first creation can leave a file of full size
  without a partition table, which it then never gets (`rawdisk.c:318`).
* The layout of INQUIRY, MODE SENSE and REPORT LUNS data is left out.

### Dispatcher

The application creates each unit once and follows the header and the main
program of rawdisk: create, start, wait, delete, with `SpdStorageUnitShutdown`
called through a guard at any time in between. `pc[t]` follows
`SpdStorageUnitDispatcherThread` line by line; every allocation, thread creation
and transact may fail. `CreateThread` in `SpdStorageUnitStartDispatcher` is two
steps, because the thread exists before its identifier is stored.

The driver is a table of slots as one process sees it: provisioning by slot,
unprovisioning by Guid, a transact that waits in the unit it found or fails. It
fails when the slot is empty, but also while the unit is there and other threads
wait in it (`sys/ioctl.c:158`, `:170-198`: the process may not transact, no
memory, no access to the buffer); so may a response. This is the device transport; the pipe transport is
`StgPipe`. The application deletes a unit only when none of its own threads is
inside `SpdStorageUnitSendResponse`.

A thread of an old dispatcher uses the Btl and the Guid of its unit after it was
unprovisioned (`shared/stgunit.c:170`, `:255`); when the process has provisioned
another unit in that slot, or with that Guid, it serves or shuts down that one.
The model has these steps. `FailureStopsAll` leaves out a unit whose slot was
taken, and the instance gives every unit its own Guid.

### StgPipe

The pipe has one instance, which the dispatcher threads share. `Lock`,
`ConnectNamedPipe` and `WriteParams` are the part of
`SpdStorageUnitHandleTransactPipe` under `StorageUnit->Lock`, which a thread holds
while it waits for a client; then come `TakeHintValue`, `WriteResponse`,
`BeginRead`, `EndRead` and `PutHintValue`, each a step, and `Disconnect`. `Begin`
is the part before the lock, which may fail for lack of memory: the dispatcher
thread then ends and shuts the unit down. `PutHintValue` drops a Read whose Hint
is in the table, or for lack of memory (`dropped` records it).
`Connected` is the generation counter of the code, negative while nobody is
connected. `unit` is the unit's place in the table: `Shutdown` sets the event and
clears the slot at once, as the code does under its lock. Clients may leave or
be killed at any time; a client that follows may get the response to an earlier
one and then gives up, unless it has the same Hint. The upper half of a Hint is
the identifier of the client's thread, which the system reuses: `ThreadId` says
which ones a run may be given, `Sends` which kinds of requests it sends. A message
that is too long for the server's buffer is read in parts: the first is an error
by which the connection is dropped (`ReadPart`), the rest is read as a malformed
request by whoever reads next. A long message exceeds the buffer by less than the
size of `TRANSACT_MSG`; a longer one would have further parts.

The named pipe itself is external and modelled by what the code relies on. A
client that leaves before it was welcomed leaves the pipe in the state in which
`ConnectNamedPipe` fails with `ERROR_NO_DATA`, and the code never disconnects it
(`stghandle.c:343`): the threads then spin until the unit is shut down.
`ListensAgain` therefore speaks of clients that were welcomed.

### Launcher

What is done within `SvcInstanceLock` is one step, except
`SvcInstanceStopAndWaitAll`, which holds it from step to step (`lock`);
`SvcInstanceRelease` counts down outside of it and is three steps. An instance is
known by its process; its identifier is free again when the instance is freed.
`main` is the thread of `SvcEntry`, `srv` that of `SvcPipeServer`, `cb[p]` the
callback of process p. `handle` gives each handle value what it refers to, so
that closing a value twice has its effect. `SystemRestart` may happen at any time
and keeps only the registry. When the service ends by itself the processes in its
job end with it; those of a class without `JobControl`, or that could not be
assigned to the job (`launcher.c:849`), live on ("orphan").

* `Unreadable` is the set of names whose entry does not fit the buffers of
  `SvcInstanceStartAllPersistent` (`launcher.c:1140`): the first of them ends the
  scan.
* When a volume is in use the handles are closed twice (`launcher.c:314`, `:974`).
  `reclosed` records that one of the values had been given out again in between;
  from then on a timer may terminate, and close, any other handle.
* One class of instances, which is persistent; whether an entry can be written
  or deleted is left open, since the code ignores the error.
* Which volumes a process owns and whether they are in use is left open.
* A forced stop of an instance whose volume is in use kills the process and
  keeps the persistent entry (`launcher.c:1019`); an entry without arguments is
  passed over at a restart (`launcher.c:1152`): both are modelled as they are.
* Left out: the quit command of debug builds, and the replacement of
  arguments in command lines.

## Runs

| Run | Instance | Shows |
|---|---|---|
| `ioq` | 2 SRB's and 1 abort SRB, 2 extensions in one bucket, 2 threads, transfers of 3 blocks in chunks of 2; 240 000 states | no SCSI SRB is lost, completed twice, overtaken or reported complete too early; chains, wake-ups and stop are right; the queue implements `SrbService`; every pending SRB completes and a stop releases every waiter |
| `ioq_hashnext` | 3 SRB's, transfers of 0 and 2 blocks in chunks of 1 | violation: the debug assertion on `HashNext` fails for a reposted SRB |
| `ioq_abort` | as `ioq_hashnext` | violation: an abort SRB is completed twice |
| `storage_units` | 2 addresses, 2 Guid's, 2 processes, 2 threads, 2 slots; 1 000 000 states | reference counts, counter and Guid's, the life of owners and units, queues, until the unlocked test is passed wrongly |
| `storage_unit_live` | 2 addresses, 1 process, 2 threads, 1 device, 1 slot; 48 000 states | a removed unit is freed, and not too early, with device removal and a full table |
| `storage_unit_race` | 1 address, 1 Guid, 2 processes, 1 slot | violation: a call that is to be denied frees a unit |
| `dispatcher` | 2 units in 1 slot, 2 threads in chains of 1 or 2; 310 000 states | the final flush is last and never skipped; no use of a deleted unit or of the freed TLS key; a failure, shutdown or ejection stops the whole chain, and the first error stays |
| `pipe` | 2 clients with 1 request each and with equal or different thread identifiers, 2 dispatcher threads, 1 responder; the first client sends a Read or a message that is too long, the second a Read or a Write; 340 000 states | no thread drops a later client; a client accepts a response to its Hint and Kind only, and a Read with its data; requests are answered, the pipe is offered again, a shutdown completes |
| `launcher` | 3 names, one of them unreadable, 1 user, 2 processes, no handles; 2 000 000 states | instances are freed once, findable, gone after a stop, and looked at after a restart |
| `launcher_live` | 1 name without arguments, 1 process, 2 volumes, 2 handle values; 170 000 states | volumes stay locked and the kill timer's handle valid until a handle is closed in error; a killed process goes with its instance; no client keeps the pipe |
| `launcher_kill` | 1 name, 1 process, 2 volumes, 2 handle values | violation: the kill timer's handle is closed with the volume handles |
| `rawdisk` | units of 2 blocks, cached in chunks of 1 and uncached in chunks of 2, a unit of 3 blocks of half of 2^32 bytes, UNMAP lists longer than the unit, and write protected units of 5 and 9 blocks; widths 2, 4, 4, 8, 16; 200 000 states | chunks move the right blocks, promises survive a power failure, reports agree with checks |

Why the bounds are enough: the defects these models could show need two
actors on one object and, for reuse, a third object: two extensions for two SRB's
and an abort SRB allow the second SRB to reuse the extension of the first, one
bucket forces chains of two, two chunks force a repost, two addresses and one or two slots force reuse of units and a
full table; the second client of the pipe meets what the first one left, with
one thread welcoming it while the other still sees the old connection; two
processes for one name meet in a restart of an instance that has just ended; one
entry before and one behind the unreadable one, in any order, is all the scan can
tell apart. `launcher` has no handles, which only the timers and volumes use:
these are the subject of `launcher_live` with two volumes of one process, the
smallest number for which one can be open while another is in use. A chain of two
threads is what TLC is given in `dispatcher`; the theorems hold for any length.
Reducing 2^32 to 8 and 2^64 to 16 keeps their order and puts the wrap-arounds
next to units of 5 and 9 blocks. In the table a third unit that meets two occupied
slots does not occur; the one-slot run has a full table. Deadlock is not checked
for `Ioq` and `Dispatcher`, whose SRB's and units are used once, so that they
end; it is checked everywhere else.

## Fairness

* `Ioq`: the scheduler runs a thread inside the driver and hands a set event to
  some waiter; dispatcher threads do not stay in user mode for ever; user mode
  answers what it was given, which is the contract of the Interface's
  operations; when all threads of the process are gone the process exits and
  the notify routine stops the queue (`sys/stgunit.c:83`). Nothing is assumed
  of Storport, resets or aborts.
* `StorageUnit`: a thread inside the driver goes on until it waits or returns.
  Nobody has to call anything.
* `Dispatcher`: threads run and operations return. Requests, shutdown and
  ejection need not happen.
* `StgPipe`: threads of the server run until they wait, operations return, a
  client that has opened the pipe reads and writes until it waits, and an
  application that has shut the unit down deletes it. Nobody has to connect,
  to leave or to shut down.
* `Launcher`: the threads of the service run, timers elapse, a process that was
  told to end and has no timer does so (the code says "we hope in this case"),
  a service that has stopped ends. No process has to end by itself, no client to
  send anything.

## Proofs

Every proof has the same shape: an inductive invariant, which TLC has checked on
the instance of the component's run before it was proved; one lemma per action (or
group of actions that disturb the same conjuncts); and the properties of the runs
as consequences. The theorems hold for all values of the constants that satisfy
the named assumptions of the module, and for any number of threads, units,
clients or processes.

### IoqProofs

For any sets of SRB's, extensions, threads and buckets, any hash function and any
transfer lengths (`ConstantAssumption` only):

* `TypeCorrect`, `AlwaysCompletedOnce`, `AlwaysQueuedExactlyPending`,
  `AlwaysIndexed`, `WakeupsArePreserved`: the safety invariants of the same
  names in the run `ioq`, for SCSI SRB's (an abort SRB *is* completed twice);
* `AlwaysSuccessCoversTransfer`: every block of a successful transfer was served
  by a response to that SRB, unless an abort tainted its extension;
* `FirstComeFirstServed` (`NoOvertaking`) and `StopIsFinal` (`StaysStopped`), the
  action properties: no SRB overtakes another, and a stopped queue stays stopped
  and empty;
* `ImplementsService`: `Spec => Service!Spec`, with the SRB status and the stop
  flag as the refinement mapping.

The inductive invariant is
`IInv == TypeOK /\ ChunkInRange /\ CompletedOnce /\ QueuedExactlyPending /\
BucketsIndexProcessList`. None of its parts is inductive alone: that an SRB is
completed once needs that what a response finds in a bucket is pending
(`BucketsIndexProcessList` and `QueuedExactlyPending`); that the lists hold the
pending SRB's needs that chains and process list agree and that an extension is
on one list once; `ChunkInRange` keeps offsets natural numbers. The proof has
one step per action and below it one per conjunct. `NoLostWakeup` is inductive
on top of the types, and the refinement uses `IInv` at each step.

`SuccessCoversTransfer` needs three more facts (`TransferInv`): the extension of a
pending SRB holds the length of that SRB's transfer (`LengthKept`); the blocks
acknowledged so far are those before `ChunkOffset` (`AckedSoFar`); and a request in
user mode carries the extension its SRB still has (`OwedNamesItsSrb`), so that a
late response to a tainted extension counts only for the SRB that was aborted.
That two requests for one untainted extension are equal (`OwedUnique`) follows from
`OwedIsCurrent` and makes the repost of a chunk safe. These parts were checked by
TLC on an instance of three SRB's before they were proved.

`NoOvertaking` rests on lemmas about the four list operations (`AppendOrder`,
`ConsOrder`, `TailOrder`, `WithoutOrder`): each keeps the relative order of what is
in the list before and after it. That a reposted SRB counts as started uses that
`MaxTransferLength` is not 0: a chunk that is not the last one is not empty.

### StorageUnitProofs

`TypeCorrect`, `AlwaysRefCountExact`, `AlwaysNoDangling`, `AlwaysTableConsistent`,
`AlwaysNoSrbLost` and, as an action property, `UnitsFollowOwners`. They have no
hypothesis; the properties themselves speak of the time before a call passes the
unlocked test wrongly (`~raced`), for afterwards they fail, as the run
`storage_unit_race` shows. Types and the counter of units hold throughout. A
reference count is right only if
nobody else knows a unit that is being provisioned (`FreshUnits`), if the second,
unlocked test of the owner repeats the answer of the first for a unit that the call
has taken out (`TestRepeats`), and if
a unit is freed by one thread when its count is 0 (`FreedAlone`); these are the
parts of the invariant that no run states. The counts are compared with
cardinalities of the sets of slots and calls that refer to a unit, one element
being added or removed at each step.

### StgPipeProofs

* `TypeCorrect` and `ClientIsKept` rest on an invariant that relates each thread's
  copy of the connection generation to `Connected`: a copy is never ahead, and one
  that is equal belongs to the present client, so that a thread whose I/O failed
  disconnects only the connection it saw.
* `TokensAgree`: where the hints are. Every request that is with a thread, in the
  table or on the pipe is genuine, and no two places hold the same one.
* `OwnResponseAccepted` (the action property `OwnResponse`) holds for any
  assignment of thread identifiers, the upper half of the hints of stgtest, also
  if all clients have the same: a Read that is served has its own entry in the
  table of hints, whoever sent it, because one that met an equal Hint was dropped.
* `ClientIsKept` is about clients that send no message that is too long; the
  connection of one that does is dropped, as the code means to.

### DispatcherProofs

`TypeCorrect` (which includes that the chain is never longer than was asked for),
`AlwaysFlushIsLast` and `AlwaysNoUseAfterFree`, for chains of any length, and
`FirstErrorStays`, the action part of `FailureStopsAll`. The property that matters
runs along the chain: the first thread has joined its child, which has joined its
own, and so on. An induction along the chain is out of the prover's reach and is
not needed: `Chain(u)` says that every set of the unit's threads that contains the
first one and, with a thread, its child, is the set of all of them. Applied to the
set of threads that have ended it gives `JoinedAll`. `Counted` explains why the
unsynchronised count is safe: at most one thread of a unit has not yet created its
child (`OneYoung`), so nobody else counts meanwhile. `TlsOK` counts the users of
the TLS key.

### LauncherProofs

`TypeCorrect`, `AlwaysFreedOnce`, `AlwaysNoStrayProcess`, `AlwaysStopLeavesNone`,
and `RestartsAllHolds` (action property) for any number of names, users, processes,
handles and volumes. `HandlesStayValid` proves `VolumesStayLocked`, which includes
`KillHandleValid`, for the time before a handle was closed in error; that this
happens is shown by `launcher_kill`. The invariant says, for each of the three
threads that can hold an instance, where it is and what it holds (`MainOK`,
`SrvOK`, `InstOK`), that the list, the lock and the event agree (`ListOK`,
`ServiceOK`), that the registry has no name twice (`RegistryOK`), and which entries
the scan has seen (`Seen`). The model takes from Windows that the identifier of a
process is not used again while a handle to it is open.

### RawDiskProofs

For all widths of the integers, all parameters that `SpdIoctlProvision` accepts and
all commands whose fields fit their widths: `TypeCorrect`, `AlwaysPromiseKept`,
`AlwaysReportsHold` and the action property `TransferIsExact`. The assumptions are
that the widths grow (2^32 < 2^64), that the length of a block divides 2^32, so that
a length that wraps around is still a number of blocks, and that an UNMAP list holds
the descriptors that its length counts.

* The arithmetic comes first: an accepted range lies in the unit although the check
  is made on a sum that wraps around (`InUnitMeans`); a length cut to 32 bits is a
  number of blocks (`CutIsWhole`); the blocks moved and the blocks of the next
  chunk never exceed the transfer (`TransferProgress`), and the last chunk
  completes it (`AdvanceFacts`). `CheckRangePosts` and `CheckUnmapPosts` say of the
  ordered checks when a command goes to the queue.
* `ServesEffect`, `ServesChunk` and `ServesSync` say what serving one request does
  to the mapping and the medium.
* The invariant `Inv` relates the command in progress to the unit: `InProgress` (it
  was accepted, and its offset is a whole number of blocks), the request of the
  process and the late one are those that `SpdSrbExecuteScsiPrepare` makes of an
  accepted command (`RequestInv`), and every block that was moved, and every block
  of a good response, has arrived: it is in its place in the mapping or in the
  buffer and, if the unit was told to write through, on the medium, unless a late
  request wrote there (`ProgressInv`). `PromiseKept` is not inductive without
  `ProgressInv`: a promise is made for blocks of chunks that were served long
  before the command completes.

`AlwaysReportsHold` needs the parameters only.

### Only model-checked

The liveness properties (fairness and `ENABLED` are out of the prover's reach):
`PendingCompletes` and `StopReleasesWaiters` of `Ioq`, `RemovedIsFreed` of
`StorageUnit`, `FailureStopsAll` of `Dispatcher` (its action part is the theorem
`FirstErrorStays`), `RequestAnswered`, `ShutdownCompletes` and `ListensAgain` of
`StgPipe`, `KilledGoes` and `ClientServed` of `Launcher`. Every invariant and every
action property of a passing run is proved, under the hypotheses given above.

## What the violations mean

* `ioq_hashnext`: a debug build stops at `ASSERT(0 == SrbExtension->HashNext)`;
  a release build overwrites the field.
* `ioq_abort`: Storport is told twice that an abort SRB is complete, and the SRB
  that it was to abort stays in the queue. In the model the extension of the abort
  SRB is one that was never used, or whose SRB is complete; which of them get past
  the checks of `RemoveEntryList` depends on what is left in its `ListEntry`.
* `storage_unit_race`: process 2 tries to unprovision the unit of process 1. Under
  the lock it is found to belong to process 1; before the test at `stgunit.c:304`
  process 1 unprovisions and frees it, and process 2 provisions a unit at the same
  address. The test now finds process 2, and the call stops, dereferences and frees
  that unit, which another thread is provisioning or which is in the table.
* `launcher_kill`: a forced stop of an instance with several volumes, one of
  them in use. If the duplicated process handle gets the value of a volume
  handle that was just closed, it is closed as well, and a process that does not
  react to control-break is not terminated.

## Not modelled

* The global resource, `SpdDeviceExtensionInit` and `-Fini`, adapter discovery
  and removal, driver load: a handful of system calls in sequence, whose one
  hazard is a lock order with the kernel's own callback lock (`stgunit.c:75`),
  which the source does not show.
* The byte layout of SCSI data, of the partition table's CHS fields, and
  `strtoint.c`: conversions without state.
* The table of units of the pipe transport (one unit is modelled), and a second
  unit on a second pipe.
* The .NET host forwards to the library. The command line tools, installer,
  shell extension, logging and tracing have no state a property could be about.

## Plan

1. The step facts below the liveness properties that do not need fairness: that a
   helpful action cannot be disabled by another (for `PendingCompletes`, that a
   queued SRB leaves the lists only by being completed), as action properties.
2. A run for `SyncComplete` of `RawDisk`, which shows how much of a
   `SYNCHRONIZE CACHE` of more than 2^32 bytes is not flushed.
