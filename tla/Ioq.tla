-------------------------------- MODULE Ioq --------------------------------
(***************************************************************************)
(* The I/O queue of one storage unit: src/sys/ioq.c, the SPD_QEVENT and    *)
(* the SRB extension of src/sys/driver.h, and the part of the transact     *)
(* ioctl and of the SCSI code that drives the queue.                       *)
(*                                                                         *)
(* Storport hands SRB's to the miniport, which posts them on PendingList.  *)
(* The threads of the user mode process that owns the unit wait on         *)
(* PendingEvent, move an SRB to ProcessList and to a hash bucket, and      *)
(* later send a response which names the SRB by its Hint: the address of   *)
(* the SRB extension.  A transfer longer than MaxTransferLength makes      *)
(* several such round trips.  A reset aborts everything that is queued; a  *)
(* stop does so for good.                                                  *)
(*                                                                         *)
(* Every function of ioq.c does its work under Ioq->SpinLock, so each is   *)
(* one step, except that SpdIoqStartProcessingSrb waits before it locks.   *)
(***************************************************************************)
EXTENDS Integers, Sequences, SequencesExt

CONSTANTS
  Srb,                \* the SCSI requests Storport issues, each issued once
  AbortSrb,           \* the SRB's of SRB_FUNCTION_ABORT_COMMAND, likewise
  Ext,                \* addresses of SRB extensions; Storport reuses them
  Thread,             \* user mode threads that call the transact ioctl
  Bucket,             \* indices of ProcessBuckets
  Hash,               \* [Ext -> Bucket], SpdHashMixPointer % ProcessBucketCount
  DataLength,         \* transfer lengths that occur, in blocks
  MaxTransferLength,  \* StorageUnitParams.MaxTransferLength, in blocks
  NULL                \* the null pointer

ASSUME ConstantAssumption ==
  /\ Hash \in [Ext -> Bucket]
  /\ DataLength \subseteq Nat
  /\ MaxTransferLength \in Nat \ {0}
  /\ NULL \notin Ext /\ NULL \notin Srb

VARIABLES
  \* SPD_IOQ
  Stopped, PendingEvent, PendingList, ProcessList, ProcessBuckets,
  \* fields of the SPD_SRB_EXTENSION at each address
  ExtSrb, HashNext, SystemDataLength, ChunkOffset,
  \* Storport's view of an SRB: transfer length, extension, status and the
  \* number of completion notifications
  srbLength, srbExt, srbStatus, completions,
  \* the statuses with which an abort SRB has been completed, in order
  abortStatus,
  \* where each transact thread is
  pc,
  \* requests handed to user mode that it has not answered
  owed,
  \* history: the blocks of each SRB that a successful response to that SRB
  \* has covered
  acked

ioqVars    == <<Stopped, PendingEvent, PendingList, ProcessList, ProcessBuckets>>
extVars    == <<ExtSrb, HashNext, SystemDataLength, ChunkOffset>>
srbVars    == <<srbLength, srbExt, srbStatus, completions, abortStatus>>
userVars   == <<pc, owed>>
vars       == <<ioqVars, extVars, srbVars, userVars, acked>>

\* A request as SpdSrbExecuteScsiPrepare fills it in.  srb is not part of the
\* message: it records which SRB the request was made for.
Request == [hint : Ext, srb : Srb, offset : Nat, length : Nat]

Final == {"SUCCESS", "ERROR", "ABORTED"}

-----------------------------------------------------------------------------
(***************************************************************************)
(* Helpers                                                                 *)
(***************************************************************************)

Chain(e)    == ProcessBuckets[Hash[e]]
InBucket(e) == e \in ToSet(Chain(e))
Position(s, x) == CHOOSE i \in DOMAIN s : s[i] = x
Without(s, x)  == RemoveAt(s, Position(s, x))

\* *P = SrbExtension->HashNext, where P is the bucket or the HashNext field
\* of the entry before SrbExtension.
BucketsWithout(e) ==
  [ProcessBuckets EXCEPT ![Hash[e]] = Without(@, e)]
\* Faulty variant: the entry before e keeps pointing at it.
HashNextWithout_NoRelink(e) == HashNext
HashNextWithout(e) ==
  LET k == Position(Chain(e), e)
  IN  IF k = 1 THEN HashNext
      ELSE [HashNext EXCEPT ![Chain(e)[k - 1]] = HashNext[e]]

\* Length of the chunk SpdSrbExecuteScsiPrepare and -Complete work on.
ChunkLength(e) ==
  LET rest == SystemDataLength[e] - ChunkOffset[e]
  IN  IF rest > MaxTransferLength THEN MaxTransferLength ELSE rest

\* SpdSrbExecuteScsiPrepare.  Faulty variant: BlockAddress ignores the offset.
Prepare_NoOffset(e) ==
  [hint |-> e, srb |-> ExtSrb[e], offset |-> 0, length |-> ChunkLength(e)]
Prepare(e) ==
  [hint |-> e, srb |-> ExtSrb[e],
   offset |-> ChunkOffset[e], length |-> ChunkLength(e)]

\* Storport may reuse an extension once the SRB it belonged to is complete.
ExtInUse == {srbExt[s] : s \in {x \in Srb : srbStatus[x] = "pending"}}

\* SpdSrbComplete of the SRB's in S, with one status.
Complete(S, status) ==
  /\ srbStatus' = [s \in Srb |-> IF s \in S THEN status ELSE srbStatus[s]]
  /\ completions' = [s \in Srb |->
                       IF s \in S THEN completions[s] + 1 ELSE completions[s]]

-----------------------------------------------------------------------------
(***************************************************************************)
(* StartIo: SpdScsiPostSrb zeroes the extension and posts the SRB.  A      *)
(* length of 0 stands for SYNCHRONIZE CACHE and UNMAP, which are never     *)
(* split; a READ or WRITE of 0 blocks is completed before it gets here.    *)
(***************************************************************************)

\* The zeroing of ChunkOffset.
ZeroOffset(e) == [ChunkOffset EXCEPT ![e] = 0]

ZeroExtension(s, e, len) ==
  /\ srbStatus[s] = "idle"
  /\ e \notin ExtInUse
  /\ srbLength' = [srbLength EXCEPT ![s] = len]
  /\ srbExt' = [srbExt EXCEPT ![s] = e]
  /\ HashNext' = [HashNext EXCEPT ![e] = NULL]
  /\ SystemDataLength' = [SystemDataLength EXCEPT ![e] = len]
  /\ ChunkOffset' = ZeroOffset(e)
  /\ UNCHANGED abortStatus

\* SrbExtension->Srb = Srb, the test of Stopped and InsertTailList, each with
\* a faulty variant (but the test): the field is not set, insertion at the head.
SetSrb_Missing(e, s) == ExtSrb
SetSrb(e, s) == [ExtSrb EXCEPT ![e] = s]
MayPost == ~Stopped
InsertTail_AtHead(e) == Cons(e, PendingList)
InsertTail(e) == Append(PendingList, e)

PostSrb(s, e, len) ==
  /\ MayPost
  /\ ZeroExtension(s, e, len)
  /\ ExtSrb' = SetSrb(e, s)
  /\ PendingList' = InsertTail(e)
  /\ PendingEvent' = TRUE
  /\ srbStatus' = [srbStatus EXCEPT ![s] = "pending"]
  /\ UNCHANGED <<Stopped, ProcessList, ProcessBuckets, completions,
                 userVars, acked>>

\* SpdIoqPostSrb on a stopped queue; SpdHwStartIo then completes the SRB.
PostSrbStopped(s, e, len) ==
  /\ Stopped
  /\ ZeroExtension(s, e, len)
  /\ ExtSrb' = [ExtSrb EXCEPT ![e] = NULL]
  /\ Complete({s}, "ABORTED")
  /\ UNCHANGED <<ioqVars, userVars, acked>>

\* StorPortGetSystemAddress failed: the SRB never reaches the queue.
PostSrbNoAddress(s, e, len) ==
  /\ len > 0
  /\ ZeroExtension(s, e, 0)
  /\ ExtSrb' = [ExtSrb EXCEPT ![e] = NULL]
  /\ Complete({s}, "ERROR")
  /\ UNCHANGED <<ioqVars, userVars, acked>>

-----------------------------------------------------------------------------
(***************************************************************************)
(* A transact thread.  pc is "user" outside the kernel, "waiting" in       *)
(* SpdQeventCancellableWait, "woken" once it took the event and before it  *)
(* locks the queue, "check" between an UNSUCCESSFUL return and the call of *)
(* SpdIoqStopped, and "gone" when the ioctl failed or the thread ended.    *)
(***************************************************************************)

Goto(t, l) == pc' = [pc EXCEPT ![t] = l]

\* SpdQeventCancellableWait: the queue behind the event holds at most one
\* entry, which one thread removes.
Wake(t) ==
  /\ pc[t] = "waiting"
  /\ PendingEvent
  /\ PendingEvent' = FALSE
  /\ Goto(t, "woken")
  /\ UNCHANGED <<Stopped, PendingList, ProcessList, ProcessBuckets, extVars,
                 srbVars, owed, acked>>

\* The wait is alerted because the IRP is cancelled or the thread terminates.
CancelWait(t) ==
  /\ pc[t] = "waiting"
  /\ Goto(t, "gone")
  /\ UNCHANGED <<ioqVars, extVars, srbVars, owed, acked>>

\* Wake = !RemoveEntryList: SRB's are left behind the one being taken.
\* Faulty variant: nobody is woken for them.
MorePending_Never == FALSE
MorePending == Tail(PendingList) # <<>>

\* SpdIoqStartProcessingSrb takes the SRB at the head of PendingList.
StartProcessingSrb(t) ==
  LET e == Head(PendingList)
  IN  /\ pc[t] = "woken"
      /\ ~Stopped
      /\ PendingList # <<>>
      /\ PendingList' = Tail(PendingList)
      /\ owed' = owed \cup {Prepare(e)}
      /\ ProcessList' = ProcessList \cup {e}
      /\ ProcessBuckets' = [ProcessBuckets EXCEPT ![Hash[e]] = Cons(e, @)]
      /\ HashNext' = [HashNext EXCEPT
           ![e] = IF Chain(e) = <<>> THEN NULL ELSE Head(Chain(e))]
      /\ PendingEvent' = (PendingEvent \/ MorePending)
      /\ Goto(t, "user")
      /\ UNCHANGED <<Stopped, ExtSrb, SystemDataLength, ChunkOffset, srbVars,
                     acked>>

\* Nothing to do (a reset emptied the queue): STATUS_UNSUCCESSFUL.
StartProcessingEmpty(t) ==
  /\ pc[t] = "woken"
  /\ ~Stopped
  /\ PendingList = <<>>
  /\ Goto(t, "check")
  /\ UNCHANGED <<ioqVars, extVars, srbVars, owed, acked>>

\* The queue is stopped: pass the wake-up on and return STATUS_CANCELLED.
\* Faulty variant: the wake-up ends here.
PassOn_Never == FALSE
PassOn == TRUE
StartProcessingStopped(t) ==
  /\ pc[t] = "woken"
  /\ Stopped
  /\ PendingEvent' = (PendingEvent \/ PassOn)
  /\ Goto(t, "gone")
  /\ UNCHANGED <<Stopped, PendingList, ProcessList, ProcessBuckets, extVars,
                 srbVars, owed, acked>>

\* The loop of SpdIoctlTransact: SpdIoqStopped, then wait again or give up.
CheckStopped(t) ==
  /\ pc[t] = "check"
  /\ Goto(t, IF Stopped THEN "gone" ELSE "waiting")
  /\ UNCHANGED <<ioqVars, extVars, srbVars, owed, acked>>

\* A transact that only asks for a request.
TransactRequest(t) ==
  /\ pc[t] = "user"
  /\ Goto(t, "waiting")
  /\ UNCHANGED <<ioqVars, extVars, srbVars, owed, acked>>

\* The thread leaves the dispatcher.
ExitThread(t) ==
  /\ pc[t] = "user"
  /\ Goto(t, "gone")
  /\ UNCHANGED <<ioqVars, extVars, srbVars, owed, acked>>

-----------------------------------------------------------------------------
(***************************************************************************)
(* SpdIoqEndProcessingSrb with SpdSrbExecuteScsiComplete, for a response   *)
(* to the request r.  Only r.hint travels with the response.               *)
(***************************************************************************)

Unlink(e) ==
  /\ ~Stopped
  /\ InBucket(e)
  /\ ProcessBuckets' = BucketsWithout(e)
  /\ HashNext' = HashNextWithout(e)
  /\ ProcessList' = ProcessList \ {e}

\* The queue is stopped or the hint is in no bucket: the response is dropped.
EndIgnored(r) ==
  /\ Stopped \/ ~InBucket(r.hint)
  /\ UNCHANGED <<ioqVars, extVars, srbVars, acked>>

EndError(r) ==
  /\ Unlink(r.hint)
  /\ Complete({ExtSrb[r.hint]}, "ERROR")
  /\ UNCHANGED <<Stopped, PendingEvent, PendingList, ExtSrb, SystemDataLength,
                 ChunkOffset, srbLength, srbExt, abortStatus, acked>>

\* SCSISTAT_GOOD: account for the chunk.
Advance(r) ==
  /\ ChunkOffset' = [ChunkOffset EXCEPT ![r.hint] = @ + ChunkLength(r.hint)]
  /\ acked' = [acked EXCEPT ![r.srb] =
                 @ \cup (r.offset .. (r.offset + r.length - 1))]
Done(e) == ChunkOffset[e] + ChunkLength(e) >= SystemDataLength[e]

EndSuccess(r) ==
  /\ Unlink(r.hint)
  /\ Advance(r)
  /\ Done(r.hint)
  /\ Complete({ExtSrb[r.hint]}, "SUCCESS")
  /\ UNCHANGED <<Stopped, PendingEvent, PendingList, ExtSrb, SystemDataLength,
                 srbLength, srbExt, abortStatus>>

\* More chunks are left: repost the SRB at the head of the queue.
\* Faulty variant: it is forgotten.
InsertHead_Lost(e) == PendingList
InsertHead(e) == Cons(e, PendingList)
EndRepost(r) ==
  /\ Unlink(r.hint)
  /\ Advance(r)
  /\ ~Done(r.hint)
  /\ PendingList' = InsertHead(r.hint)
  /\ PendingEvent' = TRUE
  /\ UNCHANGED <<Stopped, ExtSrb, SystemDataLength, srbVars>>

EndProcessingSrb(r) ==
  /\ owed' = owed \ {r}
  /\ \/ EndIgnored(r)
     \/ EndError(r)
     \/ EndSuccess(r)
     \/ EndRepost(r)

\* A transact that only carries a response (SpdStorageUnitSendResponse); any
\* thread of the process may make it.
SendResponse(r) ==
  /\ EndProcessingSrb(r)
  /\ UNCHANGED pc

\* A transact that carries a response and asks for the next request.
TransactResponse(t, r) ==
  /\ pc[t] = "user"
  /\ EndProcessingSrb(r)
  /\ Goto(t, "waiting")

-----------------------------------------------------------------------------
(***************************************************************************)
(* SpdIoqReset                                                             *)
(***************************************************************************)

Queued == ToSet(PendingList) \cup ProcessList

\* RtlZeroMemory of the buckets, and the SRB's that the two loops complete.
\* Faulty variants: the buckets stay; the second loop is missing.
EmptyBuckets_Kept == ProcessBuckets
EmptyBuckets == [b \in Bucket |-> <<>>]
Aborted_OnlyPending == ToSet(PendingList)
Aborted == Queued

AbortQueued ==
  /\ ~Stopped
  /\ PendingList' = <<>>
  /\ ProcessList' = {}
  /\ ProcessBuckets' = EmptyBuckets
  /\ Complete({ExtSrb[e] : e \in Aborted}, "ABORTED")
  /\ UNCHANGED <<extVars, srbLength, srbExt, abortStatus, userVars, acked>>

\* SpdIoqReset(FALSE): bus, device and logical unit reset.
Reset ==
  /\ AbortQueued
  /\ UNCHANGED <<Stopped, PendingEvent>>

\* SpdIoqReset(TRUE): the unit is unprovisioned or the adapter goes away.
Stop ==
  /\ AbortQueued
  /\ Stopped' = TRUE
  /\ PendingEvent' = TRUE

-----------------------------------------------------------------------------
(***************************************************************************)
(* SRB_FUNCTION_ABORT_COMMAND.  SpdSrbAbortCommand passes the abort SRB    *)
(* itself to SpdIoqCancelSrb, not the SRB that is to be aborted.  Its      *)
(* extension e belongs to no pending SRB and has not been initialised: the *)
(* search of the bucket finds what is there, which is nothing as long as   *)
(* BucketsIndexProcessList and QueuedExactlyPending hold.                  *)
(* RemoveEntryList then works on whatever an earlier SRB left in ListEntry.*)
(* Its checks stop the system unless both neighbours still point at e,     *)
(* which only entries that are on neither list do; the steps below are the *)
(* ones that get past it.                                                  *)
(***************************************************************************)

Unhash(e) ==
  IF InBucket(e)
    THEN /\ ProcessBuckets' = BucketsWithout(e)
         /\ HashNext' = [HashNextWithout(e) EXCEPT ![e] = NULL]
    ELSE UNCHANGED <<ProcessBuckets, HashNext>>

\* SpdIoqCancelSrb clears SrbExtension->Srb and completes the abort SRB.
AbortCommand(a, e) ==
  /\ abortStatus[a] = <<>>
  /\ e \notin ExtInUse
  /\ ~Stopped
  /\ Unhash(e)
  /\ ExtSrb' = [ExtSrb EXCEPT ![e] = NULL]
  /\ abortStatus' = [abortStatus EXCEPT ![a] = <<"ABORTED">>]
  /\ UNCHANGED <<Stopped, PendingEvent, PendingList, ProcessList,
                 SystemDataLength, ChunkOffset, srbLength, srbExt, srbStatus,
                 completions, userVars, acked>>

\* SpdSrbAbortCommand returns SRB_STATUS_SUCCESS, for which SpdHwStartIo
\* completes the SRB.
AbortReturns(a) ==
  /\ abortStatus[a] = <<"ABORTED">>
  /\ abortStatus' = [abortStatus EXCEPT ![a] = Append(@, "SUCCESS")]
  /\ UNCHANGED <<ioqVars, extVars, srbLength, srbExt, srbStatus, completions,
                 userVars, acked>>

\* The queue is stopped: SRB_STATUS_ABORT_FAILED, completed by SpdHwStartIo.
AbortCommandStopped(a) ==
  /\ abortStatus[a] = <<>>
  /\ Stopped
  /\ abortStatus' = [abortStatus EXCEPT ![a] = <<"ABORT_FAILED">>]
  /\ UNCHANGED <<ioqVars, extVars, srbLength, srbExt, srbStatus, completions,
                 userVars, acked>>

-----------------------------------------------------------------------------

\* SpdIoqCreate, and what Storport and user mode start from.
Init ==
  /\ Stopped = FALSE
  /\ PendingEvent = FALSE
  /\ PendingList = <<>>
  /\ ProcessList = {}
  /\ ProcessBuckets = [b \in Bucket |-> <<>>]
  /\ ExtSrb = [e \in Ext |-> NULL]
  /\ HashNext = [e \in Ext |-> NULL]
  /\ SystemDataLength = [e \in Ext |-> 0]
  /\ ChunkOffset = [e \in Ext |-> 0]
  /\ srbLength = [s \in Srb |-> 0]
  /\ srbExt = [s \in Srb |-> NULL]
  /\ srbStatus = [s \in Srb |-> "idle"]
  /\ completions = [s \in Srb |-> 0]
  /\ abortStatus = [a \in AbortSrb |-> <<>>]
  /\ pc = [t \in Thread |-> "user"]
  /\ owed = {}
  /\ acked = [s \in Srb |-> {}]

StartIo ==
  \E s \in Srb, e \in Ext, len \in DataLength :
    \/ PostSrb(s, e, len)
    \/ PostSrbStopped(s, e, len)
    \/ PostSrbNoAddress(s, e, len)

Abort ==
  \E a \in AbortSrb :
    \/ \E e \in Ext : AbortCommand(a, e)
    \/ AbortReturns(a)
    \/ AbortCommandStopped(a)

KernelThread(t) ==
  \/ StartProcessingSrb(t)
  \/ StartProcessingEmpty(t)
  \/ StartProcessingStopped(t)
  \/ CheckStopped(t)

UserThread(t) ==
  \/ TransactRequest(t)
  \/ ExitThread(t)
  \/ \E r \in owed : TransactResponse(t, r)

Next ==
  \/ StartIo
  \/ \E t \in Thread : Wake(t) \/ CancelWait(t) \/ KernelThread(t) \/ UserThread(t)
  \/ \E r \in owed : SendResponse(r)
  \/ Abort
  \/ Reset
  \/ Stop

Spec == Init /\ [][Next]_vars

\* Fairness.  The scheduler runs a thread inside the driver until it returns
\* and hands a set event to some waiter; a thread of the dispatcher does not
\* stay outside the kernel for ever; user mode answers what it was given; and
\* once every thread of the process is gone the process notify routine
\* unprovisions the unit.  Resets, aborts and new SRB's are not assumed.
ProcessExit ==
  /\ \A t \in Thread : pc[t] = "gone"
  /\ Stop

Fairness ==
  /\ WF_vars(\E t \in Thread : Wake(t))
  /\ \A t \in Thread : WF_vars(KernelThread(t)) /\ WF_vars(UserThread(t))
  /\ \A e \in Ext : WF_vars(\E r \in owed : r.hint = e /\ SendResponse(r))
  /\ WF_vars(ProcessExit)

FairSpec == Spec /\ Fairness

-----------------------------------------------------------------------------
(***************************************************************************)
(* Properties                                                              *)
(***************************************************************************)

\* Every variable has its type: the lists hold extension addresses, the
\* extension fields point to SRB's and extensions or are null.
TypeOK ==
  /\ Stopped \in BOOLEAN
  /\ PendingEvent \in BOOLEAN
  /\ PendingList \in Seq(Ext)
  /\ ProcessList \in SUBSET Ext
  /\ ProcessBuckets \in [Bucket -> Seq(Ext)]
  /\ ExtSrb \in [Ext -> Srb \cup {NULL}]
  /\ HashNext \in [Ext -> Ext \cup {NULL}]
  /\ SystemDataLength \in [Ext -> Nat]
  /\ ChunkOffset \in [Ext -> Nat]
  /\ srbLength \in [Srb -> Nat]
  /\ srbExt \in [Srb -> Ext \cup {NULL}]
  /\ srbStatus \in [Srb -> {"idle", "pending"} \cup Final]
  /\ completions \in [Srb -> Nat]
  /\ abortStatus \in [AbortSrb -> Seq({"ABORTED", "ABORT_FAILED", "SUCCESS"})]
  /\ pc \in [Thread -> {"user", "waiting", "woken", "check", "gone"}]
  /\ owed \in SUBSET Request
  /\ acked \in [Srb -> SUBSET Nat]

\* No SCSI SRB is completed twice, however responses, resets, abort commands
\* and a stop race (SpdSrbComplete in ioq.c and in SpdHwStartIo), and one that
\* is still pending has not been completed at all.  Abort SRB's are the subject
\* of AbortCompletedOnce.
CompletedOnce ==
  \A s \in Srb : completions[s] = IF srbStatus[s] \in Final THEN 1 ELSE 0

\* What SpdIoqCancelSrb takes for granted with ASSERT(Srb == SrbExtension->Srb)
\* and with its own SpdSrbComplete: that it is given a queued SRB, which nobody
\* else completes.  It is given the abort SRB, so the abort SRB would have to be
\* completed once.
AbortCompletedOnce == \A a \in AbortSrb : Len(abortStatus[a]) <= 1

\* No SRB is lost or aliased: an SRB that Storport was told is pending is on
\* exactly one of the two lists, at its own extension, and everything on a
\* list is such an SRB.
QueuedExactlyPending ==
  /\ \A s \in Srb : srbStatus[s] = "pending" =>
       srbExt[s] \in Queued /\ ExtSrb[srbExt[s]] = s
  /\ \A e \in Queued :
       ExtSrb[e] \in Srb /\ srbStatus[ExtSrb[e]] = "pending"
         /\ srbExt[ExtSrb[e]] = e
  /\ ToSet(PendingList) \cap ProcessList = {}
  /\ IsInjective(PendingList)

\* Following h from the first element of c visits c and ends.
Linked(c, h) ==
  \A i \in DOMAIN c : h[c[i]] = IF i = Len(c) THEN NULL ELSE c[i + 1]

\* The hash buckets index exactly ProcessList, and following HashNext from a
\* bucket visits the bucket's entries and ends: a response finds its SRB if
\* and only if it is being processed.
BucketsIndexProcessList ==
  \A b \in Bucket :
    LET c == ProcessBuckets[b]
    IN  /\ ToSet(c) = {e \in ProcessList : Hash[e] = b}
        /\ IsInjective(c)
        /\ Linked(c, HashNext)

\* No wake-up is lost: while SRB's wait, or the queue is stopped and waiters
\* have to leave, the event is set or a thread that consumed it is on its way
\* to the lock.
NoLostWakeup ==
  PendingList # <<>> \/ Stopped =>
    PendingEvent \/ \E t \in Thread : pc[t] = "woken"

\* An SRB that has been started, and waits for its next chunk, is ahead of
\* every SRB that has not.
StartedFirst ==
  \A i, j \in DOMAIN PendingList :
    i < j /\ ChunkOffset[PendingList[j]] > 0 => ChunkOffset[PendingList[i]] > 0

\* SRB's are handed out first come, first served: no step lets an SRB pass
\* one that was ahead of it and stays pending, be it by starting it earlier or
\* by moving it; a newly posted SRB goes behind all that stay pending; and the
\* chunks of a split SRB are not interleaved with new work.
NoOvertaking ==
  [][StartedFirst' /\ \A i \in DOMAIN PendingList :
       LET a == PendingList[i]
           Behind(b) == Position(PendingList', a) < Position(PendingList', b)
           New == ToSet(PendingList') \ ToSet(PendingList)
       IN  a \in ToSet(PendingList') =>
             /\ \A j \in DOMAIN PendingList : i < j =>
                  /\ PendingList[j] \notin ProcessList'
                  /\ PendingList[j] \in ToSet(PendingList') =>
                       Behind(PendingList[j])
             /\ \A b \in New : ChunkOffset'[b] = 0 => Behind(b)]_vars

\* An extension is tainted when an SRB that used it was aborted: user mode may
\* still hold a request with its address as the hint.
Tainted(e) == \E s \in Srb : srbExt[s] = e /\ srbStatus[s] = "ABORTED"

\* What user mode owes is what the queue expects: a request it holds for an
\* untainted extension is for the SRB being processed there and for the chunk
\* that is due, so its response cannot complete another SRB or chunk.
OwedIsCurrent ==
  \A r \in owed : ~Tainted(r.hint) /\ ~Stopped =>
    /\ r.hint \in ProcessList
    /\ ExtSrb[r.hint] = r.srb
    /\ r.offset = ChunkOffset[r.hint] /\ r.length = ChunkLength(r.hint)

\* A split transfer that succeeds has had every block served by a response to
\* that very SRB, unless an abort tainted its extension; and what is still owed
\* to it is the chunk that is due.
SuccessCoversTransfer ==
  /\ OwedIsCurrent
  /\ \A s \in Srb : srbStatus[s] = "SUCCESS" /\ ~Tainted(srbExt[s]) =>
       acked[s] = 0 .. (srbLength[s] - 1)

\* ASSERT(0 == SrbExtension->HashNext) in SpdIoqStartProcessingSrb: the SRB
\* that a woken thread is about to link into a bucket has no successor left
\* over from an earlier stay in one.
HashNextClear ==
  (\E t \in Thread : pc[t] = "woken") /\ ~Stopped /\ PendingList # <<>> =>
    HashNext[Head(PendingList)] = NULL

\* Once stopped, the queue stays stopped and empty.
StaysStopped == [][Stopped => Stopped' /\ Queued' = {}]_vars

\* Every SRB Storport is told is pending is eventually completed.
PendingCompletes ==
  \A s \in Srb : srbStatus[s] = "pending" ~> srbStatus[s] \in Final

\* A stop eventually releases every thread that waits for an SRB.
StopReleasesWaiters ==
  \A t \in Thread : Stopped /\ pc[t] = "waiting" ~> pc[t] # "waiting"

\* The queue implements the service it is meant to provide to Storport.
Service == INSTANCE SrbService
             WITH status <- srbStatus, stopped <- Stopped
ServiceSpec == Service!Spec
=============================================================================
