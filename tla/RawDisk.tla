------------------------------ MODULE RawDisk ------------------------------
(***************************************************************************)
(* A storage unit from the command to the medium: the SCSI layer of the    *)
(* driver (module Scsi) with the rawdisk storage unit (tst/rawdisk), which *)
(* keeps its blocks in a file that it maps into memory.                    *)
(*                                                                         *)
(* The initiator has one SRB outstanding; one request of an SRB that was   *)
(* aborted may still be with the process, and is served late.  Module Ioq  *)
(* has the queue between the driver and the process and many SRBs.         *)
(*                                                                         *)
(* A block is the unit of content.  The i-th block of the buffer of every  *)
(* write holds i, a block that was never written holds 0, and MBR is the   *)
(* partition table.  The operating system keeps what is written to the     *)
(* mapping (view) when the process dies, writes it back to the medium      *)
(* (file) when it likes, and loses what it has not when the power fails.   *)
(***************************************************************************)
EXTENDS Scsi

CONSTANTS
  ParamSet,        \* the parameters that a unit may be created with
  Commands,        \* the commands that the initiator sends
  PageLength,      \* 4096, where the partition begins
  MBR

ASSUME RawDiskAssumption ==
  /\ \A p \in ParamSet : ValidParams(p) /\ p.BlockCount * p.BlockLength < W64
  /\ \A p \in ParamSet : W32 % p.BlockLength = 0
  /\ \A p \in ParamSet : {p.WriteProtected, p.CacheSupported, p.UnmapSupported} \subseteq BOOLEAN
  /\ \A p, q \in ParamSet : p.BlockCount = q.BlockCount => p.BlockLength = q.BlockLength
  /\ \A c \in Commands : c.op \in Ranges =>
       c.address \in AddressFields(c.op) /\ c.count \in CountFields(c.op)
  /\ \A c \in Commands : c.op = "UNMAP" =>
       /\ c.list.length \in 0 .. (W16 - 1)
       /\ c.list.descriptors \in Seq([address : 0 .. (W64 - 1), count : 0 .. (W32 - 1)])
       /\ UnmapCount(c.list) <= Len(c.list.descriptors)
  /\ PageLength \in Nat \ {0}
  /\ NULL \notin ParamSet \cup [SystemDataLength : Nat, ChunkOffset : Nat]

VARIABLES
  params,          \* StorageUnitParams of the unit, NULL if there is none
  view, file,      \* what the mapping and what the medium hold, by block
  srb,             \* the initiator's SRB: the command in progress, NULL if it is
                   \* returned; status, sense data and buffer
  ext,             \* its SRB extension, NULL if it is not in the queue
  req, rsp,        \* the request that the process serves, and its response
  late,            \* a request of an aborted SRB that the process still serves
  spoiled,         \* history: blocks of late requests served since the SRB came
  durable          \* history: blocks whose content the unit has promised to keep

vars == <<params, view, file, srb, ext, req, rsp, late, spoiled, durable>>
unit == <<req, rsp, late>>

Pending == srb.status = "PENDING"
Returned(status, sense, buffer) ==
  [cmd |-> NULL, status |-> status, sense |-> sense, buffer |-> buffer]
Returns(status, sense) ==
  srb' = Returned(status, sense, srb.buffer) /\ ext' = NULL /\ spoiled' = {}

-----------------------------------------------------------------------------
(***************************************************************************)
(* RawDiskCreate, RawDiskDelete and the ways in which a unit is lost       *)
(***************************************************************************)

\* The partition that RawDiskCreate asks for, and what SpdDefinePartitionTable
\* makes of it: the table holds 32-bit numbers.
Partition(p) ==
  LET first == IF PageLength >= p.BlockLength THEN PageLength \div p.BlockLength ELSE 1
  IN  [BlockAddress |-> first, BlockCount |-> (p.BlockCount - first) % W64]
DefinePartitionTable(part) ==
  LET EndBlockAddress == (part.BlockAddress + part.BlockCount) % W64
  IN  ~(EndBlockAddress <= part.BlockAddress \/ EndBlockAddress > W32 - 1)

NewFile(p) == [b \in 0 .. (p.BlockCount - 1) |-> 0]
Formatted(p) == IF DefinePartitionTable(Partition(p)) THEN [NewFile(p) EXCEPT ![0] = MBR]
                                                      ELSE NewFile(p)

\* An empty file gets its size and a partition table, whose flush may fail; a file
\* of another size is refused.  SpdStorageUnitCreate may fail after that.
Create(p) ==
  /\ params = NULL
  /\ \/ DOMAIN view = {} /\ view' = Formatted(p) /\ file' \in {NewFile(p), Formatted(p)}
     \/ DOMAIN view = DOMAIN NewFile(p) /\ UNCHANGED <<view, file>>
  /\ params' \in {p, NULL}
  /\ UNCHANGED <<srb, ext, unit, spoiled, durable>>

\* The unit is unprovisioned: its queue is stopped and its SRB aborted.
Unprovision ==
  /\ params' = NULL
  /\ IF Pending THEN Returns("ABORTED", NULL) ELSE UNCHANGED <<srb, ext, spoiled>>
  /\ req' = NULL /\ rsp' = NULL /\ late' = NULL
  /\ UNCHANGED durable

\* RawDiskDelete, when the threads of the dispatcher are gone; whether the flush
\* fails is not looked at.
Delete ==
  /\ params # NULL /\ req = NULL /\ late = NULL
  /\ Unprovision
  /\ file' \in {view, file} /\ UNCHANGED view

\* The process dies; the mapping is with the operating system.
Kill == params # NULL /\ Unprovision /\ UNCHANGED <<view, file>>

PowerLoss == Unprovision /\ view' = file /\ UNCHANGED file
WriteBack(b) ==
  /\ file' = [file EXCEPT ![b] = view[b]]
  /\ UNCHANGED <<params, view, srb, ext, unit, spoiled, durable>>

-----------------------------------------------------------------------------
(***************************************************************************)
(* SpdSrbExecuteScsi                                                       *)
(***************************************************************************)

DataLength(p, c) == CASE c.op \in Ranges -> RangeDataLength(p, c)
                      [] c.op = "UNMAP" -> c.list.length
                      [] OTHER -> 0
\* The length of the initiator's buffer, which need not be what the command needs.
BufferLength(p, c) ==
  LET needed == DataLength(p, c) + (IF c.op = "UNMAP" THEN HeaderLength ELSE 0)
  IN  CASE c.buffer = "none" -> 0
        [] c.buffer = "small" -> Max({0, needed - 1})
        [] OTHER -> needed

Check(p, c) ==
  CASE p = NULL -> IF c.op = "REPORT_LUNS" THEN CheckReport(c.buffer, TRUE, c.autosense)
                                           ELSE Status("NO_DEVICE")
    [] p # NULL /\ c.op = "TEST_UNIT_READY" -> Status("SUCCESS")
    [] p # NULL /\ c.op \in Reports -> CheckReport(c.buffer, c.known, c.autosense)
    [] p # NULL /\ c.op \in Ranges -> CheckRange(p, c, BufferLength(p, c), c.autosense)
    [] p # NULL /\ c.op = "UNMAP" -> CheckUnmap(p, c, c.list, BufferLength(p, c), c.autosense)
    [] OTHER -> Status("INVALID_REQUEST")

\* SpdScsiPostSrb: the buffer has no system address, the queue is stopped, or the
\* SRB is posted.
PostSrb(p, c) ==
  {[status |-> "ABORTED", ext |-> NULL],
   [status |-> "PENDING", ext |-> NewExtension(DataLength(p, c))]} \cup
  (IF DataLength(p, c) # 0 THEN {[status |-> "INTERNAL_ERROR", ext |-> NULL]} ELSE {})

Posted(c) ==
  [cmd |-> c, status |-> "PENDING", sense |-> NULL,
   buffer |-> IF c.op \in Reads
              THEN [i \in 1 .. (DataLength(params, c) \div params.BlockLength) |-> NULL]
              ELSE <<>>]

Execute(c) ==
  /\ ~Pending
  /\ LET done == Check(params, c)
     IN  \/ /\ done.status # "POST"
            /\ srb' = Returned(done.status, done.sense, <<>>)
            /\ ext' = NULL
         \/ /\ done.status = "POST"
            /\ \E post \in PostSrb(params, c) :
                 /\ srb' = IF post.ext = NULL THEN Returned(post.status, NULL, <<>>) ELSE Posted(c)
                 /\ ext' = post.ext
  /\ spoiled' = {}
  /\ UNCHANGED <<params, view, file, unit, durable>>

\* SpdSrbExecuteScsiPrepare.  The data of a write is copied to the request.
Prepare ==
  /\ Pending /\ req = NULL /\ rsp = NULL
  /\ req' = LET r == IF srb.cmd.op = "UNMAP" THEN PrepareUnmap(srb.cmd.list, ext)
                                             ELSE PrepareRange(params, srb.cmd, ext)
            IN  [request |-> r,
                 data |-> [j \in 1 .. r.count |-> (ext.ChunkOffset \div params.BlockLength) + j]]
  /\ UNCHANGED <<params, view, file, srb, ext, rsp, late, spoiled, durable>>

-----------------------------------------------------------------------------
(***************************************************************************)
(* Read, Write, Flush and Unmap of rawdisk                                 *)
(***************************************************************************)

Good(data) == [good |-> TRUE, data |-> data, ASC |-> NULL, Information |-> NULL]
MediumError(asc, info) == [good |-> FALSE, data |-> <<>>, ASC |-> asc, Information |-> info]

\* CopyBuffer: the first k blocks of the data are copied to address a.
Copied(v, a, data, k) ==
  [b \in DOMAIN v |-> IF b - a + 1 \in 1 .. k THEN data[b - a + 1] ELSE v[b]]
\* CopyBuffer failed at block b: the address of the fault may be known.
CopyErrors(asc, b) == {MediumError(asc, b), MediumError(asc, NULL)}

\* FlushInternal: FlushViewOfFile takes a 32-bit length, and flushes to the end
\* of the view if it is zero.
FlushInternal(v, r) ==
  LET n == ((r.count * params.BlockLength) % W32) \div params.BlockLength
  IN  [b \in DOMAIN file |->
         IF b >= r.address /\ (n = 0 \/ b < r.address + n) THEN v[b] ELSE file[b]]
FlushError == MediumError("WRITE_ERROR", NULL)

ReadData(r) == IF r.request.kind = "read"
               THEN [j \in 1 .. r.request.count |-> view[r.request.address + j - 1]] ELSE <<>>
Read(r, out) ==
  /\ view' = view
  /\ \/ /\ file' = IF r.request.fua THEN FlushInternal(view, r.request) ELSE file
        /\ out \in {Good(ReadData(r))} \cup
                   UNION {CopyErrors("UNRECOVERED_ERROR", b) : b \in Blocks(r.request)}
     \/ r.request.fua /\ file' = file /\ out = FlushError
Write(r, out) ==
  \/ \E k \in 0 .. (r.request.count - 1) :
       /\ view' = Copied(view, r.request.address, r.data, k) /\ file' = file
       /\ out \in CopyErrors("WRITE_ERROR", r.request.address + k)
  \/ /\ view' = Copied(view, r.request.address, r.data, r.request.count)
     /\ \/ ~r.request.fua /\ file' = file /\ out = Good(<<>>)
        \/ r.request.fua /\ file' = FlushInternal(view', r.request) /\ out = Good(<<>>)
        \/ r.request.fua /\ file' = file /\ out = FlushError
Flush(r, out) ==
  /\ view' = view
  /\ \/ file' = FlushInternal(view, r.request) /\ out = Good(<<>>)
     \/ file' = file /\ out = FlushError
\* Every descriptor is zeroed as far as it goes; failures are not reported.
Unmap(r, out) ==
  LET ds == r.request.descriptors
  IN  /\ \E n \in [DOMAIN ds -> UNION {0 .. ds[i].count : i \in DOMAIN ds}] :
           /\ \A i \in DOMAIN ds : n[i] <= ds[i].count
           /\ view' = [b \in DOMAIN view |->
                IF \E i \in DOMAIN ds : b - ds[i].address \in 0 .. (n[i] - 1) THEN 0 ELSE view[b]]
      /\ file' = file /\ out = Good(<<>>)

Serves(r, out) == CASE r.request.kind = "read" -> Read(r, out)
                    [] r.request.kind = "write" -> Write(r, out)
                    [] r.request.kind = "flush" -> Flush(r, out)
                    [] r.request.kind = "unmap" -> Unmap(r, out)

\* The blocks that a request or a command names.
Union(descriptors) == UNION {Blocks(descriptors[i]) : i \in DOMAIN descriptors}
RequestBlocks(r) == IF r.request.kind = "unmap" THEN Union(r.request.descriptors)
                                                ELSE Blocks(r.request)
CommandBlocks(c) == CASE c.op \in Ranges -> Blocks(CdbGetRange(c))
                      [] c.op = "UNMAP" -> Union(c.list.descriptors)
                      [] OTHER -> {}

\* What the process can answer.
Responses(r) ==
  {Good(ReadData(r))} \cup
  UNION {CopyErrors(asc, b) : asc \in {"WRITE_ERROR", "UNRECOVERED_ERROR"}, b \in DOMAIN view}

Changed == {b \in DOMAIN view : view'[b] # view[b]}

Serve ==
  /\ req # NULL /\ rsp = NULL
  /\ \E out \in Responses(req) : Serves(req, out) /\ rsp' = out
  /\ durable' = durable \ Changed
  /\ UNCHANGED <<params, srb, ext, req, late, spoiled>>
\* The response finds no SRB with its hint and is dropped.
ServeLate ==
  /\ late # NULL
  /\ \E out \in Responses(late) : Serves(late, out)
  /\ late' = NULL
  /\ spoiled' = IF Pending THEN spoiled \cup RequestBlocks(late) ELSE spoiled
  /\ durable' = durable \ Changed
  /\ UNCHANGED <<params, srb, ext, req, rsp>>

-----------------------------------------------------------------------------
(***************************************************************************)
(* SpdSrbExecuteScsiComplete, and SpdIoqReset of the queue                 *)
(***************************************************************************)

\* 32-bit transfers that do not overflow.
Fits(p, c) == CdbGetRange(c).count * p.BlockLength < W32

\* The blocks of a range that FlushViewOfFile is told of: the 32-bit length wraps
\* around, and zero stands for all that follow.
Flushed(p, r) ==
  LET n == ((r.count * p.BlockLength) % W32) \div p.BlockLength
  IN  {b \in Blocks(r) : n = 0 \/ b < r.address + n}

\* The blocks that a command that has been served leaves on the medium: those of
\* reads and writes with FUA, or of a unit without a cache, if the transfer fits,
\* and those of SYNCHRONIZE CACHE as far as the length that is passed on goes.  A
\* command for 0 blocks is not served, although SYNCHRONIZE CACHE means all blocks
\* up to the end of the unit by that.
Promised(p, c) ==
  CASE c.op \in Syncs -> Flushed(p, CdbGetRange(c))
    [] c.op \in Reads \cup Writes /\ Fits(p, c)
         /\ (~p.CacheSupported \/ (Format[c.op] # 6 /\ c.fua)) -> CommandBlocks(c)
    [] OTHER -> {}

\* The chunk that the response brings goes to its place in the buffer.
Filled(buffer, data, e) ==
  LET first == e.ChunkOffset \div params.BlockLength
  IN  [i \in DOMAIN buffer |->
         IF i \in (first + 1) .. (first + Len(data)) THEN data[i - first] ELSE buffer[i]]

Complete ==
  /\ rsp # NULL
  /\ \/ /\ ~rsp.good
        /\ LET e == SenseError("MEDIUM_ERROR", rsp.ASC, rsp.Information, srb.cmd.autosense)
           IN  Returns(e.status, e.sense)
        /\ durable' = durable
     \/ /\ rsp.good /\ srb.cmd.op \in Reads \cup Writes /\ ~IsDone(Advance(params, ext))
        /\ srb' = [srb EXCEPT !.buffer = Filled(@, rsp.data, ext)]
        /\ ext' = Advance(params, ext)
        /\ UNCHANGED <<spoiled, durable>>
     \/ /\ rsp.good
        /\ srb.cmd.op \in Reads \cup Writes => IsDone(Advance(params, ext))
        /\ srb' = Returned("SUCCESS", NULL, Filled(srb.buffer, rsp.data, ext))
        /\ ext' = NULL /\ spoiled' = {}
        /\ durable' = durable \cup (Promised(params, srb.cmd) \ spoiled)
  /\ req' = NULL /\ rsp' = NULL
  /\ UNCHANGED <<params, view, file, late>>

\* SpdIoqReset(FALSE) for a reset of the bus, the device or the logical unit: the
\* SRB goes, its request stays with the process.
Reset ==
  /\ Pending
  /\ Returns("ABORTED", NULL)
  /\ req' = NULL /\ rsp' = NULL
  /\ \/ req # NULL /\ rsp = NULL /\ late = NULL /\ late' = req
     \/ (req = NULL \/ rsp # NULL) /\ late' = late
  /\ UNCHANGED <<params, view, file, durable>>

-----------------------------------------------------------------------------
Init ==
  /\ params = NULL /\ view = <<>> /\ file = <<>>
  /\ srb = Returned("SUCCESS", NULL, <<>>)
  /\ ext = NULL /\ req = NULL /\ rsp = NULL /\ late = NULL
  /\ spoiled = {} /\ durable = {}

Next ==
  \/ \E p \in ParamSet : Create(p)
  \/ Delete \/ Kill \/ PowerLoss
  \/ \E b \in DOMAIN view : WriteBack(b)
  \/ \E c \in Commands : Execute(c)
  \/ Prepare \/ Serve \/ ServeLate \/ Complete \/ Reset

Spec == Init /\ [][Next]_vars

-----------------------------------------------------------------------------
(***************************************************************************)
(* Properties                                                              *)
(***************************************************************************)

\* The variables have their types; a request never carries more data than
\* MaxTransferLength, the size of the buffer that SpdStorageUnitCreate and the
\* driver agree on (scsi.c, SpdSrbExecuteScsiPrepare), and never leaves the unit.
TypeOK ==
  /\ params \in ParamSet \cup {NULL}
  /\ DOMAIN view = DOMAIN file
  /\ srb.status \in {"PENDING", "SUCCESS", "ERROR", "ABORTED", "INTERNAL_ERROR",
                     "INVALID_REQUEST", "NO_DEVICE", "DATA_OVERRUN"}
  /\ Pending <=> ext # NULL
  /\ spoiled \cup durable \subseteq DOMAIN view
  /\ \A r \in {req, late} \ {NULL} :
       /\ RequestBlocks(r) \subseteq DOMAIN view
       /\ r.request.kind \in {"read", "write"} =>
            r.request.count * params.BlockLength <= params.MaxTransferLength
       /\ r.request.kind = "unmap" =>
            r.request.count * DescriptorLength <= params.MaxTransferLength

\* A transfer that is cut into chunks moves the right blocks: while a unit is
\* there its content changes only where the command in progress, or an aborted one
\* that is served late, names blocks, and not at all if it is write protected; a
\* READ that succeeds has returned, and a WRITE that succeeds has stored, every
\* block of its range in its place; an error that names a block names one of the
\* command's (SpdSrbExecuteScsiPrepare and Complete, rawdisk CopyBuffer, Read and
\* Write).  Ranges of 2^32 bytes and more are left out: see Fits.
TransferExact == [][
  /\ params # NULL /\ params' # NULL =>
       \A b \in Changed :
         /\ ~params.WriteProtected
         /\ \/ req # NULL /\ b \in CommandBlocks(srb.cmd)
            \/ late # NULL /\ b \in RequestBlocks(late)
  /\ Pending /\ srb'.status = "SUCCESS" /\ srb.cmd.op \in Reads \cup Writes
     /\ Fits(params, srb.cmd) =>
       \A b \in CommandBlocks(srb.cmd) \ spoiled :
         view[b] = IF srb.cmd.op \in Reads THEN srb'.buffer[b - srb.cmd.address + 1]
                                           ELSE b - srb.cmd.address + 1
  /\ Pending /\ srb'.sense # NULL /\ srb'.sense[3] # NULL =>
       \E b \in CommandBlocks(srb.cmd) : srb'.sense[3] = b % W32]_vars

\* What a unit has promised to keep survives a power failure, however the command
\* was cut into requests and whatever failed before: the blocks of a WRITE with FUA
\* and of every WRITE to a unit without a cache, below 2^32 bytes, and the blocks of
\* a SYNCHRONIZE CACHE that the wrapped length of FlushInternal covers (Promised;
\* all of them if it is a multiple of 2^32) are on the medium from the command's
\* completion until they are written again (scsi.c, ForceUnitAccess; rawdisk
\* FlushInternal).  SyncComplete says what SYNCHRONIZE CACHE should promise.
PromiseKept == \A b \in durable : file[b] = view[b]

\* README.md:34 on Flush: "flush any cached block data at the specified LBA".  When
\* a SYNCHRONIZE CACHE that went to the process succeeds every block of its range is
\* on the medium, unless a late request has written it since.
SyncComplete ==
  [][Pending /\ srb'.status = "SUCCESS" /\ srb.cmd.op \in Syncs =>
       \A b \in CommandBlocks(srb.cmd) \ spoiled : file[b] = view[b]]_vars

\* What the driver says of a unit is what it does: the last block it reports is the
\* last one it accepts, a transfer of the maximum length is one request, an UNMAP list
\* of the maximum length is accepted and a longer one is not, writes are refused if
\* write protection is reported; the partition that rawdisk writes lies in the unit.
ReportsHold ==
  params # NULL =>
       LET p == params
           read(a) == [op |-> "READ16", address |-> a, count |-> 1, fua |-> FALSE]
           write == [op |-> "WRITE16", address |-> 0, count |-> 1, fua |-> FALSE]
           max == BlockLimits(p).MaximumTransferLength * p.BlockLength
           list(n) == [length |-> n * DescriptorLength,
                       descriptors |-> [i \in 1 .. n |-> [address |-> 0, count |-> 1]]]
           accepts(n) == CheckUnmap(p, [anchor |-> FALSE], list(n),
                                    HeaderLength + n * DescriptorLength, TRUE).status = "POST"
           n == BlockLimits(p).MaximumUnmapBlockDescriptorCount
       IN  /\ \A a \in 0 .. (W64 - 1) :
                CheckRange(p, read(a), p.BlockLength, TRUE).status = "POST"
                  <=> a <= ReadCapacity16(p)
           /\ ReadCapacity10(p) = ReadCapacity16(p) \/ ReadCapacity10(p) = W32 - 1
           /\ ChunkLength(p, NewExtension(max)) = max
           /\ ModeSense(p).WriteProtect
                <=> CheckRange(p, write, p.BlockLength, TRUE).status # "POST"
           /\ n > 0 /\ ~p.WriteProtected => accepts(n) /\ ~accepts(n + 1)
           /\ DefinePartitionTable(Partition(p)) =>
                Blocks([address |-> Partition(p).BlockAddress, count |-> Partition(p).BlockCount])
                  \subseteq DOMAIN NewFile(p)
=============================================================================
