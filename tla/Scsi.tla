-------------------------------- MODULE Scsi --------------------------------
(***************************************************************************)
(* The SCSI command layer of the driver (src/sys/scsi.c): what a command   *)
(* descriptor block asks for, which commands are refused, what a unit      *)
(* reports about itself, and how a transfer is cut into requests of at     *)
(* most MaxTransferLength bytes.                                           *)
(*                                                                         *)
(* The operators are functions of the parameters p of the unit and of the  *)
(* command.  W8, W16, W21, W32 and W64 stand for 2^8, 2^16, 2^21, 2^32 and *)
(* 2^64, so that a small instance has the overflows of the real widths.    *)
(***************************************************************************)
EXTENDS Integers, Sequences, FiniteSetsExt

CONSTANTS
  W8, W16, W21, W32, W64,
  DescriptorLength,        \* sizeof(UNMAP_BLOCK_DESCRIPTOR)
  HeaderLength,            \* sizeof(UNMAP_LIST_HEADER)
  NULL

ASSUME ScsiAssumption ==
  /\ {W8, W16, W21, W32, W64, DescriptorLength, HeaderLength} \subseteq Nat \ {0}
  /\ W8 <= W16 /\ W16 <= W21 /\ W21 <= W32 /\ W32 < W64

\* StorageUnitParams that SpdIoctlProvision accepts.
ValidParams(p) ==
  /\ p.BlockCount \in 1 .. (W64 - 1)
  /\ p.BlockLength \in DescriptorLength .. (W32 - 1)
  /\ p.MaxTransferLength \in 1 .. (W32 - 1)
  /\ p.MaxTransferLength % p.BlockLength = 0

-----------------------------------------------------------------------------
(***************************************************************************)
(* Commands                                                                *)
(***************************************************************************)

\* The formats of the commands that name a range, with the widths of the
\* fields, and the commands that only report.
Format ==
  [READ6 |-> 6, READ10 |-> 10, READ12 |-> 12, READ16 |-> 16,
   WRITE6 |-> 6, WRITE10 |-> 10, WRITE12 |-> 12, WRITE16 |-> 16,
   SYNCHRONIZE_CACHE10 |-> 10, SYNCHRONIZE_CACHE16 |-> 16]
Reads == {"READ6", "READ10", "READ12", "READ16"}
Writes == {"WRITE6", "WRITE10", "WRITE12", "WRITE16"}
Syncs == {"SYNCHRONIZE_CACHE10", "SYNCHRONIZE_CACHE16"}
Ranges == Reads \cup Writes \cup Syncs
Reports == {"INQUIRY", "SUPPORTED_PAGES", "SERIAL_NUMBER", "DEVICE_IDENTIFIERS",
            "BLOCK_LIMITS", "LOGICAL_BLOCK_PROVISIONING", "MODE_SENSE6", "MODE_SENSE10",
            "READ_CAPACITY10", "READ_CAPACITY16", "REPORT_LUNS"}

AddressFields(op) == CASE Format[op] = 6 -> 0 .. (W21 - 1)
                       [] Format[op] \in {10, 12} -> 0 .. (W32 - 1)
                       [] Format[op] = 16 -> 0 .. (W64 - 1)
CountFields(op) == CASE Format[op] = 6 -> 0 .. (W8 - 1)
                     [] Format[op] = 10 -> 0 .. (W16 - 1)
                     [] Format[op] \in {12, 16} -> 0 .. (W32 - 1)

\* SpdCdbGetRange
CdbGetRange(cdb) ==
  [address |-> cdb.address,
   count |-> IF Format[cdb.op] = 6 /\ cdb.count = 0 THEN W8 ELSE cdb.count,
   fua |-> Format[cdb.op] # 6 /\ cdb.fua]

\* The blocks of a range, if they are not too many to count.
Blocks(r) == r.address .. (r.address + r.count - 1)

\* SpdScsiErrorEx: a status with sense data, which are lost if there is no buffer
\* for them.  A 64-bit Information is cut to 32 bits.
SenseError(key, asc, info, autosense) ==
  [status |-> "ERROR",
   sense |-> IF autosense THEN <<key, asc, IF info = NULL THEN NULL ELSE info % W32>> ELSE NULL]
Status(s) == [status |-> s, sense |-> NULL]

\* The first of the checks <<condition, result>> that applies.
FirstOf(checks, default) ==
  LET hits == {i \in DOMAIN checks : checks[i][1]}
  IN  IF hits = {} THEN default ELSE checks[Min(hits)][2]

-----------------------------------------------------------------------------
(***************************************************************************)
(* SpdScsiPostRangeSrb and SpdScsiPostUnmapSrb                             *)
(***************************************************************************)

\* EndBlockAddress does not wrap around and is not behind the end of the unit.
\* Faulty variant: off by one.
InUnit_OffByOne(p, r) == r.address + r.count < W64 /\ r.address + r.count - 1 <= p.BlockCount
InUnit(p, r) ==
  LET EndBlockAddress == (r.address + r.count) % W64
  IN  ~(EndBlockAddress < r.address) /\ EndBlockAddress <= p.BlockCount

\* DataLength is computed in 32 bits.
RangeDataLength(p, cdb) ==
  IF cdb.op \in Syncs THEN 0 ELSE (CdbGetRange(cdb).count * p.BlockLength) % W32

\* What becomes of a command with a buffer of len bytes: a final status, or
\* "POST" if it goes to the queue.
CheckRange(p, cdb, len, a) ==
  LET r == CdbGetRange(cdb)
  IN  FirstOf(<< <<cdb.op \in Syncs /\ ~p.CacheSupported, Status("INVALID_REQUEST")>>,
                 <<cdb.op \notin Reads /\ p.WriteProtected,
                   SenseError("DATA_PROTECT", "WRITE_PROTECT", NULL, a)>>,
                 <<len < RangeDataLength(p, cdb), Status("INTERNAL_ERROR")>>,
                 <<r.count = 0, Status("SUCCESS")>>,
                 <<~InUnit(p, r), SenseError("ILLEGAL_REQUEST", "ILLEGAL_BLOCK", NULL, a)>> >>,
              Status("POST"))

\* A list says that it is "length" bytes long; the descriptors are counted by it.
UnmapCount(list) == list.length \div DescriptorLength
CheckUnmap(p, cdb, list, len, a) ==
  FirstOf(<< <<~p.UnmapSupported, Status("INVALID_REQUEST")>>,
             <<p.WriteProtected, SenseError("DATA_PROTECT", "WRITE_PROTECT", NULL, a)>>,
             <<len < HeaderLength + list.length, Status("INTERNAL_ERROR")>>,
             <<list.length > p.MaxTransferLength,
               SenseError("ILLEGAL_REQUEST", "INVALID_FIELD_PARAMETER_LIST", NULL, a)>>,
             <<cdb.anchor, SenseError("ILLEGAL_REQUEST", "INVALID_CDB", NULL, a)>>,
             <<list.length = 0, Status("SUCCESS")>>,
             <<\E i \in 1 .. UnmapCount(list) : ~InUnit(p, list.descriptors[i]),
               SenseError("ILLEGAL_REQUEST", "ILLEGAL_BLOCK", NULL, a)>> >>,
          Status("POST"))

-----------------------------------------------------------------------------
(***************************************************************************)
(* SpdScsiInquiry, SpdScsiModeSense, SpdScsiReadCapacity, SpdScsiReportLuns *)
(***************************************************************************)

\* The buffer is missing, too small for the data, or fits; the page is known.
CheckReport(buffer, known, a) ==
  FirstOf(<< <<buffer = "none", Status("INTERNAL_ERROR")>>,
             <<~known, SenseError("ILLEGAL_REQUEST", "INVALID_CDB", NULL, a)>>,
             <<buffer = "small", Status("DATA_OVERRUN")>> >>,
          Status("SUCCESS"))

\* The numbers that are reported.
ReadCapacity10(p) == IF W32 > p.BlockCount THEN (p.BlockCount - 1) % W32 ELSE W32 - 1
ReadCapacity16(p) == (p.BlockCount - 1) % W64
BlockLimits(p) ==
  [MaximumTransferLength |-> p.MaxTransferLength \div p.BlockLength,
   MaximumUnmapLBACount |-> IF p.UnmapSupported THEN W32 - 1 ELSE 0,
   MaximumUnmapBlockDescriptorCount |->
     IF p.UnmapSupported THEN p.MaxTransferLength \div DescriptorLength ELSE 0]
ModeSense(p) ==
  [WriteProtect |-> p.WriteProtected, FuaSupported |-> p.CacheSupported,
   WriteCacheEnable |-> p.CacheSupported]

-----------------------------------------------------------------------------
(***************************************************************************)
(* SpdScsiPostSrb, SpdSrbExecuteScsiPrepare and SpdSrbExecuteScsiComplete  *)
(***************************************************************************)

\* The fields of the SRB extension that a posted command starts with.
NewExtension(length) == [SystemDataLength |-> length, ChunkOffset |-> 0]

\* Faulty variant: the length is not limited.
ChunkLength_All(p, e) == e.SystemDataLength - e.ChunkOffset
ChunkLength(p, e) ==
  LET rest == e.SystemDataLength - e.ChunkOffset
  IN  IF rest > p.MaxTransferLength THEN p.MaxTransferLength ELSE rest

\* Where the chunk begins.  Faulty variant: every chunk begins at the start.
ChunkStart_First(p, e) == 0
ChunkStart(p, e) == e.ChunkOffset \div p.BlockLength

\* A unit without a cache is always told to write through.  Faulty variant: it
\* is told what the command says.
ForceUnitAccess_AsTold(p, r) == r.fua
ForceUnitAccess(p, r) == IF p.CacheSupported THEN r.fua ELSE TRUE

PrepareRange(p, cdb, e) ==
  LET r == CdbGetRange(cdb)
  IN  IF cdb.op \in Syncs
      THEN [kind |-> "flush", address |-> r.address, count |-> r.count, fua |-> FALSE,
            descriptors |-> <<>>]
      ELSE [kind |-> IF cdb.op \in Reads THEN "read" ELSE "write",
            address |-> (r.address + ChunkStart(p, e)) % W64,
            count |-> ChunkLength(p, e) \div p.BlockLength,
            fua |-> ForceUnitAccess(p, r), descriptors |-> <<>>]
PrepareUnmap(list, e) ==
  [kind |-> "unmap", address |-> 0, count |-> e.SystemDataLength \div DescriptorLength,
   fua |-> FALSE,
   descriptors |-> SubSeq(list.descriptors, 1, e.SystemDataLength \div DescriptorLength)]

\* After a good response: whether there are more chunks to come.
Advance(p, e) == [e EXCEPT !.ChunkOffset = @ + ChunkLength(p, e)]
IsDone(e) == e.ChunkOffset >= e.SystemDataLength
=============================================================================
