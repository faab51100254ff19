---------------------------- MODULE RawDiskProofs ---------------------------
(***************************************************************************)
(* Proofs about the SCSI layer with the rawdisk unit (modules Scsi and     *)
(* RawDisk), for all widths of the integers, all parameters of units that  *)
(* are accepted and all commands.                                          *)
(***************************************************************************)
EXTENDS RawDisk, SequenceTheorems, TLAPS

-----------------------------------------------------------------------------
(***************************************************************************)
(* The inductive invariant                                                 *)
(***************************************************************************)

Extension == [SystemDataLength : Nat, ChunkOffset : Nat]
Transfers == Reads \cup Writes

\* A transfer counted in blocks: its length, which is cut to 32 bits, the blocks
\* that earlier chunks have moved, and the blocks of the next chunk.
Total(p, c) == DataLength(p, c) \div p.BlockLength
Moved(p, e) == e.ChunkOffset \div p.BlockLength
Chunk(p, e) == ChunkLength(p, e) \div p.BlockLength

\* A command that was accepted, and how far it is.
Accepted(p, c) ==
  /\ c \in Commands
  /\ c.op \in Ranges \cup {"UNMAP"}
  /\ p.WriteProtected => c.op \in Reads
  /\ c.op \in Ranges =>
       /\ CdbGetRange(c).count \in Nat \ {0}
       /\ c.address + CdbGetRange(c).count <= p.BlockCount
  /\ c.op = "UNMAP" =>
       /\ c.list.length <= p.MaxTransferLength
       /\ \A i \in 1 .. UnmapCount(c.list) :
            c.list.descriptors[i].address + c.list.descriptors[i].count <= p.BlockCount
InProgress(p, c, e) ==
  /\ Accepted(p, c)
  /\ e \in Extension
  /\ e.SystemDataLength = DataLength(p, c)
  /\ IF c.op \in Transfers
     THEN e.ChunkOffset = Moved(p, e) * p.BlockLength /\ e.ChunkOffset <= e.SystemDataLength
     ELSE e.ChunkOffset = 0

\* SpdSrbExecuteScsiPrepare.
Prepared(p, c, e) ==
  LET r == IF c.op = "UNMAP" THEN PrepareUnmap(c.list, e) ELSE PrepareRange(p, c, e)
  IN  [request |-> r, data |-> [j \in 1 .. r.count |-> (e.ChunkOffset \div p.BlockLength) + j]]

IsTuple(f, n) == f = [i \in 1 .. n |-> f[i]]

UnitInv ==
  /\ params \in ParamSet \cup {NULL}
  /\ DOMAIN view = DOMAIN file
  /\ params # NULL => DOMAIN view = 0 .. (params.BlockCount - 1)
  /\ params = NULL => ~Pending /\ late = NULL
  /\ spoiled \cup durable \subseteq DOMAIN view
SrbFields == {"cmd", "status", "sense", "buffer"}
SrbInv ==
  /\ DOMAIN srb = SrbFields
  /\ srb.status \in {"PENDING", "SUCCESS", "ERROR", "ABORTED", "INTERNAL_ERROR",
                     "INVALID_REQUEST", "NO_DEVICE", "DATA_OVERRUN"}
  /\ Pending => InProgress(params, srb.cmd, ext) /\ srb.sense = NULL
  /\ ~Pending => ext = NULL /\ req = NULL /\ rsp = NULL /\ spoiled = {}
  /\ Pending /\ srb.cmd.op \in Reads =>
       IsTuple(srb.buffer, Total(params, srb.cmd))
LateInv ==
  late # NULL => \E c \in Commands, e \in Extension :
    InProgress(params, c, e) /\ late = Prepared(params, c, e)
RequestInv ==
  /\ rsp # NULL => req # NULL
  /\ req # NULL => req = Prepared(params, srb.cmd, ext)
  /\ LateInv

\* The i-th block of the command's buffer holds x: it is where it should be, unless a
\* late request has written there.
Arrived(i, x) ==
  LET b == srb.cmd.address + i - 1
  IN  \/ b \in spoiled
      \/ /\ view[b] = IF srb.cmd.op \in Reads THEN x ELSE i
         /\ ForceUnitAccess(params, CdbGetRange(srb.cmd)) => file[b] = view[b]
MovedArrived ==
  srb.cmd.op \in Transfers =>
    \A i \in 1 .. Moved(params, ext) :
      Arrived(i, IF srb.cmd.op \in Reads THEN srb.buffer[i] ELSE NULL)
ResponseTrue ==
  /\ rsp.good /\ srb.cmd.op \in Transfers =>
       /\ srb.cmd.op \in Reads => IsTuple(rsp.data, Chunk(params, ext))
       /\ \A j \in 1 .. Chunk(params, ext) :
            Arrived(Moved(params, ext) + j, IF srb.cmd.op \in Reads THEN rsp.data[j] ELSE NULL)
  /\ rsp.good /\ srb.cmd.op \in Syncs =>
       \A b \in Flushed(params, CdbGetRange(srb.cmd)) \ spoiled : file[b] = view[b]
  /\ ~rsp.good => rsp.Information = NULL \/ rsp.Information \in CommandBlocks(srb.cmd)
ProgressInv ==
  /\ Pending => MovedArrived
  /\ rsp # NULL => ResponseTrue

Inv == UnitInv /\ SrbInv /\ RequestInv /\ ProgressInv /\ PromiseKept

-----------------------------------------------------------------------------
(***************************************************************************)
(* Arithmetic                                                              *)
(***************************************************************************)

LEMMA MulCancel ==
  ASSUME NEW a \in Nat, NEW b \in Nat \ {0}
  PROVE  (a * b) \div b = a
OBVIOUS

LEMMA MulOrder ==
  ASSUME NEW a \in Int, NEW c \in Int, NEW b \in Nat \ {0}
  PROVE  (a * b < c * b <=> a < c) /\ (a * b <= c * b <=> a <= c)
OBVIOUS

LEMMA MulSum ==
  ASSUME NEW a \in Int, NEW c \in Int, NEW b \in Int
  PROVE  a * b - c * b = (a - c) * b /\ a * b + c * b = (a + c) * b
OBVIOUS

LEMMA Whole ==
  ASSUME NEW a \in Nat, NEW b \in Nat \ {0}, a % b = 0
  PROVE  a = (a \div b) * b /\ a \div b \in Nat
OBVIOUS

LEMMA Division ==
  ASSUME NEW a \in Nat, NEW b \in Nat \ {0}
  PROVE  /\ a = (a \div b) * b + (a % b)
         /\ a \div b \in Nat /\ a % b \in 0 .. (b - 1)
OBVIOUS

LEMMA ModSmall ==
  ASSUME NEW a \in Nat, NEW b \in Nat \ {0}, a < b
  PROVE  a % b = a
OBVIOUS

\* A number of blocks, in bytes, is cut to a number of blocks by a width that
\* holds a whole number of them.
WholeCut(n, b, w) == \E t \in 0 .. n : (n * b) % w = t * b
LEMMA CutIsWhole ==
  ASSUME NEW n \in Nat, NEW b \in Nat \ {0}, NEW w \in Nat \ {0}, w % b = 0
  PROVE  WholeCut(n, b, w)
<1>1. PICK k \in Nat : w = k * b
  BY Whole
<1>2. PICK m \in Nat : m = n * b
  OBVIOUS
<1>3. PICK q \in Nat : q = m \div w
  BY Division
<1>4. m = q * w + (m % w) /\ m % w \in 0 .. (w - 1)
  BY <1>3, Division
<1>5. m % w = n * b - q * (k * b)
  BY <1>1, <1>2, <1>4
<1>6. q * (k * b) = (q * k) * b
  OBVIOUS
<1>7. PICK x \in Nat : x = q * k
  OBVIOUS
<1>8. m % w = (n - x) * b
  BY <1>5, <1>6, <1>7, MulSum
<1>9. n - x <= n /\ n - x \in Int
  OBVIOUS
<1>10. n - x >= 0
  <2>1. 0 * b <= (n - x) * b
    BY <1>4, <1>8
  <2> QED
    BY <1>9, <2>1, MulOrder
<1>11. PICK t : t = n - x
  OBVIOUS
<1>12. t \in 0 .. n
  BY <1>9, <1>10, <1>11
<1>13. (n * b) % w = t * b
  BY <1>2, <1>8, <1>11
<1> QED
  BY ONLY <1>12, <1>13 DEF WholeCut

-----------------------------------------------------------------------------
(***************************************************************************)
(* The order of the checks                                                 *)
(***************************************************************************)

LEMMA MinIs ==
  ASSUME NEW S \in SUBSET Int, NEW i \in S, \A j \in S : i <= j
  PROVE  Min(S) = i
<1>1. \E x \in S : \A y \in S : x =< y
  OBVIOUS
<1>2. Min(S) \in S /\ \A y \in S : Min(S) =< y
  BY <1>1 DEF Min
<1>3. PICK m : m = Min(S)
  OBVIOUS
<1>4. m \in Int /\ i \in Int /\ m <= i /\ i <= m
  BY <1>2, <1>3
<1> QED
  BY <1>3, <1>4

\* No list of checks is longer than seven.
LEMMA LeastOfFew ==
  ASSUME NEW S \in SUBSET (1 .. 7), S # {}
  PROVE  \E i \in S : \A j \in S : i <= j
<1>1. \A j \in S : j \in 1 .. 7
  OBVIOUS
<1>2. CASE 1 \in S
  BY <1>1, <1>2
<1>3. CASE 1 \notin S /\ 2 \in S
  BY <1>1, <1>3
<1>4. CASE {1, 2} \cap S = {} /\ 3 \in S
  BY <1>1, <1>4
<1>5. CASE {1, 2, 3} \cap S = {} /\ 4 \in S
  BY <1>1, <1>5
<1>6. CASE {1, 2, 3, 4} \cap S = {} /\ 5 \in S
  BY <1>1, <1>6
<1>7. CASE {1, 2, 3, 4, 5} \cap S = {} /\ 6 \in S
  BY <1>1, <1>7
<1>8. CASE {1, 2, 3, 4, 5, 6} \cap S = {}
  <2>1. \A j \in S : j = 7
    BY <1>1, <1>8
  <2>2. 7 \in S
    BY <2>1
  <2>3. \A j \in S : 7 <= j
    BY <2>1
  <2> QED
    BY <2>2, <2>3
<1> QED
  BY <1>2, <1>3, <1>4, <1>5, <1>6, <1>7, <1>8

\* FirstOf is the default if no check applies, or the result of one that does.
LEMMA FirstOfSome ==
  ASSUME NEW checks, NEW d, DOMAIN checks \subseteq 1 .. 7
  PROVE  \/ FirstOf(checks, d) = d /\ \A j \in DOMAIN checks : ~checks[j][1]
         \/ \E i \in DOMAIN checks : checks[i][1] /\ FirstOf(checks, d) = checks[i][2]
<1>1. PICK S : S = {j \in DOMAIN checks : checks[j][1]}
  OBVIOUS
<1>2. CASE S = {}
  BY <1>1, <1>2 DEF FirstOf
<1>3. CASE S # {}
  <2>1. S \in SUBSET (1 .. 7)
    BY <1>1
  <2>2. PICK i \in S : \A j \in S : i <= j
    BY <1>3, <2>1, LeastOfFew
  <2>3. S \in SUBSET Int
    BY <2>1
  <2>4. Min(S) = i
    BY <2>2, <2>3, MinIs
  <2>5. FirstOf(checks, d) = checks[i][2]
    BY <1>1, <1>3, <2>4 DEF FirstOf
  <2> QED
    BY <1>1, <2>2, <2>5
<1> QED
  BY <1>2, <1>3

LEMMA FirstOfNone ==
  ASSUME NEW checks, NEW d, \A j \in DOMAIN checks : ~checks[j][1]
  PROVE  FirstOf(checks, d) = d
BY DEF FirstOf

\* What a command may be answered without going to the queue.
Answers == {"SUCCESS", "ERROR", "INTERNAL_ERROR", "INVALID_REQUEST", "NO_DEVICE", "DATA_OVERRUN"}

LEMMA SenseErrorStatus ==
  ASSUME NEW k, NEW asc, NEW i, NEW a
  PROVE  SenseError(k, asc, i, a).status = "ERROR"
BY DEF SenseError

LEMMA StatusStatus ==
  ASSUME NEW s
  PROVE  Status(s).status = s /\ Status(s).sense = NULL
BY DEF Status

\* A range command goes to the queue if and only if no check refuses it.
LEMMA CheckRangePosts ==
  ASSUME NEW p, NEW c, NEW len, NEW a
  PROVE  /\ CheckRange(p, c, len, a).status \in Answers \cup {"POST"}
         /\ CheckRange(p, c, len, a).status = "POST" <=>
              /\ ~(c.op \in Syncs /\ ~p.CacheSupported)
              /\ ~(c.op \notin Reads /\ p.WriteProtected)
              /\ ~(len < RangeDataLength(p, c))
              /\ CdbGetRange(c).count # 0
              /\ InUnit(p, CdbGetRange(c))
<1>1. PICK ch : ch =
        << <<c.op \in Syncs /\ ~p.CacheSupported, Status("INVALID_REQUEST")>>,
           <<c.op \notin Reads /\ p.WriteProtected,
             SenseError("DATA_PROTECT", "WRITE_PROTECT", NULL, a)>>,
           <<len < RangeDataLength(p, c), Status("INTERNAL_ERROR")>>,
           <<CdbGetRange(c).count = 0, Status("SUCCESS")>>,
           <<~InUnit(p, CdbGetRange(c)), SenseError("ILLEGAL_REQUEST", "ILLEGAL_BLOCK", NULL, a)>> >>
  OBVIOUS
<1>2. DOMAIN ch = 1 .. 5
  BY <1>1
<1>3. CheckRange(p, c, len, a) = FirstOf(ch, Status("POST"))
  BY <1>1 DEF CheckRange
<1>4. /\ ch[1][1] <=> c.op \in Syncs /\ ~p.CacheSupported
      /\ ch[2][1] <=> c.op \notin Reads /\ p.WriteProtected
      /\ ch[3][1] <=> len < RangeDataLength(p, c)
      /\ ch[4][1] <=> CdbGetRange(c).count = 0
      /\ ch[5][1] <=> ~InUnit(p, CdbGetRange(c))
  BY <1>1
<1>5. /\ ch[1][2] = Status("INVALID_REQUEST")
      /\ ch[2][2] = SenseError("DATA_PROTECT", "WRITE_PROTECT", NULL, a)
      /\ ch[3][2] = Status("INTERNAL_ERROR")
      /\ ch[4][2] = Status("SUCCESS")
      /\ ch[5][2] = SenseError("ILLEGAL_REQUEST", "ILLEGAL_BLOCK", NULL, a)
  BY <1>1
<1>6. \A i \in 1 .. 5 : ch[i][2].status \in Answers
  BY <1>5, SenseErrorStatus, StatusStatus DEF Answers
<1>7. "POST" \notin Answers
  BY DEF Answers
<1>8. PICK d : d = Status("POST")
  OBVIOUS
<1>9. d.status = "POST"
  BY <1>8, StatusStatus
<1>10. DOMAIN ch \subseteq 1 .. 7
  BY <1>2
<1>11. \/ FirstOf(ch, d) = d /\ \A j \in DOMAIN ch : ~ch[j][1]
       \/ \E i \in DOMAIN ch : ch[i][1] /\ FirstOf(ch, d) = ch[i][2]
  BY ONLY <1>10, FirstOfSome
<1>12. CASE FirstOf(ch, d) = d /\ \A j \in DOMAIN ch : ~ch[j][1]
  <2>1. ~ch[1][1] /\ ~ch[2][1] /\ ~ch[3][1] /\ ~ch[4][1] /\ ~ch[5][1]
    BY <1>2, <1>12
  <2> QED
    BY <1>3, <1>4, <1>8, <1>9, <1>12, <2>1
<1>13. CASE \E i \in DOMAIN ch : ch[i][1] /\ FirstOf(ch, d) = ch[i][2]
  <2>1. PICK i \in 1 .. 5 : ch[i][1] /\ FirstOf(ch, d) = ch[i][2]
    BY <1>2, <1>13
  <2>2. CheckRange(p, c, len, a).status \in Answers
    BY <1>3, <1>6, <1>8, <2>1
  <2>3. ch[1][1] \/ ch[2][1] \/ ch[3][1] \/ ch[4][1] \/ ch[5][1]
    <3>1. i \in {1, 2, 3, 4, 5}
      OBVIOUS
    <3> QED
      BY <2>1, <3>1
  <2> QED
    BY <1>4, <1>7, <2>2, <2>3
<1> QED
  BY <1>11, <1>12, <1>13

LEMMA CheckUnmapPosts ==
  ASSUME NEW p, NEW c, NEW list, NEW len, NEW a
  PROVE  /\ CheckUnmap(p, c, list, len, a).status \in Answers \cup {"POST"}
         /\ CheckUnmap(p, c, list, len, a).status = "POST" <=>
              /\ ~(~p.UnmapSupported)
              /\ ~(p.WriteProtected)
              /\ ~(len < HeaderLength + list.length)
              /\ ~(list.length > p.MaxTransferLength)
              /\ ~c.anchor
              /\ list.length # 0
              /\ \A i \in 1 .. UnmapCount(list) : InUnit(p, list.descriptors[i])
<1>1. PICK ch : ch =
        << <<~p.UnmapSupported, Status("INVALID_REQUEST")>>,
           <<p.WriteProtected, SenseError("DATA_PROTECT", "WRITE_PROTECT", NULL, a)>>,
           <<len < HeaderLength + list.length, Status("INTERNAL_ERROR")>>,
           <<list.length > p.MaxTransferLength,
             SenseError("ILLEGAL_REQUEST", "INVALID_FIELD_PARAMETER_LIST", NULL, a)>>,
           <<c.anchor, SenseError("ILLEGAL_REQUEST", "INVALID_CDB", NULL, a)>>,
           <<list.length = 0, Status("SUCCESS")>>,
           <<\E i \in 1 .. UnmapCount(list) : ~InUnit(p, list.descriptors[i]),
             SenseError("ILLEGAL_REQUEST", "ILLEGAL_BLOCK", NULL, a)>> >>
  OBVIOUS
<1>2. DOMAIN ch = 1 .. 7
  BY <1>1
<1>3. CheckUnmap(p, c, list, len, a) = FirstOf(ch, Status("POST"))
  BY <1>1 DEF CheckUnmap
<1>4. /\ ch[1][1] <=> ~p.UnmapSupported
      /\ ch[2][1] <=> p.WriteProtected
      /\ ch[3][1] <=> len < HeaderLength + list.length
      /\ ch[4][1] <=> list.length > p.MaxTransferLength
      /\ ch[5][1] <=> c.anchor
      /\ ch[6][1] <=> list.length = 0
      /\ ch[7][1] <=> \E i \in 1 .. UnmapCount(list) : ~InUnit(p, list.descriptors[i])
  BY <1>1
<1>5. /\ ch[1][2] = Status("INVALID_REQUEST")
      /\ ch[2][2] = SenseError("DATA_PROTECT", "WRITE_PROTECT", NULL, a)
      /\ ch[3][2] = Status("INTERNAL_ERROR")
      /\ ch[4][2] = SenseError("ILLEGAL_REQUEST", "INVALID_FIELD_PARAMETER_LIST", NULL, a)
      /\ ch[5][2] = SenseError("ILLEGAL_REQUEST", "INVALID_CDB", NULL, a)
      /\ ch[6][2] = Status("SUCCESS")
      /\ ch[7][2] = SenseError("ILLEGAL_REQUEST", "ILLEGAL_BLOCK", NULL, a)
  BY <1>1
<1>6. \A i \in 1 .. 7 : ch[i][2].status \in Answers
  BY <1>5, SenseErrorStatus, StatusStatus DEF Answers
<1>7. "POST" \notin Answers
  BY DEF Answers
<1>8. PICK d : d = Status("POST")
  OBVIOUS
<1>9. d.status = "POST"
  BY <1>8, StatusStatus
<1>10. DOMAIN ch \subseteq 1 .. 7
  BY <1>2
<1>11. \/ FirstOf(ch, d) = d /\ \A j \in DOMAIN ch : ~ch[j][1]
       \/ \E i \in DOMAIN ch : ch[i][1] /\ FirstOf(ch, d) = ch[i][2]
  BY ONLY <1>10, FirstOfSome
<1>12. CASE FirstOf(ch, d) = d /\ \A j \in DOMAIN ch : ~ch[j][1]
  <2>1. /\ ~ch[1][1] /\ ~ch[2][1] /\ ~ch[3][1] /\ ~ch[4][1] /\ ~ch[5][1] /\ ~ch[6][1]
        /\ ~ch[7][1]
    BY <1>2, <1>12
  <2> QED
    BY <1>3, <1>4, <1>8, <1>9, <1>12, <2>1
<1>13. CASE \E i \in DOMAIN ch : ch[i][1] /\ FirstOf(ch, d) = ch[i][2]
  <2>1. PICK i \in 1 .. 7 : ch[i][1] /\ FirstOf(ch, d) = ch[i][2]
    BY <1>2, <1>13
  <2>2. CheckUnmap(p, c, list, len, a).status \in Answers
    BY <1>3, <1>6, <1>8, <2>1
  <2>3. \/ ch[1][1] \/ ch[2][1] \/ ch[3][1] \/ ch[4][1] \/ ch[5][1] \/ ch[6][1]
        \/ ch[7][1]
    <3>1. i \in {1, 2, 3, 4, 5, 6, 7}
      OBVIOUS
    <3> QED
      BY <2>1, <3>1
  <2> QED
    BY <1>4, <1>7, <2>2, <2>3
<1> QED
  BY <1>11, <1>12, <1>13

\* A report is answered at once.
LEMMA CheckReportAnswers ==
  ASSUME NEW buffer, NEW known, NEW a
  PROVE  CheckReport(buffer, known, a).status \in Answers
<1>1. PICK ch : ch =
        << <<buffer = "none", Status("INTERNAL_ERROR")>>,
           <<~known, SenseError("ILLEGAL_REQUEST", "INVALID_CDB", NULL, a)>>,
           <<buffer = "small", Status("DATA_OVERRUN")>> >>
  OBVIOUS
<1>2. DOMAIN ch = 1 .. 3 /\ DOMAIN ch \subseteq 1 .. 7
  BY <1>1
<1>3. PICK d : d = Status("SUCCESS")
  OBVIOUS
<1>4. CheckReport(buffer, known, a) = FirstOf(ch, d)
  BY <1>1, <1>3 DEF CheckReport
<1>5. /\ ch[1][2] = Status("INTERNAL_ERROR")
      /\ ch[2][2] = SenseError("ILLEGAL_REQUEST", "INVALID_CDB", NULL, a)
      /\ ch[3][2] = Status("DATA_OVERRUN")
  BY <1>1
<1>6. d.status \in Answers /\ \A i \in 1 .. 3 : ch[i][2].status \in Answers
  BY <1>3, <1>5, SenseErrorStatus, StatusStatus DEF Answers
<1>7. \/ FirstOf(ch, d) = d
      \/ \E i \in DOMAIN ch : FirstOf(ch, d) = ch[i][2]
  BY <1>2, FirstOfSome
<1> QED
  BY <1>2, <1>4, <1>6, <1>7

-----------------------------------------------------------------------------
(***************************************************************************)
(* Parameters, commands and ranges                                         *)
(***************************************************************************)

LEMMA ParamFacts ==
  ASSUME NEW p \in ParamSet
  PROVE  /\ p.BlockLength \in Nat \ {0} /\ p.BlockCount \in Nat \ {0}
         /\ p.MaxTransferLength \in Nat \ {0}
         /\ p.BlockCount < W64 /\ p.BlockLength < W32 /\ p.MaxTransferLength < W32
         /\ p.MaxTransferLength % p.BlockLength = 0 /\ W32 % p.BlockLength = 0
         /\ p.WriteProtected \in BOOLEAN /\ p.CacheSupported \in BOOLEAN
         /\ p.UnmapSupported \in BOOLEAN
         /\ W32 \in Nat \ {0} /\ W64 \in Nat \ {0} /\ W32 < W64 /\ p # NULL
         /\ DescriptorLength \in Nat \ {0} /\ HeaderLength \in Nat \ {0}
<1>1. /\ W32 \in Nat \ {0} /\ W64 \in Nat \ {0} /\ W32 < W64
      /\ DescriptorLength \in Nat \ {0} /\ HeaderLength \in Nat \ {0}
  BY ScsiAssumption
<1>2. ValidParams(p) /\ W32 % p.BlockLength = 0
  BY RawDiskAssumption
<1>3. {p.WriteProtected, p.CacheSupported, p.UnmapSupported} \subseteq BOOLEAN /\ p # NULL
  BY RawDiskAssumption
<1> QED
  BY <1>1, <1>2, <1>3 DEF ValidParams

LEMMA Formats ==
  ASSUME NEW op \in Ranges
  PROVE  Format[op] \in {6, 10, 12, 16}
BY DEF Format, Ranges, Reads, Writes, Syncs

\* SpdCdbGetRange: the fields, and what a count of 0 means.
LEMMA RangeFacts ==
  ASSUME NEW c \in Commands, c.op \in Ranges
  PROVE  /\ CdbGetRange(c).address = c.address /\ c.address \in 0 .. (W64 - 1)
         /\ CdbGetRange(c).count \in Nat /\ CdbGetRange(c).count < W64
<1>1. /\ W8 \in Nat \ {0} /\ W16 \in Nat \ {0} /\ W21 \in Nat \ {0} /\ W32 \in Nat \ {0}
      /\ W64 \in Nat \ {0} /\ W8 <= W16 /\ W16 <= W21 /\ W21 <= W32 /\ W32 < W64
  BY ScsiAssumption
<1>2. c.address \in AddressFields(c.op) /\ c.count \in CountFields(c.op)
  BY RawDiskAssumption
<1>3. PICK f \in {6, 10, 12, 16} : f = Format[c.op]
  BY Formats
<1>4. c.address \in 0 .. (W64 - 1)
  <2>1. AddressFields(c.op) \in {0 .. (W21 - 1), 0 .. (W32 - 1), 0 .. (W64 - 1)}
    BY ONLY <1>3 DEF AddressFields
  <2> QED
    BY ONLY <1>1, <1>2, <2>1
<1>5. c.count \in 0 .. (W32 - 1)
  <2>1. CountFields(c.op) \in {0 .. (W8 - 1), 0 .. (W16 - 1), 0 .. (W32 - 1)}
    BY ONLY <1>3 DEF CountFields
  <2> QED
    BY ONLY <1>1, <1>2, <2>1
<1>6. CdbGetRange(c).count \in {W8, c.count} /\ CdbGetRange(c).address = c.address
  BY DEF CdbGetRange
<1> QED
  BY <1>1, <1>4, <1>5, <1>6

\* The check of a range does what it is meant to do, although the sum may wrap
\* around.
LEMMA InUnitMeans ==
  ASSUME NEW p \in ParamSet, NEW r, r.address \in 0 .. (W64 - 1), r.count \in Nat, r.count < W64
  PROVE  InUnit(p, r) <=> r.address + r.count <= p.BlockCount
<1>1. PICK a \in Nat : a = r.address /\ a < W64
  BY ScsiAssumption
<1>2. PICK n \in Nat : n = r.count /\ n < W64
  OBVIOUS
<1>3. p.BlockCount \in Nat /\ p.BlockCount < W64 /\ W64 \in Nat \ {0}
  BY ParamFacts
<1>4. CASE a + n < W64
  <2>1. (a + n) % W64 = a + n
    BY <1>3, <1>4, ModSmall
  <2> QED
    BY <1>1, <1>2, <1>3, <2>1 DEF InUnit
<1>5. CASE a + n >= W64
  <2>1. (a + n) % W64 = a + n - W64
    <3>1. a + n < 2 * W64
      BY <1>1, <1>2, <1>3
    <3> QED
      BY <1>3, <1>5, <3>1
  <2> QED
    BY <1>1, <1>2, <1>3, <1>5, <2>1 DEF InUnit
<1> QED
  BY <1>3, <1>4, <1>5

-----------------------------------------------------------------------------
(***************************************************************************)
(* Transfers in blocks                                                     *)
(***************************************************************************)

LEMMA OpKinds ==
  /\ Transfers \subseteq Ranges /\ Syncs \subseteq Ranges /\ Transfers \cap Syncs = {}
  /\ "UNMAP" \notin Ranges /\ Ranges = Transfers \cup Syncs /\ Reads \cap Writes = {}
BY DEF Transfers, Ranges, Reads, Writes, Syncs

LEMMA TotalFacts ==
  ASSUME NEW p \in ParamSet, NEW c \in Commands, c.op \in Transfers
  PROVE  /\ Total(p, c) \in 0 .. CdbGetRange(c).count
         /\ DataLength(p, c) = Total(p, c) * p.BlockLength
         /\ Fits(p, c) => Total(p, c) = CdbGetRange(c).count
<1>1. c.op \in Ranges /\ c.op \notin Syncs
  BY OpKinds
<1>2. PICK n \in Nat : n = CdbGetRange(c).count
  BY <1>1, RangeFacts
<1>3. PICK b \in Nat \ {0} : b = p.BlockLength
  BY ParamFacts
<1>4. DataLength(p, c) = (n * b) % W32
  <2>1. DataLength(p, c) = RangeDataLength(p, c)
    BY <1>1, OpKinds DEF DataLength
  <2>2. RangeDataLength(p, c) = (CdbGetRange(c).count * p.BlockLength) % W32
    BY <1>1 DEF RangeDataLength
  <2> QED
    BY ONLY <1>2, <1>3, <2>1, <2>2
<1>5. W32 \in Nat \ {0} /\ W32 % b = 0
  BY <1>3, ParamFacts
<1>6. PICK t \in 0 .. n : (n * b) % W32 = t * b
  <2>1. PICK w \in Nat \ {0} : w = W32 /\ w % b = 0
    BY ONLY <1>5
  <2>2. WholeCut(n, b, w)
    BY ONLY <2>1, CutIsWhole
  <2> QED
    BY ONLY <2>1, <2>2, Zenon DEF WholeCut
<1>7. t \in Nat
  BY <1>2
<1>8. (t * b) \div b = t
  BY <1>7, MulCancel
<1>9. Total(p, c) = t
  BY <1>3, <1>4, <1>6, <1>8 DEF Total
<1>10. ASSUME Fits(p, c)
       PROVE  t = n
  <2>1. n * b < W32
    BY <1>2, <1>3, <1>10 DEF Fits
  <2>2. (n * b) % W32 = n * b
    <3>1. PICK m \in Nat : m = n * b
      OBVIOUS
    <3> QED
      BY <1>5, <2>1, <3>1, ModSmall
  <2>3. (n * b) \div b = n
    BY MulCancel
  <2> QED
    BY <1>6, <1>8, <2>2, <2>3
<1> QED
  BY <1>2, <1>3, <1>4, <1>6, <1>9, <1>10

\* How a transfer is cut.
LEMMA ChunkFacts ==
  ASSUME NEW p \in ParamSet, NEW e \in Extension, NEW t \in Nat, NEW m \in Nat, m <= t,
         e.SystemDataLength = t * p.BlockLength, e.ChunkOffset = m * p.BlockLength
  PROVE  /\ Moved(p, e) = m
         /\ Chunk(p, e) \in Nat /\ ChunkLength(p, e) = Chunk(p, e) * p.BlockLength
         /\ ChunkLength(p, e) <= p.MaxTransferLength
         /\ m + Chunk(p, e) <= t
         /\ m < t => Chunk(p, e) > 0
<1>1. PICK b \in Nat \ {0} : b = p.BlockLength
  BY ParamFacts
<1>2. PICK x \in Nat : p.MaxTransferLength = x * b
  <2>1. PICK max \in Nat : max = p.MaxTransferLength
    BY ParamFacts
  <2>2. max % b = 0
    BY <1>1, <2>1, ParamFacts
  <2>3. max = (max \div b) * b /\ max \div b \in Nat
    BY ONLY <2>2, Whole
  <2> QED
    BY ONLY <2>1, <2>3
<1>3. Moved(p, e) = m
  BY <1>1, MulCancel DEF Moved
<1>4. e.SystemDataLength - e.ChunkOffset = (t - m) * b
  BY <1>1, MulSum
<1>5. PICK r \in Nat : r = t - m
  OBVIOUS
<1>6. r * b > x * b <=> r > x
  BY MulOrder
<1>7. PICK n \in Nat : n = (IF r > x THEN x ELSE r)
  OBVIOUS
<1>8. ChunkLength(p, e) = n * b
  BY <1>2, <1>4, <1>5, <1>6, <1>7 DEF ChunkLength
<1>9. Chunk(p, e) = n
  BY <1>1, <1>8, MulCancel DEF Chunk
<1>10. n <= x /\ m + n <= t
  BY <1>5, <1>7
<1>11. n * b <= x * b
  BY <1>10, MulOrder
<1>12. x > 0
  <2>1. x * b > 0
    BY <1>2, ParamFacts
  <2> QED
    BY <2>1
<1> QED
  BY <1>1, <1>2, <1>3, <1>5, <1>7, <1>8, <1>9, <1>10, <1>11, <1>12

\* A transfer in progress, counted in blocks, and the request of its next chunk.
LEMMA TransferProgress ==
  ASSUME NEW p \in ParamSet, NEW c, NEW e, InProgress(p, c, e), c.op \in Transfers
  PROVE  /\ Moved(p, e) \in Nat /\ Chunk(p, e) \in Nat /\ Total(p, c) \in Nat
         /\ e.SystemDataLength = Total(p, c) * p.BlockLength
         /\ e.ChunkOffset = Moved(p, e) * p.BlockLength
         /\ ChunkLength(p, e) = Chunk(p, e) * p.BlockLength
         /\ ChunkLength(p, e) <= p.MaxTransferLength
         /\ Moved(p, e) + Chunk(p, e) <= Total(p, c)
         /\ Moved(p, e) < Total(p, c) => Chunk(p, e) > 0
         /\ Total(p, c) <= CdbGetRange(c).count
         /\ CdbGetRange(c).count \in Nat \ {0} /\ c.address \in Nat
         /\ c.address + CdbGetRange(c).count <= p.BlockCount
         /\ p.BlockCount \in Nat
         /\ Fits(p, c) => Total(p, c) = CdbGetRange(c).count
<1>1. /\ Accepted(p, c) /\ e \in Extension /\ e.SystemDataLength = DataLength(p, c)
      /\ e.ChunkOffset = Moved(p, e) * p.BlockLength /\ e.ChunkOffset <= e.SystemDataLength
  BY DEF InProgress
<1>2. c \in Commands /\ c.op \in Ranges
  BY <1>1, OpKinds DEF Accepted
<1>3. /\ CdbGetRange(c).count \in Nat \ {0} /\ c.address + CdbGetRange(c).count <= p.BlockCount
  BY <1>1, <1>2 DEF Accepted
<1>4. c.address \in Nat
  <2>1. c.address \in 0 .. (W64 - 1)
    BY <1>2, RangeFacts
  <2> QED
    BY <2>1, ScsiAssumption
<1>5. PICK n \in Nat : n = CdbGetRange(c).count
  BY <1>3
<1>6. /\ Total(p, c) \in 0 .. n /\ DataLength(p, c) = Total(p, c) * p.BlockLength
      /\ Fits(p, c) => Total(p, c) = n
  BY <1>2, <1>5, TotalFacts
<1>7. PICK t \in Nat : t = Total(p, c) /\ t <= n
  BY <1>6
<1>8. PICK b \in Nat \ {0} : b = p.BlockLength
  BY ParamFacts
<1>9. PICK m \in Nat : m = Moved(p, e)
  <2>1. e.ChunkOffset \in Nat
    BY <1>1 DEF Extension
  <2>2. e.ChunkOffset \div b \in Nat
    BY <2>1, <1>8
  <2> QED
    BY <1>8, <2>2 DEF Moved
<1>10. m * b <= t * b
  BY <1>1, <1>6, <1>7, <1>8, <1>9
<1>11. m <= t
  BY <1>10, MulOrder
<1>12. e.SystemDataLength = t * p.BlockLength /\ e.ChunkOffset = m * p.BlockLength
  BY <1>1, <1>6, <1>7, <1>9
<1>13. /\ Moved(p, e) = m
       /\ Chunk(p, e) \in Nat /\ ChunkLength(p, e) = Chunk(p, e) * p.BlockLength
       /\ ChunkLength(p, e) <= p.MaxTransferLength
       /\ m + Chunk(p, e) <= t
       /\ m < t => Chunk(p, e) > 0
  BY ONLY <1>1, <1>11, <1>12, ChunkFacts
<1>14. p.BlockCount \in Nat
  BY ParamFacts
<1> QED
  BY ONLY <1>3, <1>4, <1>5, <1>6, <1>7, <1>12, <1>13, <1>14

LEMMA PreparedTransfer ==
  ASSUME NEW p \in ParamSet, NEW c, NEW e, InProgress(p, c, e), c.op \in Transfers,
         NEW r, r = Prepared(p, c, e)
  PROVE  /\ c.op \in Reads => r.request.kind = "read"
         /\ c.op \notin Reads => r.request.kind = "write"
         /\ r.request.address = c.address + Moved(p, e)
         /\ r.request.count = Chunk(p, e)
         /\ r.request.fua = ForceUnitAccess(p, CdbGetRange(c))
         /\ \A j \in 1 .. Chunk(p, e) : r.data[j] = Moved(p, e) + j
<1>1. c.op # "UNMAP" /\ c.op \notin Syncs /\ c.op \in Ranges
  BY OpKinds
<1>2. PICK q : q = PrepareRange(p, c, e)
  OBVIOUS
<1>3. r.request = q /\ r.data = [j \in 1 .. q.count |-> (e.ChunkOffset \div p.BlockLength) + j]
  BY <1>1, <1>2 DEF Prepared
<1>4. /\ q.kind = IF c.op \in Reads THEN "read" ELSE "write"
      /\ q.address = (CdbGetRange(c).address + ChunkStart(p, e)) % W64
      /\ q.count = ChunkLength(p, e) \div p.BlockLength
      /\ q.fua = ForceUnitAccess(p, CdbGetRange(c))
  BY <1>1, <1>2 DEF PrepareRange
<1>5. q.count = Chunk(p, e) /\ e.ChunkOffset \div p.BlockLength = Moved(p, e)
  BY <1>4 DEF Chunk, Moved
<1>6. /\ Moved(p, e) \in Nat /\ Chunk(p, e) \in Nat /\ Total(p, c) \in Nat
      /\ Moved(p, e) + Chunk(p, e) <= Total(p, c) /\ Total(p, c) <= CdbGetRange(c).count
      /\ CdbGetRange(c).count \in Nat \ {0} /\ c.address \in Nat
      /\ c.address + CdbGetRange(c).count <= p.BlockCount /\ p.BlockCount \in Nat
  BY TransferProgress
<1>7. p.BlockCount < W64 /\ W64 \in Nat \ {0}
  BY ParamFacts
<1>8. PICK a \in Nat : a = c.address + Moved(p, e)
  BY <1>6
<1>9. a < W64
  BY <1>6, <1>7, <1>8
<1>10. a % W64 = a
  BY <1>7, <1>9, ModSmall
<1>11. CdbGetRange(c).address = c.address
  BY DEF CdbGetRange
<1>12. q.address = c.address + Moved(p, e)
  BY <1>4, <1>8, <1>10, <1>11 DEF ChunkStart, Moved
<1> QED
  BY ONLY <1>3, <1>4, <1>5, <1>12

LEMMA PreparedSync ==
  ASSUME NEW p \in ParamSet, NEW c, NEW e, InProgress(p, c, e), c.op \in Syncs,
         NEW r, r = Prepared(p, c, e)
  PROVE  /\ r.request.kind = "flush" /\ r.request.address = c.address
         /\ r.request.count = CdbGetRange(c).count
         /\ c.address \in Nat /\ CdbGetRange(c).count \in Nat \ {0}
         /\ c.address + CdbGetRange(c).count <= p.BlockCount
<1>1. c.op # "UNMAP" /\ c.op \in Ranges
  BY OpKinds
<1>2. PICK q : q = PrepareRange(p, c, e)
  OBVIOUS
<1>3. r.request = q
  BY <1>1, <1>2 DEF Prepared
<1>4. /\ q.kind = "flush" /\ q.address = CdbGetRange(c).address
      /\ q.count = CdbGetRange(c).count
  BY <1>1, <1>2 DEF PrepareRange
<1>5. CdbGetRange(c).address = c.address
  BY DEF CdbGetRange
<1>6. c \in Commands
  BY DEF InProgress, Accepted
<1>7. /\ CdbGetRange(c).count \in Nat \ {0} /\ c.address + CdbGetRange(c).count <= p.BlockCount
  BY <1>1 DEF InProgress, Accepted
<1>8. c.address \in Nat
  <2>1. c.address \in 0 .. (W64 - 1)
    BY <1>1, <1>6, RangeFacts
  <2> QED
    BY <2>1, ScsiAssumption
<1> QED
  BY ONLY <1>3, <1>4, <1>5, <1>7, <1>8

\* The descriptors of an UNMAP request are those that the length of the list counts.
LEMMA PreparedUnmap ==
  ASSUME NEW p \in ParamSet, NEW c, NEW e, InProgress(p, c, e), c.op = "UNMAP",
         NEW r, r = Prepared(p, c, e)
  PROVE  /\ r.request.kind = "unmap" /\ r.request.count = UnmapCount(c.list)
         /\ r.request.count \in Nat /\ r.request.count <= Len(c.list.descriptors)
         /\ r.request.count * DescriptorLength <= p.MaxTransferLength
         /\ ~p.WriteProtected
         /\ DOMAIN r.request.descriptors = 1 .. r.request.count
         /\ \A i \in 1 .. r.request.count :
              /\ r.request.descriptors[i] = c.list.descriptors[i]
              /\ r.request.descriptors[i].address \in Nat
              /\ r.request.descriptors[i].count \in Nat
              /\ r.request.descriptors[i].address + r.request.descriptors[i].count <= p.BlockCount
         /\ DOMAIN c.list.descriptors = 1 .. Len(c.list.descriptors)
         /\ Len(c.list.descriptors) \in Nat
<1>1. c.op \notin Ranges /\ c.op \notin Transfers /\ c.op \notin Reads
  BY OpKinds DEF Transfers
<1>2. /\ Accepted(p, c) /\ e.SystemDataLength = c.list.length /\ c \in Commands
  BY <1>1 DEF InProgress, Accepted, DataLength
<1>3. PICK ds : ds = c.list.descriptors
  OBVIOUS
<1>4. PICK n : n = UnmapCount(c.list)
  OBVIOUS
<1>5. PICK l : l = c.list.length
  OBVIOUS
<1>6. /\ l \in 0 .. (W16 - 1) /\ n <= Len(ds)
      /\ ds \in Seq([address : 0 .. (W64 - 1), count : 0 .. (W32 - 1)])
  BY <1>2, <1>3, <1>4, <1>5, RawDiskAssumption
<1>7. l \in Nat /\ DescriptorLength \in Nat \ {0}
  BY <1>6, ScsiAssumption
<1>8. n = l \div DescriptorLength
  BY <1>4, <1>5 DEF UnmapCount
<1>9. n \in Nat /\ n * DescriptorLength <= l
  <2>1. l = (l \div DescriptorLength) * DescriptorLength + (l % DescriptorLength)
    BY <1>7, Division
  <2>2. l \div DescriptorLength \in Nat /\ l % DescriptorLength \in 0 .. (DescriptorLength - 1)
    BY <1>7, Division
  <2> QED
    BY <1>7, <1>8, <2>1, <2>2
<1>10. PICK q : q = PrepareUnmap(c.list, e)
  OBVIOUS
<1>11. r.request = q
  BY <1>10 DEF Prepared
<1>12. q.kind = "unmap" /\ q.count = n /\ q.descriptors = SubSeq(ds, 1, n)
  BY <1>2, <1>3, <1>5, <1>8, <1>10 DEF PrepareUnmap
<1>13. Len(ds) \in Nat /\ DOMAIN ds = 1 .. Len(ds)
  BY <1>6
<1>14. \A i \in 1 .. n : /\ SubSeq(ds, 1, n)[i] = ds[i] /\ ds[i].address \in Nat
                         /\ ds[i].count \in Nat
  <2> TAKE i \in 1 .. n
  <2>1. i \in 1 .. Len(ds)
    BY <1>6, <1>9, <1>13
  <2>2. ds[i] \in [address : 0 .. (W64 - 1), count : 0 .. (W32 - 1)]
    BY ONLY <1>6, <2>1, ElementOfSeq
  <2>3. SubSeq(ds, 1, n)[i] = ds[i]
    BY <1>6, <1>9, <1>13, <2>1
  <2>4. ds[i].address \in 0 .. (W64 - 1) /\ ds[i].count \in 0 .. (W32 - 1)
    BY ONLY <2>2
  <2>5. W64 \in Nat /\ W32 \in Nat
    BY ScsiAssumption
  <2>6. ds[i].address \in Nat /\ ds[i].count \in Nat
    BY ONLY <2>4, <2>5
  <2> QED
    BY ONLY <2>3, <2>6
<1>15. DOMAIN SubSeq(ds, 1, n) = 1 .. n
  BY <1>6, <1>9, <1>13
<1>16. /\ l <= p.MaxTransferLength
       /\ \A i \in 1 .. n : ds[i].address + ds[i].count <= p.BlockCount
  BY <1>2, <1>3, <1>4, <1>5 DEF Accepted
<1>17. ~p.WriteProtected
  BY <1>1, <1>2 DEF Accepted
<1>18. n * DescriptorLength <= p.MaxTransferLength
  BY <1>7, <1>9, <1>16, ParamFacts
<1> QED
  BY ONLY <1>3, <1>4, <1>6, <1>9, <1>11, <1>12, <1>13, <1>14, <1>15, <1>16, <1>17, <1>18

\* What the process may rely on in a request r of the command c.
Sound(p, c, r) ==
  /\ r.request.kind \in {"read", "write", "flush", "unmap"}
  /\ r.request.kind # "unmap" => r.request.address \in Nat /\ r.request.count \in Nat
  /\ r.request.kind = "unmap" => \A i \in DOMAIN r.request.descriptors :
       r.request.descriptors[i].address \in Nat /\ r.request.descriptors[i].count \in Nat
  /\ RequestBlocks(r) \subseteq 0 .. (p.BlockCount - 1)
  /\ RequestBlocks(r) \subseteq CommandBlocks(c)
  /\ r.request.kind \in {"read", "write"} =>
       r.request.count * p.BlockLength <= p.MaxTransferLength
  /\ r.request.kind = "unmap" => r.request.count * DescriptorLength <= p.MaxTransferLength
  /\ p.WriteProtected => r.request.kind = "read"

LEMMA RangeBlocks ==
  ASSUME NEW c, c.op \in Ranges
  PROVE  CommandBlocks(c) = c.address .. (c.address + CdbGetRange(c).count - 1)
<1>1. CdbGetRange(c).address = c.address
  BY DEF CdbGetRange
<1>2. CommandBlocks(c) = Blocks(CdbGetRange(c))
  BY OpKinds DEF CommandBlocks
<1> QED
  BY <1>1, <1>2 DEF Blocks

\* The requests of an accepted command stay within the command, the unit and the
\* limits of the unit.
LEMMA PreparedIsSound ==
  ASSUME NEW p \in ParamSet, NEW c, NEW e, InProgress(p, c, e), NEW r, r = Prepared(p, c, e)
  PROVE  Sound(p, c, r)
<1>1. c.op \in Ranges \cup {"UNMAP"} /\ (p.WriteProtected => c.op \in Reads)
  BY DEF InProgress, Accepted
<1>2. c.op \in Transfers \/ c.op \in Syncs \/ c.op = "UNMAP"
  BY <1>1, OpKinds
<1>3. CASE c.op \in Transfers
  <2>1. /\ c.op \in Reads => r.request.kind = "read"
        /\ c.op \notin Reads => r.request.kind = "write"
        /\ r.request.address = c.address + Moved(p, e)
        /\ r.request.count = Chunk(p, e)
    BY <1>3, PreparedTransfer
  <2>2. PICK k : k = CdbGetRange(c).count
    OBVIOUS
  <2>3. /\ Moved(p, e) \in Nat /\ Chunk(p, e) \in Nat /\ Total(p, c) \in Nat
        /\ ChunkLength(p, e) = Chunk(p, e) * p.BlockLength
        /\ ChunkLength(p, e) <= p.MaxTransferLength
        /\ Moved(p, e) + Chunk(p, e) <= Total(p, c)
        /\ Total(p, c) <= k
        /\ k \in Nat \ {0} /\ c.address \in Nat
        /\ c.address + k <= p.BlockCount
        /\ p.BlockCount \in Nat
    BY <1>3, <2>2, TransferProgress
  <2>4. CommandBlocks(c) = c.address .. (c.address + k - 1)
    BY <1>3, <2>2, OpKinds, RangeBlocks
  <2>5. r.request.kind # "unmap" /\ r.request.kind \in {"read", "write"}
    BY <2>1
  <2>6. RequestBlocks(r) =
          (c.address + Moved(p, e)) .. (c.address + Moved(p, e) + Chunk(p, e) - 1)
    BY <2>1, <2>5 DEF RequestBlocks, Blocks
  <2>7. /\ RequestBlocks(r) \subseteq 0 .. (p.BlockCount - 1)
        /\ RequestBlocks(r) \subseteq CommandBlocks(c)
    <3>1. PICK m \in Nat : m = Moved(p, e)
      BY <2>3
    <3>2. PICK n \in Nat : n = Chunk(p, e)
      BY <2>3
    <3>3. PICK a \in Nat : a = c.address
      BY <2>3
    <3>4. PICK bc \in Nat : bc = p.BlockCount
      BY <2>3
    <3>5. m + n <= k /\ a + k <= bc /\ k \in Nat
      BY <2>3, <3>1, <3>2, <3>3, <3>4
    <3>6. (a + m) .. (a + m + n - 1) \subseteq a .. (a + k - 1)
      BY ONLY <3>5
    <3>7. (a + m) .. (a + m + n - 1) \subseteq 0 .. (bc - 1)
      BY ONLY <3>5
    <3> QED
      BY ONLY <2>4, <2>6, <3>1, <3>2, <3>3, <3>4, <3>6, <3>7
  <2>8. p.WriteProtected => r.request.kind = "read"
    BY <1>1, <2>1
  <2>9. r.request.count * p.BlockLength <= p.MaxTransferLength
    BY <2>1, <2>3
  <2>10. r.request.address \in Nat /\ r.request.count \in Nat
    BY <2>1, <2>3
  <2> QED
    BY ONLY <2>5, <2>7, <2>8, <2>9, <2>10 DEF Sound
<1>4. CASE c.op \in Syncs
  <2>1. PICK k : k = CdbGetRange(c).count
    OBVIOUS
  <2>2. /\ r.request.kind = "flush" /\ r.request.address = c.address
        /\ r.request.count = k
        /\ c.address \in Nat /\ k \in Nat \ {0}
        /\ c.address + k <= p.BlockCount
    BY <1>4, <2>1, PreparedSync
  <2>3. CommandBlocks(c) = c.address .. (c.address + k - 1)
    BY <1>4, <2>1, OpKinds, RangeBlocks
  <2>4. RequestBlocks(r) = c.address .. (c.address + k - 1)
    BY <2>2 DEF RequestBlocks, Blocks
  <2>5. RequestBlocks(r) \subseteq 0 .. (p.BlockCount - 1)
    BY <2>2, <2>4, ParamFacts
  <2>6. ~p.WriteProtected
    BY <1>1, <1>4, OpKinds DEF Transfers
  <2> QED
    BY <2>2, <2>3, <2>4, <2>5, <2>6 DEF Sound
<1>5. CASE c.op = "UNMAP"
  <2>1. PICK ds : ds = r.request.descriptors
    OBVIOUS
  <2>2. PICK cs : cs = c.list.descriptors
    OBVIOUS
  <2>3. PICK n : n = r.request.count
    OBVIOUS
  <2>4. /\ r.request.kind = "unmap" /\ n \in Nat /\ n <= Len(cs)
        /\ n * DescriptorLength <= p.MaxTransferLength
        /\ ~p.WriteProtected
        /\ DOMAIN ds = 1 .. n
        /\ \A i \in 1 .. n : /\ ds[i] = cs[i] /\ ds[i].address \in Nat /\ ds[i].count \in Nat
                             /\ ds[i].address + ds[i].count <= p.BlockCount
        /\ DOMAIN cs = 1 .. Len(cs) /\ Len(cs) \in Nat
    BY <1>5, <2>1, <2>2, <2>3, PreparedUnmap
  <2>5. RequestBlocks(r) = UNION {Blocks(ds[i]) : i \in DOMAIN ds}
    BY <2>1, <2>4 DEF RequestBlocks, Union
  <2>6. CommandBlocks(c) = UNION {Blocks(cs[i]) : i \in DOMAIN cs}
    BY <1>5, <2>2, OpKinds DEF CommandBlocks, Union
  <2>7. ASSUME NEW x \in RequestBlocks(r)
        PROVE  x \in CommandBlocks(c) /\ x \in 0 .. (p.BlockCount - 1)
    <3>1. PICK i \in 1 .. n : x \in Blocks(ds[i])
      BY <2>4, <2>5, <2>7
    <3>2. PICK a \in Nat : a = ds[i].address
      BY <2>4
    <3>3. PICK k \in Nat : k = ds[i].count
      BY <2>4
    <3>4. x \in a .. (a + k - 1) /\ a + k <= p.BlockCount
      BY <2>4, <3>1, <3>2, <3>3 DEF Blocks
    <3>5. x \in 0 .. (p.BlockCount - 1)
      BY <3>4, ParamFacts
    <3>6. i \in DOMAIN cs /\ x \in Blocks(cs[i])
      BY <2>4, <3>1
    <3> QED
      BY ONLY <2>6, <3>5, <3>6
  <2> QED
    BY <2>1, <2>3, <2>4, <2>7 DEF Sound
<1> QED
  BY <1>2, <1>3, <1>4, <1>5

-----------------------------------------------------------------------------
(***************************************************************************)
(* What serving a request does to the unit                                 *)
(***************************************************************************)

\* FlushInternal writes blocks back or leaves them alone.
LEMMA FlushWritesBack ==
  ASSUME NEW v, NEW q
  PROVE  /\ DOMAIN FlushInternal(v, q) = DOMAIN file
         /\ \A b \in DOMAIN file : FlushInternal(v, q)[b] \in {v[b], file[b]}
BY DEF FlushInternal

\* It writes back every block of its range unless the length needs more than 32 bits.
LEMMA FlushReaches ==
  ASSUME NEW v, NEW q, params \in ParamSet, q.address \in Nat, q.count \in Nat,
         q.count * params.BlockLength < W32, NEW b \in DOMAIN file, b \in Blocks(q)
  PROVE  FlushInternal(v, q)[b] = v[b]
<1>1. PICK p \in ParamSet : p = params
  OBVIOUS
<1>2. PICK l \in Nat \ {0} : l = p.BlockLength
  BY ParamFacts
<1>3. PICK k \in Nat : k = q.count
  OBVIOUS
<1>4. PICK a \in Nat : a = q.address
  OBVIOUS
<1>5. W32 \in Nat \ {0}
  BY ScsiAssumption
<1>6. PICK m \in Nat : m = k * l
  OBVIOUS
<1>7. m % W32 = m
  BY <1>1, <1>2, <1>3, <1>5, <1>6, ModSmall
<1>8. m \div l = k
  BY <1>6, MulCancel
<1>9. ((q.count * params.BlockLength) % W32) \div params.BlockLength = k
  BY <1>1, <1>2, <1>3, <1>6, <1>7, <1>8
<1>10. b \in a .. (a + k - 1)
  BY <1>3, <1>4 DEF Blocks
<1>11. b >= a /\ b < a + k
  BY <1>10
<1> QED
  BY <1>3, <1>4, <1>9, <1>11 DEF FlushInternal

\* A request reads or changes only its own blocks, and no block whose content is on
\* the medium and which is not written loses it; an error names one of its blocks.
LEMMA ServesEffect ==
  ASSUME NEW p, NEW c, NEW r, NEW out, Sound(p, c, r), Serves(r, out),
         DOMAIN view = DOMAIN file, DOMAIN view \subseteq Int
  PROVE  /\ DOMAIN view' = DOMAIN view /\ DOMAIN file' = DOMAIN view
         /\ \A b \in DOMAIN view : b \notin RequestBlocks(r) => view'[b] = view[b]
         /\ r.request.kind \in {"read", "flush"} => view' = view
         /\ \A b \in DOMAIN view : view'[b] = view[b] /\ file[b] = view[b] => file'[b] = view'[b]
         /\ ~out.good => out.Information = NULL \/ out.Information \in RequestBlocks(r)
<1> USE DEF Sound
<1>1. CASE r.request.kind = "read"
  <2>1. Read(r, out)
    BY <1>1 DEF Serves
  <2>2. view' = view /\ RequestBlocks(r) = Blocks(r.request)
    BY <1>1, <2>1 DEF Read, RequestBlocks
  <2>3. file' = file \/ file' = FlushInternal(view, r.request)
    BY <2>1 DEF Read
  <2>4. DOMAIN file' = DOMAIN file /\ \A b \in DOMAIN file : file'[b] \in {view[b], file[b]}
    BY <2>3, FlushWritesBack
  <2>5. \/ out = Good(ReadData(r)) \/ out = FlushError
        \/ \E b \in Blocks(r.request) : out \in CopyErrors("UNRECOVERED_ERROR", b)
    BY <2>1 DEF Read
  <2>6. ~out.good => out.Information = NULL \/ out.Information \in Blocks(r.request)
    BY <2>5 DEF Good, FlushError, CopyErrors, MediumError
  <2> QED
    BY <2>2, <2>4, <2>6
<1>2. CASE r.request.kind = "flush"
  <2>1. Flush(r, out)
    BY <1>2 DEF Serves
  <2>2. view' = view
    BY <2>1 DEF Flush
  <2>3. file' = file \/ file' = FlushInternal(view, r.request)
    BY <2>1 DEF Flush
  <2>4. DOMAIN file' = DOMAIN file /\ \A b \in DOMAIN file : file'[b] \in {view[b], file[b]}
    BY <2>3, FlushWritesBack
  <2>5. out = Good(<<>>) \/ out = FlushError
    BY <2>1 DEF Flush
  <2>6. ~out.good => out.Information = NULL
    BY <2>5 DEF Good, FlushError, MediumError
  <2> QED
    BY <2>2, <2>4, <2>6
<1>3. CASE r.request.kind = "write"
  <2>1. Write(r, out)
    BY <1>3 DEF Serves
  <2>2. PICK a \in Nat : a = r.request.address
    BY <1>3
  <2>3. PICK n \in Nat : n = r.request.count
    BY <1>3
  <2>4. RequestBlocks(r) = a .. (a + n - 1)
    BY <1>3, <2>2, <2>3 DEF RequestBlocks, Blocks
  <2>5. PICK k \in 0 .. n : view' = Copied(view, a, r.data, k)
    BY <2>1, <2>2, <2>3 DEF Write
  <2>6. DOMAIN view' = DOMAIN view
    BY <2>5 DEF Copied
  <2>7. ASSUME NEW b \in DOMAIN view, b \notin RequestBlocks(r)
        PROVE  view'[b] = view[b]
    <3>1. view'[b] = IF b - a + 1 \in 1 .. k THEN r.data[b - a + 1] ELSE view[b]
      BY <2>5 DEF Copied
    <3>2. b \in Int
      OBVIOUS
    <3>3. ~(b - a + 1 \in 1 .. k)
      BY <2>4, <2>7, <3>2
    <3> QED
      BY <3>1, <3>3
  <2>8. PICK w : w = view'
    OBVIOUS
  <2>9. file' = file \/ file' = FlushInternal(w, r.request)
    BY <2>1, <2>8 DEF Write
  <2>10. DOMAIN file' = DOMAIN file /\ \A b \in DOMAIN file : file'[b] \in {w[b], file[b]}
    BY <2>9, FlushWritesBack
  <2>11. \/ out = Good(<<>>) \/ out = FlushError
         \/ \E j \in 0 .. (n - 1) : out \in CopyErrors("WRITE_ERROR", a + j)
    BY <2>1, <2>2, <2>3 DEF Write
  <2>12. \A j \in 0 .. (n - 1) : a + j \in RequestBlocks(r)
    BY <2>4
  <2>13. ~out.good => out.Information = NULL \/ out.Information \in RequestBlocks(r)
    BY <2>11, <2>12 DEF Good, FlushError, CopyErrors, MediumError
  <2> QED
    BY <1>3, <2>6, <2>7, <2>8, <2>10, <2>13
<1>4. CASE r.request.kind = "unmap"
  <2>1. Unmap(r, out)
    BY <1>4 DEF Serves
  <2>2. PICK ds : ds = r.request.descriptors
    OBVIOUS
  <2>3. file' = file /\ out = Good(<<>>)
    BY <2>1 DEF Unmap
  <2>4. PICK n \in [DOMAIN ds -> UNION {0 .. ds[i].count : i \in DOMAIN ds}] :
          /\ \A i \in DOMAIN ds : n[i] <= ds[i].count
          /\ view' = [b \in DOMAIN view |->
               IF \E i \in DOMAIN ds : b - ds[i].address \in 0 .. (n[i] - 1) THEN 0 ELSE view[b]]
    <3>1. \E n \in [DOMAIN r.request.descriptors ->
                      UNION {0 .. r.request.descriptors[i].count : i \in DOMAIN r.request.descriptors}] :
            /\ \A i \in DOMAIN r.request.descriptors : n[i] <= r.request.descriptors[i].count
            /\ view' = [b \in DOMAIN view |->
                 IF \E i \in DOMAIN r.request.descriptors :
                      b - r.request.descriptors[i].address \in 0 .. (n[i] - 1)
                 THEN 0 ELSE view[b]]
      BY ONLY <2>1, Zenon DEF Unmap
    <3> QED
      BY ONLY <2>2, <3>1
  <2>5. DOMAIN view' = DOMAIN view
    BY <2>4
  <2>6. RequestBlocks(r) = UNION {Blocks(ds[i]) : i \in DOMAIN ds}
    BY <1>4, <2>2 DEF RequestBlocks, Union
  <2>7. ASSUME NEW b \in DOMAIN view, b \notin RequestBlocks(r)
        PROVE  view'[b] = view[b]
    <3>1. SUFFICES ASSUME NEW i \in DOMAIN ds, b - ds[i].address \in 0 .. (n[i] - 1)
                   PROVE  FALSE
      BY <2>4
    <3>2. PICK a \in Nat : a = ds[i].address
      BY <1>4, <2>2
    <3>3. PICK k \in Nat : k = ds[i].count
      BY <1>4, <2>2
    <3>4. PICK m : m = n[i] /\ m <= k
      BY <2>4, <3>3
    <3>5. m \in Nat
      <4>1. PICK j \in DOMAIN ds : n[i] \in 0 .. ds[j].count
        BY <2>4
      <4>2. ds[j].count \in Nat
        BY <1>4, <2>2
      <4> QED
        BY <3>4, <4>1, <4>2
    <3>6. b \in Int
      OBVIOUS
    <3>7. b \in a .. (a + k - 1)
      BY <3>1, <3>2, <3>4, <3>5, <3>6
    <3>8. b \in Blocks(ds[i])
      BY <3>2, <3>3, <3>7 DEF Blocks
    <3> QED
      BY <2>6, <2>7, <3>8
  <2> QED
    BY <1>4, <2>3, <2>5, <2>7 DEF Good
<1> QED
  BY <1>1, <1>2, <1>3, <1>4

LEMMA TupleFacts ==
  ASSUME NEW f, NEW n \in Nat, IsTuple(f, n)
  PROVE  DOMAIN f = 1 .. n /\ Len(f) = n
<1>1. PICK g : g = [i \in 1 .. n |-> f[i]]
  OBVIOUS
<1>2. Len(g) = n /\ DOMAIN g = 1 .. n
  BY <1>1
<1> QED
  BY <1>1, <1>2 DEF IsTuple

\* A chunk that was served well is where it should be, also on the medium if the
\* unit was told so.
LEMMA ServesChunk ==
  ASSUME NEW c, NEW e, NEW r, NEW out, params \in ParamSet, InProgress(params, c, e),
         c.op \in Transfers, r = Prepared(params, c, e), Serves(r, out), out.good,
         DOMAIN view = DOMAIN file, DOMAIN view = 0 .. (params.BlockCount - 1)
  PROVE  /\ c.op \in Reads => IsTuple(out.data, Chunk(params, e))
         /\ \A j \in 1 .. Chunk(params, e) :
              LET b == c.address + (Moved(params, e) + j) - 1
              IN  /\ view'[b] = IF c.op \in Reads THEN out.data[j] ELSE Moved(params, e) + j
                  /\ ForceUnitAccess(params, CdbGetRange(c)) => file'[b] = view'[b]
<1>1. PICK p \in ParamSet : p = params
  OBVIOUS
<1>2. PICK a \in Nat : a = c.address
  BY TransferProgress
<1>3. PICK m \in Nat : m = Moved(params, e)
  BY TransferProgress
<1>4. PICK n \in Nat : n = Chunk(params, e)
  BY TransferProgress
<1>5. PICK fua : fua = ForceUnitAccess(params, CdbGetRange(c))
  OBVIOUS
<1>6. PICK q : q = r.request
  OBVIOUS
<1>7. /\ c.op \in Reads => q.kind = "read"
      /\ c.op \notin Reads => q.kind = "write"
      /\ q.address = a + m /\ q.count = n
      /\ q.fua = ForceUnitAccess(params, CdbGetRange(c))
      /\ \A j \in 1 .. n : r.data[j] = m + j
  BY <1>2, <1>3, <1>4, <1>6, PreparedTransfer
<1>8. q.count * params.BlockLength < W32
  <2>1. /\ ChunkLength(params, e) = Chunk(params, e) * params.BlockLength
        /\ ChunkLength(params, e) <= params.MaxTransferLength
    BY TransferProgress
  <2>2. params.MaxTransferLength < W32 /\ params.MaxTransferLength \in Nat
    BY ParamFacts
  <2>3. PICK l : l = q.count * params.BlockLength
    OBVIOUS
  <2>4. l <= params.MaxTransferLength
    BY <1>4, <1>7, <2>1, <2>3
  <2>5. l \in Nat
    BY <1>7, <2>3, ParamFacts
  <2> QED
    BY <2>2, <2>3, <2>4, <2>5, ScsiAssumption
<1>9. /\ a + m + n <= p.BlockCount /\ p.BlockCount \in Nat
  <2>1. PICK k \in Nat : k = CdbGetRange(c).count
    BY TransferProgress
  <2>2. PICK t \in Nat : t = Total(params, c)
    BY TransferProgress
  <2>3. m + n <= t /\ t <= k /\ a + k <= p.BlockCount /\ p.BlockCount \in Nat
    BY <1>1, <1>2, <1>3, <1>4, <2>1, <2>2, TransferProgress
  <2> QED
    BY ONLY <2>3
<1>10. \A j \in 1 .. n : /\ a + (m + j) - 1 \in DOMAIN view
                         /\ a + (m + j) - 1 \in Blocks(q)
                         /\ (a + (m + j) - 1) - (a + m) + 1 = j
  <2>1. \A j \in 1 .. n : /\ a + (m + j) - 1 \in 0 .. (p.BlockCount - 1)
                          /\ a + (m + j) - 1 \in (a + m) .. (a + m + n - 1)
                          /\ (a + (m + j) - 1) - (a + m) + 1 = j
    BY ONLY <1>9
  <2> QED
    BY <1>1, <1>7, <2>1 DEF Blocks
<1>11. CASE c.op \in Reads
  <2>1. Read(r, out)
    BY <1>6, <1>7, <1>11 DEF Serves
  <2>2. out = Good(ReadData(r))
    BY <2>1 DEF Read, CopyErrors, MediumError, FlushError
  <2>3. out.data = [j \in 1 .. n |-> view[a + m + j - 1]]
    BY <1>6, <1>7, <1>11, <2>2 DEF Good, ReadData
  <2>4. IsTuple(out.data, n)
    BY <2>3 DEF IsTuple
  <2>5. view' = view /\ (q.fua => file' = FlushInternal(view, q))
    BY <1>6, <2>1, <2>2 DEF Read, Good, FlushError, MediumError
  <2>6. PICK v : v = view
    OBVIOUS
  <2>7. ASSUME NEW j \in 1 .. n, NEW b, b = a + (m + j) - 1
        PROVE  /\ view'[b] = out.data[j]
               /\ ForceUnitAccess(params, CdbGetRange(c)) => file'[b] = view'[b]
    <3>1. a + m + j - 1 = b
      BY <2>7
    <3>2. view'[b] = out.data[j]
      BY <2>3, <2>5, <3>1
    <3>3. b \in DOMAIN file /\ b \in Blocks(q)
      BY <1>10, <2>7
    <3>4. FlushInternal(v, q)[b] = v[b]
      BY <1>7, <1>8, <3>3, FlushReaches
    <3> QED
      BY <1>7, <2>5, <2>6, <3>2, <3>4
  <2> QED
    BY <1>2, <1>3, <1>4, <1>11, <2>4, <2>7
<1>12. CASE c.op \notin Reads
  <2>1. Write(r, out)
    BY <1>6, <1>7, <1>12 DEF Serves
  <2>2. view' = Copied(view, a + m, r.data, n)
    BY <1>6, <1>7, <2>1 DEF Write, CopyErrors, MediumError
  <2>3. PICK v : v = view'
    OBVIOUS
  <2>4. q.fua => file' = FlushInternal(v, q)
    BY <1>6, <2>1, <2>3 DEF Write, CopyErrors, MediumError, FlushError
  <2>5. ASSUME NEW j \in 1 .. n, NEW b, b = a + (m + j) - 1
        PROVE  /\ view'[b] = m + j
               /\ ForceUnitAccess(params, CdbGetRange(c)) => file'[b] = view'[b]
    <3>1. b \in DOMAIN view /\ b \in Blocks(q) /\ b - (a + m) + 1 = j
      BY <1>10, <2>5
    <3>2. view'[b] = r.data[j]
      BY <2>2, <3>1 DEF Copied
    <3>3. view'[b] = m + j
      BY <1>7, <3>2
    <3>4. FlushInternal(v, q)[b] = v[b]
      <4>1. params \in ParamSet /\ q.address \in Nat /\ q.count \in Nat /\ b \in DOMAIN file
        BY <1>7, <3>1
      <4> QED
        BY ONLY <1>8, <3>1, <4>1, FlushReaches
    <3> QED
      BY <1>7, <2>3, <2>4, <3>3, <3>4
  <2> QED
    BY <1>2, <1>3, <1>4, <1>12, <2>5
<1> QED
  BY <1>11, <1>12

\* The blocks that FlushInternal reaches are among those of the command.
LEMMA FlushedInRange ==
  ASSUME NEW p, NEW c, c.op \in Ranges
  PROVE  Flushed(p, CdbGetRange(c)) \subseteq CommandBlocks(c)
<1>1. CommandBlocks(c) = Blocks(CdbGetRange(c))
  BY OpKinds DEF CommandBlocks
<1> QED
  BY <1>1 DEF Flushed

\* So are the blocks of a SYNCHRONIZE CACHE, as far as its length goes.
LEMMA ServesSync ==
  ASSUME NEW c, NEW e, NEW r, NEW out, params \in ParamSet, InProgress(params, c, e),
         c.op \in Syncs, r = Prepared(params, c, e), Serves(r, out), out.good,
         DOMAIN view = DOMAIN file, DOMAIN view = 0 .. (params.BlockCount - 1)
  PROVE  \A b \in Flushed(params, CdbGetRange(c)) : file'[b] = view'[b]
<1>1. PICK q : q = r.request
  OBVIOUS
<1>2. /\ q.kind = "flush" /\ q.address = c.address /\ q.count = CdbGetRange(c).count
      /\ q.address \in Nat /\ q.count \in Nat
  BY <1>1, PreparedSync
<1>4. Flush(r, out)
  BY <1>1, <1>2 DEF Serves
<1>5. view' = view /\ file' = FlushInternal(view, q)
  BY <1>1, <1>4 DEF Flush, FlushError, MediumError
<1>6. PICK v : v = view
  OBVIOUS
<1>7. c.op \in Ranges
  BY OpKinds
<1>8. CommandBlocks(c) = Blocks(q)
  <2>1. CommandBlocks(c) = c.address .. (c.address + CdbGetRange(c).count - 1)
    BY <1>7, RangeBlocks
  <2> QED
    BY <1>2, <2>1 DEF Blocks
<1>9. CommandBlocks(c) \subseteq DOMAIN file
  <2>1. Sound(params, c, r)
    BY PreparedIsSound
  <2>2. RequestBlocks(r) = Blocks(q)
    BY <1>1, <1>2 DEF RequestBlocks
  <2> QED
    BY <1>8, <2>1, <2>2 DEF Sound
<1>10. ASSUME NEW b \in Flushed(params, CdbGetRange(c))
       PROVE  FlushInternal(v, q)[b] = v[b]
  <2>1. b \in CommandBlocks(c)
    BY <1>7, <1>10, FlushedInRange
  <2>2. b \in DOMAIN file /\ b \in q.address .. (q.address + q.count - 1)
    BY <1>8, <1>9, <2>1 DEF Blocks
  <2>3. PICK n : n = ((q.count * params.BlockLength) % W32) \div params.BlockLength
    OBVIOUS
  <2>4. CdbGetRange(c).address = q.address
    BY <1>2 DEF CdbGetRange
  <2>5. n = 0 \/ b < q.address + n
    BY <1>2, <1>10, <2>3, <2>4 DEF Flushed
  <2>6. b >= q.address
    BY <1>2, <2>2
  <2> QED
    BY <2>2, <2>3, <2>5, <2>6 DEF FlushInternal
<1> QED
  BY <1>5, <1>6, <1>10

-----------------------------------------------------------------------------
(***************************************************************************)
(* The unit comes and goes                                                 *)
(***************************************************************************)

Final == {"SUCCESS", "ERROR", "ABORTED", "INTERNAL_ERROR", "INVALID_REQUEST", "NO_DEVICE",
          "DATA_OVERRUN"}

\* While no command is in progress, little has to be shown.
LEMMA Idle ==
  ASSUME DOMAIN srb' = SrbFields, srb'.status \in Final,
         ext' = NULL, req' = NULL, rsp' = NULL, spoiled' = {}
  PROVE  /\ ~Pending' /\ SrbInv' /\ ProgressInv'
         /\ LateInv' => RequestInv'
<1>1. ~Pending'
  BY DEF Pending, Final
<1>2. SrbInv'
  BY <1>1 DEF SrbInv, Final
<1>3. ProgressInv'
  BY <1>1 DEF ProgressInv
<1> QED
  BY <1>1, <1>2, <1>3 DEF RequestInv

LEMMA InitHolds ==
  ASSUME Init
  PROVE  Inv
<1>1. srb.status = "SUCCESS"
  BY DEF Init, Returned
<1>2. ~Pending
  BY <1>1 DEF Pending
<1>3. UnitInv
  BY <1>2 DEF Init, UnitInv
<1>4. SrbInv
  <2>1. DOMAIN srb = SrbFields
    BY DEF Init, Returned, SrbFields
  <2> QED
    BY <1>1, <1>2, <2>1 DEF Init, SrbInv
<1>5. RequestInv /\ ProgressInv
  BY <1>2 DEF Init, RequestInv, LateInv, ProgressInv
<1>6. PromiseKept
  BY DEF Init, PromiseKept
<1> QED
  BY <1>3, <1>4, <1>5, <1>6 DEF Inv

\* What is not pending is idle.
LEMMA NotPending ==
  ASSUME Inv, ~Pending
  PROVE  /\ DOMAIN srb = SrbFields /\ srb.status \in Final
         /\ ext = NULL /\ req = NULL /\ rsp = NULL /\ spoiled = {}
BY DEF Inv, SrbInv, Final, Pending

LEMMA CreateKeeps ==
  ASSUME Inv, NEW p \in ParamSet, Create(p)
  PROVE  Inv'
<1>1. params = NULL /\ UNCHANGED <<srb, ext, req, rsp, late, spoiled, durable>>
  BY DEF Create, unit
<1>2. ~Pending /\ late = NULL
  BY <1>1 DEF Inv, UnitInv
<1>3. /\ DOMAIN srb = SrbFields /\ srb.status \in Final
      /\ ext = NULL /\ req = NULL /\ rsp = NULL /\ spoiled = {}
  BY <1>2, NotPending
<1>4. SrbInv' /\ ProgressInv' /\ RequestInv' /\ ~Pending' /\ late' = NULL
  <2>1. LateInv'
    BY <1>1, <1>2 DEF LateInv
  <2> QED
    BY <1>1, <1>2, <1>3, <2>1, Idle
<1>5. params' \in {p, NULL}
  BY DEF Create
<1>6. DOMAIN NewFile(p) = 0 .. (p.BlockCount - 1) /\ DOMAIN Formatted(p) = DOMAIN NewFile(p)
  BY DEF NewFile, Formatted
<1>7. CASE DOMAIN view = {} /\ view' = Formatted(p) /\ file' \in {NewFile(p), Formatted(p)}
  <2>1. durable = {}
    BY <1>7 DEF Inv, UnitInv
  <2>2. PromiseKept'
    BY <1>1, <2>1 DEF PromiseKept
  <2>3. DOMAIN view' = DOMAIN file' /\ DOMAIN view' = 0 .. (p.BlockCount - 1)
    BY <1>6, <1>7
  <2>4. UnitInv'
    BY <1>1, <1>3, <1>4, <1>5, <2>1, <2>3 DEF UnitInv
  <2> QED
    BY <1>4, <2>2, <2>4 DEF Inv
<1>8. CASE DOMAIN view = DOMAIN NewFile(p) /\ UNCHANGED <<view, file>>
  <2>1. PromiseKept'
    BY <1>1, <1>8 DEF Inv, PromiseKept
  <2>2. UnitInv'
    BY <1>1, <1>3, <1>4, <1>5, <1>6, <1>8 DEF Inv, UnitInv
  <2> QED
    BY <1>4, <2>1, <2>2 DEF Inv
<1> QED
  BY <1>7, <1>8 DEF Create

LEMMA UnprovisionKeeps ==
  ASSUME Inv, Unprovision, DOMAIN view' = DOMAIN view, DOMAIN file' = DOMAIN view,
         \A b \in DOMAIN view : file[b] = view[b] => file'[b] = view'[b]
  PROVE  Inv'
<1>1. params' = NULL /\ req' = NULL /\ rsp' = NULL /\ late' = NULL /\ durable' = durable
  BY DEF Unprovision
<1>2. DOMAIN srb' = SrbFields /\ srb'.status \in Final /\ ext' = NULL /\ spoiled' = {}
  <2>1. CASE Pending
    BY <2>1 DEF Unprovision, Returns, Returned, Final, SrbFields
  <2>2. CASE ~Pending
    BY <2>2, NotPending DEF Unprovision
  <2> QED
    BY <2>1, <2>2
<1>3. SrbInv' /\ ProgressInv' /\ RequestInv' /\ ~Pending'
  <2>1. LateInv'
    BY <1>1 DEF LateInv
  <2> QED
    BY <1>1, <1>2, <2>1, Idle
<1>4. UnitInv'
  BY <1>1, <1>2, <1>3 DEF Inv, UnitInv
<1>5. PromiseKept'
  BY <1>1 DEF Inv, UnitInv, PromiseKept
<1> QED
  BY <1>3, <1>4, <1>5 DEF Inv

LEMMA LostKeeps ==
  ASSUME Inv, Delete \/ Kill \/ PowerLoss
  PROVE  Inv'
<1>1. DOMAIN view = DOMAIN file
  BY DEF Inv, UnitInv
<1>2. Unprovision
  BY DEF Delete, Kill, PowerLoss
<1>3. \/ view' = view /\ file' \in {view, file}
      \/ view' = file /\ file' = file
  BY DEF Delete, Kill, PowerLoss
<1>4. /\ DOMAIN view' = DOMAIN view /\ DOMAIN file' = DOMAIN view
      /\ \A b \in DOMAIN view : file[b] = view[b] => file'[b] = view'[b]
  BY <1>1, <1>3
<1> QED
  BY <1>2, <1>4, UnprovisionKeeps

-----------------------------------------------------------------------------
(***************************************************************************)
(* What has arrived stays                                                  *)
(***************************************************************************)

\* Block b may lose its content to a late request, or keeps it.
Stays(b) ==
  \/ b \in spoiled'
  \/ view'[b] = view[b] /\ (file[b] = view[b] => file'[b] = view'[b])

LEMMA ArrivedStays ==
  ASSUME NEW i, NEW x, Arrived(i, x), params' = params, srb'.cmd = srb.cmd,
         spoiled \subseteq spoiled', Stays(srb.cmd.address + i - 1)
  PROVE  Arrived(i, x)'
<1>1. PICK b : b = srb.cmd.address + i - 1
  OBVIOUS
<1>2. CASE b \in spoiled'
  BY <1>1, <1>2 DEF Arrived
<1>3. CASE b \notin spoiled'
  <2>1. /\ b \notin spoiled /\ view'[b] = view[b]
        /\ file[b] = view[b] => file'[b] = view'[b]
    BY <1>1, <1>3 DEF Stays
  <2>2. /\ view[b] = IF srb.cmd.op \in Reads THEN x ELSE i
        /\ ForceUnitAccess(params, CdbGetRange(srb.cmd)) => file[b] = view[b]
    BY <1>1, <2>1 DEF Arrived
  <2>3. /\ view'[b] = IF srb'.cmd.op \in Reads THEN x ELSE i
        /\ ForceUnitAccess(params', CdbGetRange(srb'.cmd)) => file'[b] = view'[b]
    BY <2>1, <2>2
  <2> QED
    BY <1>1, <2>3 DEF Arrived
<1> QED
  BY <1>2, <1>3

LEMMA WhilePending ==
  ASSUME Inv, Pending
  PROVE  /\ params \in ParamSet /\ InProgress(params, srb.cmd, ext)
         /\ DOMAIN view = DOMAIN file /\ DOMAIN view = 0 .. (params.BlockCount - 1)
         /\ DOMAIN view \subseteq Int
<1>1. /\ params \in ParamSet /\ InProgress(params, srb.cmd, ext)
      /\ DOMAIN view = DOMAIN file /\ DOMAIN view = 0 .. (params.BlockCount - 1)
  BY RawDiskAssumption DEF Inv, UnitInv, SrbInv
<1> QED
  BY <1>1, ParamFacts

LEMMA WhileRequested ==
  ASSUME Inv, req # NULL
  PROVE  Pending /\ req = Prepared(params, srb.cmd, ext) /\ Sound(params, srb.cmd, req)
<1>1. Pending /\ req = Prepared(params, srb.cmd, ext)
  BY DEF Inv, SrbInv, RequestInv
<1>2. PICK r : r = req
  OBVIOUS
<1>3. Sound(params, srb.cmd, r)
  BY <1>1, <1>2, WhilePending, PreparedIsSound
<1> QED
  BY <1>1, <1>2, <1>3

LEMMA WhileLate ==
  ASSUME Inv, late # NULL
  PROVE  /\ params \in ParamSet
         /\ DOMAIN view = DOMAIN file /\ DOMAIN view = 0 .. (params.BlockCount - 1)
         /\ DOMAIN view \subseteq Int
         /\ \E c \in Commands : Sound(params, c, late)
<1>1. /\ params \in ParamSet
      /\ DOMAIN view = DOMAIN file /\ DOMAIN view = 0 .. (params.BlockCount - 1)
  BY RawDiskAssumption DEF Inv, UnitInv
<1>2. PICK c \in Commands, e \in Extension : InProgress(params, c, e) /\ late = Prepared(params, c, e)
  BY DEF Inv, RequestInv, LateInv
<1>3. PICK r : r = late
  OBVIOUS
<1>4. Sound(params, c, r)
  BY <1>1, <1>2, <1>3, PreparedIsSound
<1>5. \E d \in Commands : Sound(params, d, late)
  BY <1>3, <1>4
<1> QED
  BY <1>1, <1>5, ParamFacts

\* The blocks of a transfer that have been moved, and those of the next chunk, are in
\* the unit and are not the same.
LEMMA WhereBlocksAre ==
  ASSUME Inv, Pending, srb.cmd.op \in Transfers
  PROVE  /\ \A i \in 1 .. (Moved(params, ext) + Chunk(params, ext)) :
              srb.cmd.address + i - 1 \in DOMAIN view
         /\ \A j \in 1 .. Chunk(params, ext) :
              Moved(params, ext) + j \in 1 .. (Moved(params, ext) + Chunk(params, ext))
         /\ \A i \in 1 .. Moved(params, ext) :
              i \in 1 .. (Moved(params, ext) + Chunk(params, ext))
         /\ req # NULL => \A i \in 1 .. Moved(params, ext) :
              srb.cmd.address + i - 1 \notin RequestBlocks(req)
<1>1. /\ params \in ParamSet /\ InProgress(params, srb.cmd, ext)
      /\ DOMAIN view = 0 .. (params.BlockCount - 1)
  BY WhilePending
<1>2. PICK p \in ParamSet : p = params
  BY <1>1
<1>3. PICK c : c = srb.cmd
  OBVIOUS
<1>4. PICK e : e = ext
  OBVIOUS
<1>5. InProgress(p, c, e) /\ c.op \in Transfers
  BY <1>1, <1>2, <1>3, <1>4
<1>6. PICK a \in Nat : a = c.address
  BY <1>5, TransferProgress
<1>7. PICK m \in Nat : m = Moved(p, e)
  BY <1>5, TransferProgress
<1>8. PICK n \in Nat : n = Chunk(p, e)
  BY <1>5, TransferProgress
<1>9. PICK t \in Nat : t = Total(p, c)
  BY <1>5, TransferProgress
<1>10. PICK k \in Nat : k = CdbGetRange(c).count
  BY <1>5, TransferProgress
<1>11. PICK bc \in Nat : bc = p.BlockCount
  BY ParamFacts
<1>12. m + n <= t /\ t <= k /\ a + k <= bc
  BY <1>5, <1>6, <1>7, <1>8, <1>9, <1>10, <1>11, TransferProgress
<1>13. \A i \in 1 .. (m + n) : a + i - 1 \in 0 .. (bc - 1)
  BY ONLY <1>12
<1>14. \A j \in 1 .. n : m + j \in 1 .. (m + n)
  OBVIOUS
<1>15. \A i \in 1 .. m : i \in 1 .. (m + n)
  OBVIOUS
<1>16. ASSUME req # NULL
       PROVE  \A i \in 1 .. m : a + i - 1 \notin RequestBlocks(req)
  <2>1. PICK r : r = req
    OBVIOUS
  <2>2. r = Prepared(p, c, e)
    BY <1>2, <1>3, <1>4, <1>16, <2>1, WhileRequested
  <2>3. /\ c.op \in Reads => r.request.kind = "read"
        /\ c.op \notin Reads => r.request.kind = "write"
        /\ r.request.address = a + m /\ r.request.count = n
    BY <1>5, <1>6, <1>7, <1>8, <2>2, PreparedTransfer
  <2>4. RequestBlocks(r) = (a + m) .. (a + m + n - 1)
    BY <2>3 DEF RequestBlocks, Blocks
  <2>5. \A i \in 1 .. m : a + i - 1 \notin (a + m) .. (a + m + n - 1)
    OBVIOUS
  <2> QED
    BY <2>1, <2>4, <2>5
<1> QED
  BY <1>1, <1>2, <1>3, <1>4, <1>6, <1>7, <1>8, <1>11, <1>13, <1>14, <1>15, <1>16

LEMMA MovedStays ==
  ASSUME Inv, Pending, UNCHANGED <<params, srb, ext>>, spoiled \subseteq spoiled',
         srb.cmd.op \in Transfers =>
           \A i \in 1 .. Moved(params, ext) : Stays(srb.cmd.address + i - 1)
  PROVE  MovedArrived'
<1>1. SUFFICES ASSUME srb.cmd.op \in Transfers
               PROVE  \A i \in 1 .. Moved(params, ext) :
                        Arrived(i, IF srb.cmd.op \in Reads THEN srb.buffer[i] ELSE NULL)'
  BY DEF MovedArrived
<1>2. TAKE i \in 1 .. Moved(params, ext)
<1>3. PICK x : x = IF srb.cmd.op \in Reads THEN srb.buffer[i] ELSE NULL
  OBVIOUS
<1>4. Arrived(i, x)
  BY <1>1, <1>3 DEF Inv, ProgressInv, MovedArrived
<1>5. Stays(srb.cmd.address + i - 1)
  BY <1>1
<1>6. Arrived(i, x)'
  BY <1>4, <1>5, ArrivedStays
<1> QED
  BY <1>3, <1>6

LEMMA ResponseStays ==
  ASSUME Inv, rsp # NULL, UNCHANGED <<params, srb, ext, rsp>>, spoiled \subseteq spoiled',
         \A b \in DOMAIN view : Stays(b)
  PROVE  ResponseTrue'
<1>1. Pending /\ ResponseTrue /\ req # NULL
  BY DEF Inv, SrbInv, RequestInv, ProgressInv
<1>2. ASSUME rsp.good, srb.cmd.op \in Transfers
      PROVE  \A j \in 1 .. Chunk(params, ext) :
               Arrived(Moved(params, ext) + j,
                       IF srb.cmd.op \in Reads THEN rsp.data[j] ELSE NULL)'
  <2>1. TAKE j \in 1 .. Chunk(params, ext)
  <2>2. PICK x : x = IF srb.cmd.op \in Reads THEN rsp.data[j] ELSE NULL
    OBVIOUS
  <2>3. PICK i : i = Moved(params, ext) + j
    OBVIOUS
  <2>4. Arrived(i, x)
    BY <1>1, <1>2, <2>2, <2>3 DEF ResponseTrue
  <2>5. Stays(srb.cmd.address + i - 1)
    BY <1>1, <1>2, <2>3, WhereBlocksAre
  <2>6. Arrived(i, x)'
    BY <2>4, <2>5, ArrivedStays
  <2> QED
    BY <2>2, <2>3, <2>6
<1>3. ASSUME rsp.good, srb.cmd.op \in Syncs,
             NEW b \in Flushed(params, CdbGetRange(srb.cmd)) \ spoiled'
      PROVE  file'[b] = view'[b]
  <2>1. b \notin spoiled /\ file[b] = view[b]
    BY <1>1, <1>3 DEF ResponseTrue
  <2>2. b \in DOMAIN view
    <3>1. PICK r : r = req
      OBVIOUS
    <3>2. PICK c : c = srb.cmd
      OBVIOUS
    <3>3. params \in ParamSet /\ InProgress(params, c, ext) /\ r = Prepared(params, c, ext)
      BY <1>1, <3>1, <3>2, WhilePending, WhileRequested
    <3>4. /\ r.request.kind = "flush" /\ r.request.address = c.address
          /\ r.request.count = CdbGetRange(c).count
      BY <1>3, <3>2, <3>3, PreparedSync
    <3>5. RequestBlocks(r) = c.address .. (c.address + CdbGetRange(c).count - 1)
      BY <3>4 DEF RequestBlocks, Blocks
    <3>6. CommandBlocks(c) = c.address .. (c.address + CdbGetRange(c).count - 1)
      BY <1>3, <3>2, OpKinds, RangeBlocks
    <3>7. RequestBlocks(r) \subseteq 0 .. (params.BlockCount - 1)
      BY <1>1, <3>1, WhileRequested DEF Sound
    <3>8. b \in CommandBlocks(c)
      BY <1>3, <3>2, OpKinds, FlushedInRange
    <3> QED
      BY <1>1, <3>5, <3>6, <3>7, <3>8, WhilePending
  <2>3. Stays(b)
    BY <2>2
  <2> QED
    BY <1>3, <2>1, <2>3 DEF Stays
<1>4. rsp.good /\ srb.cmd.op \in Reads /\ srb.cmd.op \in Transfers =>
        IsTuple(rsp.data, Chunk(params, ext))
  BY <1>1 DEF ResponseTrue
<1>5. ~rsp.good => rsp.Information = NULL \/ rsp.Information \in CommandBlocks(srb.cmd)
  BY <1>1 DEF ResponseTrue
<1> QED
  BY <1>2, <1>3, <1>4, <1>5 DEF ResponseTrue

-----------------------------------------------------------------------------
(***************************************************************************)
(* Requests are made, served, served late and aborted                      *)
(***************************************************************************)

LEMMA WriteBackKeeps ==
  ASSUME Inv, NEW b \in DOMAIN view, WriteBack(b)
  PROVE  Inv'
<1>1. /\ file' = [file EXCEPT ![b] = view[b]]
      /\ UNCHANGED <<params, view, srb, ext, req, rsp, late, spoiled, durable>>
  BY DEF WriteBack, unit
<1>2. DOMAIN view = DOMAIN file
  BY DEF Inv, UnitInv
<1>3. DOMAIN file' = DOMAIN file
  BY <1>1
<1>4. \A x \in DOMAIN view : file[x] = view[x] => file'[x] = view'[x]
  BY <1>1, <1>2
<1>5. \A x \in DOMAIN view : Stays(x)
  BY <1>1, <1>4 DEF Stays
<1>6. Pending' = Pending
  BY <1>1 DEF Pending
<1>7. UnitInv'
  BY <1>1, <1>3, <1>6 DEF Inv, UnitInv
<1>8. SrbInv'
  BY <1>1, <1>6 DEF Inv, SrbInv
<1>9. RequestInv'
  BY <1>1 DEF Inv, RequestInv, LateInv
<1>10. ProgressInv'
  <2>1. ASSUME Pending
        PROVE  MovedArrived'
    <3>1. srb.cmd.op \in Transfers =>
            \A i \in 1 .. Moved(params, ext) : Stays(srb.cmd.address + i - 1)
      BY <1>5, <2>1, WhereBlocksAre
    <3> QED
      BY <1>1, <2>1, <3>1, MovedStays
  <2>2. rsp # NULL => ResponseTrue'
    BY <1>1, <1>5, ResponseStays
  <2> QED
    BY <1>1, <1>6, <2>1, <2>2 DEF ProgressInv
<1>11. PromiseKept'
  BY <1>1, <1>4 DEF Inv, UnitInv, PromiseKept
<1> QED
  BY <1>7, <1>8, <1>9, <1>10, <1>11 DEF Inv

LEMMA PrepareKeeps ==
  ASSUME Inv, Prepare
  PROVE  Inv'
<1>1. /\ Pending /\ rsp = NULL
      /\ UNCHANGED <<params, view, file, srb, ext, rsp, late, spoiled, durable>>
  BY DEF Prepare
<1>2. req' = Prepared(params, srb.cmd, ext)
  BY DEF Prepare, Prepared
<1>3. Pending' = Pending
  BY <1>1 DEF Pending
<1>4. UnitInv'
  BY <1>1, <1>3 DEF Inv, UnitInv
<1>5. SrbInv'
  BY <1>1, <1>3 DEF Inv, SrbInv
<1>6. RequestInv'
  BY <1>1, <1>2 DEF Inv, RequestInv, LateInv
<1>7. ProgressInv'
  <2>1. \A b : Stays(b)
    BY <1>1 DEF Stays
  <2>2. MovedArrived'
    BY <1>1, <2>1, MovedStays
  <2> QED
    BY <1>1, <2>2 DEF ProgressInv
<1>8. PromiseKept'
  BY <1>1 DEF Inv, PromiseKept
<1> QED
  BY <1>4, <1>5, <1>6, <1>7, <1>8 DEF Inv

LEMMA ServeKeeps ==
  ASSUME Inv, Serve
  PROVE  Inv'
<1>1. /\ req # NULL /\ rsp = NULL /\ durable' = durable \ Changed
      /\ UNCHANGED <<params, srb, ext, req, late, spoiled>>
  BY DEF Serve
<1>2. PICK r : r = req
  OBVIOUS
<1>3. PICK out : Serves(r, out) /\ rsp' = out
  BY <1>2 DEF Serve
<1>4. PICK c : c = srb.cmd
  OBVIOUS
<1>5. PICK e : e = ext
  OBVIOUS
<1>6. /\ Pending /\ r = Prepared(params, c, e) /\ Sound(params, c, r)
      /\ params \in ParamSet /\ InProgress(params, c, e)
      /\ DOMAIN view = DOMAIN file /\ DOMAIN view = 0 .. (params.BlockCount - 1)
      /\ DOMAIN view \subseteq Int
  BY <1>1, <1>2, <1>4, <1>5, WhileRequested, WhilePending
<1>7. PICK p : p = params
  OBVIOUS
<1>8. /\ DOMAIN view' = DOMAIN view /\ DOMAIN file' = DOMAIN view
      /\ \A b \in DOMAIN view : b \notin RequestBlocks(r) => view'[b] = view[b]
      /\ \A b \in DOMAIN view : view'[b] = view[b] /\ file[b] = view[b] => file'[b] = view'[b]
      /\ ~out.good => out.Information = NULL \/ out.Information \in RequestBlocks(r)
  BY <1>3, <1>6, <1>7, ServesEffect
<1>9. Pending' = Pending
  BY <1>1 DEF Pending
<1>10. UnitInv'
  BY <1>1, <1>6, <1>8, <1>9 DEF Inv, UnitInv
<1>11. SrbInv'
  BY <1>1, <1>6, <1>9 DEF Inv, SrbInv
<1>12. RequestInv'
  BY <1>1 DEF Inv, RequestInv, LateInv
<1>13. MovedArrived'
  <2>1. ASSUME c.op \in Transfers, NEW i \in 1 .. Moved(params, ext)
        PROVE  Stays(srb.cmd.address + i - 1)
    <3>1. PICK b : b = srb.cmd.address + i - 1
      OBVIOUS
    <3>2. b \in DOMAIN view /\ b \notin RequestBlocks(r)
      BY <1>1, <1>2, <1>4, <1>6, <2>1, <3>1, WhereBlocksAre
    <3> QED
      BY <1>8, <3>1, <3>2 DEF Stays
  <2> QED
    BY <1>1, <1>4, <1>6, <2>1, MovedStays
<1>14. ResponseTrue'
  <2>1. ASSUME out.good, c.op \in Transfers
        PROVE  /\ c.op \in Reads => IsTuple(out.data, Chunk(params, e))
               /\ \A j \in 1 .. Chunk(params, e) :
                    Arrived(Moved(params, e) + j, IF c.op \in Reads THEN out.data[j] ELSE NULL)'
    <3>1. c.op \in Reads => IsTuple(out.data, Chunk(params, e))
      BY <1>3, <1>6, <2>1, ServesChunk
    <3>2. ASSUME NEW j \in 1 .. Chunk(params, e)
          PROVE  Arrived(Moved(params, e) + j, IF c.op \in Reads THEN out.data[j] ELSE NULL)'
      <4>1. PICK i : i = Moved(params, e) + j
        OBVIOUS
      <4>2. PICK b : b = c.address + i - 1
        OBVIOUS
      <4>3. PICK x : x = IF c.op \in Reads THEN out.data[j] ELSE NULL
        OBVIOUS
      <4>4. /\ view'[b] = IF c.op \in Reads THEN out.data[j] ELSE i
            /\ ForceUnitAccess(params, CdbGetRange(c)) => file'[b] = view'[b]
        BY <1>3, <1>6, <2>1, <3>2, <4>1, <4>2, ServesChunk
      <4>5. Arrived(i, x)'
        BY <1>1, <1>4, <4>2, <4>3, <4>4 DEF Arrived
      <4> QED
        BY <1>1, <4>1, <4>3, <4>5
    <3> QED
      BY <3>1, <3>2
  <2>2. ASSUME out.good, c.op \in Syncs
        PROVE  \A b \in Flushed(params, CdbGetRange(c)) : file'[b] = view'[b]
    BY <1>3, <1>6, <2>2, ServesSync
  <2>3. ~out.good => out.Information = NULL \/ out.Information \in CommandBlocks(c)
    BY <1>6, <1>8 DEF Sound
  <2> QED
    BY <1>1, <1>3, <1>4, <1>5, <2>1, <2>2, <2>3 DEF ResponseTrue
<1>15. ProgressInv'
  BY <1>13, <1>14 DEF ProgressInv
<1>16. PromiseKept'
  BY <1>1, <1>8 DEF Inv, UnitInv, PromiseKept, Changed
<1> QED
  BY <1>10, <1>11, <1>12, <1>15, <1>16 DEF Inv

LEMMA ServeLateKeeps ==
  ASSUME Inv, ServeLate
  PROVE  Inv'
<1>1. /\ late # NULL /\ late' = NULL /\ durable' = durable \ Changed
      /\ UNCHANGED <<params, srb, ext, req, rsp>>
      /\ spoiled' = IF Pending THEN spoiled \cup RequestBlocks(late) ELSE spoiled
  BY DEF ServeLate
<1>2. PICK r : r = late
  OBVIOUS
<1>3. PICK out : Serves(r, out)
  BY <1>2 DEF ServeLate
<1>4. PICK p : p = params
  OBVIOUS
<1>5. /\ params \in ParamSet
      /\ DOMAIN view = DOMAIN file /\ DOMAIN view = 0 .. (params.BlockCount - 1)
      /\ DOMAIN view \subseteq Int
  BY <1>1, WhileLate
<1>6. PICK c \in Commands : Sound(p, c, r)
  BY <1>1, <1>2, <1>4, WhileLate
<1>7. /\ DOMAIN view' = DOMAIN view /\ DOMAIN file' = DOMAIN view
      /\ \A b \in DOMAIN view : b \notin RequestBlocks(r) => view'[b] = view[b]
      /\ \A b \in DOMAIN view : view'[b] = view[b] /\ file[b] = view[b] => file'[b] = view'[b]
  BY <1>3, <1>5, <1>6, ServesEffect
<1>8. Pending' = Pending
  BY <1>1 DEF Pending
<1>9. RequestBlocks(r) \subseteq DOMAIN view
  BY <1>4, <1>5, <1>6 DEF Sound
<1>10. UnitInv'
  BY <1>1, <1>2, <1>5, <1>7, <1>8, <1>9 DEF Inv, UnitInv
<1>11. SrbInv'
  BY <1>1, <1>8 DEF Inv, SrbInv
<1>12. RequestInv'
  BY <1>1 DEF Inv, RequestInv, LateInv
<1>13. ProgressInv'
  <2>1. CASE ~Pending
    BY <1>1, <1>8, <2>1 DEF Inv, SrbInv, ProgressInv
  <2>2. CASE Pending
    <3>1. spoiled' = spoiled \cup RequestBlocks(r)
      BY <1>1, <1>2, <2>2
    <3>2. \A b \in DOMAIN view : Stays(b)
      BY <1>7, <3>1 DEF Stays
    <3>3. MovedArrived'
      <4>1. srb.cmd.op \in Transfers =>
              \A i \in 1 .. Moved(params, ext) : Stays(srb.cmd.address + i - 1)
        BY <2>2, <3>2, WhereBlocksAre
      <4> QED
        BY <1>1, <2>2, <3>1, <4>1, MovedStays
    <3>4. rsp # NULL => ResponseTrue'
      BY <1>1, <3>1, <3>2, ResponseStays
    <3> QED
      BY <1>1, <3>3, <3>4 DEF ProgressInv
  <2> QED
    BY <2>1, <2>2
<1>14. PromiseKept'
  BY <1>1, <1>7 DEF Inv, UnitInv, PromiseKept, Changed
<1> QED
  BY <1>10, <1>11, <1>12, <1>13, <1>14 DEF Inv

LEMMA ResetKeeps ==
  ASSUME Inv, Reset
  PROVE  Inv'
<1>1. /\ Pending /\ srb'.status = "ABORTED" /\ ext' = NULL /\ spoiled' = {}
      /\ req' = NULL /\ rsp' = NULL /\ UNCHANGED <<params, view, file, durable>>
      /\ DOMAIN srb' = SrbFields
  BY DEF Reset, Returns, Returned, SrbFields
<1>2. \/ late' = late
      \/ req # NULL /\ late' = req
  BY DEF Reset
<1>3. LateInv'
  <2>1. CASE late' = late
    BY <1>1, <2>1 DEF Inv, RequestInv, LateInv
  <2>2. CASE req # NULL /\ late' = req
    <3>1. req = Prepared(params, srb.cmd, ext) /\ InProgress(params, srb.cmd, ext)
      BY <1>1, <2>2, WhileRequested, WhilePending
    <3>2. srb.cmd \in Commands /\ ext \in Extension
      BY <3>1 DEF InProgress, Accepted
    <3>3. PICK c \in Commands : c = srb.cmd
      BY <3>2
    <3>4. PICK e \in Extension : e = ext
      BY <3>2
    <3>5. InProgress(params', c, e) /\ late' = Prepared(params', c, e)
      BY <1>1, <2>2, <3>1, <3>3, <3>4
    <3> QED
      BY <3>5 DEF LateInv
  <2> QED
    BY <1>2, <2>1, <2>2
<1>4. SrbInv' /\ ProgressInv' /\ RequestInv' /\ ~Pending'
  BY <1>1, <1>3, Idle DEF Final
<1>5. UnitInv'
  <2>1. params # NULL
    BY <1>1 DEF Inv, UnitInv
  <2> QED
    BY <1>1, <1>4, <2>1 DEF Inv, UnitInv
<1>6. PromiseKept'
  BY <1>1 DEF Inv, PromiseKept
<1> QED
  BY <1>4, <1>5, <1>6 DEF Inv

-----------------------------------------------------------------------------
(***************************************************************************)
(* A command is accepted                                                   *)
(***************************************************************************)

LEMMA RangeAccepted ==
  ASSUME NEW p \in ParamSet, NEW c \in Commands, NEW len, NEW a, c.op \in Ranges,
         CheckRange(p, c, len, a).status = "POST"
  PROVE  Accepted(p, c)
<1>1. /\ ~(c.op \notin Reads /\ p.WriteProtected)
      /\ CdbGetRange(c).count # 0 /\ InUnit(p, CdbGetRange(c))
  BY CheckRangePosts
<1>2. PICK r : r = CdbGetRange(c)
  OBVIOUS
<1>3. /\ r.address = c.address /\ c.address \in 0 .. (W64 - 1)
      /\ r.count \in Nat /\ r.count < W64
  BY <1>2, RangeFacts
<1>4. r.address + r.count <= p.BlockCount
  BY <1>1, <1>2, <1>3, InUnitMeans
<1> QED
  BY <1>1, <1>2, <1>3, <1>4, OpKinds DEF Accepted

LEMMA UnmapAccepted ==
  ASSUME NEW p \in ParamSet, NEW c \in Commands, NEW len, NEW a, c.op = "UNMAP",
         CheckUnmap(p, c, c.list, len, a).status = "POST"
  PROVE  Accepted(p, c)
<1>1. PICK l : l = c.list
  OBVIOUS
<1>2. CheckUnmap(p, c, l, len, a).status = "POST"
  BY <1>1
<1>3. /\ ~p.WriteProtected /\ ~(l.length > p.MaxTransferLength)
      /\ \A i \in 1 .. UnmapCount(l) : InUnit(p, l.descriptors[i])
  BY <1>2, CheckUnmapPosts
<1>4. /\ l.length \in 0 .. (W16 - 1) /\ UnmapCount(l) <= Len(l.descriptors)
      /\ l.descriptors \in Seq([address : 0 .. (W64 - 1), count : 0 .. (W32 - 1)])
  BY <1>1, RawDiskAssumption
<1>5. l.length \in Nat /\ W16 \in Nat /\ W32 \in Nat /\ W64 \in Nat /\ W32 < W64
  BY <1>4, ScsiAssumption
<1>6. l.length <= p.MaxTransferLength
  BY <1>3, <1>5, ParamFacts
<1>7. ASSUME NEW i \in 1 .. UnmapCount(l)
      PROVE  l.descriptors[i].address + l.descriptors[i].count <= p.BlockCount
  <2>1. PICK ds : ds = l.descriptors
    OBVIOUS
  <2>2. i \in 1 .. Len(ds)
    <3>1. PICK n : n = UnmapCount(l)
      OBVIOUS
    <3>2. n \in Nat
      BY <1>5, <3>1, Division, ScsiAssumption DEF UnmapCount
    <3>3. Len(ds) \in Nat
      BY <1>4, <2>1
    <3> QED
      BY <1>4, <2>1, <3>1, <3>2, <3>3
  <2>3. ds[i] \in [address : 0 .. (W64 - 1), count : 0 .. (W32 - 1)]
    BY ONLY <1>4, <2>1, <2>2, ElementOfSeq
  <2>4. PICK r : r = ds[i]
    OBVIOUS
  <2>5. r.address \in 0 .. (W64 - 1) /\ r.count \in 0 .. (W32 - 1)
    BY ONLY <2>3, <2>4
  <2>6. r.count \in Nat /\ r.count < W64
    BY ONLY <1>5, <2>5
  <2>7. InUnit(p, r)
    BY <1>3, <2>1, <2>4
  <2>8. r.address + r.count <= p.BlockCount
    BY <2>5, <2>6, <2>7, InUnitMeans
  <2> QED
    BY <2>1, <2>4, <2>8
<1> QED
  BY <1>1, <1>3, <1>6, <1>7, OpKinds DEF Accepted

\* A command is answered at once, or it is one that the unit can execute.
LEMMA CheckFacts ==
  ASSUME NEW p \in ParamSet \cup {NULL}, NEW c \in Commands
  PROVE  /\ Check(p, c).status \in Answers \cup {"POST"}
         /\ Check(p, c).status = "POST" => p \in ParamSet /\ Accepted(p, c)
<1>1. "POST" \notin Answers /\ {"NO_DEVICE", "SUCCESS", "INVALID_REQUEST"} \subseteq Answers
  BY DEF Answers
<1>2. PICK d : d = Check(p, c)
  OBVIOUS
<1>3. NULL \notin ParamSet
  BY RawDiskAssumption
<1>4. /\ "TEST_UNIT_READY" \notin Reports \cup Ranges \cup {"UNMAP"}
      /\ Reports \cap (Ranges \cup {"UNMAP"}) = {} /\ "UNMAP" \notin Ranges
  BY DEF Reports, Ranges, Reads, Writes, Syncs
<1>5. \/ d = CheckReport(c.buffer, TRUE, c.autosense)
      \/ d = CheckReport(c.buffer, c.known, c.autosense)
      \/ d = Status("NO_DEVICE") \/ d = Status("SUCCESS") \/ d = Status("INVALID_REQUEST")
      \/ p # NULL /\ c.op \in Ranges /\ d = CheckRange(p, c, BufferLength(p, c), c.autosense)
      \/ /\ p # NULL /\ c.op = "UNMAP"
         /\ d = CheckUnmap(p, c, c.list, BufferLength(p, c), c.autosense)
  BY <1>2, <1>4 DEF Check
<1>6. CASE \/ d = CheckReport(c.buffer, TRUE, c.autosense)
           \/ d = CheckReport(c.buffer, c.known, c.autosense)
  <2>1. d.status \in Answers
    BY <1>6, CheckReportAnswers
  <2> QED
    BY <1>1, <1>2, <2>1
<1>7. CASE d = Status("NO_DEVICE") \/ d = Status("SUCCESS") \/ d = Status("INVALID_REQUEST")
  <2>1. d.status \in Answers
    BY <1>1, <1>7, StatusStatus
  <2> QED
    BY <1>1, <1>2, <2>1
<1>8. CASE p # NULL /\ c.op \in Ranges /\ d = CheckRange(p, c, BufferLength(p, c), c.autosense)
  <2>1. p \in ParamSet /\ c.op \in Ranges
    BY <1>8
  <2>2. PICK len : len = BufferLength(p, c)
    OBVIOUS
  <2>3. PICK a : a = c.autosense
    OBVIOUS
  <2>4. d = CheckRange(p, c, len, a)
    BY <1>8, <2>2, <2>3
  <2>5. CheckRange(p, c, len, a).status \in Answers \cup {"POST"}
    BY CheckRangePosts
  <2>6. CheckRange(p, c, len, a).status = "POST" => Accepted(p, c)
    BY <2>1, RangeAccepted
  <2> QED
    BY <1>2, <2>1, <2>4, <2>5, <2>6
<1>9. CASE /\ p # NULL /\ c.op = "UNMAP"
           /\ d = CheckUnmap(p, c, c.list, BufferLength(p, c), c.autosense)
  <2>1. p \in ParamSet /\ c.op = "UNMAP"
    BY <1>9
  <2>2. PICK len : len = BufferLength(p, c)
    OBVIOUS
  <2>3. PICK a : a = c.autosense
    OBVIOUS
  <2>4. PICK l : l = c.list
    OBVIOUS
  <2>5. d = CheckUnmap(p, c, l, len, a)
    BY <1>9, <2>2, <2>3, <2>4
  <2>6. CheckUnmap(p, c, l, len, a).status \in Answers \cup {"POST"}
    BY CheckUnmapPosts
  <2>7. CheckUnmap(p, c, l, len, a).status = "POST" => Accepted(p, c)
    BY <2>1, <2>4, UnmapAccepted
  <2> QED
    BY <1>2, <2>1, <2>5, <2>6, <2>7
<1> QED
  BY <1>5, <1>6, <1>7, <1>8, <1>9

\* What an accepted command starts with.
LEMMA StartFacts ==
  ASSUME NEW p \in ParamSet, NEW c, Accepted(p, c), NEW e, e = NewExtension(DataLength(p, c))
  PROVE  InProgress(p, c, e) /\ e # NULL /\ Moved(p, e) = 0
<1>1. c \in Commands /\ (c.op \in Transfers \/ c.op \in Syncs \/ c.op = "UNMAP")
  BY OpKinds DEF Accepted
<1>2. PICK l \in Nat \ {0} : l = p.BlockLength
  BY ParamFacts
<1>3. DataLength(p, c) \in Nat
  <2>1. CASE c.op \in Transfers
    <3>1. PICK t \in Nat : t = Total(p, c)
      <4>1. Total(p, c) \in 0 .. CdbGetRange(c).count /\ CdbGetRange(c).count \in Nat
        BY <1>1, <2>1, OpKinds, TotalFacts, RangeFacts
      <4> QED
        BY <4>1
    <3>2. DataLength(p, c) = t * l
      BY <1>1, <1>2, <2>1, <3>1, TotalFacts
    <3> QED
      BY <3>2
  <2>2. CASE c.op \in Syncs
    <3>1. c.op \in Ranges
      BY <2>2, OpKinds
    <3>2. DataLength(p, c) = RangeDataLength(p, c)
      BY <3>1, OpKinds DEF DataLength
    <3> QED
      BY <2>2, <3>2 DEF RangeDataLength
  <2>3. CASE c.op = "UNMAP"
    <3>1. DataLength(p, c) = c.list.length
      BY <2>3, OpKinds DEF DataLength
    <3>2. c.list.length \in 0 .. (W16 - 1)
      BY <1>1, <2>3, RawDiskAssumption
    <3> QED
      BY <3>1, <3>2, ScsiAssumption
  <2> QED
    BY <1>1, <2>1, <2>2, <2>3
<1>4. e \in Extension /\ e.SystemDataLength = DataLength(p, c) /\ e.ChunkOffset = 0
  BY <1>3 DEF NewExtension, Extension
<1>5. 0 \div l = 0 /\ 0 * l = 0
  OBVIOUS
<1>6. Moved(p, e) = 0
  BY <1>2, <1>4, <1>5 DEF Moved
<1>7. InProgress(p, c, e)
  BY <1>2, <1>3, <1>4, <1>5, <1>6 DEF InProgress
<1>8. NULL \notin Extension
  BY RawDiskAssumption DEF Extension
<1> QED
  BY <1>4, <1>6, <1>7, <1>8

LEMMA ExecuteKeeps ==
  ASSUME Inv, NEW c \in Commands, Execute(c)
  PROVE  Inv'
<1>1. /\ ~Pending /\ spoiled' = {}
      /\ UNCHANGED <<params, view, file, req, rsp, late, durable>>
  BY DEF Execute, unit
<1>2. req = NULL /\ rsp = NULL
  BY <1>1, NotPending
<1>3. PICK p \in ParamSet \cup {NULL} : p = params
  BY DEF Inv, UnitInv
<1>4. LateInv'
  BY <1>1 DEF Inv, RequestInv, LateInv
<1>5. PromiseKept'
  BY <1>1 DEF Inv, PromiseKept
<1>6. ASSUME DOMAIN srb' = SrbFields, srb'.status \in Final, ext' = NULL
      PROVE  Inv'
  <2>1. SrbInv' /\ ProgressInv' /\ RequestInv' /\ ~Pending'
    BY <1>1, <1>2, <1>4, <1>6, Idle
  <2>2. UnitInv'
    BY <1>1, <2>1 DEF Inv, UnitInv
  <2> QED
    BY <1>5, <2>1, <2>2 DEF Inv
<1>7. CASE Check(params, c).status # "POST"
  <2>1. PICK d : d = Check(params, c)
    OBVIOUS
  <2>2. srb' = Returned(d.status, d.sense, <<>>) /\ ext' = NULL
    BY <1>7, <2>1 DEF Execute
  <2>3. d.status \in Answers
    BY <1>3, <1>7, <2>1, CheckFacts
  <2>4. srb'.status \in Final /\ DOMAIN srb' = SrbFields
    BY <2>2, <2>3 DEF Returned, Answers, Final, SrbFields
  <2> QED
    BY <1>6, <2>2, <2>4
<1>8. CASE Check(params, c).status = "POST"
  <2>1. p \in ParamSet /\ Accepted(p, c)
    BY <1>3, <1>8, CheckFacts
  <2>2. PICK post \in PostSrb(params, c) :
          /\ srb' = IF post.ext = NULL THEN Returned(post.status, NULL, <<>>) ELSE Posted(c)
          /\ ext' = post.ext
    BY <1>8 DEF Execute
  <2>3. PICK e : e = NewExtension(DataLength(p, c))
    OBVIOUS
  <2>4. InProgress(p, c, e) /\ e # NULL /\ Moved(p, e) = 0
    BY <2>1, <2>3, StartFacts
  <2>5. \/ post.ext = NULL /\ post.status \in {"ABORTED", "INTERNAL_ERROR"}
        \/ post.ext = e
    BY <1>3, <2>3 DEF PostSrb
  <2>6. CASE post.ext = NULL /\ post.status \in {"ABORTED", "INTERNAL_ERROR"}
    BY <1>6, <2>2, <2>6 DEF Returned, Final, SrbFields
  <2>7. CASE post.ext = e
    <3>1. srb' = Posted(c) /\ ext' = e
      BY <2>2, <2>4, <2>7
    <3>2. srb'.status = "PENDING" /\ srb'.cmd = c /\ srb'.sense = NULL /\ DOMAIN srb' = SrbFields
      BY <3>1 DEF Posted, SrbFields
    <3>3. Pending'
      BY <3>2 DEF Pending
    <3>4. c.op \in Reads => IsTuple(srb'.buffer, Total(params, c))
      BY <3>1 DEF Posted, IsTuple, Total
    <3>5. SrbInv'
      BY <1>1, <1>3, <2>4, <3>1, <3>2, <3>3, <3>4 DEF SrbInv
    <3>6. params # NULL
      BY <1>3, <2>1, RawDiskAssumption
    <3>7. UnitInv'
      BY <1>1, <3>6 DEF Inv, UnitInv
    <3>8. RequestInv'
      BY <1>1, <1>2, <1>4 DEF RequestInv
    <3>9. Moved(params, ext)' = 0
      BY <1>1, <1>3, <2>4, <3>1
    <3>10. MovedArrived'
      BY <3>9 DEF MovedArrived
    <3>11. ProgressInv'
      BY <1>1, <1>2, <3>10 DEF ProgressInv
    <3> QED
      BY <1>5, <3>5, <3>7, <3>8, <3>11 DEF Inv
  <2> QED
    BY <2>5, <2>6, <2>7
<1> QED
  BY <1>7, <1>8

-----------------------------------------------------------------------------
(***************************************************************************)
(* A response is applied                                                   *)
(***************************************************************************)

LEMMA AdvanceFacts ==
  ASSUME NEW p \in ParamSet, NEW c, NEW e, InProgress(p, c, e), c.op \in Transfers,
         NEW e2, e2 = Advance(p, e)
  PROVE  /\ InProgress(p, c, e2) /\ Moved(p, e2) = Moved(p, e) + Chunk(p, e)
         /\ IsDone(e2) => Moved(p, e) + Chunk(p, e) = Total(p, c)
<1>1. PICK l \in Nat \ {0} : l = p.BlockLength
  BY ParamFacts
<1>2. PICK m \in Nat : m = Moved(p, e)
  BY TransferProgress
<1>3. PICK n \in Nat : n = Chunk(p, e)
  BY TransferProgress
<1>4. PICK t \in Nat : t = Total(p, c)
  BY TransferProgress
<1>5. /\ e.SystemDataLength = t * l /\ e.ChunkOffset = m * l /\ ChunkLength(p, e) = n * l
      /\ m + n <= t
  BY <1>1, <1>2, <1>3, <1>4, TransferProgress
<1>6. Accepted(p, c) /\ e \in Extension /\ e.SystemDataLength = DataLength(p, c)
  BY DEF InProgress
<1>7. PICK x \in Nat : x = m + n
  OBVIOUS
<1>8. m * l + n * l = x * l
  BY <1>7, MulSum
<1>9. e2.ChunkOffset = x * l /\ e2.SystemDataLength = t * l
  <2>1. e2.ChunkOffset = e.ChunkOffset + ChunkLength(p, e)
    BY <1>6 DEF Advance, Extension
  <2>2. e2.SystemDataLength = e.SystemDataLength
    BY <1>6 DEF Advance, Extension
  <2> QED
    BY <1>5, <1>8, <2>1, <2>2
<1>10. e2 \in Extension
  <2>1. PICK y : y = e.ChunkOffset + ChunkLength(p, e)
    OBVIOUS
  <2>2. y \in Nat
    BY <1>5, <2>1
  <2>3. e2 = [e EXCEPT !.ChunkOffset = y]
    BY <2>1 DEF Advance
  <2> QED
    BY <1>6, <2>2, <2>3 DEF Extension
<1>11. (x * l) \div l = x
  BY MulCancel
<1>12. Moved(p, e2) = x
  BY <1>1, <1>9, <1>11 DEF Moved
<1>13. /\ x * l <= t * l <=> x <= t
       /\ t * l <= x * l <=> t <= x
  BY MulOrder
<1>14. x <= t
  BY <1>5, <1>7
<1>15. InProgress(p, c, e2)
  BY <1>1, <1>5, <1>6, <1>9, <1>10, <1>12, <1>13, <1>14 DEF InProgress
<1>16. IsDone(e2) => x = t
  BY <1>9, <1>13, <1>14 DEF IsDone
<1> QED
  BY <1>2, <1>3, <1>4, <1>7, <1>12, <1>15, <1>16

\* With the response, the next chunk has arrived as well.
LEMMA ResponseArrived ==
  ASSUME Inv, rsp # NULL, rsp.good, srb.cmd.op \in Transfers
  PROVE  /\ \A i \in 1 .. (Moved(params, ext) + Chunk(params, ext)) :
              Arrived(i, IF srb.cmd.op \in Reads THEN Filled(srb.buffer, rsp.data, ext)[i]
                                                 ELSE NULL)
         /\ srb.cmd.op \in Reads =>
              IsTuple(Filled(srb.buffer, rsp.data, ext), Total(params, srb.cmd))
<1>1. Pending /\ ResponseTrue /\ MovedArrived
  BY DEF Inv, SrbInv, ProgressInv
<1>2. PICK p \in ParamSet : p = params
  BY <1>1, WhilePending
<1>3. PICK c : c = srb.cmd
  OBVIOUS
<1>4. PICK e : e = ext
  OBVIOUS
<1>5. InProgress(p, c, e) /\ c.op \in Transfers
  BY <1>1, <1>2, <1>3, <1>4, WhilePending
<1>6. PICK m \in Nat : m = Moved(p, e)
  BY <1>5, TransferProgress
<1>7. PICK n \in Nat : n = Chunk(p, e)
  BY <1>5, TransferProgress
<1>8. PICK t \in Nat : t = Total(p, c)
  BY <1>5, TransferProgress
<1>9. m + n <= t
  BY <1>5, <1>6, <1>7, <1>8, TransferProgress
<1>10. PICK f : f = Filled(srb.buffer, rsp.data, ext)
  OBVIOUS
<1>11. ASSUME c.op \in Reads
       PROVE  /\ IsTuple(f, t)
              /\ \A i \in 1 .. m : f[i] = srb.buffer[i]
              /\ \A j \in 1 .. n : f[m + j] = rsp.data[j]
  <2>1. IsTuple(srb.buffer, t) /\ IsTuple(rsp.data, n)
    BY <1>1, <1>2, <1>3, <1>4, <1>5, <1>7, <1>8, <1>11 DEF Inv, SrbInv, ResponseTrue
  <2>2. PICK buf : buf = srb.buffer
    OBVIOUS
  <2>3. PICK d : d = rsp.data
    OBVIOUS
  <2>4. DOMAIN buf = 1 .. t /\ Len(d) = n
    BY <2>1, <2>2, <2>3, TupleFacts
  <2>5. f = [i \in 1 .. t |-> IF i \in (m + 1) .. (m + n) THEN d[i - m] ELSE buf[i]]
    BY <1>2, <1>4, <1>6, <1>10, <2>2, <2>3, <2>4 DEF Filled, Moved
  <2>6. IsTuple(f, t)
    BY <2>5 DEF IsTuple
  <2>7. \A i \in 1 .. m : i \in 1 .. t /\ i \notin (m + 1) .. (m + n)
    BY <1>9
  <2>8. \A j \in 1 .. n : m + j \in 1 .. t /\ m + j \in (m + 1) .. (m + n) /\ (m + j) - m = j
    BY <1>9
  <2>9. \A i \in 1 .. m : f[i] = buf[i]
    BY <2>5, <2>7
  <2>10. \A j \in 1 .. n : f[m + j] = d[j]
    BY <2>5, <2>8
  <2> QED
    BY <2>2, <2>3, <2>6, <2>9, <2>10
<1>12. ASSUME NEW i \in 1 .. (m + n)
       PROVE  Arrived(i, IF c.op \in Reads THEN f[i] ELSE NULL)
  <2>1. CASE i \in 1 .. m
    <3>1. Arrived(i, IF c.op \in Reads THEN srb.buffer[i] ELSE NULL)
      BY <1>1, <1>2, <1>3, <1>4, <1>5, <1>6, <2>1 DEF MovedArrived
    <3> QED
      BY <1>11, <2>1, <3>1
  <2>2. CASE i \notin 1 .. m
    <3>1. PICK j : j = i - m
      OBVIOUS
    <3>2. j \in 1 .. n /\ i = m + j
      BY <2>2, <3>1
    <3>3. Arrived(m + j, IF c.op \in Reads THEN rsp.data[j] ELSE NULL)
      BY <1>1, <1>2, <1>3, <1>4, <1>5, <1>6, <1>7, <3>2 DEF ResponseTrue
    <3> QED
      BY <1>11, <3>2, <3>3
  <2> QED
    BY <2>1, <2>2
<1> QED
  BY <1>2, <1>3, <1>4, <1>6, <1>7, <1>8, <1>10, <1>11, <1>12

\* The last chunk completes the range, unless its length does not fit 32 bits.
LEMMA AllArrived ==
  ASSUME Inv, rsp # NULL, rsp.good, srb.cmd.op \in Transfers, IsDone(Advance(params, ext)),
         Fits(params, srb.cmd), NEW b \in CommandBlocks(srb.cmd), b \notin spoiled
  PROVE  /\ view[b] = IF srb.cmd.op \in Reads
                      THEN Filled(srb.buffer, rsp.data, ext)[b - srb.cmd.address + 1]
                      ELSE b - srb.cmd.address + 1
         /\ ForceUnitAccess(params, CdbGetRange(srb.cmd)) => file[b] = view[b]
<1>1. Pending
  BY DEF Inv, SrbInv
<1>2. PICK p \in ParamSet : p = params
  BY <1>1, WhilePending
<1>3. PICK c : c = srb.cmd
  OBVIOUS
<1>4. PICK e : e = ext
  OBVIOUS
<1>5. PICK e2 : e2 = Advance(p, e)
  OBVIOUS
<1>6. InProgress(p, c, e) /\ c.op \in Transfers /\ IsDone(e2) /\ Fits(p, c)
  BY <1>1, <1>2, <1>3, <1>4, <1>5, WhilePending
<1>7. PICK k \in Nat : k = CdbGetRange(c).count
  BY <1>6, TransferProgress
<1>8. Moved(p, e) + Chunk(p, e) = k
  BY <1>5, <1>6, <1>7, AdvanceFacts, TransferProgress
<1>9. PICK a \in Nat : a = c.address
  BY <1>6, TransferProgress
<1>10. CommandBlocks(c) = a .. (a + k - 1)
  BY <1>6, <1>7, <1>9, OpKinds, RangeBlocks
<1>11. PICK i : i = b - a + 1
  OBVIOUS
<1>12. i \in 1 .. k /\ b = a + i - 1
  BY <1>3, <1>10, <1>11
<1>13. PICK x : x = IF srb.cmd.op \in Reads THEN Filled(srb.buffer, rsp.data, ext)[i] ELSE NULL
  OBVIOUS
<1>14. Arrived(i, x)
  BY <1>2, <1>4, <1>8, <1>12, <1>13, ResponseArrived
<1>15. b = srb.cmd.address + i - 1
  BY <1>3, <1>9, <1>12
<1>16. /\ view[b] = IF srb.cmd.op \in Reads THEN x ELSE i
       /\ ForceUnitAccess(params, CdbGetRange(srb.cmd)) => file[b] = view[b]
  BY <1>14, <1>15 DEF Arrived
<1>17. i = b - srb.cmd.address + 1
  BY <1>3, <1>9, <1>11
<1> QED
  BY <1>13, <1>16, <1>17

\* A command promises only what is on the medium when it succeeds.
LEMMA PromiseTrue ==
  ASSUME Inv, rsp # NULL, rsp.good,
         srb.cmd.op \in Reads \cup Writes => IsDone(Advance(params, ext)),
         NEW b \in Promised(params, srb.cmd) \ spoiled
  PROVE  b \in DOMAIN view /\ file[b] = view[b]
<1>1. Pending /\ ResponseTrue
  BY DEF Inv, SrbInv, ProgressInv
<1>2. PICK c : c = srb.cmd
  OBVIOUS
<1>3. /\ c.op \in Ranges /\ b \in CommandBlocks(c) /\ b \notin spoiled
      /\ c.op \in Syncs => b \in Flushed(params, CdbGetRange(c))
      /\ c.op \notin Syncs => /\ Fits(params, c)
                              /\ ~params.CacheSupported \/ (Format[c.op] # 6 /\ c.fua)
  <2>1. CASE c.op \in Syncs
    <3>1. c.op \notin Reads \cup Writes /\ c.op \in Ranges
      BY <2>1, OpKinds DEF Transfers
    <3>2. Promised(params, c) = Flushed(params, CdbGetRange(c))
      BY <2>1, <3>1 DEF Promised
    <3>3. b \in Flushed(params, CdbGetRange(c)) /\ b \notin spoiled
      BY <1>2, <3>2
    <3> QED
      BY <2>1, <3>1, <3>3, FlushedInRange
  <2>2. CASE c.op \notin Syncs
    <3>1. Promised(params, c) # {}
      BY <1>2
    <3>2. /\ c.op \in Reads \cup Writes /\ Fits(params, c)
          /\ ~params.CacheSupported \/ (Format[c.op] # 6 /\ c.fua)
      BY <2>2, <3>1 DEF Promised
    <3>3. Promised(params, c) = CommandBlocks(c)
      BY <2>2, <3>2 DEF Promised
    <3>4. c.op \in Ranges
      BY <3>2 DEF Ranges
    <3> QED
      BY <1>2, <2>2, <3>2, <3>3, <3>4
  <2> QED
    BY <2>1, <2>2
<1>4. b \in DOMAIN view
  <2>1. PICK p \in ParamSet : p = params /\ DOMAIN view = 0 .. (p.BlockCount - 1)
    BY <1>1, WhilePending
  <2>2. Accepted(p, c)
    BY <1>1, <1>2, <2>1, WhilePending DEF InProgress
  <2>3. PICK k \in Nat : k = CdbGetRange(c).count
    BY <1>3, <2>2 DEF Accepted
  <2>4. PICK a \in Nat : a = c.address
    <3>1. c \in Commands
      BY <2>2 DEF Accepted
    <3>2. c.address \in 0 .. (W64 - 1)
      BY <1>3, <3>1, RangeFacts
    <3> QED
      BY <3>2, ScsiAssumption
  <2>5. a + k <= p.BlockCount /\ p.BlockCount \in Nat
    BY <1>3, <2>2, <2>3, <2>4, ParamFacts DEF Accepted
  <2>6. b \in a .. (a + k - 1)
    BY <1>3, <2>3, <2>4, RangeBlocks
  <2> QED
    BY <2>1, <2>5, <2>6
<1>5. CASE c.op \in Syncs
  BY <1>1, <1>2, <1>3, <1>4, <1>5 DEF ResponseTrue
<1>6. CASE c.op \notin Syncs
  <2>1. c.op \in Transfers /\ c.op \in Reads \cup Writes
    BY <1>3, <1>6, OpKinds DEF Transfers
  <2>2. ForceUnitAccess(params, CdbGetRange(c))
    BY <1>3, <1>6 DEF ForceUnitAccess, CdbGetRange
  <2>3. IsDone(Advance(params, ext))
    BY <1>2, <2>1
  <2> QED
    <3>1. Fits(params, c) /\ b \in CommandBlocks(c) /\ b \notin spoiled
      BY <1>3, <1>6
    <3>2. file[b] = view[b]
      BY <1>2, <2>1, <2>2, <2>3, <3>1, AllArrived
    <3> QED
      BY <1>4, <3>2
<1> QED
  BY <1>5, <1>6

LEMMA CompleteKeeps ==
  ASSUME Inv, Complete
  PROVE  Inv'
<1>1. /\ rsp # NULL /\ req' = NULL /\ rsp' = NULL /\ UNCHANGED <<params, view, file, late>>
  BY DEF Complete
<1>2. Pending /\ ResponseTrue
  BY <1>1 DEF Inv, SrbInv, ProgressInv
<1>3. LateInv'
  BY <1>1 DEF Inv, RequestInv, LateInv
<1>4. params # NULL
  BY <1>2 DEF Inv, UnitInv
<1>5. ASSUME DOMAIN srb' = SrbFields, srb'.status \in Final, ext' = NULL, spoiled' = {},
             \A b \in durable' \ durable : b \in DOMAIN view /\ file[b] = view[b]
      PROVE  Inv'
  <2>1. SrbInv' /\ ProgressInv' /\ RequestInv' /\ ~Pending'
    BY <1>1, <1>3, <1>5, Idle
  <2>2. durable' \subseteq DOMAIN view
    BY <1>5 DEF Inv, UnitInv
  <2>3. UnitInv'
    BY <1>1, <1>4, <1>5, <2>1, <2>2 DEF Inv, UnitInv
  <2>4. PromiseKept'
    BY <1>1, <1>5 DEF Inv, PromiseKept
  <2> QED
    BY <2>1, <2>3, <2>4 DEF Inv
<1>6. CASE /\ ~rsp.good
           /\ LET e == SenseError("MEDIUM_ERROR", rsp.ASC, rsp.Information, srb.cmd.autosense)
              IN  Returns(e.status, e.sense)
           /\ durable' = durable
  <2>1. DOMAIN srb' = SrbFields /\ srb'.status = "ERROR" /\ ext' = NULL /\ spoiled' = {}
    BY <1>6, SenseErrorStatus DEF Returns, Returned, SrbFields
  <2> QED
    BY <1>5, <1>6, <2>1 DEF Final
<1>7. CASE /\ rsp.good
           /\ srb.cmd.op \in Reads \cup Writes => IsDone(Advance(params, ext))
           /\ srb' = Returned("SUCCESS", NULL, Filled(srb.buffer, rsp.data, ext))
           /\ ext' = NULL /\ spoiled' = {}
           /\ durable' = durable \cup (Promised(params, srb.cmd) \ spoiled)
  <2>1. DOMAIN srb' = SrbFields /\ srb'.status = "SUCCESS"
    BY <1>7 DEF Returned, SrbFields
  <2>2. \A b \in durable' \ durable : b \in DOMAIN view /\ file[b] = view[b]
    BY <1>1, <1>7, PromiseTrue
  <2> QED
    BY <1>5, <1>7, <2>1, <2>2 DEF Final
<1>8. CASE /\ rsp.good /\ srb.cmd.op \in Reads \cup Writes /\ ~IsDone(Advance(params, ext))
           /\ srb' = [srb EXCEPT !.buffer = Filled(@, rsp.data, ext)]
           /\ ext' = Advance(params, ext)
           /\ UNCHANGED <<spoiled, durable>>
  <2>1. DOMAIN srb = SrbFields /\ srb.status = "PENDING" /\ srb.sense = NULL
    BY <1>2 DEF Inv, SrbInv, Pending
  <2>2. /\ DOMAIN srb' = SrbFields /\ srb'.status = "PENDING" /\ srb'.cmd = srb.cmd
        /\ srb'.sense = NULL /\ srb'.buffer = Filled(srb.buffer, rsp.data, ext)
    BY <1>8, <2>1 DEF SrbFields
  <2>3. Pending'
    BY <2>2 DEF Pending
  <2>4. PICK c : c = srb.cmd
    OBVIOUS
  <2>5. PICK e : e = ext
    OBVIOUS
  <2>6. c.op \in Transfers /\ InProgress(params, c, e) /\ params \in ParamSet
    BY <1>2, <1>8, <2>4, <2>5, WhilePending DEF Transfers
  <2>7. PICK e2 : e2 = Advance(params, e)
    OBVIOUS
  <2>8. InProgress(params, c, e2) /\ Moved(params, e2) = Moved(params, e) + Chunk(params, e)
    BY <2>6, <2>7, AdvanceFacts
  <2>9. ext' = e2 /\ srb'.cmd = c
    BY <1>8, <2>2, <2>4, <2>5, <2>7
  <2>10. /\ \A i \in 1 .. Moved(params, e2) :
              Arrived(i, IF srb.cmd.op \in Reads THEN srb'.buffer[i] ELSE NULL)
         /\ srb.cmd.op \in Reads => IsTuple(srb'.buffer, Total(params, srb.cmd))
    BY <1>1, <1>8, <2>2, <2>4, <2>5, <2>6, <2>8, ResponseArrived
  <2>11. SrbInv'
    BY <1>1, <2>2, <2>3, <2>4, <2>8, <2>9, <2>10 DEF SrbInv
  <2>12. UnitInv'
    BY <1>1, <1>4, <1>8 DEF Inv, UnitInv
  <2>13. RequestInv'
    BY <1>1, <1>3 DEF RequestInv
  <2>14. MovedArrived'
    <3>1. SUFFICES ASSUME NEW i \in 1 .. Moved(params, e2)
                   PROVE  Arrived(i, IF srb.cmd.op \in Reads THEN srb.buffer[i] ELSE NULL)'
      BY <1>1, <2>9 DEF MovedArrived
    <3>2. PICK x : x = IF srb.cmd.op \in Reads THEN srb'.buffer[i] ELSE NULL
      OBVIOUS
    <3>3. Arrived(i, x)
      BY <2>10, <3>2
    <3>4. Stays(srb.cmd.address + i - 1)
      BY <1>1 DEF Stays
    <3>5. spoiled \subseteq spoiled'
      BY <1>8
    <3>6. Arrived(i, x)'
      BY <1>1, <2>2, <3>3, <3>4, <3>5, ArrivedStays
    <3> QED
      BY <2>2, <3>2, <3>6
  <2>15. ProgressInv'
    BY <1>1, <2>14 DEF ProgressInv
  <2>16. PromiseKept'
    BY <1>1, <1>8 DEF Inv, PromiseKept
  <2> QED
    BY <2>11, <2>12, <2>13, <2>15, <2>16 DEF Inv
<1> QED
  BY <1>6, <1>7, <1>8 DEF Complete

LEMMA StutterKeeps ==
  ASSUME Inv, UNCHANGED vars
  PROVE  Inv'
<1>1. UNCHANGED <<params, view, file, srb, ext, req, rsp, late, spoiled, durable>>
  BY DEF vars
<1>2. Pending' = Pending
  BY <1>1 DEF Pending
<1>3. UnitInv' /\ SrbInv' /\ RequestInv' /\ PromiseKept'
  BY <1>1, <1>2 DEF Inv, UnitInv, SrbInv, RequestInv, LateInv, PromiseKept
<1>4. \A b : Stays(b)
  BY <1>1 DEF Stays
<1>5. Pending => MovedArrived'
  BY <1>1, <1>4, MovedStays
<1>6. rsp # NULL => ResponseTrue'
  BY <1>1, <1>4, ResponseStays
<1> QED
  BY <1>1, <1>2, <1>3, <1>5, <1>6 DEF Inv, ProgressInv

LEMMA NextKeeps ==
  ASSUME Inv, [Next]_vars
  PROVE  Inv'
<1>1. ASSUME NEW p \in ParamSet, Create(p)
      PROVE  Inv'
  BY <1>1, CreateKeeps
<1>2. CASE Delete \/ Kill \/ PowerLoss
  BY <1>2, LostKeeps
<1>3. ASSUME NEW b \in DOMAIN view, WriteBack(b)
      PROVE  Inv'
  BY <1>3, WriteBackKeeps
<1>4. ASSUME NEW c \in Commands, Execute(c)
      PROVE  Inv'
  BY <1>4, ExecuteKeeps
<1>5. CASE Prepare
  BY <1>5, PrepareKeeps
<1>6. CASE Serve
  BY <1>6, ServeKeeps
<1>7. CASE ServeLate
  BY <1>7, ServeLateKeeps
<1>8. CASE Complete
  BY <1>8, CompleteKeeps
<1>9. CASE Reset
  BY <1>9, ResetKeeps
<1>10. CASE UNCHANGED vars
  BY <1>10, StutterKeeps
<1> QED
  BY <1>1, <1>2, <1>3, <1>4, <1>5, <1>6, <1>7, <1>8, <1>9, <1>10 DEF Next

\* The inductive invariant holds in every reachable state.
THEOREM InductiveInvariant == Spec => []Inv
<1>1. Init => Inv
  BY InitHolds
<1>2. Inv /\ [Next]_vars => Inv'
  BY NextKeeps
<1> QED
  BY <1>1, <1>2, PTL DEF Spec

-----------------------------------------------------------------------------
(***************************************************************************)
(* Theorems                                                                *)
(***************************************************************************)

LEMMA TypesFollow ==
  ASSUME Inv
  PROVE  TypeOK
<1>1. /\ params \in ParamSet \cup {NULL} /\ DOMAIN view = DOMAIN file
      /\ spoiled \cup durable \subseteq DOMAIN view
  BY DEF Inv, UnitInv
<1>2. srb.status \in {"PENDING", "SUCCESS", "ERROR", "ABORTED", "INTERNAL_ERROR",
                      "INVALID_REQUEST", "NO_DEVICE", "DATA_OVERRUN"}
  BY DEF Inv, SrbInv
<1>3. Pending <=> ext # NULL
  <2>1. NULL \notin Extension
    BY RawDiskAssumption DEF Extension
  <2>2. Pending => ext \in Extension
    BY DEF Inv, SrbInv, InProgress
  <2>3. ~Pending => ext = NULL
    BY DEF Inv, SrbInv
  <2> QED
    BY <2>1, <2>2, <2>3
<1>4. ASSUME NEW r \in {req, late} \ {NULL}
      PROVE  /\ RequestBlocks(r) \subseteq DOMAIN view
             /\ r.request.kind \in {"read", "write"} =>
                  r.request.count * params.BlockLength <= params.MaxTransferLength
             /\ r.request.kind = "unmap" =>
                  r.request.count * DescriptorLength <= params.MaxTransferLength
  <2>1. \E c : Sound(params, c, r)
    BY <1>4, WhileRequested, WhileLate
  <2>2. DOMAIN view = 0 .. (params.BlockCount - 1)
    BY <1>4, WhileRequested, WhilePending, WhileLate
  <2> QED
    BY <2>1, <2>2 DEF Sound
<1> QED
  BY <1>1, <1>2, <1>3, <1>4 DEF TypeOK

\* The variables have their types, and no request, however a transfer is cut, is longer
\* than MaxTransferLength or leaves the unit (scsi.c, SpdSrbExecuteScsiPrepare).
THEOREM TypeCorrect == Spec => []TypeOK
<1>1. Inv => TypeOK
  BY TypesFollow
<1> QED
  BY <1>1, InductiveInvariant, PTL

\* What the unit has promised to keep (Promised) is on the medium, whatever was aborted,
\* failed or served late (scsi.c, ForceUnitAccess; rawdisk, FlushInternal).  Promised
\* leaves out transfers of 2^32 bytes and more, and of a SYNCHRONIZE CACHE of that length
\* it has the blocks that the wrapped length covers.
THEOREM AlwaysPromiseKept == Spec => []PromiseKept
<1>1. Inv => PromiseKept
  BY DEF Inv
<1> QED
  BY <1>1, InductiveInvariant, PTL

-----------------------------------------------------------------------------
(***************************************************************************)
(* Transfers are exact                                                     *)
(***************************************************************************)

ChangesExact ==
  params # NULL /\ params' # NULL =>
    \A b \in Changed :
      /\ ~params.WriteProtected
      /\ \/ req # NULL /\ b \in CommandBlocks(srb.cmd)
         \/ late # NULL /\ b \in RequestBlocks(late)
SuccessExact ==
  Pending /\ srb'.status = "SUCCESS" /\ srb.cmd.op \in Reads \cup Writes
  /\ Fits(params, srb.cmd) =>
    \A b \in CommandBlocks(srb.cmd) \ spoiled :
      view[b] = IF srb.cmd.op \in Reads THEN srb'.buffer[b - srb.cmd.address + 1]
                                        ELSE b - srb.cmd.address + 1
ErrorExact ==
  Pending /\ srb'.sense # NULL /\ srb'.sense[3] # NULL =>
    \E b \in CommandBlocks(srb.cmd) : srb'.sense[3] = b % W32

\* A command in progress is only returned by its last response or an abort.
LEMMA NothingReturned ==
  ASSUME Inv, \/ ~Pending
              \/ srb' = srb
              \/ srb'.status # "SUCCESS" /\ srb'.sense = NULL
  PROVE  SuccessExact /\ ErrorExact
<1>1. Pending => srb.status = "PENDING" /\ srb.sense = NULL
  BY DEF Inv, SrbInv, Pending
<1>2. ~Pending \/ (srb'.status # "SUCCESS" /\ srb'.sense = NULL)
  BY <1>1
<1> QED
  BY <1>2 DEF SuccessExact, ErrorExact

LEMMA ServeExact ==
  ASSUME Inv, Serve \/ ServeLate
  PROVE  ChangesExact
<1>1. PICK r : /\ \/ Serve /\ req # NULL /\ r = req
                  \/ ServeLate /\ late # NULL /\ r = late
               /\ \E out : Serves(r, out)
  <2>1. CASE Serve
    BY <2>1 DEF Serve
  <2>2. CASE ServeLate
    BY <2>2 DEF ServeLate
  <2> QED
    BY <2>1, <2>2
<1>2. PICK out : Serves(r, out)
  BY <1>1
<1>3. /\ DOMAIN view = DOMAIN file /\ DOMAIN view \subseteq Int
      /\ \E c : Sound(params, c, r) /\ (r = late \/ c = srb.cmd)
  <2>1. CASE req # NULL /\ r = req
    BY <2>1, WhileRequested, WhilePending
  <2>2. CASE late # NULL /\ r = late
    BY <2>2, WhileLate
  <2> QED
    BY <1>1, <2>1, <2>2
<1>4. PICK p : p = params
  OBVIOUS
<1>5. PICK c : Sound(p, c, r) /\ (r = late \/ c = srb.cmd)
  BY <1>3, <1>4
<1>6. /\ \A b \in DOMAIN view : b \notin RequestBlocks(r) => view'[b] = view[b]
      /\ r.request.kind \in {"read", "flush"} => view' = view
  BY <1>2, <1>3, <1>5, ServesEffect
<1>7. ASSUME NEW b \in Changed
      PROVE  /\ ~params.WriteProtected
             /\ \/ req # NULL /\ b \in CommandBlocks(srb.cmd)
                \/ late # NULL /\ b \in RequestBlocks(late)
  <2>1. b \in DOMAIN view /\ view'[b] # view[b]
    BY <1>7 DEF Changed
  <2>2. b \in RequestBlocks(r) /\ r.request.kind # "read"
    BY <1>6, <2>1
  <2>3. ~params.WriteProtected
    BY <1>4, <1>5, <2>2 DEF Sound
  <2>4. CASE req # NULL /\ r = req
    <3>1. Sound(params, srb.cmd, req)
      BY <2>4, WhileRequested
    <3> QED
      BY <2>2, <2>3, <2>4, <3>1 DEF Sound
  <2>5. CASE late # NULL /\ r = late
    BY <2>2, <2>3, <2>5
  <2> QED
    BY <1>1, <2>4, <2>5
<1> QED
  BY <1>7 DEF ChangesExact

LEMMA CompleteExact ==
  ASSUME Inv, Complete
  PROVE  SuccessExact /\ ErrorExact
<1>1. rsp # NULL /\ Pending /\ ResponseTrue
  BY DEF Complete, Inv, SrbInv, ProgressInv
<1>2. srb.status = "PENDING" /\ srb.sense = NULL /\ DOMAIN srb = SrbFields
  BY <1>1 DEF Inv, SrbInv, Pending
<1>3. CASE /\ ~rsp.good
           /\ LET e == SenseError("MEDIUM_ERROR", rsp.ASC, rsp.Information, srb.cmd.autosense)
              IN  Returns(e.status, e.sense)
  <2>1. PICK e : e = SenseError("MEDIUM_ERROR", rsp.ASC, rsp.Information, srb.cmd.autosense)
    OBVIOUS
  <2>2. srb'.status = "ERROR" /\ srb'.sense = e.sense
    BY <1>3, <2>1, SenseErrorStatus DEF Returns, Returned
  <2>3. PICK info : info = rsp.Information
    OBVIOUS
  <2>4. \/ e.sense = NULL
        \/ e.sense = <<"MEDIUM_ERROR", rsp.ASC, IF info = NULL THEN NULL ELSE info % W32>>
    BY <2>1, <2>3 DEF SenseError
  <2>5. e.sense # NULL => e.sense[3] = IF info = NULL THEN NULL ELSE info % W32
    BY <2>4
  <2>6. info = NULL \/ info \in CommandBlocks(srb.cmd)
    BY <1>1, <1>3, <2>3 DEF ResponseTrue
  <2>7. ErrorExact
    BY <2>2, <2>5, <2>6 DEF ErrorExact
  <2>8. SuccessExact
    BY <2>2 DEF SuccessExact
  <2> QED
    BY <2>7, <2>8
<1>4. CASE srb' = [srb EXCEPT !.buffer = Filled(@, rsp.data, ext)]
  <2>1. srb'.status = "PENDING" /\ srb'.sense = NULL
    BY <1>2, <1>4 DEF SrbFields
  <2> QED
    BY <2>1, NothingReturned
<1>5. CASE /\ rsp.good
           /\ srb.cmd.op \in Reads \cup Writes => IsDone(Advance(params, ext))
           /\ srb' = Returned("SUCCESS", NULL, Filled(srb.buffer, rsp.data, ext))
  <2>1. srb'.sense = NULL /\ srb'.buffer = Filled(srb.buffer, rsp.data, ext)
    BY <1>5 DEF Returned
  <2>2. ErrorExact
    BY <2>1 DEF ErrorExact
  <2>3. ASSUME srb.cmd.op \in Reads \cup Writes, Fits(params, srb.cmd),
               NEW b \in CommandBlocks(srb.cmd) \ spoiled
        PROVE  view[b] = IF srb.cmd.op \in Reads THEN srb'.buffer[b - srb.cmd.address + 1]
                                                 ELSE b - srb.cmd.address + 1
    <3>1. srb.cmd.op \in Transfers /\ IsDone(Advance(params, ext))
      BY <1>5, <2>3 DEF Transfers
    <3>2. view[b] = IF srb.cmd.op \in Reads
                    THEN Filled(srb.buffer, rsp.data, ext)[b - srb.cmd.address + 1]
                    ELSE b - srb.cmd.address + 1
      BY <1>1, <1>5, <2>3, <3>1, AllArrived
    <3> QED
      BY <2>1, <3>2
  <2>4. SuccessExact
    BY <2>3 DEF SuccessExact
  <2> QED
    BY <2>2, <2>4
<1> QED
  BY <1>3, <1>4, <1>5 DEF Complete

LEMMA NextExact ==
  ASSUME Inv, [Next]_vars
  PROVE  ChangesExact /\ SuccessExact /\ ErrorExact
<1>1. ASSUME view' = view \/ params = NULL \/ params' = NULL
      PROVE  ChangesExact
  BY <1>1 DEF ChangesExact, Changed
<1>2. ASSUME NEW p \in ParamSet, Create(p)
      PROVE  ChangesExact /\ SuccessExact /\ ErrorExact
  <2>1. params = NULL /\ srb' = srb
    BY <1>2 DEF Create
  <2> QED
    BY <1>1, <2>1, NothingReturned
<1>3. CASE Delete \/ Kill \/ PowerLoss
  <2>1. Unprovision
    BY <1>3 DEF Delete, Kill, PowerLoss
  <2>2. params' = NULL
    BY <2>1 DEF Unprovision
  <2>3. ~Pending \/ (srb'.status # "SUCCESS" /\ srb'.sense = NULL)
    BY <2>1 DEF Unprovision, Returns, Returned
  <2> QED
    BY <1>1, <2>2, <2>3, NothingReturned
<1>4. ASSUME NEW b \in DOMAIN view, WriteBack(b)
      PROVE  ChangesExact /\ SuccessExact /\ ErrorExact
  <2>1. view' = view /\ srb' = srb
    BY <1>4 DEF WriteBack
  <2> QED
    BY <1>1, <2>1, NothingReturned
<1>5. ASSUME NEW c \in Commands, Execute(c)
      PROVE  ChangesExact /\ SuccessExact /\ ErrorExact
  <2>1. view' = view /\ ~Pending
    BY <1>5 DEF Execute
  <2> QED
    BY <1>1, <2>1, NothingReturned
<1>6. CASE Prepare
  <2>1. view' = view /\ srb' = srb
    BY <1>6 DEF Prepare
  <2> QED
    BY <1>1, <2>1, NothingReturned
<1>7. CASE Serve \/ ServeLate
  <2>1. srb' = srb
    BY <1>7 DEF Serve, ServeLate
  <2> QED
    BY <1>7, <2>1, ServeExact, NothingReturned
<1>8. CASE Complete
  <2>1. view' = view
    BY <1>8 DEF Complete
  <2> QED
    BY <1>1, <1>8, <2>1, CompleteExact
<1>9. CASE Reset
  <2>1. view' = view /\ srb'.status # "SUCCESS" /\ srb'.sense = NULL
    BY <1>9 DEF Reset, Returns, Returned
  <2> QED
    BY <1>1, <2>1, NothingReturned
<1>10. CASE UNCHANGED vars
  <2>1. view' = view /\ srb' = srb
    BY <1>10 DEF vars
  <2> QED
    BY <1>1, <2>1, NothingReturned
<1> QED
  BY <1>2, <1>3, <1>4, <1>5, <1>6, <1>7, <1>8, <1>9, <1>10 DEF Next

\* A transfer moves the blocks that the command names and no others, however it is cut,
\* and an error names one of them (scsi.c, SpdSrbExecuteScsiPrepare and Complete; rawdisk,
\* CopyBuffer).
THEOREM TransferIsExact == Spec => TransferExact
<1>1. Inv /\ [Next]_vars => [ChangesExact /\ SuccessExact /\ ErrorExact]_vars
  BY NextExact
<1>2. Spec => [][ChangesExact /\ SuccessExact /\ ErrorExact]_vars
  BY <1>1, InductiveInvariant, PTL DEF Spec
<1> QED
  BY <1>2, PTL DEF TransferExact, ChangesExact, SuccessExact, ErrorExact

-----------------------------------------------------------------------------
(***************************************************************************)
(* A unit is what it reports                                               *)
(***************************************************************************)

\* A command for one block whose buffer holds one block goes to the queue if the block is
\* there and the unit may be written.
LEMMA OneBlock ==
  ASSUME NEW p \in ParamSet, NEW a \in 0 .. (W64 - 1), NEW op \in {"READ16", "WRITE16"},
         NEW c, c = [op |-> op, address |-> a, count |-> 1, fua |-> FALSE]
  PROVE  CheckRange(p, c, p.BlockLength, TRUE).status = "POST"
           <=> a < p.BlockCount /\ (op = "READ16" \/ ~p.WriteProtected)
<1>1. PICK len : len = p.BlockLength
  OBVIOUS
<1>2. len \in Nat /\ len < W32 /\ W32 \in Nat \ {0} /\ W64 \in Nat \ {0} /\ 1 < W64
  BY <1>1, ParamFacts
<1>3. c.op = op /\ op \notin Syncs /\ (op \in Reads <=> op = "READ16")
  BY DEF Syncs, Reads
<1>4. PICK r : r = CdbGetRange(c)
  OBVIOUS
<1>5. r.address = a /\ r.count = 1
  BY <1>3, <1>4 DEF CdbGetRange, Format
<1>6. RangeDataLength(p, c) = len
  <2>1. RangeDataLength(p, c) = (1 * len) % W32
    BY <1>1, <1>3, <1>4, <1>5 DEF RangeDataLength
  <2>2. len % W32 = len
    BY <1>2, ModSmall
  <2> QED
    BY <1>2, <2>1, <2>2
<1>7. InUnit(p, r) <=> a + 1 <= p.BlockCount
  BY <1>2, <1>5, InUnitMeans
<1>8. a + 1 <= p.BlockCount <=> a < p.BlockCount
  BY <1>2, ParamFacts
<1>9. CheckRange(p, c, len, TRUE).status = "POST" <=>
        /\ ~(c.op \in Syncs /\ ~p.CacheSupported)
        /\ ~(c.op \notin Reads /\ p.WriteProtected)
        /\ ~(len < RangeDataLength(p, c))
        /\ CdbGetRange(c).count # 0
        /\ InUnit(p, CdbGetRange(c))
  BY CheckRangePosts
<1>10. ~(len < RangeDataLength(p, c))
  BY <1>2, <1>6
<1>11. CdbGetRange(c).count # 0 /\ ~(c.op \in Syncs /\ ~p.CacheSupported)
  BY <1>3, <1>4, <1>5
<1>12. InUnit(p, CdbGetRange(c)) <=> a < p.BlockCount
  BY ONLY <1>4, <1>7, <1>8
<1>13. ~(c.op \notin Reads /\ p.WriteProtected) <=> op = "READ16" \/ ~p.WriteProtected
  BY ONLY <1>3
<1>14. CheckRange(p, c, len, TRUE).status = "POST"
         <=> a < p.BlockCount /\ (op = "READ16" \/ ~p.WriteProtected)
  BY ONLY <1>9, <1>10, <1>11, <1>12, <1>13
<1> QED
  BY ONLY <1>1, <1>14

\* A list of n descriptors of the first block goes to the queue if it is not too long.
LEMMA UnmapOfLength ==
  ASSUME NEW p \in ParamSet, NEW n \in Nat \ {0}, p.UnmapSupported, ~p.WriteProtected,
         NEW list, list.length = n * DescriptorLength,
         \A i \in 1 .. n : list.descriptors[i].address = 0 /\ list.descriptors[i].count = 1,
         NEW c, c.anchor = FALSE
  PROVE  CheckUnmap(p, c, list, HeaderLength + n * DescriptorLength, TRUE).status = "POST"
           <=> n * DescriptorLength <= p.MaxTransferLength
<1>1. PICK l : l = n * DescriptorLength
  OBVIOUS
<1>2. DescriptorLength \in Nat \ {0} /\ HeaderLength \in Nat /\ p.MaxTransferLength \in Nat
  BY ParamFacts
<1>3. l \in Nat /\ l # 0
  BY <1>1, <1>2
<1>4. PICK len : len = HeaderLength + l
  OBVIOUS
<1>5. ~(len < HeaderLength + list.length)
  BY <1>1, <1>2, <1>3, <1>4
<1>6. UnmapCount(list) = n
  <2>1. (n * DescriptorLength) \div DescriptorLength = n
    BY <1>2, MulCancel
  <2> QED
    BY <2>1 DEF UnmapCount
<1>7. ASSUME NEW i \in 1 .. n
      PROVE  InUnit(p, list.descriptors[i])
  <2>1. PICK r : r = list.descriptors[i]
    OBVIOUS
  <2>2. r.address = 0 /\ r.count = 1
    BY <2>1
  <2>3. 0 \in 0 .. (W64 - 1) /\ 1 < W64 /\ p.BlockCount \in Nat \ {0}
    BY ParamFacts
  <2>4. InUnit(p, r) <=> r.address + r.count <= p.BlockCount
    BY <2>2, <2>3, InUnitMeans
  <2> QED
    BY <2>1, <2>2, <2>3, <2>4
<1>8. CheckUnmap(p, c, list, len, TRUE).status = "POST" <=>
        /\ ~(~p.UnmapSupported)
        /\ ~(p.WriteProtected)
        /\ ~(len < HeaderLength + list.length)
        /\ ~(list.length > p.MaxTransferLength)
        /\ ~c.anchor
        /\ list.length # 0
        /\ \A i \in 1 .. UnmapCount(list) : InUnit(p, list.descriptors[i])
  BY CheckUnmapPosts
<1>9. ~(list.length > p.MaxTransferLength) <=> l <= p.MaxTransferLength
  BY <1>1, <1>2, <1>3
<1> QED
  BY <1>1, <1>3, <1>4, <1>5, <1>6, <1>7, <1>8, <1>9

LEMMA ModUnique ==
  ASSUME NEW q \in Int, NEW w \in Nat \ {0}, NEW r \in 0 .. (w - 1)
  PROVE  (q * w + r) % w = r
OBVIOUS

LEMMA ModDifference ==
  ASSUME NEW x \in Int, NEW w \in Nat \ {0}
  PROVE  x % w \in 0 .. (w - 1) /\ \E q \in Int : x = q * w + (x % w)
<1>1. x = (x \div w) * w + (x % w) /\ x \div w \in Int
  OBVIOUS
<1>2. PICK q \in Int : q = x \div w
  BY <1>1
<1>3. x = q * w + (x % w)
  BY <1>1, <1>2
<1>4. x % w \in 0 .. (w - 1)
  OBVIOUS
<1> QED
  BY ONLY <1>3, <1>4

\* The partition ends where the unit ends, if it is defined at all: although the number
\* of its blocks may wrap around.
LEMMA PartitionFits ==
  ASSUME NEW p \in ParamSet, DefinePartitionTable(Partition(p))
  PROVE  Blocks([address |-> Partition(p).BlockAddress, count |-> Partition(p).BlockCount])
           \subseteq DOMAIN NewFile(p)
<1>1. PICK w \in Nat \ {0} : w = W64
  BY ScsiAssumption
<1>2. PICK n \in Nat : n = p.BlockCount /\ n < w
  BY <1>1, ParamFacts
<1>3. PICK f \in Nat : f = Partition(p).BlockAddress
  <2>1. PageLength \div p.BlockLength \in Nat
    <3>1. PICK l \in Nat \ {0} : l = p.BlockLength
      BY ParamFacts
    <3>2. PageLength \in Nat
      BY RawDiskAssumption
    <3> QED
      BY <3>1, <3>2, Division
  <2> QED
    BY <2>1 DEF Partition
<1>4. PICK k : k = Partition(p).BlockCount
  OBVIOUS
<1>5. k = (n - f) % w
  BY <1>1, <1>2, <1>3, <1>4 DEF Partition
<1>6. k \in 0 .. (w - 1)
  BY <1>5, ModDifference
<1>7. PICK q \in Int : n - f = q * w + k
  <2>1. PICK x \in Int : x = n - f
    OBVIOUS
  <2>2. \E q \in Int : x = q * w + (x % w)
    BY ONLY ModDifference
  <2> QED
    BY ONLY <1>5, <2>1, <2>2
<1>8. (f + k) % w = n
  <2>1. f + k = (-q) * w + n
    BY <1>6, <1>7
  <2>2. ((-q) * w + n) % w = n
    <3>1. n \in 0 .. (w - 1) /\ -q \in Int
      BY <1>2
    <3> QED
      BY <3>1, ModUnique
  <2> QED
    BY <2>1, <2>2
<1>9. n > f
  BY <1>1, <1>2, <1>3, <1>4, <1>8 DEF DefinePartitionTable
<1>10. k = n - f
  <2>1. n - f \in Nat /\ n - f < w
    BY <1>2, <1>9
  <2> QED
    BY <1>5, <2>1, ModSmall
<1>11. f .. (f + k - 1) \subseteq 0 .. (n - 1)
  BY <1>10
<1>12. DOMAIN NewFile(p) = 0 .. (n - 1)
  BY <1>2 DEF NewFile
<1> QED
  BY <1>3, <1>4, <1>11, <1>12 DEF Blocks

LEMMA LastBlockReported ==
  ASSUME NEW p \in ParamSet
  PROVE  /\ ReadCapacity16(p) = p.BlockCount - 1
         /\ ReadCapacity10(p) = ReadCapacity16(p) \/ ReadCapacity10(p) = W32 - 1
<1>1. PICK n \in Nat : n = p.BlockCount - 1 /\ n < W64
  BY ParamFacts
<1>2. W32 \in Nat \ {0} /\ W64 \in Nat \ {0} /\ p.BlockCount \in Nat
  BY ParamFacts
<1>3. n % W64 = n
  BY <1>1, <1>2, ModSmall
<1>4. W32 > p.BlockCount => n % W32 = n
  <2>1. ASSUME W32 > p.BlockCount
        PROVE  n < W32
    BY <1>1, <1>2, <2>1
  <2> QED
    BY <1>2, <2>1, ModSmall
<1> QED
  BY <1>1, <1>3, <1>4 DEF ReadCapacity16, ReadCapacity10

\* A transfer of the maximum length is one request.
LEMMA LongestChunk ==
  ASSUME NEW p \in ParamSet, NEW max,
         max = BlockLimits(p).MaximumTransferLength * p.BlockLength
  PROVE  ChunkLength(p, NewExtension(max)) = max
<1>1. PICK l \in Nat \ {0} : l = p.BlockLength
  BY ParamFacts
<1>2. PICK m \in Nat : m = p.MaxTransferLength
  BY ParamFacts
<1>3. m % l = 0
  BY <1>1, <1>2, ParamFacts
<1>4. m = (m \div l) * l
  BY ONLY <1>3, Whole
<1>5. BlockLimits(p).MaximumTransferLength = m \div l
  BY <1>1, <1>2 DEF BlockLimits
<1>6. max = m
  BY <1>1, <1>4, <1>5
<1> QED
  BY <1>2, <1>6 DEF ChunkLength, NewExtension

\* The longest list that is reported is the longest that is accepted.
LEMMA LongestList ==
  ASSUME NEW p \in ParamSet, NEW n, n = BlockLimits(p).MaximumUnmapBlockDescriptorCount, n > 0
  PROVE  /\ p.UnmapSupported /\ n \in Nat \ {0} /\ n + 1 \in Nat \ {0}
         /\ n * DescriptorLength <= p.MaxTransferLength
         /\ ~((n + 1) * DescriptorLength <= p.MaxTransferLength)
<1>1. PICK m \in Nat : m = p.MaxTransferLength
  BY ParamFacts
<1>2. PICK d \in Nat \ {0} : d = DescriptorLength
  BY ParamFacts
<1>3. p.UnmapSupported /\ n = m \div d
  BY <1>1, <1>2 DEF BlockLimits
<1>4. m = (m \div d) * d + (m % d) /\ m \div d \in Nat /\ m % d \in 0 .. (d - 1)
  BY Division
<1>5. n \in Nat \ {0}
  BY <1>3, <1>4
<1>6. PICK x \in Nat : x = n * d
  BY <1>5
<1>7. (n + 1) * d = x + d
  BY <1>5, <1>6
<1>8. x <= m /\ m < x + d
  BY <1>3, <1>4, <1>6
<1> QED
  BY <1>1, <1>2, <1>3, <1>5, <1>6, <1>7, <1>8

LEMMA ReportsFollow ==
  ASSUME params \in ParamSet \cup {NULL}
  PROVE  ReportsHold
<1>1. SUFFICES ASSUME params # NULL
               PROVE  ReportsHold
  BY DEF ReportsHold
<1>2. PICK p \in ParamSet : p = params
  BY <1>1
<1>3. ASSUME NEW a \in 0 .. (W64 - 1)
      PROVE  CheckRange(p, [op |-> "READ16", address |-> a, count |-> 1, fua |-> FALSE],
                        p.BlockLength, TRUE).status = "POST" <=> a <= ReadCapacity16(p)
  <2>1. PICK c : c = [op |-> "READ16", address |-> a, count |-> 1, fua |-> FALSE]
    OBVIOUS
  <2>2. PICK op : op = "READ16"
    OBVIOUS
  <2>3. c = [op |-> op, address |-> a, count |-> 1, fua |-> FALSE] /\ op \in {"READ16", "WRITE16"}
    BY <2>1, <2>2
  <2>4. CheckRange(p, c, p.BlockLength, TRUE).status = "POST" <=> a < p.BlockCount
    BY <2>2, <2>3, OneBlock
  <2>5. a < p.BlockCount <=> a <= ReadCapacity16(p)
    BY LastBlockReported, ParamFacts
  <2> QED
    BY ONLY <2>1, <2>4, <2>5
<1>4. ReadCapacity10(p) = ReadCapacity16(p) \/ ReadCapacity10(p) = W32 - 1
  BY LastBlockReported
<1>5. PICK max : max = BlockLimits(p).MaximumTransferLength * p.BlockLength
  OBVIOUS
<1>6. ChunkLength(p, NewExtension(max)) = max
  BY <1>5, LongestChunk
<1>7. ModeSense(p).WriteProtect
        <=> CheckRange(p, [op |-> "WRITE16", address |-> 0, count |-> 1, fua |-> FALSE],
                       p.BlockLength, TRUE).status # "POST"
  <2>1. PICK c : c = [op |-> "WRITE16", address |-> 0, count |-> 1, fua |-> FALSE]
    OBVIOUS
  <2>2. PICK a : a = 0
    OBVIOUS
  <2>3. a \in 0 .. (W64 - 1) /\ a < p.BlockCount
    BY <2>2, ParamFacts
  <2>4. PICK op \in {"READ16", "WRITE16"} : op = "WRITE16"
    OBVIOUS
  <2>5. c = [op |-> op, address |-> a, count |-> 1, fua |-> FALSE]
    BY <2>1, <2>2, <2>4
  <2>6. CheckRange(p, c, p.BlockLength, TRUE).status = "POST"
          <=> a < p.BlockCount /\ (op = "READ16" \/ ~p.WriteProtected)
    BY ONLY p \in ParamSet, <2>3, <2>4, <2>5, OneBlock
  <2>7. CheckRange(p, c, p.BlockLength, TRUE).status = "POST" <=> ~p.WriteProtected
    BY <2>3, <2>4, <2>6
  <2>8. ModeSense(p).WriteProtect = p.WriteProtected /\ p.WriteProtected \in BOOLEAN
    BY ParamFacts DEF ModeSense
  <2> QED
    BY ONLY <2>1, <2>7, <2>8
<1>8. PICK n : n = BlockLimits(p).MaximumUnmapBlockDescriptorCount
  OBVIOUS
<1>9. ASSUME NEW k \in Nat \ {0}, p.UnmapSupported, ~p.WriteProtected
      PROVE  CheckUnmap(p, [anchor |-> FALSE],
                        [length |-> k * DescriptorLength,
                         descriptors |-> [i \in 1 .. k |-> [address |-> 0, count |-> 1]]],
                        HeaderLength + k * DescriptorLength, TRUE).status = "POST"
               <=> k * DescriptorLength <= p.MaxTransferLength
  <2>1. PICK c : c = [anchor |-> FALSE]
    OBVIOUS
  <2>2. PICK list : list = [length |-> k * DescriptorLength,
                            descriptors |-> [i \in 1 .. k |-> [address |-> 0, count |-> 1]]]
    OBVIOUS
  <2>3. c.anchor = FALSE /\ list.length = k * DescriptorLength
    BY <2>1, <2>2
  <2>4. \A i \in 1 .. k : list.descriptors[i].address = 0 /\ list.descriptors[i].count = 1
    BY <2>2
  <2>5. CheckUnmap(p, c, list, HeaderLength + k * DescriptorLength, TRUE).status = "POST"
          <=> k * DescriptorLength <= p.MaxTransferLength
    BY <1>9, <2>3, <2>4, UnmapOfLength
  <2> QED
    BY ONLY <2>1, <2>2, <2>5
<1>10. ASSUME n > 0, ~p.WriteProtected
       PROVE  /\ CheckUnmap(p, [anchor |-> FALSE],
                            [length |-> n * DescriptorLength,
                             descriptors |-> [i \in 1 .. n |-> [address |-> 0, count |-> 1]]],
                            HeaderLength + n * DescriptorLength, TRUE).status = "POST"
              /\ ~(CheckUnmap(p, [anchor |-> FALSE],
                            [length |-> (n + 1) * DescriptorLength,
                             descriptors |-> [i \in 1 .. (n + 1) |-> [address |-> 0, count |-> 1]]],
                            HeaderLength + (n + 1) * DescriptorLength, TRUE).status = "POST")
  <2>1. /\ p.UnmapSupported /\ n \in Nat \ {0} /\ n + 1 \in Nat \ {0}
        /\ n * DescriptorLength <= p.MaxTransferLength
        /\ ~((n + 1) * DescriptorLength <= p.MaxTransferLength)
    BY <1>8, <1>10, LongestList
  <2>2. PICK k \in Nat \ {0} : k = n + 1
    BY <2>1
  <2>3. CheckUnmap(p, [anchor |-> FALSE],
                   [length |-> n * DescriptorLength,
                    descriptors |-> [i \in 1 .. n |-> [address |-> 0, count |-> 1]]],
                   HeaderLength + n * DescriptorLength, TRUE).status = "POST"
    BY <1>9, <1>10, <2>1
  <2>4. ~(CheckUnmap(p, [anchor |-> FALSE],
                   [length |-> k * DescriptorLength,
                    descriptors |-> [i \in 1 .. k |-> [address |-> 0, count |-> 1]]],
                   HeaderLength + k * DescriptorLength, TRUE).status = "POST")
    BY <1>9, <1>10, <2>1, <2>2
  <2> QED
    BY ONLY <2>2, <2>3, <2>4
<1>11. DefinePartitionTable(Partition(p)) =>
         Blocks([address |-> Partition(p).BlockAddress, count |-> Partition(p).BlockCount])
           \subseteq DOMAIN NewFile(p)
  BY PartitionFits
<1> QED
  BY ONLY <1>2, <1>3, <1>4, <1>5, <1>6, <1>7, <1>8, <1>10, <1>11 DEF ReportsHold

\* A unit does what the driver reports of it: its last block is the last that is accepted,
\* the longest transfer is one request, the longest UNMAP list is accepted and no longer one,
\* write protection is what it says (scsi.c, SpdScsiReadCapacity, SpdScsiInquiry,
\* SpdScsiModeSense against SpdScsiPostRangeSrb and SpdScsiPostUnmapSrb), and the partition
\* that rawdisk defines lies in the unit.
THEOREM AlwaysReportsHold == Spec => []ReportsHold
<1>1. Inv => ReportsHold
  BY ReportsFollow DEF Inv, UnitInv
<1> QED
  BY <1>1, InductiveInvariant, PTL
=============================================================================
