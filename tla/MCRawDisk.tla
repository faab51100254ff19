----------------------------- MODULE MCRawDisk -----------------------------
(***************************************************************************)
(* A small instance of RawDisk: units of two blocks, with and without a    *)
(* cache, that are cut into one or two requests, a unit of three blocks    *)
(* whose length of 12 bytes wraps around W32 = 8, and write protected      *)
(* units of more blocks than a 10-byte command can name.                   *)
(***************************************************************************)
EXTENDS RawDisk

Unit(n, l, max, wp, cache, unmap) ==
  [BlockCount |-> n, BlockLength |-> l, MaxTransferLength |-> max,
   WriteProtected |-> wp, CacheSupported |-> cache, UnmapSupported |-> unmap]
MCParamSet == {Unit(2, 2, 2, FALSE, TRUE, TRUE), Unit(2, 2, 4, FALSE, FALSE, TRUE),
               Unit(3, 4, 4, FALSE, TRUE, FALSE), Unit(5, 2, 4, TRUE, TRUE, TRUE), Unit(9, 1, 2, TRUE, FALSE, FALSE)}

NoList == [length |-> 0, descriptors |-> <<>>]
D(a, n) == [address |-> a, count |-> n]
Any == [op |-> "TEST_UNIT_READY", address |-> 0, count |-> 0, fua |-> FALSE, anchor |-> FALSE,
        list |-> NoList, buffer |-> "fits", autosense |-> TRUE, known |-> TRUE]
Range6(op, a, n) == [Any EXCEPT !.op = op, !.address = a, !.count = n]
RangeOf(op, a, n, fua) == [Range6(op, a, n) EXCEPT !.fua = fua]
UnmapOf(n, ds) == [Any EXCEPT !.op = "UNMAP", !.list = [length |-> n, descriptors |-> ds]]

MCCommands ==
  {Any, [Any EXCEPT !.op = "FORMAT"],
   RangeOf("READ10", 0, 3, FALSE), RangeOf("READ16", 0, 2, TRUE), Range6("READ6", 0, 0),
   [RangeOf("READ12", 3, 1, FALSE) EXCEPT !.autosense = FALSE], RangeOf("READ16", 15, 1, FALSE),
   RangeOf("READ16", 0, 5, FALSE), RangeOf("READ10", 0, 0, FALSE),
   [RangeOf("READ10", 0, 1, FALSE) EXCEPT !.buffer = "small"],
   RangeOf("WRITE10", 0, 2, FALSE), RangeOf("WRITE16", 0, 2, TRUE), RangeOf("WRITE12", 1, 1, TRUE),
   Range6("WRITE6", 0, 0),
   RangeOf("SYNCHRONIZE_CACHE10", 0, 2, FALSE), RangeOf("SYNCHRONIZE_CACHE16", 1, 1, FALSE),
   RangeOf("SYNCHRONIZE_CACHE16", 0, 0, FALSE),
   RangeOf("SYNCHRONIZE_CACHE16", 0, 3, FALSE),
   UnmapOf(2, <<D(0, 1), D(1, 1)>>), UnmapOf(1, <<D(1, 2)>>),
   UnmapOf(3, <<D(0, 1), D(1, 1), D(0, 1)>>), UnmapOf(0, <<>>),
   [UnmapOf(1, <<D(0, 1)>>) EXCEPT !.anchor = TRUE],
   [UnmapOf(1, <<D(0, 1)>>) EXCEPT !.buffer = "none"]}
  \cup {[Any EXCEPT !.op = op] : op \in {"REPORT_LUNS", "READ_CAPACITY16"}}
  \cup {[Any EXCEPT !.op = "INQUIRY", !.buffer = b, !.known = k] :
          b \in {"none", "small"}, k \in BOOLEAN}
=============================================================================
