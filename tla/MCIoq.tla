------------------------------- MODULE MCIoq -------------------------------
(***************************************************************************)
(* Model values for Ioq.  Both extensions hash to the same bucket, so that *)
(* bucket chains with two entries occur.                                   *)
(***************************************************************************)
EXTENDS Ioq, TLC

CONSTANTS e1, e2, b1

MCHash == (e1 :> b1) @@ (e2 :> b1)
=============================================================================
