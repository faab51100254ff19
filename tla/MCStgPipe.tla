----------------------------- MODULE MCStgPipe ------------------------------
(***************************************************************************)
(* Model values for StgPipe: every run of stgtest may have a thread        *)
(* identifier of its own, or that of the first.  The first run leaves      *)
(* Reads, or messages that are too long, behind; the others send Reads     *)
(* and Writes.                                                             *)
(***************************************************************************)
EXTENDS StgPipe

First == CHOOSE c \in Client : TRUE
OwnOrReused == [c \in Client |-> {c, First}]
FirstSendsLong ==
  [c \in Client |-> {"read", IF c = First THEN "long" ELSE "write"}]
=============================================================================
