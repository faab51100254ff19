---------------------------- MODULE MCDispatcher ----------------------------
(***************************************************************************)
(* Dispatcher for units that have Guid's of their own.                     *)
(***************************************************************************)
EXTENDS Dispatcher

OwnGuid == [u \in Unit |-> u]
=============================================================================
