---------------------------- MODULE SrbService ------------------------------
(***************************************************************************)
(* What a storage unit's I/O queue promises to Storport, without lists,    *)
(* buckets, events, threads or chunks: an SRB is refused, or it is         *)
(* accepted and later completed, by a response or by an abort, exactly     *)
(* once; when the service stops everything accepted is aborted and nothing *)
(* more is accepted.                                                       *)
(***************************************************************************)
EXTENDS Naturals

CONSTANT Srb
VARIABLES
  status,       \* [Srb -> {"idle", "pending", "SUCCESS", "ERROR", "ABORTED"}]
  completions,  \* [Srb -> Nat], completion notifications given to Storport
  stopped

vars == <<status, completions, stopped>>

Pending == {s \in Srb : status[s] = "pending"}

Notify(S, how) ==
  /\ status' = [s \in Srb |-> IF s \in S THEN how ELSE status[s]]
  /\ completions' = [s \in Srb |->
                       IF s \in S THEN completions[s] + 1 ELSE completions[s]]

Accept(s) ==
  /\ ~stopped
  /\ status[s] = "idle"
  /\ status' = [status EXCEPT ![s] = "pending"]
  /\ UNCHANGED <<completions, stopped>>

Refuse(s) ==
  /\ status[s] = "idle"
  /\ \/ Notify({s}, "ERROR")
     \/ stopped /\ Notify({s}, "ABORTED")
  /\ UNCHANGED stopped

Answer(s) ==
  /\ s \in Pending
  /\ ~stopped
  /\ Notify({s}, "SUCCESS") \/ Notify({s}, "ERROR")
  /\ UNCHANGED stopped

AbortAll ==
  /\ ~stopped
  /\ Notify(Pending, "ABORTED")
  /\ stopped' \in {stopped, TRUE}

Init ==
  /\ status = [s \in Srb |-> "idle"]
  /\ completions = [s \in Srb |-> 0]
  /\ stopped = FALSE

Next ==
  \/ \E s \in Srb : Accept(s) \/ Refuse(s) \/ Answer(s)
  \/ AbortAll

Spec == Init /\ [][Next]_vars
=============================================================================
