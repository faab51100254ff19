-------------------------- MODULE StorageUnitProofs -------------------------
(***************************************************************************)
(* Proofs about the table of storage units and the lifetime of a unit      *)
(* (module StorageUnit), for any number of units, processes, threads and   *)
(* slots.                                                                  *)
(***************************************************************************)
EXTENDS StorageUnit, FiniteSetTheorems, TLAPS

\* The places of a call at which its unit pointer is set.
Pointing == {"insert", "discard", "use", "wait", "test", "stop", "dereference",
             "free"}

\* The places at which the unit pointer is a counted reference.
Counted == {"insert", "discard", "use", "wait", "stop", "dereference"}

\* What the local variables of a call say, whatever the other threads do.
WellFormed(c) ==
  /\ c \in Call
  /\ c.unit # NULL <=> c.at \in Pointing
  /\ c.at \in {"insert", "discard"} => c.pid # NULL /\ c.dev = NULL
  /\ c.op = "provision" <=> c.at \in {"insert", "discard"}
  /\ c.op = "unprovision" => c.at \in {"remove", "test", "stop", "dereference", "free"}
  /\ c.at \in {"remove", "test"} => c.op = "unprovision"
  /\ c.at = "lookup" => c.todo # {}
  /\ c.op = "unprovision" /\ c.guid # NULL => c.todo = {}
  /\ c.op = "removeDevice" => c.todo = {}
  /\ c.at = "pnp" => c.todo = {}

\* The types, without the bound on the counter, which depends on the rest.
Types ==
  /\ StorageUnits \in [Slot -> Unit \cup {NULL}]
  /\ StorageUnitCount \in Int
  /\ heap \in SUBSET Unit
  /\ RefCount \in [Unit -> Int]
  /\ UnitGuid \in [Unit -> Guid \cup {NULL}]
  /\ OwnerProcessId \in [Unit -> Process \cup {NULL}]
  /\ TransactProcessId \in [Unit -> Process \cup {NULL}]
  /\ DeviceObject \in [Unit -> Device \cup {NULL}]
  /\ IoqStopped \in [Unit -> BOOLEAN]
  /\ IoqPending \in [Unit -> BOOLEAN]
  /\ call \in [Thread -> Call]
  /\ \A t \in Thread : WellFormed(call[t])
  /\ alive \in SUBSET Process
  /\ deviceSlot \in [Device -> Slot \cup {NULL}]
  /\ raced \in BOOLEAN

\* A call holds a counted reference to u.
Holds(c, u) == c.unit = u /\ (c.at \in Counted \/ (c.at = "test" /\ c.removed))

\* A call about to do the unlocked test, which found that its process does not
\* own the unit.
Denied(c) == c.at = "test" /\ ~c.removed

\* A unit that is being provisioned is known to its thread only, but for calls
\* that looked up an earlier unit at its address.
FreshUnits ==
  \A t \in Thread : call[t].at \in {"insert", "discard"} =>
    /\ ~InTable(call[t].unit)
    /\ \A x \in Thread \ {t} : call[x].unit = call[t].unit => Denied(call[x])
    /\ OwnerProcessId[call[t].unit] = call[t].pid
    /\ call[t].pid \in alive

\* The unlocked test lets a call pass that took its unit out of the table.
TestRepeats ==
  \A t \in Thread : call[t].at = "test" /\ call[t].removed =>
    OwnerProcessId[call[t].unit] = call[t].pid

\* A unit about to be freed has no references and a single thread frees it.
FreedAlone ==
  \A t \in Thread : call[t].at = "free" =>
    /\ call[t].unit \in heap
    /\ RefCount[call[t].unit] = 0
    /\ \A x \in Thread \ {t} : call[x].at = "free" => call[x].unit # call[t].unit

\* What is referenced is allocated.
ReferencedInHeap ==
  /\ \A i \in Occupied : StorageUnits[i] \in heap
  /\ \A t \in Thread, u \in Unit : Holds(call[t], u) => u \in heap
  /\ \A u \in Unit \ heap : RefCount[u] = 0

\* The counter of units is right, and no two of them have the same Guid.
TableCount == StorageUnitCount = Cardinality(Occupied)
TableInv == TableCount /\ GuidsDiffer

\* The inductive invariant of the reference counts and the table.
RefInv ==
  /\ FreshUnits /\ TestRepeats /\ FreedAlone /\ ReferencedInHeap
  /\ CountsReferences
  /\ TableInv

\* A stopped queue is empty.
QueueInv == QueuesAllocated /\ \A u \in Unit : IoqStopped[u] => ~IoqPending[u]


-----------------------------------------------------------------------------
(***************************************************************************)
(* Lemmas about the operators of the model.                                *)
(***************************************************************************)

\* A scan that takes the first slot of a set finds one.
LEMMA MinSlot ==
  ASSUME NEW S \in SUBSET Slot, S # {}
  PROVE  Min(S) \in S /\ \A y \in S : Min(S) <= y
<1>1. S \subseteq Nat
  BY StorageUnitAssumption DEF Slot
<1> DEFINE R == {p \in Nat \X Nat : p[1] < p[2]}
<1>2. IsWellFoundedOn(R, Nat)
  <2>1. OpToRel(<, Nat) = R
    BY DEF OpToRel
  <2>2. QED
    BY <2>1, NatLessThanWellFounded
<1>3. PICK x \in S : \A y \in S : ~(<<y, x>> \in R)
  <2> HIDE DEF R
  <2>1. QED
    BY <1>1, <1>2, WFMin
<1>4. \A y \in S : ~(y < x)
  <2>1. SUFFICES ASSUME NEW y \in S, y < x
                 PROVE  <<y, x>> \in R
    BY <1>3
  <2>2. QED
    BY <1>1, <2>1
<1>5. \A y \in S : x <= y
  BY <1>1, <1>4
<1>6. QED
  BY <1>5 DEF Min

\* A call that changes its place keeps its other local variables.
LEMMA GotoCall ==
  ASSUME NEW c \in Call, NEW l
  PROVE  LET d == [c EXCEPT !.at = l]
         IN  /\ d.at = l /\ d.op = c.op /\ d.pid = c.pid /\ d.guid = c.guid
             /\ d.dev = c.dev /\ d.unit = c.unit /\ d.todo = c.todo
             /\ d.removed = c.removed
             /\ l \in Pointing \cup {"idle", "lookup", "remove", "pnp"} => d \in Call
BY DEF Call, Pointing

\* A thread that has no call.
LEMMA IdleCall ==
  /\ WellFormed(Idle)
  /\ Idle.at = "idle" /\ Idle.op = "none" /\ Idle.pid = NULL /\ Idle.unit = NULL
  /\ Idle.todo = {} /\ ~Idle.removed /\ Idle.dev = NULL /\ Idle.guid = NULL
BY StorageUnitAssumption DEF WellFormed, Idle, Call, Pointing

\* The next slot of a loop, or the return of the call: no unit is held.
LEMMA NextSlotCall ==
  ASSUME NEW c \in Call,
         c.op = "unprovision" /\ c.guid # NULL => c.todo = {},
         c.op = "removeDevice" => c.todo = {},
         c.op # "provision"
  PROVE  LET d == NextSlot(c)
         IN  /\ WellFormed(d) /\ d.unit = NULL /\ d.at \notin Pointing \cup {"pnp"}
             /\ c.todo # {} => /\ d.todo = c.todo /\ d.op = c.op /\ d.pid = c.pid
                               /\ d.dev = c.dev
             /\ c.todo = {} => d = Idle
<1>1. CASE c.todo = {}
  BY <1>1, IdleCall DEF NextSlot, Pointing
<1>2. CASE c.todo # {}
  <2> DEFINE l == IF c.op = "unprovision" THEN "remove" ELSE "lookup"
             d == [c EXCEPT !.at = l, !.unit = NULL, !.removed = FALSE]
  <2>1. /\ d \in Call
        /\ d.at = l /\ d.op = c.op /\ d.pid = c.pid /\ d.guid = c.guid
        /\ d.dev = c.dev /\ d.unit = NULL /\ d.todo = c.todo
    <3>1. l \in {"remove", "lookup"}
      OBVIOUS
    <3>2. PICK k : k = l
      OBVIOUS
    <3>3. d = [c EXCEPT !.at = k, !.unit = NULL, !.removed = FALSE] /\ k \in {"remove", "lookup"}
      BY <3>1, <3>2
    <3> HIDE DEF l, d
    <3> QED
      BY <3>2, <3>3 DEF Call
  <2>2. NextSlot(c) = d
    BY <1>2 DEF NextSlot
  <2> HIDE DEF d
  <2>3. WellFormed(d)
    BY <1>2, <2>1 DEF WellFormed, Pointing
  <2>4. QED
    BY <1>2, <2>1, <2>2, <2>3 DEF Pointing
<1>3. QED
  BY <1>1, <1>2

\* A step of thread t replaces its call by c.
Moves(t, c) == WellFormed(c) /\ call' = [call EXCEPT ![t] = c]

\* The other calls stay as they are.
LEMMA MovesCalls ==
  ASSUME Types, NEW t \in Thread, NEW c, Moves(t, c)
  PROVE  /\ call' \in [Thread -> Call] /\ call'[t] = c
         /\ \A x \in Thread \ {t} : call'[x] = call[x]
         /\ \A x \in Thread : WellFormed(call'[x])
<1>1. call \in [Thread -> Call] /\ c \in Call /\ \A x \in Thread : WellFormed(call[x])
  BY DEF Types, Moves, WellFormed
<1>2. /\ call' \in [Thread -> Call] /\ call'[t] = c
      /\ \A x \in Thread \ {t} : call'[x] = call[x]
  BY <1>1 DEF Moves
<1>3. QED
  BY <1>1, <1>2 DEF Moves

-----------------------------------------------------------------------------
(***************************************************************************)
(* What each operation makes of the call that runs it.                     *)
(***************************************************************************)

\* A call that looks units up starts without one.
LEMMA StartsEmpty ==
  ASSUME Types, NEW t \in Thread,
         \/ \E p \in Process, g \in Guid : IoctlUnprovision(t, p, g)
         \/ \E p \in Process : ProcessExit(t, p)
         \/ \E op \in {"transact", "setTransactPid"}, p \in Process, i \in Slot :
              ServiceRequest(t, op, p, i)
         \/ \E op \in {"executeScsi", "reset", "stop"}, slots \in SUBSET Slot :
              StorportRequest(t, op, slots)
         \/ \E d \in Device, i \in Slot : StartDevice(t, d, i)
  PROVE  \E c : /\ Moves(t, c) /\ call[t] = Idle
                /\ c.unit = NULL /\ c.at \in {"idle", "remove", "lookup"}
<1> USE StorageUnitAssumption
<1>0. Idle \in Call
  BY IdleCall DEF WellFormed
<1>1. ASSUME NEW p \in Process, NEW g \in Guid, IoctlUnprovision(t, p, g)
      PROVE  \E c : /\ Moves(t, c) /\ call[t] = Idle
                    /\ c.unit = NULL /\ c.at \in {"idle", "remove", "lookup"}
  <2> DEFINE c == [Idle EXCEPT !.op = "unprovision", !.at = "remove", !.pid = p, !.guid = g]
  <2>1. /\ c.op = "unprovision" /\ c.at = "remove" /\ c.unit = NULL /\ c.todo = {}
        /\ c \in Call
    BY <1>0 DEF Idle, Call
  <2>2. WellFormed(c)
    BY <2>1 DEF WellFormed, Pointing
  <2>3. call[t] = Idle /\ call' = [call EXCEPT ![t] = c]
    BY <1>1 DEF IoctlUnprovision, Begin, Continue
  <2>4. QED
    BY <2>1, <2>2, <2>3 DEF Moves
<1>2. ASSUME NEW p \in Process, ProcessExit(t, p)
      PROVE  \E c : /\ Moves(t, c) /\ call[t] = Idle
                    /\ c.unit = NULL /\ c.at \in {"idle", "remove", "lookup"}
  <2> DEFINE b == [Idle EXCEPT !.op = "unprovision", !.pid = p, !.todo = UseBitmap(p)]
             c == NextSlot(b)
  <2>1. UseBitmap(p) \subseteq Slot
    BY DEF UseBitmap, Occupied
  <2>2. b \in Call /\ b.op = "unprovision" /\ b.guid = NULL
    BY <1>0, <2>1 DEF Idle, Call
  <2>3. WellFormed(c) /\ c.unit = NULL /\ c.at \notin Pointing \cup {"pnp"}
    <3> HIDE DEF b
    <3>1. QED
      BY <2>2, NextSlotCall
  <2>4. c.at \in {"idle", "remove", "lookup"}
    <3> HIDE DEF c
    <3>1. QED
      BY <2>3 DEF WellFormed, Call, Pointing
  <2>5. call[t] = Idle /\ call' = [call EXCEPT ![t] = c]
    BY <1>2 DEF ProcessExit, Begin, Continue
  <2>6. QED
    BY <2>3, <2>4, <2>5 DEF Moves
<1>3. ASSUME NEW c \in Call, Begin(t, c), c.at = "lookup", c.unit = NULL, c.todo # {},
             c.op \in {"transact", "setTransactPid", "executeScsi", "reset", "stop",
                       "setDevice"}
      PROVE  \E d : /\ Moves(t, d) /\ call[t] = Idle
                    /\ d.unit = NULL /\ d.at \in {"idle", "remove", "lookup"}
  <2>1. WellFormed(c)
    BY <1>3 DEF WellFormed, Pointing
  <2>2. QED
    BY <1>3, <2>1 DEF Moves, Begin, Continue
<1>4. ASSUME NEW op \in {"transact", "setTransactPid"}, NEW p \in Process, NEW i \in Slot,
             ServiceRequest(t, op, p, i)
      PROVE  \E c : /\ Moves(t, c) /\ call[t] = Idle
                    /\ c.unit = NULL /\ c.at \in {"idle", "remove", "lookup"}
  <2> DEFINE c == [Idle EXCEPT !.op = op, !.at = "lookup", !.pid = p, !.todo = {i}]
  <2>1. c \in Call /\ c.at = "lookup" /\ c.unit = NULL /\ c.todo = {i} /\ c.op = op
    BY <1>0 DEF Idle, Call
  <2>2. Begin(t, c)
    BY <1>4 DEF ServiceRequest
  <2> HIDE DEF c
  <2>3. QED
    BY <2>1, <2>2, <1>3
<1>5. ASSUME NEW op \in {"executeScsi", "reset", "stop"}, NEW slots \in SUBSET Slot,
             StorportRequest(t, op, slots)
      PROVE  \E c : /\ Moves(t, c) /\ call[t] = Idle
                    /\ c.unit = NULL /\ c.at \in {"idle", "remove", "lookup"}
  <2> DEFINE c == [Idle EXCEPT !.op = op, !.at = "lookup", !.todo = slots]
  <2>1. c \in Call /\ c.at = "lookup" /\ c.unit = NULL /\ c.todo = slots /\ c.op = op
    BY <1>0 DEF Idle, Call
  <2>2. Begin(t, c) /\ (Cardinality(slots) = 1 \/ slots = Slot)
    BY <1>5 DEF StorportRequest
  <2>3. 0 \in Slot /\ Cardinality({}) = 0
    BY FS_EmptySet DEF Slot
  <2> HIDE DEF c
  <2>4. slots # {}
    BY <2>2, <2>3
  <2>5. QED
    BY <2>1, <2>2, <2>4, <1>3
<1>6. ASSUME NEW d \in Device, NEW i \in Slot, StartDevice(t, d, i)
      PROVE  \E c : /\ Moves(t, c) /\ call[t] = Idle
                    /\ c.unit = NULL /\ c.at \in {"idle", "remove", "lookup"}
  <2> DEFINE c == [Idle EXCEPT !.op = "setDevice", !.at = "lookup", !.dev = d, !.todo = {i}]
  <2>1. c \in Call /\ c.at = "lookup" /\ c.unit = NULL /\ c.todo = {i} /\ c.op = "setDevice"
    BY <1>0 DEF Idle, Call
  <2>2. Begin(t, c)
    BY <1>6 DEF StartDevice
  <2> HIDE DEF c
  <2>3. QED
    BY <2>1, <2>2, <1>3
<1>7. QED
  BY <1>1, <1>2, <1>4, <1>5, <1>6

\* A call that goes on with the unit it holds.
LEMMA GoesOn ==
  ASSUME Types, NEW t \in Thread,
         \/ StopIoq(t) \/ SetTransactPid(t) \/ SetDevice(t) \/ ExecuteScsi(t)
         \/ ResetUnit(t) \/ Transact(t) \/ TransactReturn(t) \/ TransactCancelled(t)
  PROVE  \E l \in {"wait", "dereference"} :
           /\ Moves(t, [call[t] EXCEPT !.at = l])
           /\ call[t].at \in {"stop", "use", "wait"} /\ call[t].unit \in Unit
<1>1. call[t] \in Call /\ WellFormed(call[t])
  BY DEF Types
<1>2. /\ call[t].at \in {"stop", "use", "wait"}
      /\ \/ Goto(t, "dereference")
         \/ Goto(t, "wait") /\ call[t].op = "transact"
  BY DEF StopIoq, SetTransactPid, SetDevice, ExecuteScsi, ResetUnit, Transact,
         TransactReturn, TransactCancelled
<1>3. call[t].unit \in Unit
  BY <1>1, <1>2 DEF WellFormed, Call, Pointing
<1>4. ASSUME NEW l \in {"wait", "dereference"}, Goto(t, l),
             l = "wait" => call[t].op = "transact"
      PROVE  Moves(t, [call[t] EXCEPT !.at = l])
  <2> DEFINE c == [call[t] EXCEPT !.at = l]
  <2>1. /\ c \in Call /\ c.at = l /\ c.op = call[t].op /\ c.unit = call[t].unit
        /\ c.todo = call[t].todo /\ c.guid = call[t].guid
    BY <1>1, GotoCall DEF Pointing
  <2>2. call' = [call EXCEPT ![t] = c]
    BY <1>4 DEF Goto, Continue
  <2> HIDE DEF c
  <2>3. WellFormed(c)
    BY <1>1, <1>2, <1>4, <2>1 DEF WellFormed, Pointing
  <2>4. QED
    BY <2>2, <2>3 DEF Moves, c
<1>5. QED
  BY <1>2, <1>3, <1>4

\* The call of a thread that has allocated a unit.
Provisioning(p, u) ==
  [Idle EXCEPT !.op = "provision", !.at = "insert", !.pid = p, !.unit = u]

\* A unit that is allocated is in the hands of the thread that allocated it.
LEMMA ProvisionCall ==
  ASSUME Types, NEW t \in Thread, NEW p \in Process, NEW u \in Unit,
         Begin(t, Provisioning(p, u))
  PROVE  \E c : /\ Moves(t, c) /\ call[t] = Idle
                /\ c.at = "insert" /\ c.unit = u /\ c.pid = p
<1> DEFINE c == Provisioning(p, u)
<1>1. Idle \in Call
  BY IdleCall DEF WellFormed
<1>2. /\ c \in Call /\ c.at = "insert" /\ c.unit = u /\ c.pid = p /\ c.dev = NULL
      /\ c.op = "provision"
  BY <1>1 DEF Provisioning, Idle, Call
<1>3. call[t] = Idle /\ call' = [call EXCEPT ![t] = c]
  BY DEF Begin, Continue
<1> HIDE DEF c
<1>4. WellFormed(c)
  BY <1>2, StorageUnitAssumption DEF WellFormed, Pointing
<1>5. QED
  BY <1>2, <1>3, <1>4 DEF Moves

\* A call that keeps its unit and changes its place.
LEMMA KeepsUnit ==
  ASSUME Types, NEW t \in Thread, NEW l, Goto(t, l),
         \/ l = "discard" /\ call[t].at = "insert"
         \/ l = "stop" /\ call[t].at = "test"
         \/ l = "free" /\ call[t].at = "dereference"
  PROVE  LET c == [call[t] EXCEPT !.at = l]
         IN  /\ Moves(t, c) /\ call[t].unit \in Unit
             /\ c.at = l /\ c.unit = call[t].unit /\ c.pid = call[t].pid
             /\ c.op = call[t].op /\ c.todo = call[t].todo
<1> DEFINE c == [call[t] EXCEPT !.at = l]
<1>1. call[t] \in Call /\ WellFormed(call[t])
  BY DEF Types
<1>2. /\ c \in Call /\ c.at = l /\ c.op = call[t].op /\ c.unit = call[t].unit
      /\ c.todo = call[t].todo /\ c.guid = call[t].guid /\ c.pid = call[t].pid
      /\ c.dev = call[t].dev
  BY <1>1, GotoCall DEF Pointing
<1>3. call' = [call EXCEPT ![t] = c]
  BY DEF Goto, Continue
<1> HIDE DEF c
<1>4. WellFormed(c)
  BY <1>1, <1>2 DEF WellFormed, Pointing
<1>5. call[t].unit \in Unit
  BY <1>1 DEF WellFormed, Call, Pointing
<1>6. QED
  BY <1>2, <1>3, <1>4, <1>5 DEF Moves, c

\* The caller of SpdStorageUnitDereference goes on without the unit.
LEMMA ReturnCall ==
  ASSUME NEW c, WellFormed(c), c.at \in {"dereference", "free"}
  PROVE  LET d == Return(c)
         IN  /\ WellFormed(d) /\ d.unit = NULL /\ d.at \notin Pointing
             /\ c.todo # {} => d.todo = c.todo /\ d.op = c.op /\ d.pid = c.pid
<1>1. /\ c \in Call /\ c.op # "provision"
      /\ c.op = "unprovision" /\ c.guid # NULL => c.todo = {}
      /\ c.op = "removeDevice" => c.todo = {}
  BY DEF WellFormed
<1>2. CASE c.op = "removeDevice"
  <2> DEFINE d == [c EXCEPT !.at = "pnp", !.unit = NULL]
  <2>1. /\ d \in Call /\ d.at = "pnp" /\ d.unit = NULL /\ d.op = c.op
        /\ d.todo = c.todo /\ d.pid = c.pid
    BY <1>1 DEF Call
  <2>2. Return(c) = d
    BY <1>2 DEF Return
  <2> HIDE DEF d
  <2>3. WellFormed(d)
    BY <1>1, <1>2, <2>1 DEF WellFormed, Pointing
  <2>4. QED
    BY <2>1, <2>2, <2>3 DEF Pointing
<1>3. CASE c.op # "removeDevice"
  <2>1. Return(c) = NextSlot(c)
    BY <1>3 DEF Return
  <2>2. QED
    BY <2>1, <1>1, NextSlotCall
<1>4. QED
  BY <1>2, <1>3

\* SpdStorageUnitReferenceByBtl takes the first slot of those to visit.
LEMMA LookupCall ==
  ASSUME Types, NEW t \in Thread, ReferenceByBtl(t)
  PROVE  \E i \in Slot : \E c :
           /\ Moves(t, c) /\ call[t].at = "lookup" /\ call[t].unit = NULL
           /\ \/ /\ StorageUnits[i] = NULL /\ c.unit = NULL /\ c.at \notin Pointing
                 /\ UNCHANGED RefCount
              \/ /\ StorageUnits[i] # NULL /\ c.unit = StorageUnits[i] /\ c.at = "use"
                 /\ RefCount' = RefCountUp(StorageUnits[i])
<1>1. call[t] \in Call /\ WellFormed(call[t]) /\ call[t].at = "lookup"
  BY DEF Types, ReferenceByBtl
<1>2. /\ call[t].todo \in SUBSET Slot /\ call[t].todo # {}
      /\ call[t].op \notin {"provision", "unprovision"}
      /\ call[t].op = "removeDevice" => call[t].todo = {}
      /\ call[t].unit = NULL
  BY <1>1 DEF WellFormed, Call, Pointing
<1> DEFINE i == Min(call[t].todo)
           b == [call[t] EXCEPT !.todo = @ \ {i}]
           d == [b EXCEPT !.at = "use", !.unit = StorageUnits[i]]
<1>3. i \in Slot
  BY <1>2, MinSlot
<1>4. /\ b \in Call /\ b.op = call[t].op
  BY <1>1, <1>2 DEF Call
<1>5. /\ IF StorageUnits[i] = NULL
         THEN call' = [call EXCEPT ![t] = NextSlot(b)] /\ UNCHANGED RefCount
         ELSE call' = [call EXCEPT ![t] = d] /\ RefCount' = RefCountUp(StorageUnits[i])
  BY DEF ReferenceByBtl, Continue
<1> HIDE DEF i
<1>6. CASE StorageUnits[i] = NULL
  <2> HIDE DEF b
  <2>1. WellFormed(NextSlot(b)) /\ NextSlot(b).unit = NULL /\ NextSlot(b).at \notin Pointing
    BY <1>2, <1>4, NextSlotCall
  <2>2. QED
    BY <1>1, <1>2, <1>3, <1>5, <1>6, <2>1 DEF Moves
<1>7. CASE StorageUnits[i] # NULL
  <2>1. StorageUnits[i] \in Unit
    BY <1>3, <1>7 DEF Types
  <2>2. d \in Call /\ d.at = "use" /\ d.unit = StorageUnits[i] /\ d.op = call[t].op
    <3> HIDE DEF b
    <3>1. QED
      BY <1>4, <2>1 DEF Call
  <2>3. call' = [call EXCEPT ![t] = d]
    BY <1>5, <1>7
  <2> HIDE DEF d
  <2>4. WellFormed(d)
    BY <1>2, <1>7, <2>2 DEF WellFormed, Pointing
  <2>5. Moves(t, d)
    BY <2>3, <2>4 DEF Moves
  <2>6. QED
    BY <1>1, <1>2, <1>3, <1>5, <1>7, <2>2, <2>5
<1>8. QED
  BY <1>6, <1>7

\* SpdStorageUnitUnprovision under the lock: nothing was found, or a slot was
\* found and is emptied if the process owns its unit.
LEMMA RemoveCall ==
  ASSUME Types, NEW t \in Thread, Remove(t)
  PROVE  /\ call[t].at = "remove" /\ call[t].op = "unprovision" /\ call[t].unit = NULL
         /\ \/ \E c : /\ Moves(t, c) /\ c.unit = NULL /\ c.at \notin Pointing
                      /\ \A j \in call[t].todo \cap Occupied :
                           j \in c.todo /\ c.op = "unprovision" /\ c.pid = call[t].pid
                      /\ UNCHANGED tableVars
            \/ \E i \in Occupied : \E c :
                 LET u == StorageUnits[i]
                 IN  /\ Moves(t, c) /\ c.unit = u /\ c.at = "test" /\ c.pid = call[t].pid
                     /\ c.op = "unprovision"
                     /\ c.removed <=> OwnerProcessId[u] = c.pid
                     /\ \A j \in call[t].todo \cap Occupied : j = i \/ j \in c.todo
                     /\ IF c.removed
                        THEN /\ StorageUnits' = [StorageUnits EXCEPT ![i] = NULL]
                             /\ StorageUnitCount' = StorageUnitCount - 1
                        ELSE UNCHANGED tableVars
<1> DEFINE todo == call[t].todo
           rest == IF todo = {} THEN {} ELSE todo \ {Min(todo)}
           b == [call[t] EXCEPT !.todo = rest]
           found == Target(call[t])
<1>1. /\ call[t] \in Call /\ WellFormed(call[t]) /\ call[t].at = "remove"
      /\ call[t].op = "unprovision" /\ call[t].unit = NULL /\ todo \in SUBSET Slot
      /\ call[t].guid # NULL => todo = {}
  BY DEF Types, Remove, WellFormed, Call, Pointing
<1>2. rest \in SUBSET Slot
  BY <1>1
<1>3. found \subseteq Occupied
  BY DEF Target
<1>4. \A j \in todo \cap Occupied : j \in rest \/ found = {j}
  <2>1. SUFFICES ASSUME NEW j \in todo \cap Occupied, j \notin rest
                 PROVE  found = {j}
    OBVIOUS
  <2>2. todo # {} /\ j = Min(todo) /\ call[t].guid = NULL
    BY <2>1, <1>1
  <2>3. QED
    BY <2>1, <2>2 DEF Target
<1>5. /\ b \in Call /\ b.op = "unprovision" /\ b.todo = rest /\ b.pid = call[t].pid
      /\ b.guid = call[t].guid
  <2> HIDE DEF rest
  <2>1. QED
    BY <1>1, <1>2 DEF Call
<1>6. IF found = {}
      THEN call' = [call EXCEPT ![t] = NextSlot(b)] /\ UNCHANGED tableVars
      ELSE LET i == Min(found)
               u == StorageUnits[i]
           IN  /\ call' = [call EXCEPT ![t] = [b EXCEPT !.at = "test", !.unit = u,
                                                        !.removed = IsOwner(b, u)]]
               /\ IF IsOwner(b, u)
                  THEN /\ StorageUnits' = [StorageUnits EXCEPT ![i] = NULL]
                       /\ StorageUnitCount' = CountDown
                  ELSE UNCHANGED tableVars
  BY DEF Remove, Continue
<1> HIDE DEF b, found
<1>7. CASE found = {}
  <2>1. /\ WellFormed(NextSlot(b)) /\ NextSlot(b).unit = NULL /\ NextSlot(b).at \notin Pointing
        /\ rest # {} => /\ NextSlot(b).todo = rest /\ NextSlot(b).op = "unprovision"
                        /\ NextSlot(b).pid = call[t].pid
    <3>1. b.guid # NULL => b.todo = {}
      BY <1>1, <1>5
    <3> HIDE DEF rest
    <3>2. QED
      BY <1>5, <3>1, NextSlotCall
  <2>2. \A j \in todo \cap Occupied : j \in rest
    BY <1>4, <1>7
  <2>3. Moves(t, NextSlot(b)) /\ UNCHANGED tableVars
    BY <1>6, <1>7, <2>1 DEF Moves
  <2> HIDE DEF rest
  <2>4. QED
    BY <1>1, <2>1, <2>2, <2>3
<1>8. CASE found # {}
  <2> DEFINE i == Min(found)
             u == StorageUnits[i]
             own == IsOwner(b, u)
             c == [b EXCEPT !.at = "test", !.unit = u, !.removed = own]
  <2>1. i \in found /\ i \in Occupied /\ i \in Slot
    BY <1>3, <1>8, MinSlot DEF Occupied
  <2>2. u \in Unit /\ u # NULL
    BY <2>1 DEF Occupied, Types
  <2>3. own \in BOOLEAN /\ (own <=> OwnerProcessId[u] = call[t].pid)
    BY <1>5 DEF IsOwner
  <2>4. /\ c \in Call /\ c.at = "test" /\ c.unit = u /\ c.removed = own /\ c.todo = rest
        /\ c.pid = call[t].pid /\ c.op = "unprovision" /\ c.guid = call[t].guid
    <3> HIDE DEF own, u, rest
    <3>1. QED
      BY <1>5, <2>2, <2>3 DEF Call
  <2>5. /\ call' = [call EXCEPT ![t] = c]
        /\ IF own THEN /\ StorageUnits' = [StorageUnits EXCEPT ![i] = NULL]
                       /\ StorageUnitCount' = StorageUnitCount - 1
                  ELSE UNCHANGED tableVars
    BY <1>6, <1>8 DEF CountDown
  <2> HIDE DEF c, own, i
  <2>6. WellFormed(c)
    BY <1>1, <2>2, <2>4 DEF WellFormed, Pointing
  <2>7. \A j \in todo \cap Occupied : j = i \/ j \in c.todo
    BY <1>4, <2>1, <2>4
  <2>8. QED
    BY <1>1, <2>1, <2>3, <2>4, <2>5, <2>6, <2>7 DEF Moves
<1>9. QED
  BY <1>7, <1>8

\* The unlocked test of the owner goes on with the unit or without it.
LEMMA TestOwnerCall ==
  ASSUME Types, NEW t \in Thread, TestOwner(t)
  PROVE  /\ call[t].at = "test" /\ call[t].unit \in Unit /\ call[t].op = "unprovision"
         /\ \E c : /\ Moves(t, c)
                   /\ call[t].todo # {} =>
                        c.todo = call[t].todo /\ c.op = call[t].op /\ c.pid = call[t].pid
                   /\ \/ /\ c.unit = call[t].unit /\ c.at = "stop"
                         /\ raced' = (raced \/ ~call[t].removed)
                      \/ /\ c.unit = NULL /\ c.at \notin Pointing /\ UNCHANGED raced
                         /\ \E owner \in OwnerRead(call[t].unit) : owner # call[t].pid
<1>1. call[t] \in Call /\ WellFormed(call[t]) /\ call[t].at = "test"
  BY DEF Types, TestOwner
<1>2. /\ call[t].unit \in Unit /\ call[t].op = "unprovision"
      /\ call[t].guid # NULL => call[t].todo = {}
  BY <1>1 DEF WellFormed, Call, Pointing
<1>3. CASE Goto(t, "stop") /\ raced' = (raced \/ ~call[t].removed)
  <2> DEFINE c == [call[t] EXCEPT !.at = "stop"]
  <2>2. /\ Moves(t, c) /\ c.at = "stop" /\ c.unit = call[t].unit
        /\ c.pid = call[t].pid /\ c.op = call[t].op /\ c.todo = call[t].todo
    BY <1>3, <1>1, KeepsUnit
  <2> HIDE DEF c
  <2>3. QED
    BY <2>2, <1>1, <1>2, <1>3
<1>4. CASE /\ Continue(t, NextSlot(call[t])) /\ UNCHANGED raced
           /\ \E owner \in OwnerRead(call[t].unit) : owner # call[t].pid
  <2>1. call' = [call EXCEPT ![t] = NextSlot(call[t])]
    BY <1>4 DEF Continue
  <2> DEFINE c == NextSlot(call[t])
  <2>2. /\ WellFormed(c) /\ c.unit = NULL /\ c.at \notin Pointing
        /\ call[t].todo # {} =>
             c.todo = call[t].todo /\ c.op = call[t].op /\ c.pid = call[t].pid
    BY <1>1, <1>2, NextSlotCall
  <2> HIDE DEF c
  <2>3. Moves(t, c)
    BY <2>1, <2>2 DEF Moves, c
  <2>4. QED
    BY <2>2, <2>3, <1>1, <1>2, <1>4
<1>5. QED
  BY <1>3, <1>4 DEF TestOwner

\* SpdStorageUnitReferenceByDevice finds a unit of the table.
LEMMA RemoveDeviceCall ==
  ASSUME Types, NEW t \in Thread, NEW d \in Device, RemoveDevice(t, d)
  PROVE  \E i \in Occupied : \E c :
           /\ Moves(t, c) /\ call[t] = Idle
           /\ c.at = "dereference" /\ c.unit = StorageUnits[i]
           /\ RefCount' = RefCountUp(StorageUnits[i])
<1> DEFINE found == {i \in Occupied : DeviceObject[StorageUnits[i]] = d}
           i == Min(found)
           u == StorageUnits[i]
           g == UnitGuid[u]
           p == OwnerProcessId[u]
           c == [Idle EXCEPT !.op = "removeDevice", !.at = "dereference",
                             !.dev = d, !.unit = u, !.guid = g, !.pid = p]
<1>1. found \in SUBSET Slot /\ found # {}
  BY DEF RemoveDevice, Occupied
<1>2. i \in Occupied
  <2>1. i \in found
    <3> HIDE DEF found
    <3>1. QED
      BY <1>1, MinSlot
  <2>2. QED
    BY <2>1
<1>3. call[t] = Idle /\ call' = [call EXCEPT ![t] = c] /\ RefCount' = RefCountUp(u)
  BY DEF RemoveDevice, Begin, Continue
<1> HIDE DEF i
<1>4. u \in Unit /\ u # NULL
  BY <1>2 DEF Occupied, Types
<1>5. g \in Guid \cup {NULL} /\ p \in Process \cup {NULL}
  <2> HIDE DEF u
  <2>1. QED
    BY <1>4 DEF Types
<1>6. /\ c \in Call /\ c.at = "dereference" /\ c.unit = u /\ c.op = "removeDevice"
      /\ c.todo = {}
  <2>1. Idle \in Call
    BY IdleCall DEF WellFormed
  <2> HIDE DEF u, g, p
  <2>2. QED
    BY <1>4, <1>5, <2>1 DEF Idle, Call
<1> HIDE DEF c, u
<1>7. WellFormed(c)
  BY <1>4, <1>6 DEF WellFormed, Pointing
<1>8. QED
  BY <1>2, <1>3, <1>6, <1>7 DEF Moves, u

\* The removal of a device goes on to unprovision by Guid.
LEMMA PnpCall ==
  ASSUME Types, NEW t \in Thread, RemoveDevicePnp(t)
  PROVE  /\ call[t].at = "pnp" /\ call[t].unit = NULL /\ call[t].todo = {}
         /\ \E c : Moves(t, c) /\ c.unit = NULL /\ c.at = "remove"
<1> DEFINE c == [call[t] EXCEPT !.op = "unprovision", !.at = "remove"]
<1>1. /\ call[t] \in Call /\ WellFormed(call[t]) /\ call[t].at = "pnp"
      /\ call' = [call EXCEPT ![t] = c]
  BY DEF Types, RemoveDevicePnp, Continue
<1>2. call[t].unit = NULL /\ call[t].todo = {}
  BY <1>1 DEF WellFormed, Pointing
<1>3. /\ c \in Call /\ c.op = "unprovision" /\ c.at = "remove" /\ c.unit = call[t].unit
      /\ c.todo = call[t].todo
  BY <1>1 DEF Call
<1> HIDE DEF c
<1>4. WellFormed(c)
  BY <1>2, <1>3 DEF WellFormed, Pointing
<1>5. QED
  BY <1>1, <1>2, <1>3, <1>4 DEF Moves

-----------------------------------------------------------------------------
(***************************************************************************)
(* Types and the shape of calls.                                           *)
(***************************************************************************)

\* Initially every variable has its type and every thread is idle.
LEMMA TypesInit == Init => Types
<1> SUFFICES ASSUME Init PROVE Types
  OBVIOUS
<1>1. Idle \in Call /\ WellFormed(Idle)
  BY IdleCall DEF WellFormed
<1>2. call = [t \in Thread |-> Idle]
  BY DEF Init
<1>3. call \in [Thread -> Call] /\ \A t \in Thread : WellFormed(call[t])
  BY <1>1, <1>2
<1>4. raced \in BOOLEAN
  <2>1. raced = FALSE
    BY DEF Init
  <2>2. QED
    BY <2>1
<1>5. QED
  BY <1>3, <1>4 DEF Init, Types

\* A thread makes one call; the fields of units change one at a time.
LEMMA TypesMove ==
  ASSUME Types, NEW t \in Thread, NEW c, Moves(t, c),
         StorageUnits' \in [Slot -> Unit \cup {NULL}], StorageUnitCount' \in Int,
         heap' \in SUBSET Unit, RefCount' \in [Unit -> Int],
         UnitGuid' \in [Unit -> Guid \cup {NULL}],
         OwnerProcessId' \in [Unit -> Process \cup {NULL}],
         TransactProcessId' \in [Unit -> Process \cup {NULL}],
         DeviceObject' \in [Unit -> Device \cup {NULL}],
         IoqStopped' \in [Unit -> BOOLEAN], IoqPending' \in [Unit -> BOOLEAN],
         alive' \in SUBSET Process, deviceSlot' \in [Device -> Slot \cup {NULL}],
         raced' \in BOOLEAN
  PROVE  Types'
BY MovesCalls DEF Types

\* SpdFree keeps the types of the fields.
LEMMA TypesFree ==
  ASSUME Types, NEW u \in Unit, FreeUnit(u)
  PROVE  /\ heap' \in SUBSET Unit /\ RefCount' \in [Unit -> Int]
         /\ UnitGuid' \in [Unit -> Guid \cup {NULL}]
         /\ OwnerProcessId' \in [Unit -> Process \cup {NULL}]
         /\ TransactProcessId' \in [Unit -> Process \cup {NULL}]
         /\ DeviceObject' \in [Unit -> Device \cup {NULL}]
         /\ IoqStopped' \in [Unit -> BOOLEAN] /\ IoqPending' \in [Unit -> BOOLEAN]
BY DEF Types, FreeUnit

\* Every operation keeps the types and the shape of the calls.
LEMMA TypesNext == Types /\ [Next]_vars => Types'
<1> SUFFICES ASSUME Types, [Next]_vars PROVE Types'
  OBVIOUS
<1> USE DEF tableVars, paramVars, fieldVars, ioqVars, envVars
<1>1. ASSUME NEW t \in Thread, NEW p \in Process, NEW g \in Guid, Provision(t, p, g)
      PROVE  Types'
  <2>1. PICK u \in Unit \ heap :
          Begin(t, Provisioning(p, u)) /\ Provision(t, p, g)!(u)
    BY <1>1 DEF Provision, Provisioning
  <2>2. PICK c : Moves(t, c)
    BY <2>1, ProvisionCall
  <2>3. QED
    BY <2>1, <2>2, TypesMove DEF Types
<1>2. ASSUME NEW t \in Thread, Insert(t)
      PROVE  Types'
  <2>0. call[t].at = "insert" /\ call[t] \in Call /\ WellFormed(call[t])
    BY <1>2 DEF Insert, Types
  <2>1. call[t].unit \in Unit
    BY <2>0 DEF WellFormed, Call, Pointing
  <2>2. CASE ~Duplicate(call[t].unit) /\ FreeSlots # {}
    <3>1. Moves(t, Idle)
      BY <1>2, <2>2, IdleCall DEF Insert, Continue, Moves
    <3>2. Min(FreeSlots) \in Slot
      BY <2>2, MinSlot DEF FreeSlots
    <3>3. QED
      BY <1>2, <2>1, <2>2, <3>1, <3>2, TypesMove DEF Types, Insert
  <2>3. CASE ~(~Duplicate(call[t].unit) /\ FreeSlots # {})
    <3>1. Goto(t, "discard")
      BY <1>2, <2>3 DEF Insert
    <3>2. Moves(t, [call[t] EXCEPT !.at = "discard"])
      BY <3>1, <2>0, KeepsUnit
    <3>3. QED
      BY <1>2, <2>3, <3>2, TypesMove DEF Types, Insert
  <2>4. QED
    BY <2>2, <2>3
<1>3. ASSUME NEW t \in Thread, Discard(t) \/ Free(t)
      PROVE  Types'
  <2>1. /\ call[t].at \in {"discard", "free"} /\ WellFormed(call[t])
        /\ call[t].unit \in Unit
    BY <1>3 DEF Discard, Free, Types, WellFormed, Call, Pointing
  <2>2. \E c : Moves(t, c)
    <3>1. CASE Discard(t)
      BY <3>1, IdleCall DEF Discard, Moves, Continue
    <3>2. CASE Free(t)
      BY <3>2, <2>1, ReturnCall DEF Free, Moves, Continue
    <3>3. QED
      BY <1>3, <3>1, <3>2
  <2>3. /\ FreeUnit(call[t].unit) /\ UNCHANGED <<tableVars, envVars, raced>>
    BY <1>3 DEF Discard, Free
  <2>4. QED
    BY <2>1, <2>2, <2>3, TypesFree, TypesMove DEF Types
<1>4. ASSUME NEW t \in Thread,
             \/ \E p \in Process, g \in Guid : IoctlUnprovision(t, p, g)
             \/ \E p \in Process : ProcessExit(t, p)
             \/ \E op \in {"transact", "setTransactPid"}, p \in Process, i \in Slot :
                  ServiceRequest(t, op, p, i)
             \/ \E op \in {"executeScsi", "reset", "stop"}, slots \in SUBSET Slot :
                  StorportRequest(t, op, slots)
             \/ \E d \in Device, i \in Slot : StartDevice(t, d, i)
      PROVE  Types'
  <2>1. \E c : Moves(t, c)
    BY <1>4, StartsEmpty
  <2>2. /\ UNCHANGED <<tableVars, heap, RefCount, fieldVars, ioqVars, raced>>
        /\ alive' \in SUBSET Process /\ deviceSlot' \in [Device -> Slot \cup {NULL}]
    BY <1>4 DEF IoctlUnprovision, ProcessExit, ServiceRequest, StorportRequest,
                StartDevice, Types
  <2>3. QED
    BY <2>1, <2>2, TypesMove DEF Types
<1>5. ASSUME NEW t \in Thread,
             \/ StopIoq(t) \/ SetTransactPid(t) \/ SetDevice(t) \/ ExecuteScsi(t)
             \/ ResetUnit(t) \/ Transact(t) \/ TransactReturn(t) \/ TransactCancelled(t)
      PROVE  Types'
  <2>1. PICK c : Moves(t, c)
    BY <1>5, GoesOn
  <2>2. /\ UNCHANGED <<tableVars, heap, RefCount, paramVars, envVars, raced>>
        /\ TransactProcessId' \in [Unit -> Process \cup {NULL}]
        /\ IoqStopped' \in [Unit -> BOOLEAN] /\ IoqPending' \in [Unit -> BOOLEAN]
    BY <1>5 DEF StopIoq, SetTransactPid, SetDevice, ExecuteScsi, ResetUnit, Transact,
                TransactReturn, TransactCancelled, Types, StopQueue, AbortSrbs
  <2>3. DeviceObject' \in [Unit -> Device \cup {NULL}]
    BY <1>5 DEF StopIoq, SetTransactPid, SetDevice, ExecuteScsi, ResetUnit, Transact,
                TransactReturn, TransactCancelled, Types, Call
  <2>4. QED
    BY <2>1, <2>2, <2>3, TypesMove DEF Types
<1>6. ASSUME NEW t \in Thread, Remove(t)
      PROVE  Types'
  <2>1. /\ \E c : Moves(t, c)
        /\ StorageUnits' \in [Slot -> Unit \cup {NULL}] /\ StorageUnitCount' \in Int
    BY <1>6, RemoveCall DEF Types, Occupied
  <2>2. UNCHANGED <<heap, RefCount, fieldVars, ioqVars, envVars, raced>>
    BY <1>6 DEF Remove
  <2>3. QED
    BY <2>1, <2>2, TypesMove DEF Types
<1>7. ASSUME NEW t \in Thread, TestOwner(t) \/ RemoveDevicePnp(t)
      PROVE  Types'
  <2>1. \E c : Moves(t, c)
    BY <1>7, TestOwnerCall, PnpCall
  <2>2. /\ UNCHANGED <<tableVars, heap, RefCount, fieldVars, ioqVars, envVars>>
        /\ raced' \in BOOLEAN
    BY <1>7 DEF TestOwner, RemoveDevicePnp, Types
  <2>3. QED
    BY <2>1, <2>2, TypesMove DEF Types
<1>8. ASSUME NEW t \in Thread, ReferenceByBtl(t) \/ \E d \in Device : RemoveDevice(t, d)
      PROVE  Types'
  <2>1. /\ \E c : Moves(t, c)
        /\ RefCount' \in [Unit -> Int]
    BY <1>8, LookupCall, RemoveDeviceCall DEF Types, RefCountUp, Occupied
  <2>2. UNCHANGED <<tableVars, heap, fieldVars, ioqVars, envVars, raced>>
    BY <1>8 DEF ReferenceByBtl, RemoveDevice
  <2>3. QED
    BY <2>1, <2>2, TypesMove DEF Types
<1>9. ASSUME NEW t \in Thread, Dereference(t)
      PROVE  Types'
  <2>1. call[t].at = "dereference" /\ WellFormed(call[t])
    BY <1>9 DEF Dereference, Types
  <2>2. /\ RefCount' \in [Unit -> Int]
        /\ UNCHANGED <<tableVars, heap, fieldVars, ioqVars, envVars, raced>>
    <3>1. /\ RefCount' = [RefCount EXCEPT ![call[t].unit] = @ - 1]
          /\ UNCHANGED <<tableVars, heap, fieldVars, ioqVars, envVars, raced>>
      BY <1>9 DEF Dereference
    <3>2. call[t].unit \in Unit /\ RefCount \in [Unit -> Int]
      BY <2>1 DEF WellFormed, Call, Pointing, Types
    <3>3. QED
      BY <3>1, <3>2
  <2>3. CASE LastReference(call[t].unit)
    <3>1. Goto(t, "free")
      BY <1>9, <2>3 DEF Dereference
    <3>2. Moves(t, [call[t] EXCEPT !.at = "free"])
      BY <2>1, <3>1, KeepsUnit
    <3>3. QED
      BY <3>2, <2>2, TypesMove DEF Types
  <2>4. CASE ~LastReference(call[t].unit)
    <3>1. Moves(t, Return(call[t]))
      BY <1>9, <2>1, <2>4, ReturnCall DEF Dereference, Continue, Moves
    <3>2. QED
      BY <3>1, <2>2, TypesMove DEF Types
  <2>5. QED
    BY <2>3, <2>4
<1>10. ASSUME NEW p \in Process, ProcessStart(p)
       PROVE  Types'
  BY <1>10 DEF ProcessStart, Types
<1>11. CASE UNCHANGED vars
  BY <1>11 DEF vars, Types
<1>12. QED
  BY <1>1, <1>2, <1>3, <1>4, <1>5, <1>6, <1>7, <1>8, <1>9, <1>10, <1>11
     DEF Next, BeginCall, Step, Undefined

-----------------------------------------------------------------------------
(***************************************************************************)
(* Counting references.                                                    *)
(***************************************************************************)

\* The slots that refer to a unit.
SlotsOf(u) == {i \in Slot : StorageUnits[i] = u}

\* The table has StorageUnitCapacity slots.
LEMMA FiniteSlots ==
  /\ IsFiniteSet(Slot) /\ Cardinality(Slot) = Capacity
  /\ \A S \in SUBSET Slot : IsFiniteSet(S) /\ Cardinality(S) \in 0 .. Capacity
<1>1. IsFiniteSet(Slot) /\ Cardinality(Slot) = Capacity
  BY FS_Interval, StorageUnitAssumption DEF Slot
<1>2. ASSUME NEW S \in SUBSET Slot
      PROVE  IsFiniteSet(S) /\ Cardinality(S) \in 0 .. Capacity
  <2>1. IsFiniteSet(S) /\ Cardinality(S) <= Capacity
    BY <1>1, FS_Subset
  <2>2. Cardinality(S) \in Nat
    BY <2>1, FS_CardinalityType
  <2>3. QED
    BY <2>1, <2>2, StorageUnitAssumption
<1>3. QED
  BY <1>1, <1>2

\* The references that calls hold can be counted.
LEMMA FiniteHolders ==
  ASSUME NEW u
  PROVE  IsFiniteSet(Holders(u)) /\ Cardinality(Holders(u)) \in Nat
<1>1. Holders(u) \in SUBSET Thread
  BY DEF Holders
<1>2. IsFiniteSet(Holders(u))
  BY <1>1, FS_Subset, StorageUnitAssumption
<1>3. QED
  BY <1>2, FS_CardinalityType

\* The holders of a unit are the calls that hold it.
LEMMA HoldersDef ==
  ASSUME NEW u, NEW t \in Thread
  PROVE  t \in Holders(u) <=> Holds(call[t], u)
BY DEF Holders, Holds, Counted

\* The number of references of a unit follows the call that moves.
LEMMA HoldersMove ==
  ASSUME Types, NEW t \in Thread, NEW c, Moves(t, c), NEW u
  PROVE  /\ \A x \in Thread \ {t} : Holds(call[x], u)' <=> Holds(call[x], u)
         /\ Holds(call'[t], u) <=> Holds(c, u)
         /\ (Holds(c, u) <=> Holds(call[t], u)) =>
              Cardinality(Holders(u))' = Cardinality(Holders(u))
         /\ Holds(c, u) /\ ~Holds(call[t], u) =>
              Cardinality(Holders(u))' = Cardinality(Holders(u)) + 1
         /\ ~Holds(c, u) /\ Holds(call[t], u) =>
              Cardinality(Holders(u))' = Cardinality(Holders(u)) - 1
<1>1. call'[t] = c /\ \A x \in Thread \ {t} : call'[x] = call[x]
  BY MovesCalls
<1>2. Holders(u) = {x \in Thread : Holds(call[x], u)}
  BY DEF Holders, Holds, Counted
<1>3. Holders(u)' = {x \in Thread : Holds(call'[x], u)}
  BY DEF Holders, Holds, Counted
<1>4. \A x \in Thread \ {t} : Holds(call'[x], u) <=> Holds(call[x], u)
  BY <1>1
<1>5. Holds(c, u) => Holders(u)' = Holders(u) \cup {t}
  BY <1>1, <1>2, <1>3, <1>4
<1>6. ~Holds(c, u) => Holders(u)' = Holders(u) \ {t}
  BY <1>1, <1>2, <1>3, <1>4
<1>7. t \in Holders(u) <=> Holds(call[t], u)
  BY <1>2
<1>8. /\ IsFiniteSet(Holders(u)) /\ Cardinality(Holders(u)) \in Nat
  BY FiniteHolders
<1>9. /\ Cardinality(Holders(u) \cup {t}) =
           IF t \in Holders(u) THEN Cardinality(Holders(u)) ELSE Cardinality(Holders(u)) + 1
      /\ Cardinality(Holders(u) \ {t}) =
           IF t \in Holders(u) THEN Cardinality(Holders(u)) - 1 ELSE Cardinality(Holders(u))
  BY <1>8, FS_AddElement, FS_RemoveElement
<1>10. \A x \in Thread \ {t} : Holds(call[x], u)' <=> Holds(call[x], u)
  BY <1>4 DEF Holds
<1>11. Cardinality(Holders(u))' = Cardinality(Holders(u)')
  OBVIOUS
<1>12. QED
  BY <1>1, <1>5, <1>6, <1>7, <1>9, <1>10, <1>11

\* A slot that is filled or emptied changes the count of one unit by one, and
\* the count of occupied slots.
LEMMA SlotFilled ==
  ASSUME Types, NEW i \in Slot, StorageUnits[i] = NULL, NEW u \in Unit,
         StorageUnits' = [StorageUnits EXCEPT ![i] = u]
  PROVE  /\ Cardinality(SlotsOf(u))' = Cardinality(SlotsOf(u)) + 1
         /\ \A v \in Unit \ {u} : SlotsOf(v)' = SlotsOf(v)
         /\ Occupied' = Occupied \cup {i}
         /\ Cardinality(Occupied)' = Cardinality(Occupied) + 1
<1>1. u # NULL /\ NULL \notin Unit
  BY StorageUnitAssumption
<1>2. StorageUnits'[i] = u /\ \A j \in Slot \ {i} : StorageUnits'[j] = StorageUnits[j]
  BY DEF Types
<1>3. SlotsOf(u)' = SlotsOf(u) \cup {i} /\ i \notin SlotsOf(u)
  BY <1>1, <1>2 DEF SlotsOf
<1>4. Occupied' = Occupied \cup {i} /\ i \notin Occupied
  BY <1>1, <1>2 DEF Occupied
<1>5. \A v \in Unit \ {u} : SlotsOf(v)' = SlotsOf(v)
  BY <1>1, <1>2 DEF SlotsOf
<1>6. IsFiniteSet(SlotsOf(u)) /\ IsFiniteSet(Occupied)
  BY FiniteSlots DEF SlotsOf, Occupied
<1>7. /\ Cardinality(SlotsOf(u) \cup {i}) = Cardinality(SlotsOf(u)) + 1
      /\ Cardinality(Occupied \cup {i}) = Cardinality(Occupied) + 1
  BY <1>3, <1>4, <1>6, FS_AddElement
<1>8. QED
  BY <1>3, <1>4, <1>5, <1>7

\* The same for a slot that is emptied.
LEMMA SlotEmptied ==
  ASSUME Types, NEW i \in Occupied, NEW u, u = StorageUnits[i],
         StorageUnits' = [StorageUnits EXCEPT ![i] = NULL]
  PROVE  /\ Cardinality(SlotsOf(u))' = Cardinality(SlotsOf(u)) - 1
         /\ \A v \in Unit \ {u} : SlotsOf(v)' = SlotsOf(v)
         /\ Occupied' = Occupied \ {i}
         /\ Cardinality(Occupied)' = Cardinality(Occupied) - 1
<1>1. i \in Slot /\ u \in Unit /\ u # NULL /\ NULL \notin Unit
  BY StorageUnitAssumption DEF Occupied, Types
<1>2. StorageUnits'[i] = NULL /\ \A j \in Slot \ {i} : StorageUnits'[j] = StorageUnits[j]
  BY <1>1 DEF Types
<1>3. SlotsOf(u)' = SlotsOf(u) \ {i} /\ i \in SlotsOf(u)
  BY <1>1, <1>2 DEF SlotsOf
<1>4. Occupied' = Occupied \ {i}
  BY <1>1, <1>2 DEF Occupied
<1>5. \A v \in Unit \ {u} : SlotsOf(v)' = SlotsOf(v)
  BY <1>1, <1>2 DEF SlotsOf
<1>6. IsFiniteSet(SlotsOf(u)) /\ IsFiniteSet(Occupied)
  BY FiniteSlots DEF SlotsOf, Occupied
<1>7. /\ Cardinality(SlotsOf(u) \ {i}) = Cardinality(SlotsOf(u)) - 1
      /\ Cardinality(Occupied \ {i}) = Cardinality(Occupied) - 1
  BY <1>3, <1>6, FS_RemoveElement
<1>8. QED
  BY <1>3, <1>4, <1>5, <1>7

-----------------------------------------------------------------------------
(***************************************************************************)
(* The invariant of the reference counts, step by step.                    *)
(***************************************************************************)

\* An empty table has no references.
LEMMA RefInvInit == Init => RefInv
<1> SUFFICES ASSUME Init PROVE RefInv
  OBVIOUS
<1>1. /\ \A t \in Thread : call[t] = Idle
      /\ heap = {} /\ Occupied = {} /\ StorageUnitCount = 0
      /\ \A u \in Unit : RefCount[u] = 0
  BY DEF Init, Occupied
<1>2. \A t \in Thread : call[t].at = "idle" /\ call[t].unit = NULL
  BY <1>1, IdleCall
<1>3. \A t \in Thread, u \in Unit : ~Holds(call[t], u)
  BY <1>2 DEF Holds, Counted
<1>4. Cardinality(Occupied) = 0
  BY <1>1, FS_EmptySet
<1>5. FreshUnits /\ TestRepeats /\ FreedAlone
  BY <1>2 DEF FreshUnits, TestRepeats, FreedAlone
<1>6. ReferencedInHeap
  BY <1>1, <1>3 DEF ReferencedInHeap
<1>7. CountsReferences /\ TableInv
  BY <1>1, <1>4 DEF CountsReferences, TableInv, TableCount, GuidsDiffer
<1>8. QED
  BY <1>5, <1>6, <1>7 DEF RefInv

\* A step that takes and drops no reference.
LEMMA QuietStep ==
  ASSUME Types, RefInv, NEW t \in Thread, NEW c, Moves(t, c),
         UNCHANGED <<tableVars, heap, RefCount, paramVars>>,
         c.at \notin {"insert", "discard", "test", "free"},
         c.unit \in {NULL, call[t].unit},
         \A u \in Unit : Holds(c, u) <=> Holds(call[t], u),
         \A x \in Thread \ {t} :
           call[x].at \in {"insert", "discard"} => call[x].pid \in alive'
  PROVE  RefInv'
<1> USE DEF tableVars, paramVars
<1>1. call'[t] = c /\ \A x \in Thread \ {t} : call'[x] = call[x]
  BY MovesCalls
<1>2. \A x \in Thread : WellFormed(call[x])
  BY DEF Types
<1>3. FreshUnits'
  <2>1. SUFFICES ASSUME NEW x \in Thread, call'[x].at \in {"insert", "discard"}
                 PROVE  /\ (~InTable(call[x].unit))'
                        /\ \A y \in Thread \ {x} : call'[y].unit = call'[x].unit => Denied(call'[y])
                        /\ OwnerProcessId'[call'[x].unit] = call'[x].pid
                        /\ call'[x].pid \in alive'
    BY DEF FreshUnits
  <2>2. x # t /\ call'[x] = call[x]
    BY <1>1, <2>1
  <2>3. /\ ~InTable(call[x].unit)
        /\ \A y \in Thread \ {x} : call[y].unit = call[x].unit => Denied(call[y])
        /\ OwnerProcessId[call[x].unit] = call[x].pid
        /\ call[x].unit # NULL
    BY <1>2, <2>1, <2>2 DEF RefInv, FreshUnits, WellFormed, Pointing
  <2>4. c.unit # call[x].unit
    <3>1. SUFFICES ASSUME c.unit = call[x].unit PROVE FALSE
      OBVIOUS
    <3>2. Denied(call[t]) /\ c.unit = call[t].unit /\ c.unit \in Unit
      BY <2>2, <2>3, <3>1 DEF Types, Call
    <3>3. ~Holds(c, c.unit)
      BY <3>2 DEF Denied, Holds, Counted
    <3>4. c.at \notin Pointing
      BY <3>3 DEF Holds, Counted, Pointing
    <3>5. QED
      BY <2>3, <3>1, <3>4 DEF Moves, WellFormed
  <2>5. QED
    BY <1>1, <2>1, <2>2, <2>3, <2>4 DEF InTable
<1>4. TestRepeats'
  BY <1>1 DEF RefInv, TestRepeats
<1>5. FreedAlone'
  BY <1>1 DEF RefInv, FreedAlone
<1>6. ReferencedInHeap'
  BY <1>1 DEF RefInv, ReferencedInHeap, Occupied, Holds
<1>7. CountsReferences'
  <2>1. ASSUME NEW u \in heap
        PROVE  Cardinality(Holders(u))' = Cardinality(Holders(u))
    <3>1. u \in Unit
      BY DEF Types
    <3>2. QED
      BY <3>1, HoldersMove
  <2>2. QED
    BY <2>1 DEF RefInv, CountsReferences
<1>8. TableInv'
  BY DEF RefInv, TableInv, TableCount, GuidsDiffer, Occupied
<1>9. QED
  BY <1>3, <1>4, <1>5, <1>6, <1>7, <1>8 DEF RefInv

\* A step that takes a reference to a unit of the table.
LEMMA ReferenceStep ==
  ASSUME Types, RefInv, NEW t \in Thread, NEW c, Moves(t, c),
         NEW i \in Occupied, NEW u, u = StorageUnits[i],
         UNCHANGED <<tableVars, heap, paramVars, alive>>,
         RefCount' = RefCountUp(u),
         call[t].unit = NULL, c.unit = u, c.at \in {"use", "dereference"}
  PROVE  RefInv'
<1> USE DEF tableVars, paramVars
<1>1. call'[t] = c /\ \A x \in Thread \ {t} : call'[x] = call[x]
  BY MovesCalls
<1>2. \A x \in Thread : WellFormed(call[x])
  BY DEF Types
<1>3. /\ u \in Unit /\ u \in heap /\ InTable(u) /\ i \in Slot /\ u # NULL
  BY DEF RefInv, ReferencedInHeap, Occupied, Types, InTable
<1>4. Cardinality(SlotsOf(u)) \in Nat \ {0}
  <2>1. IsFiniteSet(SlotsOf(u)) /\ SlotsOf(u) # {} /\ Cardinality(SlotsOf(u)) \in Nat
    BY <1>3, FiniteSlots DEF SlotsOf
  <2>2. QED
    BY <2>1, FS_EmptySet
<1>5. RefCount[u] > 0
  BY <1>3, <1>4, FiniteHolders DEF RefInv, CountsReferences, SlotsOf
<1>6. RefCount' = [RefCount EXCEPT ![u] = @ + 1] /\ RefCount \in [Unit -> Int]
  BY DEF RefCountUp, Types
<1>7. FreshUnits'
  <2>1. SUFFICES ASSUME NEW x \in Thread, call'[x].at \in {"insert", "discard"}
                 PROVE  /\ (~InTable(call[x].unit))'
                        /\ \A y \in Thread \ {x} : call'[y].unit = call'[x].unit => Denied(call'[y])
                        /\ OwnerProcessId'[call'[x].unit] = call'[x].pid
                        /\ call'[x].pid \in alive'
    BY DEF FreshUnits
  <2>2. x # t /\ call'[x] = call[x]
    BY <1>1, <2>1
  <2>3. /\ ~InTable(call[x].unit)
        /\ \A y \in Thread \ {x} : call[y].unit = call[x].unit => Denied(call[y])
        /\ OwnerProcessId[call[x].unit] = call[x].pid
        /\ call[x].pid \in alive
    BY <2>1, <2>2 DEF RefInv, FreshUnits
  <2>4. call[x].unit # u
    BY <1>3, <2>3
  <2>5. QED
    BY <1>1, <2>1, <2>2, <2>3, <2>4 DEF InTable
<1>8. TestRepeats'
  BY <1>1 DEF RefInv, TestRepeats
<1>9. FreedAlone'
  <2>1. SUFFICES ASSUME NEW x \in Thread, call'[x].at = "free"
                 PROVE  /\ call'[x].unit \in heap'
                        /\ RefCount'[call'[x].unit] = 0
                        /\ \A y \in Thread \ {x} :
                             call'[y].at = "free" => call'[y].unit # call'[x].unit
    BY DEF FreedAlone
  <2>2. x # t /\ call'[x] = call[x]
    BY <1>1, <2>1
  <2>3. /\ call[x].unit \in heap /\ RefCount[call[x].unit] = 0
        /\ \A y \in Thread \ {x} : call[y].at = "free" => call[y].unit # call[x].unit
    BY <2>1, <2>2 DEF RefInv, FreedAlone
  <2>4. call[x].unit # u /\ call[x].unit \in Unit
    BY <1>5, <2>3 DEF Types
  <2>5. RefCount'[call[x].unit] = 0
    BY <1>6, <2>3, <2>4
  <2>6. QED
    BY <1>1, <2>2, <2>3, <2>5
<1>10. ReferencedInHeap'
  <2>1. \A v \in Unit \ heap : RefCount'[v] = 0
    BY <1>3, <1>6 DEF RefInv, ReferencedInHeap
  <2>2. QED
    BY <1>1, <1>3, <2>1 DEF RefInv, ReferencedInHeap, Occupied, Holds
<1>11. CountsReferences'
  <2>1. SUFFICES ASSUME NEW v \in heap
                 PROVE  RefCount'[v] = Cardinality(SlotsOf(v)) + Cardinality(Holders(v))'
    BY DEF CountsReferences, SlotsOf
  <2>2. v \in Unit /\ RefCount[v] = Cardinality(SlotsOf(v)) + Cardinality(Holders(v))
    BY DEF RefInv, CountsReferences, SlotsOf, Types
  <2>3. Cardinality(SlotsOf(v)) \in Nat /\ Cardinality(Holders(v)) \in Nat
    BY FiniteSlots, FiniteHolders DEF SlotsOf
  <2>4. CASE v = u
    <3>1. Holds(c, v) /\ ~Holds(call[t], v)
      BY <1>3, <2>4 DEF Holds, Counted
    <3>2. Cardinality(Holders(v))' = Cardinality(Holders(v)) + 1
      BY <3>1, HoldersMove
    <3>3. QED
      BY <1>6, <2>2, <2>3, <2>4, <3>2
  <2>5. CASE v # u
    <3>1. ~Holds(c, v) /\ ~Holds(call[t], v)
      BY <2>2, <2>5, StorageUnitAssumption DEF Holds
    <3>2. Cardinality(Holders(v))' = Cardinality(Holders(v))
      BY <3>1, HoldersMove
    <3>3. QED
      BY <1>6, <2>2, <2>5, <3>2
  <2>6. QED
    BY <2>4, <2>5
<1>12. TableInv'
  BY DEF RefInv, TableInv, TableCount, GuidsDiffer, Occupied
<1>13. QED
  BY <1>7, <1>8, <1>9, <1>10, <1>11, <1>12 DEF RefInv

\* What is known of a unit that a thread is about to free.
LEMMA FreedUnit ==
  ASSUME Types, RefInv, NEW t \in Thread, call[t].at \in {"discard", "free"}
  PROVE  /\ call[t].unit \in Unit /\ call[t].unit \in heap /\ ~InTable(call[t].unit)
         /\ \A x \in Thread \ {t} :
              /\ ~Holds(call[x], call[t].unit)
              /\ call[x].unit = call[t].unit => call[x].at = "test" /\ ~call[x].removed
<1> DEFINE u == call[t].unit
<1>1. \A x \in Thread : WellFormed(call[x]) /\ call[x] \in Call
  BY DEF Types
<1>2. u \in Unit
  BY <1>1 DEF WellFormed, Call, Pointing
<1>3. CASE call[t].at = "discard"
  <2>1. ~InTable(u) /\ \A x \in Thread \ {t} : call[x].unit = u => Denied(call[x])
    BY <1>3 DEF RefInv, FreshUnits
  <2>2. Holds(call[t], u)
    BY <1>3 DEF Holds, Counted
  <2>3. u \in heap
    BY <1>2, <2>2 DEF RefInv, ReferencedInHeap
  <2>4. QED
    BY <1>2, <2>1, <2>3 DEF Holds, Denied, Counted
<1>4. CASE call[t].at = "free"
  <2>1. /\ u \in heap /\ RefCount[u] = 0
        /\ \A x \in Thread \ {t} : call[x].at = "free" => call[x].unit # u
    BY <1>4 DEF RefInv, FreedAlone
  <2>2. Cardinality(SlotsOf(u)) + Cardinality(Holders(u)) = 0
    BY <2>1 DEF RefInv, CountsReferences, SlotsOf
  <2>3. /\ IsFiniteSet(SlotsOf(u)) /\ Cardinality(SlotsOf(u)) \in Nat
        /\ IsFiniteSet(Holders(u)) /\ Cardinality(Holders(u)) \in Nat
    BY FiniteSlots, FiniteHolders DEF SlotsOf
  <2>4. SlotsOf(u) = {} /\ Holders(u) = {}
    <3>1. Cardinality(SlotsOf(u)) = 0 /\ Cardinality(Holders(u)) = 0
      BY <2>2, <2>3
    <3>2. QED
      BY <2>3, <3>1, FS_EmptySet
  <2>5. \A x \in Thread : ~Holds(call[x], u)
    BY <2>4, HoldersDef
  <2>6. \A x \in Thread \ {t} : call[x].unit = u => call[x].at = "test" /\ ~call[x].removed
    BY <1>1, <1>2, <2>1, <2>5, StorageUnitAssumption DEF Holds, WellFormed, Pointing, Counted
  <2>7. QED
    BY <1>2, <2>1, <2>4, <2>5, <2>6 DEF SlotsOf, InTable
<1>5. QED
  BY <1>3, <1>4

\* A unit is freed: nobody knows it any more.
LEMMA FreeStep ==
  ASSUME Types, RefInv, NEW t \in Thread, NEW c, Moves(t, c),
         call[t].at \in {"discard", "free"}, FreeUnit(call[t].unit),
         UNCHANGED <<tableVars, alive>>, c.unit = NULL, c.at \notin Pointing
  PROVE  RefInv'
<1> USE DEF tableVars
<1> DEFINE u == call[t].unit
<1>1. call'[t] = c /\ \A x \in Thread \ {t} : call'[x] = call[x]
  BY MovesCalls
<1>2. /\ u \in Unit /\ u \in heap /\ ~InTable(u)
      /\ \A x \in Thread \ {t} :
           ~Holds(call[x], u) /\ (call[x].unit = u => call[x].at = "test" /\ ~call[x].removed)
  BY FreedUnit
<1>3. /\ heap' = heap \ {u} /\ RefCount' = [RefCount EXCEPT ![u] = 0]
      /\ UnitGuid' = [UnitGuid EXCEPT ![u] = NULL]
      /\ OwnerProcessId' = [OwnerProcessId EXCEPT ![u] = NULL]
      /\ RefCount \in [Unit -> Int] /\ UnitGuid \in [Unit -> Guid \cup {NULL}]
      /\ OwnerProcessId \in [Unit -> Process \cup {NULL}]
  BY DEF FreeUnit, Types
<1> HIDE DEF u
<1>4. FreshUnits'
  <2>1. SUFFICES ASSUME NEW x \in Thread, call'[x].at \in {"insert", "discard"}
                 PROVE  /\ (~InTable(call[x].unit))'
                        /\ \A y \in Thread \ {x} : call'[y].unit = call'[x].unit => Denied(call'[y])
                        /\ OwnerProcessId'[call'[x].unit] = call'[x].pid
                        /\ call'[x].pid \in alive'
    BY DEF FreshUnits
  <2>2. x # t /\ call'[x] = call[x]
    BY <1>1, <2>1 DEF Pointing
  <2>3. /\ ~InTable(call[x].unit)
        /\ \A y \in Thread \ {x} : call[y].unit = call[x].unit => Denied(call[y])
        /\ OwnerProcessId[call[x].unit] = call[x].pid
        /\ call[x].pid \in alive
    BY <2>1, <2>2 DEF RefInv, FreshUnits
  <2>4. call[x].unit # NULL /\ call[x].unit \in Unit
    BY <2>1, <2>2 DEF Types, WellFormed, Call, Pointing
  <2>5. OwnerProcessId'[call[x].unit] = OwnerProcessId[call[x].unit]
    BY <1>2, <1>3, <2>1, <2>2, <2>4
  <2>6. QED
    BY <1>1, <2>1, <2>2, <2>3, <2>4, <2>5 DEF InTable
<1>5. TestRepeats'
  <2>1. SUFFICES ASSUME NEW x \in Thread, call'[x].at = "test", call'[x].removed
                 PROVE  OwnerProcessId'[call'[x].unit] = call'[x].pid
    BY DEF TestRepeats
  <2>2. x # t /\ call'[x] = call[x] /\ call[x].unit \in Unit
    BY <1>1, <2>1 DEF Types, WellFormed, Call, Pointing
  <2>3. call[x].unit # u /\ OwnerProcessId[call[x].unit] = call[x].pid
    BY <1>2, <2>1, <2>2 DEF RefInv, TestRepeats
  <2>4. QED
    BY <1>3, <2>2, <2>3
<1>6. FreedAlone'
  <2>1. SUFFICES ASSUME NEW x \in Thread, call'[x].at = "free"
                 PROVE  /\ call'[x].unit \in heap'
                        /\ RefCount'[call'[x].unit] = 0
                        /\ \A y \in Thread \ {x} :
                             call'[y].at = "free" => call'[y].unit # call'[x].unit
    BY DEF FreedAlone
  <2>2. x # t /\ call'[x] = call[x]
    BY <1>1, <2>1 DEF Pointing
  <2>3. /\ call[x].unit \in heap /\ RefCount[call[x].unit] = 0
        /\ \A y \in Thread \ {x} : call[y].at = "free" => call[y].unit # call[x].unit
    BY <2>1, <2>2 DEF RefInv, FreedAlone

  <2>4. call[x].unit # u /\ call[x].unit \in Unit
    BY <1>2, <2>1, <2>2, <2>3 DEF Types
  <2>5. RefCount'[call[x].unit] = 0 /\ call[x].unit \in heap'
    BY <1>3, <2>3, <2>4
  <2>6. QED
    BY <1>1, <2>2, <2>3, <2>5 DEF Pointing
<1>7. ReferencedInHeap'
  <2>1. \A v \in Unit \ heap' : RefCount'[v] = 0
    BY <1>3 DEF RefInv, ReferencedInHeap
  <2>2. \A i \in Occupied' : StorageUnits'[i] \in heap'
    BY <1>2, <1>3 DEF RefInv, ReferencedInHeap, Occupied, InTable
  <2>3. ASSUME NEW x \in Thread, NEW v \in Unit, Holds(call'[x], v)
        PROVE  v \in heap'
    <3>1. x # t /\ call'[x] = call[x]
      BY <1>1, <2>3 DEF Pointing, Holds, Counted
    <3>2. v # u /\ v \in heap
      BY <1>2, <2>3, <3>1 DEF RefInv, ReferencedInHeap
    <3>3. QED
      BY <1>3, <3>2
  <2>4. QED
    BY <2>1, <2>2, <2>3 DEF ReferencedInHeap, Holds
<1>8. CountsReferences'
  <2>1. SUFFICES ASSUME NEW v \in heap'
                 PROVE  RefCount'[v] = Cardinality(SlotsOf(v)) + Cardinality(Holders(v))'
    BY DEF CountsReferences, SlotsOf
  <2>2. /\ v \in Unit /\ v # u
        /\ RefCount[v] = Cardinality(SlotsOf(v)) + Cardinality(Holders(v))
    BY <1>3 DEF RefInv, CountsReferences, SlotsOf, Types
  <2>3. ~Holds(c, v) /\ ~Holds(call[t], v)
    BY <2>2, StorageUnitAssumption DEF Holds, u
  <2>4. Cardinality(Holders(v))' = Cardinality(Holders(v))
    BY <2>3, HoldersMove
  <2>5. QED
    BY <1>3, <2>2, <2>4
<1>9. TableInv'
  <2>1. Occupied' = Occupied /\ \A i \in Occupied : UnitGuid'[StorageUnits[i]] = UnitGuid[StorageUnits[i]]
    BY <1>2, <1>3 DEF Occupied, InTable, Types
  <2>2. QED
    BY <2>1 DEF RefInv, TableInv, TableCount, GuidsDiffer
<1>10. QED
  BY <1>4, <1>5, <1>6, <1>7, <1>8, <1>9 DEF RefInv

\* A reference is dropped; the last one leaves the unit to be freed.
LEMMA DereferenceStep ==
  ASSUME Types, RefInv, NEW t \in Thread, NEW c, Moves(t, c),
         call[t].at = "dereference",
         RefCount' = [RefCount EXCEPT ![call[t].unit] = @ - 1],
         UNCHANGED <<tableVars, heap, paramVars, alive>>,
         IF RefCount[call[t].unit] - 1 = 0
         THEN c.unit = call[t].unit /\ c.at = "free"
         ELSE c.unit = NULL /\ c.at \notin Pointing
  PROVE  RefInv'
<1> USE DEF tableVars, paramVars
<1> DEFINE u == call[t].unit
<1>1. call'[t] = c /\ \A x \in Thread \ {t} : call'[x] = call[x]
  BY MovesCalls
<1>2. u \in Unit /\ Holds(call[t], u) /\ u # NULL
  BY DEF Types, WellFormed, Call, Pointing, Holds, Counted
<1>3. u \in heap
  BY <1>2 DEF RefInv, ReferencedInHeap
<1>4. RefCount' = [RefCount EXCEPT ![u] = @ - 1] /\ RefCount \in [Unit -> Int]
  BY DEF Types
<1>5. RefCount[u] > 0
  <2>1. IsFiniteSet(Holders(u)) /\ Cardinality(Holders(u)) \in Nat /\ Holders(u) # {}
    BY <1>2, HoldersDef, FiniteHolders
  <2>2. Cardinality(Holders(u)) # 0
    BY <2>1, FS_EmptySet
  <2>3. Cardinality(SlotsOf(u)) \in Nat
    BY FiniteSlots DEF SlotsOf
  <2>4. QED
    BY <1>3, <2>1, <2>2, <2>3 DEF RefInv, CountsReferences, SlotsOf
<1>6. c.unit \in {NULL, u} /\ c.at \notin {"insert", "discard", "test"} /\ ~Holds(c, u)
  BY <1>2 DEF Pointing, Holds, Counted
<1> HIDE DEF u
<1>7. FreshUnits'
  <2>1. SUFFICES ASSUME NEW x \in Thread, call'[x].at \in {"insert", "discard"}
                 PROVE  /\ (~InTable(call[x].unit))'
                        /\ \A y \in Thread \ {x} : call'[y].unit = call'[x].unit => Denied(call'[y])
                        /\ OwnerProcessId'[call'[x].unit] = call'[x].pid
                        /\ call'[x].pid \in alive'
    BY DEF FreshUnits
  <2>2. x # t /\ call'[x] = call[x]
    BY <1>1, <1>6, <2>1
  <2>3. /\ ~InTable(call[x].unit)
        /\ \A y \in Thread \ {x} : call[y].unit = call[x].unit => Denied(call[y])
        /\ OwnerProcessId[call[x].unit] = call[x].pid
        /\ call[x].pid \in alive
    BY <2>1, <2>2 DEF RefInv, FreshUnits
  <2>4. call[x].unit # NULL /\ call[x].unit # u
    BY <2>1, <2>2, <2>3 DEF Types, WellFormed, Pointing, u, Denied
  <2>5. QED
    BY <1>1, <1>6, <2>1, <2>2, <2>3, <2>4 DEF InTable
<1>8. TestRepeats'
  BY <1>1, <1>6 DEF RefInv, TestRepeats
<1>9. FreedAlone'
  <2>1. SUFFICES ASSUME NEW x \in Thread, call'[x].at = "free"
                 PROVE  /\ call'[x].unit \in heap'
                        /\ RefCount'[call'[x].unit] = 0
                        /\ \A y \in Thread \ {x} :
                             call'[y].at = "free" => call'[y].unit # call'[x].unit
    BY DEF FreedAlone

  <2>2. ASSUME x # t
        PROVE  /\ call'[x] = call[x] /\ call[x].unit \in heap
               /\ RefCount[call[x].unit] = 0 /\ call[x].unit # u
               /\ \A y \in Thread \ {x} : call[y].at = "free" => call[y].unit # call[x].unit
    BY <1>1, <1>5, <2>1, <2>2 DEF RefInv, FreedAlone
  <2>3. CASE x = t
    <3>1. c.unit = u /\ RefCount[u] - 1 = 0
      BY <1>1, <2>1, <2>3 DEF Pointing, u
    <3>2. RefCount'[u] = 0
      BY <1>2, <1>4, <3>1
    <3>3. ASSUME NEW y \in Thread \ {t}, call'[y].at = "free"
          PROVE  call'[y].unit # u
      <4>1. RefCount[call[y].unit] = 0
        BY <1>1, <3>3 DEF RefInv, FreedAlone
      <4>2. QED
        BY <1>1, <1>5, <4>1
    <3>4. QED
      BY <1>1, <1>3, <2>3, <3>1, <3>2, <3>3
  <2>4. CASE x # t
    <3>1. RefCount'[call[x].unit] = 0
      BY <1>2, <1>4, <2>2, <2>4 DEF Types
    <3>2. call'[t].at = "free" => call'[t].unit # call[x].unit
      BY <1>1, <2>2, <2>4 DEF Pointing, u
    <3>3. QED
      BY <1>1, <2>2, <2>4, <3>1, <3>2
  <2>5. QED
    BY <2>3, <2>4
<1>10. ReferencedInHeap'
  <2>1. \A v \in Unit \ heap' : RefCount'[v] = 0
    BY <1>3, <1>4 DEF RefInv, ReferencedInHeap
  <2>2. ASSUME NEW x \in Thread, NEW v \in Unit, Holds(call'[x], v)
        PROVE  v \in heap
    <3>1. CASE x = t
      BY <1>1, <1>3, <1>6, <2>2, <3>1, StorageUnitAssumption DEF Holds
    <3>2. CASE x # t
      BY <1>1, <2>2, <3>2 DEF RefInv, ReferencedInHeap
    <3>3. QED
      BY <3>1, <3>2
  <2>3. QED
    BY <2>1, <2>2 DEF RefInv, ReferencedInHeap, Occupied, Holds
<1>11. CountsReferences'
  <2>1. SUFFICES ASSUME NEW v \in heap
                 PROVE  RefCount'[v] = Cardinality(SlotsOf(v)) + Cardinality(Holders(v))'
    BY DEF CountsReferences, SlotsOf
  <2>2. v \in Unit /\ RefCount[v] = Cardinality(SlotsOf(v)) + Cardinality(Holders(v))
    BY DEF RefInv, CountsReferences, SlotsOf, Types
  <2>3. Cardinality(SlotsOf(v)) \in Nat /\ Cardinality(Holders(v)) \in Nat
    BY FiniteSlots, FiniteHolders DEF SlotsOf
  <2>4. CASE v = u
    <3>1. Cardinality(Holders(v))' = Cardinality(Holders(v)) - 1
      BY <1>2, <1>6, <2>4, HoldersMove
    <3>2. QED
      BY <1>4, <2>2, <2>3, <2>4, <3>1
  <2>5. CASE v # u
    <3>1. ~Holds(c, v) /\ ~Holds(call[t], v)
      BY <1>6, <2>2, <2>5, StorageUnitAssumption DEF Holds, u
    <3>2. Cardinality(Holders(v))' = Cardinality(Holders(v))
      BY <3>1, HoldersMove
    <3>3. QED
      BY <1>4, <2>2, <2>5, <3>2
  <2>6. QED
    BY <2>4, <2>5
<1>12. TableInv'
  BY DEF RefInv, TableInv, TableCount, GuidsDiffer, Occupied
<1>13. QED
  BY <1>7, <1>8, <1>9, <1>10, <1>11, <1>12 DEF RefInv

\* A unit is allocated, at an address that only calls to be denied may know.
LEMMA ProvisionStep ==
  ASSUME Types, RefInv, NEW t \in Thread, NEW p \in Process, NEW g \in Guid,
         Provision(t, p, g)
  PROVE  RefInv'
<1> USE DEF tableVars, envVars
<1>1. PICK u \in Unit \ heap :
        /\ p \in alive
        /\ Begin(t, Provisioning(p, u))
        /\ heap' = heap \cup {u}
        /\ RefCount' = [RefCount EXCEPT ![u] = 1]
        /\ UnitGuid' = [UnitGuid EXCEPT ![u] = g]
        /\ OwnerProcessId' = [OwnerProcessId EXCEPT ![u] = p]
        /\ UNCHANGED <<tableVars, envVars>>
  BY DEF Provision, Provisioning
<1>2. PICK c : Moves(t, c) /\ call[t] = Idle /\ c.at = "insert" /\ c.unit = u /\ c.pid = p
  BY <1>1, ProvisionCall
<1>3. call'[t] = c /\ \A x \in Thread \ {t} : call'[x] = call[x]
  BY <1>2, MovesCalls
<1>4. call[t].unit = NULL /\ call[t].at = "idle" /\ u # NULL
  BY <1>2, IdleCall, StorageUnitAssumption
<1>5. ~InTable(u)
  BY <1>1, <1>4 DEF RefInv, ReferencedInHeap, InTable, Occupied
<1>6. \A x \in Thread : call[x].unit = u => Denied(call[x])
  <2>1. SUFFICES ASSUME NEW x \in Thread, call[x].unit = u PROVE Denied(call[x])
    OBVIOUS
  <2>2. call[x].at \in Pointing
    BY <1>1, <1>4, <2>1 DEF Types, WellFormed
  <2>3. call[x].at # "free"
    BY <1>1, <2>1 DEF RefInv, FreedAlone
  <2>4. ~Holds(call[x], u)
    BY <1>1 DEF RefInv, ReferencedInHeap
  <2>5. QED
    BY <2>1, <2>2, <2>3, <2>4 DEF Holds, Pointing, Counted, Denied
<1>7. /\ RefCount \in [Unit -> Int] /\ UnitGuid \in [Unit -> Guid \cup {NULL}]
      /\ OwnerProcessId \in [Unit -> Process \cup {NULL}]
      /\ \A x \in Thread : call[x].unit \in Unit \cup {NULL}
  BY DEF Types, Call
<1>8. FreshUnits'
  <2>1. SUFFICES ASSUME NEW x \in Thread, call'[x].at \in {"insert", "discard"}
                 PROVE  /\ (~InTable(call[x].unit))'
                        /\ \A y \in Thread \ {x} : call'[y].unit = call'[x].unit => Denied(call'[y])
                        /\ OwnerProcessId'[call'[x].unit] = call'[x].pid
                        /\ call'[x].pid \in alive'
    BY DEF FreshUnits
  <2>2. CASE x = t
    BY <1>1, <1>2, <1>3, <1>5, <1>6, <1>7, <2>2 DEF InTable
  <2>3. CASE x # t
    <3>1. call'[x] = call[x] /\ call[x].unit # u /\ call[x].unit # NULL
      BY <1>3, <1>6, <2>1, <2>3 DEF Types, WellFormed, Pointing, Denied
    <3>2. /\ ~InTable(call[x].unit)
          /\ \A y \in Thread \ {x} : call[y].unit = call[x].unit => Denied(call[y])
          /\ OwnerProcessId[call[x].unit] = call[x].pid
          /\ call[x].pid \in alive
      BY <2>1, <3>1 DEF RefInv, FreshUnits
    <3>3. OwnerProcessId'[call[x].unit] = call[x].pid
      BY <1>1, <1>7, <3>1, <3>2
    <3>4. QED
      BY <1>1, <1>2, <1>3, <3>1, <3>2, <3>3 DEF InTable
  <2>4. QED
    BY <2>2, <2>3
<1>9. TestRepeats'
  <2>1. SUFFICES ASSUME NEW x \in Thread, call'[x].at = "test", call'[x].removed
                 PROVE  OwnerProcessId'[call'[x].unit] = call'[x].pid
    BY DEF TestRepeats
  <2>2. x # t /\ call'[x] = call[x]
    BY <1>2, <1>3, <2>1
  <2>3. OwnerProcessId[call[x].unit] = call[x].pid
    BY <2>1, <2>2 DEF RefInv, TestRepeats
  <2>4. call[x].unit \in Unit /\ call[x].unit # u
    BY <1>6, <1>7, <2>1, <2>2 DEF Types, WellFormed, Pointing, Denied
  <2>5. OwnerProcessId'[call[x].unit] = OwnerProcessId[call[x].unit]
    BY <1>1, <1>7, <2>4
  <2>6. QED
    BY <2>2, <2>3, <2>5
<1>10. FreedAlone'
  <2>1. SUFFICES ASSUME NEW x \in Thread, call'[x].at = "free"
                 PROVE  /\ call'[x].unit \in heap'
                        /\ RefCount'[call'[x].unit] = 0
                        /\ \A y \in Thread \ {x} :
                             call'[y].at = "free" => call'[y].unit # call'[x].unit
    BY DEF FreedAlone
  <2>2. x # t /\ call'[x] = call[x]
    BY <1>2, <1>3, <2>1
  <2>3. /\ call[x].unit \in heap /\ RefCount[call[x].unit] = 0
        /\ \A y \in Thread \ {x} : call[y].at = "free" => call[y].unit # call[x].unit
    BY <2>1, <2>2 DEF RefInv, FreedAlone
  <2>4. RefCount'[call[x].unit] = 0 /\ call[x].unit \in heap'
    BY <1>1, <1>6, <1>7, <2>3 DEF Types
  <2>5. QED
    BY <1>2, <1>3, <2>2, <2>3, <2>4
<1>11. ReferencedInHeap'
  <2>1. \A v \in Unit \ heap' : RefCount'[v] = 0
    BY <1>1, <1>7 DEF RefInv, ReferencedInHeap
  <2>2. ASSUME NEW x \in Thread, NEW v \in Unit, Holds(call'[x], v)
        PROVE  v \in heap'
    BY <1>1, <1>2, <1>3, <2>2 DEF RefInv, ReferencedInHeap, Holds
  <2>3. QED
    BY <1>1, <2>1, <2>2 DEF RefInv, ReferencedInHeap, Occupied, Holds
<1>12. CountsReferences'
  <2>1. SUFFICES ASSUME NEW v \in heap'
                 PROVE  RefCount'[v] = Cardinality(SlotsOf(v)) + Cardinality(Holders(v))'
    BY <1>1 DEF CountsReferences, SlotsOf
  <2>2. v \in Unit
    BY <1>1 DEF Types
  <2>3. CASE v = u
    <3>1. SlotsOf(u) = {} /\ Holders(u) = {}
      BY <1>5, <1>6 DEF SlotsOf, InTable, Holders, Denied
    <3>2. Cardinality(SlotsOf(u)) = 0 /\ Cardinality(Holders(u)) = 0
      BY <3>1, FS_EmptySet
    <3>3. Holds(c, u) /\ ~Holds(call[t], u)
      BY <1>2, <1>4 DEF Holds, Counted
    <3>4. Cardinality(Holders(u))' = Cardinality(Holders(u)) + 1
      BY <1>2, <3>3, HoldersMove
    <3>5. QED
      BY <1>1, <1>7, <2>3, <3>2, <3>4
  <2>4. CASE v # u
    <3>1. RefCount[v] = Cardinality(SlotsOf(v)) + Cardinality(Holders(v))
      BY <1>1, <2>4 DEF RefInv, CountsReferences, SlotsOf
    <3>2. ~Holds(c, v) /\ ~Holds(call[t], v)
      BY <1>2, <1>4, <2>2, <2>4, StorageUnitAssumption DEF Holds
    <3>3. Cardinality(Holders(v))' = Cardinality(Holders(v))
      BY <1>2, <3>2, HoldersMove
    <3>4. QED
      BY <1>1, <1>7, <2>2, <2>4, <3>1, <3>3
  <2>5. QED
    BY <2>3, <2>4
<1>13. TableInv'
  <2>1. /\ Occupied' = Occupied
        /\ \A i \in Occupied : UnitGuid'[StorageUnits[i]] = UnitGuid[StorageUnits[i]]
    BY <1>1, <1>5, <1>7 DEF Occupied, InTable, Types
  <2>2. QED
    BY <1>1, <2>1 DEF RefInv, TableInv, TableCount, GuidsDiffer
<1>14. QED
  BY <1>8, <1>9, <1>10, <1>11, <1>12, <1>13 DEF RefInv

\* The reference of the thread that provisions becomes that of the slot.
LEMMA InsertStep ==
  ASSUME Types, RefInv, NEW t \in Thread, call[t].at = "insert", Moves(t, Idle),
         ~Duplicate(call[t].unit), NEW i \in FreeSlots,
         StorageUnits' = [StorageUnits EXCEPT ![i] = call[t].unit],
         StorageUnitCount' = StorageUnitCount + 1,
         UNCHANGED <<heap, RefCount, paramVars, alive>>
  PROVE  RefInv'
<1> USE DEF paramVars
<1>0. PICK u \in Unit : u = call[t].unit
  BY DEF Types, WellFormed, Call, Pointing
<1>1. call'[t] = Idle /\ \A x \in Thread \ {t} : call'[x] = call[x]
  BY MovesCalls
<1>2. Idle.at = "idle" /\ Idle.unit = NULL
  BY IdleCall
<1>3. Holds(call[t], u) /\ u # NULL
  BY <1>0, StorageUnitAssumption DEF Holds, Counted
<1>4. u \in heap
  BY <1>3 DEF RefInv, ReferencedInHeap
<1>5. ~InTable(u) /\ \A x \in Thread \ {t} : call[x].unit = u => Denied(call[x])
  BY <1>0 DEF RefInv, FreshUnits
<1>6. i \in Slot /\ StorageUnits[i] = NULL /\ StorageUnits' = [StorageUnits EXCEPT ![i] = u]
  BY <1>0 DEF FreeSlots, Occupied
<1>7. StorageUnits'[i] = u /\ \A j \in Slot \ {i} : StorageUnits'[j] = StorageUnits[j]
  BY <1>6 DEF Types
<1>8. /\ Cardinality(SlotsOf(u))' = Cardinality(SlotsOf(u)) + 1
      /\ \A v \in Unit \ {u} : SlotsOf(v)' = SlotsOf(v)
      /\ Occupied' = Occupied \cup {i}
      /\ Cardinality(Occupied)' = Cardinality(Occupied) + 1
  BY <1>3, <1>6, SlotFilled
<1>9. FreshUnits'
  <2>1. SUFFICES ASSUME NEW x \in Thread, call'[x].at \in {"insert", "discard"}
                 PROVE  /\ (~InTable(call[x].unit))'
                        /\ \A y \in Thread \ {x} : call'[y].unit = call'[x].unit => Denied(call'[y])
                        /\ OwnerProcessId'[call'[x].unit] = call'[x].pid
                        /\ call'[x].pid \in alive'
    BY DEF FreshUnits
  <2>2. x # t /\ call'[x] = call[x]
    BY <1>1, <1>2, <2>1
  <2>3. /\ ~InTable(call[x].unit)
        /\ \A y \in Thread \ {x} : call[y].unit = call[x].unit => Denied(call[y])
        /\ OwnerProcessId[call[x].unit] = call[x].pid
        /\ call[x].pid \in alive
    BY <2>1, <2>2 DEF RefInv, FreshUnits

  <2>4. call[x].unit # u /\ call[x].unit # NULL
    BY <1>5, <2>1, <2>2 DEF Types, WellFormed, Pointing, Denied
  <2>5. (~InTable(call[x].unit))'
    BY <1>7, <2>2, <2>3, <2>4 DEF InTable
  <2>6. QED
    BY <1>1, <1>2, <2>2, <2>3, <2>4, <2>5
<1>10. TestRepeats'
  BY <1>1, <1>2 DEF RefInv, TestRepeats
<1>11. FreedAlone'
  BY <1>1, <1>2 DEF RefInv, FreedAlone
<1>12. ReferencedInHeap'
  <2>1. \A x \in Thread, v \in Unit : Holds(call'[x], v) => v \in heap
    BY <1>1, <1>2 DEF RefInv, ReferencedInHeap, Holds, Counted
  <2>2. \A j \in Occupied' : StorageUnits'[j] \in heap
    BY <1>4, <1>7, <1>8 DEF RefInv, ReferencedInHeap, Occupied
  <2>3. QED
    BY <2>1, <2>2 DEF RefInv, ReferencedInHeap, Holds
<1>13. CountsReferences'
  <2>1. SUFFICES ASSUME NEW v \in heap
                 PROVE  RefCount[v] = Cardinality(SlotsOf(v))' + Cardinality(Holders(v))'
    BY DEF CountsReferences, SlotsOf
  <2>2. v \in Unit /\ RefCount[v] = Cardinality(SlotsOf(v)) + Cardinality(Holders(v))
    BY DEF RefInv, CountsReferences, SlotsOf, Types
  <2>3. Cardinality(SlotsOf(v)) \in Nat /\ Cardinality(Holders(v)) \in Nat
    BY FiniteSlots, FiniteHolders DEF SlotsOf
  <2>4. ~Holds(Idle, v)
    BY <1>2 DEF Holds, Counted
  <2>5. CASE v = u
    <3>1. Cardinality(Holders(v))' = Cardinality(Holders(v)) - 1
      BY <1>3, <2>4, <2>5, HoldersMove
    <3>2. QED
      BY <1>8, <2>2, <2>3, <2>5, <3>1
  <2>6. CASE v # u
    <3>1. ~Holds(call[t], v)
      BY <1>0, <2>6 DEF Holds
    <3>2. Cardinality(Holders(v))' = Cardinality(Holders(v))
      BY <2>4, <3>1, HoldersMove
    <3>3. QED
      BY <1>8, <2>2, <2>6, <3>2
  <2>7. QED
    BY <2>5, <2>6
<1>14. TableInv'
  <2>1. StorageUnitCount' = Cardinality(Occupied)'
    BY <1>8 DEF RefInv, TableInv, TableCount, GuidsDiffer
  <2>2. \A j \in Occupied : UnitGuid[StorageUnits[j]] # UnitGuid[u]
    BY <1>0 DEF Duplicate
  <2>3. \A j \in Occupied : j # i /\ StorageUnits'[j] = StorageUnits[j]
    BY <1>6, <1>7 DEF Occupied
  <2>4. ASSUME NEW j \in Occupied', NEW k \in Occupied',
               UnitGuid[StorageUnits'[j]] = UnitGuid[StorageUnits'[k]]
        PROVE  j = k
    <3>1. j = i \/ j \in Occupied
      BY <1>8
    <3>2. k = i \/ k \in Occupied
      BY <1>8
    <3>3. QED
      BY <1>7, <2>2, <2>3, <2>4, <3>1, <3>2 DEF RefInv, TableInv, TableCount, GuidsDiffer
  <2>5. QED
    BY <2>1, <2>4 DEF TableInv, TableCount, GuidsDiffer
<1>15. QED
  BY <1>9, <1>10, <1>11, <1>12, <1>13, <1>14 DEF RefInv

\* The reference of the slot becomes that of the thread that emptied it; a
\* thread that is not the owner takes none.
LEMMA RemoveStep ==
  ASSUME Types, RefInv, NEW t \in Thread, NEW c, Moves(t, c), call[t].unit = NULL,
         NEW i \in Occupied, NEW u, u = StorageUnits[i],
         c.unit = u, c.at = "test", c.removed <=> OwnerProcessId[u] = c.pid,
         IF c.removed THEN /\ StorageUnits' = [StorageUnits EXCEPT ![i] = NULL]
                           /\ StorageUnitCount' = StorageUnitCount - 1
                      ELSE UNCHANGED tableVars,
         UNCHANGED <<heap, RefCount, paramVars, alive>>
  PROVE  RefInv'
<1> USE DEF tableVars, paramVars
<1>1. call'[t] = c /\ \A x \in Thread \ {t} : call'[x] = call[x]
  BY MovesCalls
<1>2. u \in Unit /\ u \in heap /\ InTable(u) /\ i \in Slot /\ u # NULL
  BY DEF RefInv, ReferencedInHeap, Occupied, Types, InTable
<1>3. \A j \in Slot : StorageUnits'[j] \in {NULL, StorageUnits[j]}
  BY DEF Types
<1>4. FreshUnits'
  <2>1. SUFFICES ASSUME NEW x \in Thread, call'[x].at \in {"insert", "discard"}
                 PROVE  /\ (~InTable(call[x].unit))'
                        /\ \A y \in Thread \ {x} : call'[y].unit = call'[x].unit => Denied(call'[y])
                        /\ OwnerProcessId'[call'[x].unit] = call'[x].pid
                        /\ call'[x].pid \in alive'
    BY DEF FreshUnits
  <2>2. x # t /\ call'[x] = call[x]
    BY <1>1, <2>1
  <2>3. /\ ~InTable(call[x].unit)
        /\ \A y \in Thread \ {x} : call[y].unit = call[x].unit => Denied(call[y])
        /\ OwnerProcessId[call[x].unit] = call[x].pid
        /\ call[x].pid \in alive
    BY <2>1, <2>2 DEF RefInv, FreshUnits

  <2>4. call[x].unit # u /\ call[x].unit # NULL
    BY <1>2, <2>1, <2>2, <2>3 DEF Types, WellFormed, Pointing
  <2>5. (~InTable(call[x].unit))'
    BY <1>3, <2>2, <2>3, <2>4 DEF InTable
  <2>6. QED
    BY <1>1, <2>2, <2>3, <2>4, <2>5
<1>5. TestRepeats'
  BY <1>1 DEF RefInv, TestRepeats
<1>6. FreedAlone'
  BY <1>1 DEF RefInv, FreedAlone
<1>7. ReferencedInHeap'
  <2>1. \A x \in Thread, v \in Unit : Holds(call'[x], v) => v \in heap
    BY <1>1, <1>2 DEF RefInv, ReferencedInHeap, Holds
  <2>2. \A j \in Occupied' : StorageUnits'[j] \in heap
    BY <1>3 DEF RefInv, ReferencedInHeap, Occupied
  <2>3. QED
    BY <2>1, <2>2 DEF RefInv, ReferencedInHeap, Holds
<1>8. ~Holds(call[t], u) /\ (Holds(c, u) <=> c.removed)
  BY <1>2 DEF Holds, Counted
<1>9. ASSUME NEW v \in heap
      PROVE  /\ v \in Unit /\ RefCount[v] = Cardinality(SlotsOf(v)) + Cardinality(Holders(v))
             /\ Cardinality(SlotsOf(v)) \in Nat /\ Cardinality(Holders(v)) \in Nat
             /\ v # u => Cardinality(Holders(v))' = Cardinality(Holders(v))
  <2>1. v \in Unit /\ RefCount[v] = Cardinality(SlotsOf(v)) + Cardinality(Holders(v))
    BY DEF RefInv, CountsReferences, SlotsOf, Types
  <2>2. v # u => ~Holds(c, v) /\ ~Holds(call[t], v)
    BY <2>1, StorageUnitAssumption DEF Holds
  <2>3. QED
    BY <2>1, <2>2, HoldersMove, FiniteSlots, FiniteHolders DEF SlotsOf
<1>10. CASE c.removed
  <2>1. /\ Cardinality(SlotsOf(u))' = Cardinality(SlotsOf(u)) - 1
        /\ \A v \in Unit \ {u} : SlotsOf(v)' = SlotsOf(v)
        /\ Occupied' = Occupied \ {i}
        /\ Cardinality(Occupied)' = Cardinality(Occupied) - 1
    BY <1>10, SlotEmptied
  <2>2. Cardinality(Holders(u))' = Cardinality(Holders(u)) + 1
    BY <1>8, <1>10, HoldersMove
  <2>3. \A v \in heap : RefCount[v] = Cardinality(SlotsOf(v))' + Cardinality(Holders(v))'
    BY <1>9, <2>1, <2>2
  <2>4. CountsReferences'
    BY <2>3 DEF CountsReferences, SlotsOf
  <2>5. TableInv'
    <3>1. \A j \in Occupied' : j \in Occupied /\ StorageUnits'[j] = StorageUnits[j]
      BY <1>3, <2>1 DEF Occupied
    <3>2. StorageUnitCount' = Cardinality(Occupied)'
      BY <1>10, <2>1 DEF RefInv, TableInv, TableCount, GuidsDiffer
    <3>3. QED
      BY <3>1, <3>2 DEF RefInv, TableInv, TableCount, GuidsDiffer
  <2>6. QED
    BY <1>4, <1>5, <1>6, <1>7, <2>4, <2>5 DEF RefInv
<1>11. CASE ~c.removed
  <2>1. UNCHANGED tableVars
    BY <1>11
  <2>2. Cardinality(Holders(u))' = Cardinality(Holders(u))
    BY <1>8, <1>11, HoldersMove
  <2>3. \A v \in heap : RefCount[v] = Cardinality(SlotsOf(v)) + Cardinality(Holders(v))'
    BY <1>9, <2>2
  <2>4. CountsReferences'
    BY <2>1, <2>3 DEF CountsReferences, SlotsOf
  <2>5. TableInv'
    BY <2>1 DEF RefInv, TableInv, TableCount, GuidsDiffer, Occupied
  <2>6. QED
    BY <1>4, <1>5, <1>6, <1>7, <2>4, <2>5 DEF RefInv
<1>12. QED
  BY <1>10, <1>11

\* Every operation keeps the reference counts exact and the table consistent.
LEMMA RefInvNext ==
  Types /\ RefInv /\ [Next]_vars /\ ~raced' => RefInv'
<1> SUFFICES ASSUME Types, RefInv, [Next]_vars, ~raced' PROVE RefInv'
  OBVIOUS
<1> USE DEF fieldVars, ioqVars, envVars
<1>1. ASSUME NEW t \in Thread, NEW p \in Process, NEW g \in Guid, Provision(t, p, g)
      PROVE  RefInv'
  BY <1>1, ProvisionStep
<1>2. ASSUME NEW t \in Thread, Insert(t)
      PROVE  RefInv'
  <2>1. /\ call[t].at = "insert"
        /\ UNCHANGED <<heap, RefCount, paramVars, alive>>
    BY <1>2 DEF Insert
  <2>2. CASE ~Duplicate(call[t].unit) /\ FreeSlots # {}
    <3>1. PICK i : i = Min(FreeSlots)
      OBVIOUS
    <3>2. i \in FreeSlots
      BY <2>2, <3>1, MinSlot DEF FreeSlots
    <3>3. Moves(t, Idle)
      BY <1>2, <2>2, IdleCall DEF Insert, Continue, Moves
    <3>4. /\ StorageUnits' = [StorageUnits EXCEPT ![i] = call[t].unit]
          /\ StorageUnitCount' = StorageUnitCount + 1
      BY <1>2, <2>2, <3>1 DEF Insert
    <3>5. QED
      BY <2>1, <2>2, <3>2, <3>3, <3>4, InsertStep
  <2>3. CASE ~(~Duplicate(call[t].unit) /\ FreeSlots # {})
    <3>1. Goto(t, "discard") /\ UNCHANGED tableVars
      BY <1>2, <2>3 DEF Insert
    <3>2. PICK c : c = [call[t] EXCEPT !.at = "discard"]
      OBVIOUS
    <3>3. /\ Moves(t, c) /\ c.at = "discard" /\ c.unit = call[t].unit
          /\ c.pid = call[t].pid
      BY <2>1, <3>1, <3>2, KeepsUnit
    <3>4. call'[t] = c /\ \A x \in Thread \ {t} : call'[x] = call[x]
      BY <3>3, MovesCalls
    <3>5. \A u \in Unit : Holds(c, u) <=> Holds(call[t], u)
      BY <2>1, <3>3 DEF Holds, Counted
    <3>6. FreshUnits'
      <4>1. /\ \A x \in Thread : /\ call'[x].unit = call[x].unit /\ call'[x].pid = call[x].pid
                                 /\ call'[x].at \in {"insert", "discard"}
                                      => call[x].at \in {"insert", "discard"}
                                 /\ Denied(call[x]) => Denied(call'[x])
            /\ UNCHANGED <<StorageUnits, OwnerProcessId, alive>>
        BY <2>1, <3>1, <3>3, <3>4 DEF Denied, tableVars, paramVars
      <4>2. QED
        BY <4>1 DEF RefInv, FreshUnits, InTable
    <3>7. TestRepeats' /\ FreedAlone'
      BY <2>1, <3>3, <3>4 DEF RefInv, TestRepeats, FreedAlone, paramVars
    <3>8. ReferencedInHeap'
      BY <2>1, <3>1, <3>4, <3>5 DEF RefInv, ReferencedInHeap, Occupied, Holds, tableVars
    <3>9. CountsReferences'
      <4>1. ASSUME NEW u \in heap
            PROVE  Cardinality(Holders(u))' = Cardinality(Holders(u))
        <5>1. u \in Unit
          BY DEF Types
        <5>2. QED
          BY <3>3, <3>5, <5>1, HoldersMove
      <4>2. QED
        BY <2>1, <3>1, <4>1 DEF RefInv, CountsReferences, tableVars
    <3>10. TableInv'
      BY <2>1, <3>1 DEF RefInv, TableInv, TableCount, GuidsDiffer, Occupied, tableVars, paramVars
    <3>11. QED
      BY <3>6, <3>7, <3>8, <3>9, <3>10 DEF RefInv
  <2>4. QED
    BY <2>2, <2>3
<1>3. ASSUME NEW t \in Thread, Discard(t) \/ Free(t)
      PROVE  RefInv'
  <2>1. /\ call[t].at \in {"discard", "free"} /\ FreeUnit(call[t].unit)
        /\ UNCHANGED <<tableVars, alive>>
    BY <1>3 DEF Discard, Free
  <2>2. PICK c : Moves(t, c) /\ c.unit = NULL /\ c.at \notin Pointing
    <3>1. CASE Discard(t)
      BY <3>1, IdleCall DEF Discard, Moves, Continue, Pointing
    <3>2. CASE Free(t)
      BY <3>2, ReturnCall DEF Free, Moves, Continue, Types
    <3>3. QED
      BY <1>3, <3>1, <3>2
  <2>3. QED
    BY <2>1, <2>2, FreeStep
<1>4. ASSUME NEW t \in Thread,
             \/ \E p \in Process, g \in Guid : IoctlUnprovision(t, p, g)
             \/ \E p \in Process : ProcessExit(t, p)
             \/ \E op \in {"transact", "setTransactPid"}, p \in Process, i \in Slot :
                  ServiceRequest(t, op, p, i)
             \/ \E op \in {"executeScsi", "reset", "stop"}, slots \in SUBSET Slot :
                  StorportRequest(t, op, slots)
             \/ \E d \in Device, i \in Slot : StartDevice(t, d, i)
      PROVE  RefInv'
  <2>1. PICK c : /\ Moves(t, c) /\ call[t] = Idle
                 /\ c.unit = NULL /\ c.at \in {"idle", "remove", "lookup"}
    BY <1>4, StartsEmpty
  <2>2. UNCHANGED <<tableVars, heap, RefCount, paramVars>>
    BY <1>4 DEF IoctlUnprovision, ProcessExit, ServiceRequest, StorportRequest, StartDevice
  <2>3. call[t].unit = NULL /\ \A u \in Unit : ~Holds(c, u) /\ ~Holds(call[t], u)
    BY <2>1, IdleCall, StorageUnitAssumption DEF Holds
  <2>4. ASSUME NEW x \in Thread \ {t}, call[x].at \in {"insert", "discard"}
        PROVE  call[x].pid \in alive'
    <3>1. call[x].pid \in alive /\ call[x].dev = NULL
      BY <2>4 DEF RefInv, FreshUnits, Types, WellFormed
    <3>2. CASE UNCHANGED alive
      BY <3>1, <3>2
    <3>3. CASE \E p \in Process : ProcessExit(t, p)
      BY <3>1, <3>3 DEF ProcessExit, InCall
    <3>4. QED
      BY <1>4, <3>2, <3>3 DEF IoctlUnprovision, ServiceRequest, StorportRequest, StartDevice
  <2>5. QED
    BY <2>1, <2>2, <2>3, <2>4, QuietStep
<1>5. ASSUME NEW t \in Thread,
             \/ StopIoq(t) \/ SetTransactPid(t) \/ SetDevice(t) \/ ExecuteScsi(t)
             \/ ResetUnit(t) \/ Transact(t) \/ TransactReturn(t) \/ TransactCancelled(t)
      PROVE  RefInv'
  <2>1. PICK l \in {"wait", "dereference"} :
          /\ Moves(t, [call[t] EXCEPT !.at = l])
          /\ call[t].at \in {"stop", "use", "wait"}
    BY <1>5, GoesOn
  <2>2. PICK c : c = [call[t] EXCEPT !.at = l]
    OBVIOUS
  <2>3. Moves(t, c) /\ c.at = l /\ c.unit = call[t].unit
    BY <2>1, <2>2, GotoCall DEF Types
  <2>4. \A u \in Unit : Holds(c, u) <=> Holds(call[t], u)
    BY <2>1, <2>3 DEF Holds, Counted
  <2>5. UNCHANGED <<tableVars, heap, RefCount, paramVars, alive>>
    BY <1>5 DEF StopIoq, SetTransactPid, SetDevice, ExecuteScsi, ResetUnit, Transact,
                TransactReturn, TransactCancelled
  <2>6. \A x \in Thread \ {t} :
          call[x].at \in {"insert", "discard"} => call[x].pid \in alive'
    BY <2>5 DEF RefInv, FreshUnits
  <2>7. QED
    BY <2>3, <2>4, <2>5, <2>6, QuietStep
<1>6. ASSUME NEW t \in Thread, Remove(t)
      PROVE  RefInv'
  <2>1. UNCHANGED <<heap, RefCount, paramVars, alive>> /\ call[t].unit = NULL
    BY <1>6, RemoveCall DEF Remove
  <2>2. ASSUME NEW c, Moves(t, c), c.unit = NULL, c.at \notin Pointing, UNCHANGED tableVars
        PROVE  RefInv'
    <3>1. /\ c.at \notin {"insert", "discard", "test", "free"}
          /\ \A u \in Unit : ~Holds(c, u) /\ ~Holds(call[t], u)
      BY <2>1, <2>2, StorageUnitAssumption DEF Holds, Pointing
    <3>2. \A x \in Thread \ {t} :
            call[x].at \in {"insert", "discard"} => call[x].pid \in alive'
      BY <2>1 DEF RefInv, FreshUnits
    <3>3. QED
      BY <2>1, <2>2, <3>1, <3>2, QuietStep
  <2>3. ASSUME NEW i \in Occupied, NEW c, NEW u, u = StorageUnits[i],
               Moves(t, c), c.unit = u, c.at = "test", c.removed <=> OwnerProcessId[u] = c.pid,
               IF c.removed THEN /\ StorageUnits' = [StorageUnits EXCEPT ![i] = NULL]
                                 /\ StorageUnitCount' = StorageUnitCount - 1
                            ELSE UNCHANGED tableVars
        PROVE  RefInv'
    BY <2>1, <2>3, RemoveStep
  <2>4. QED
    BY <1>6, <2>2, <2>3, RemoveCall
<1>7. ASSUME NEW t \in Thread, TestOwner(t) \/ RemoveDevicePnp(t)
      PROVE  RefInv'
  <2>1. UNCHANGED <<tableVars, heap, RefCount, paramVars, alive>>
    BY <1>7 DEF TestOwner, RemoveDevicePnp
  <2>2. \A x \in Thread \ {t} :
          call[x].at \in {"insert", "discard"} => call[x].pid \in alive'
    BY <2>1 DEF RefInv, FreshUnits
  <2>3. CASE TestOwner(t)
    <3>1. /\ call[t].at = "test" /\ call[t].unit \in Unit
          /\ call[t].removed =>
               OwnerProcessId[call[t].unit] = call[t].pid /\ call[t].unit \in heap
      BY <2>3, TestOwnerCall DEF RefInv, TestRepeats, ReferencedInHeap, Holds
    <3>2. PICK c : /\ Moves(t, c)
                   /\ \/ /\ c.unit = call[t].unit /\ c.at = "stop"
                         /\ raced' = (raced \/ ~call[t].removed)
                      \/ /\ c.unit = NULL /\ c.at \notin Pointing /\ UNCHANGED raced
                         /\ \E owner \in OwnerRead(call[t].unit) : owner # call[t].pid
      BY <2>3, TestOwnerCall
    <3>3. IF call[t].removed THEN c.unit = call[t].unit /\ c.at = "stop"
                             ELSE c.unit = NULL /\ c.at \notin Pointing
      BY <3>1, <3>2 DEF OwnerRead
    <3>4. \A u \in Unit : Holds(c, u) <=> Holds(call[t], u)
      BY <3>1, <3>3, StorageUnitAssumption DEF Holds, Counted, Pointing
    <3>5. c.at \notin {"insert", "discard", "test", "free"} /\ c.unit \in {NULL, call[t].unit}
      BY <3>3 DEF Pointing
    <3>6. QED
      BY <2>1, <2>2, <3>2, <3>4, <3>5, QuietStep
  <2>4. CASE RemoveDevicePnp(t)
    <3>1. PICK c : Moves(t, c) /\ c.unit = NULL /\ c.at = "remove" /\ call[t].unit = NULL
      BY <2>4, PnpCall
    <3>2. \A u \in Unit : ~Holds(c, u) /\ ~Holds(call[t], u)
      BY <3>1, StorageUnitAssumption DEF Holds
    <3>3. QED
      BY <2>1, <2>2, <3>1, <3>2, QuietStep
  <2>5. QED
    BY <1>7, <2>3, <2>4
<1>8. ASSUME NEW t \in Thread, ReferenceByBtl(t)
      PROVE  RefInv'
  <2>1. UNCHANGED <<tableVars, heap, paramVars, alive>>
    BY <1>8 DEF ReferenceByBtl
  <2>12. PICK i \in Slot : \E c :
           /\ Moves(t, c) /\ call[t].unit = NULL
           /\ \/ /\ StorageUnits[i] = NULL /\ c.unit = NULL /\ c.at \notin Pointing
                 /\ UNCHANGED RefCount
              \/ /\ StorageUnits[i] # NULL /\ c.unit = StorageUnits[i] /\ c.at = "use"
                 /\ RefCount' = RefCountUp(StorageUnits[i])
    BY <1>8, LookupCall
  <2>2. PICK c :
           /\ Moves(t, c) /\ call[t].unit = NULL
           /\ \/ /\ StorageUnits[i] = NULL /\ c.unit = NULL /\ c.at \notin Pointing
                 /\ UNCHANGED RefCount
              \/ /\ StorageUnits[i] # NULL /\ c.unit = StorageUnits[i] /\ c.at = "use"
                 /\ RefCount' = RefCountUp(StorageUnits[i])
    BY <2>12
  <2>3. CASE StorageUnits[i] = NULL
    <3>1. /\ c.at \notin {"insert", "discard", "test", "free"}
          /\ \A u \in Unit : ~Holds(c, u) /\ ~Holds(call[t], u)
      BY <2>2, <2>3, StorageUnitAssumption DEF Holds, Pointing
    <3>2. \A x \in Thread \ {t} :
            call[x].at \in {"insert", "discard"} => call[x].pid \in alive'
      BY <2>1 DEF RefInv, FreshUnits
    <3>3. QED
      BY <2>1, <2>2, <2>3, <3>1, <3>2, QuietStep
  <2>4. CASE StorageUnits[i] # NULL
    <3>1. i \in Occupied
      BY <2>4 DEF Occupied
    <3>2. PICK u : u = StorageUnits[i]
      OBVIOUS
    <3>3. QED
      BY <2>1, <2>2, <2>4, <3>1, <3>2, ReferenceStep
  <2>5. QED
    BY <2>3, <2>4
<1>9. ASSUME NEW t \in Thread, NEW d \in Device, RemoveDevice(t, d)
      PROVE  RefInv'
  <2>1. UNCHANGED <<tableVars, heap, paramVars, alive>>
    BY <1>9 DEF RemoveDevice
  <2>12. PICK i \in Occupied : \E c :
          /\ Moves(t, c) /\ call[t] = Idle
          /\ c.at = "dereference" /\ c.unit = StorageUnits[i]
          /\ RefCount' = RefCountUp(StorageUnits[i])
    BY <1>9, RemoveDeviceCall
  <2>2. PICK c :
          /\ Moves(t, c) /\ call[t] = Idle
          /\ c.at = "dereference" /\ c.unit = StorageUnits[i]
          /\ RefCount' = RefCountUp(StorageUnits[i])
    BY <2>12
  <2>3. PICK u : u = StorageUnits[i]
    OBVIOUS
  <2>4. call[t].unit = NULL
    BY <2>2, IdleCall
  <2>5. QED
    BY <2>1, <2>2, <2>3, <2>4, ReferenceStep
<1>10. ASSUME NEW t \in Thread, Dereference(t)
       PROVE  RefInv'
  <2>1. /\ call[t].at = "dereference" /\ WellFormed(call[t])
        /\ RefCount' = [RefCount EXCEPT ![call[t].unit] = @ - 1]
        /\ UNCHANGED <<tableVars, heap, paramVars, alive>>
    BY <1>10 DEF Dereference, Types
  <2>2. PICK c : /\ Moves(t, c)
                 /\ IF RefCount[call[t].unit] - 1 = 0
                    THEN c.unit = call[t].unit /\ c.at = "free"
                    ELSE c.unit = NULL /\ c.at \notin Pointing
    <3>1. CASE RefCount[call[t].unit] - 1 = 0
      <4>1. Goto(t, "free")
        BY <1>10, <3>1 DEF Dereference, LastReference
      <4>2. PICK c : c = [call[t] EXCEPT !.at = "free"]
        OBVIOUS
      <4>3. Moves(t, c) /\ c.unit = call[t].unit /\ c.at = "free"
        BY <2>1, <4>1, <4>2, KeepsUnit
      <4>4. QED
        BY <3>1, <4>3
    <3>2. CASE ~(RefCount[call[t].unit] - 1 = 0)
      <4>1. call' = [call EXCEPT ![t] = Return(call[t])]
        BY <1>10, <3>2 DEF Dereference, LastReference, Continue
      <4>2. QED
        BY <2>1, <3>2, <4>1, ReturnCall DEF Moves
    <3>3. QED
      BY <3>1, <3>2
  <2>3. QED
    BY <2>1, <2>2, DereferenceStep
<1>11. ASSUME NEW p \in Process, ProcessStart(p)
       PROVE  RefInv'
  BY <1>11 DEF ProcessStart, RefInv, FreshUnits, TestRepeats, FreedAlone, ReferencedInHeap,
               CountsReferences, TableInv, TableCount, GuidsDiffer, tableVars, paramVars, InTable, Occupied,
               Holders, Holds
<1>12. CASE UNCHANGED vars
  BY <1>12 DEF vars, RefInv, FreshUnits, TestRepeats, FreedAlone, ReferencedInHeap,
               CountsReferences, TableInv, TableCount, GuidsDiffer, tableVars, paramVars, InTable, Occupied,
               Holders, Holds
<1>13. QED
  BY <1>1, <1>2, <1>3, <1>4, <1>5, <1>6, <1>7, <1>8, <1>9, <1>10, <1>11, <1>12
     DEF Next, BeginCall, Step, Undefined

-----------------------------------------------------------------------------
(***************************************************************************)
(* The queues of the units.                                                *)
(***************************************************************************)

\* A unit that a call holds is allocated.
LEMMA HeldInHeap ==
  ASSUME Types, RefInv, NEW t \in Thread, call[t].at \in Counted
  PROVE  call[t].unit \in Unit /\ call[t].unit \in heap
<1>1. call[t].unit \in Unit
  BY DEF Types, WellFormed, Call, Pointing, Counted
<1>2. QED
  BY <1>1 DEF RefInv, ReferencedInHeap, Holds

\* Initially all queues are empty.
LEMMA QueueInvInit == Init => QueueInv
BY DEF Init, QueueInv, QueuesAllocated

\* No operation leaves an SRB in a queue that is stopped or freed.
LEMMA QueueInvNext == Types /\ RefInv /\ QueueInv /\ [Next]_vars => QueueInv'
<1> SUFFICES ASSUME Types, RefInv, QueueInv, [Next]_vars PROVE QueueInv'
  OBVIOUS
<1> USE DEF ioqVars
<1>0. IoqStopped \in [Unit -> BOOLEAN] /\ IoqPending \in [Unit -> BOOLEAN]
  BY DEF Types
<1>1. CASE UNCHANGED <<ioqVars, heap>>
  BY <1>1 DEF QueueInv, QueuesAllocated
<1>2. ASSUME NEW t \in Thread, NEW p \in Process, NEW g \in Guid, Provision(t, p, g)
      PROVE  QueueInv'
  BY <1>0, <1>2 DEF Provision, QueueInv, QueuesAllocated
<1>3. ASSUME NEW t \in Thread, Discard(t) \/ Free(t)
      PROVE  QueueInv'
  <2>1. PICK u \in Unit : u = call[t].unit /\ FreeUnit(u)
    BY <1>3 DEF Discard, Free, Types, WellFormed, Call, Pointing
  <2>2. /\ heap' = heap \ {u} /\ IoqStopped' = [IoqStopped EXCEPT ![u] = FALSE]
        /\ IoqPending' = [IoqPending EXCEPT ![u] = @ /\ IoqStopped[u]]
    BY <2>1 DEF FreeUnit
  <2>3. ~IoqPending'[u] /\ ~IoqStopped'[u]
    BY <1>0, <2>2 DEF QueueInv
  <2>4. \A v \in Unit \ {u} : IoqPending'[v] = IoqPending[v] /\ IoqStopped'[v] = IoqStopped[v]
    BY <1>0, <2>2
  <2>5. QED
    BY <2>2, <2>3, <2>4 DEF QueueInv, QueuesAllocated
<1>4. ASSUME NEW t \in Thread,
             StopIoq(t) \/ ExecuteScsi(t) \/ ResetUnit(t) \/ Transact(t)
      PROVE  QueueInv'
  <2>1. call[t].at \in Counted /\ UNCHANGED heap
    BY <1>4 DEF StopIoq, ExecuteScsi, ResetUnit, Transact, Counted
  <2>2. PICK u \in Unit : u = call[t].unit /\ u \in heap
    BY <2>1, HeldInHeap
  <2>3. CASE StopIoq(t)
    BY <1>0, <2>1, <2>2, <2>3 DEF StopIoq, StopQueue, AbortSrbs, QueueInv, QueuesAllocated
  <2>4. CASE ExecuteScsi(t)
    BY <1>0, <2>1, <2>2, <2>4 DEF ExecuteScsi, QueueInv, QueuesAllocated
  <2>5. CASE ResetUnit(t)
    BY <1>0, <2>1, <2>2, <2>5 DEF ResetUnit, QueueInv, QueuesAllocated
  <2>6. CASE Transact(t)
    BY <1>0, <2>1, <2>2, <2>6 DEF Transact, QueueInv, QueuesAllocated
  <2>7. QED
    BY <1>4, <2>3, <2>4, <2>5, <2>6
<1>5. ASSUME NEW t \in Thread,
             \/ \E p \in Process : \/ \E g \in Guid : IoctlUnprovision(t, p, g)
                                   \/ ProcessExit(t, p)
                                   \/ \E i \in Slot, op \in {"transact", "setTransactPid"} :
                                        ServiceRequest(t, op, p, i)
             \/ \E op \in {"executeScsi", "reset", "stop"}, slots \in SUBSET Slot :
                  StorportRequest(t, op, slots)
             \/ \E d \in Device : RemoveDevice(t, d) \/ \E i \in Slot : StartDevice(t, d, i)
             \/ Insert(t) \/ Remove(t) \/ TestOwner(t) \/ ReferenceByBtl(t) \/ Dereference(t)
             \/ SetTransactPid(t) \/ SetDevice(t) \/ TransactReturn(t) \/ RemoveDevicePnp(t)
             \/ TransactCancelled(t)
      PROVE  UNCHANGED <<ioqVars, heap>>
  BY <1>5 DEF IoctlUnprovision, ProcessExit, ServiceRequest, StorportRequest, RemoveDevice,
              StartDevice, Insert, Remove, TestOwner, ReferenceByBtl, Dereference,
              SetTransactPid, SetDevice, TransactReturn, RemoveDevicePnp, TransactCancelled
<1>6. ASSUME NEW p \in Process, ProcessStart(p)
      PROVE  UNCHANGED <<ioqVars, heap>>
  BY <1>6 DEF ProcessStart
<1>7. CASE UNCHANGED vars
  BY <1>1, <1>7 DEF vars
<1>8. QED
  BY <1>1, <1>2, <1>3, <1>4, <1>5, <1>6, <1>7 DEF Next, BeginCall, Step, Undefined

-----------------------------------------------------------------------------
(***************************************************************************)
(* Units and the processes that own them.                                  *)
(***************************************************************************)

\* SpdStorageUnitGetUseBitmap finds all units of the process, although it
\* stops after StorageUnitCount of them.
LEMMA UseBitmapComplete ==
  ASSUME TableInv, NEW p
  PROVE  UseBitmap(p) = {i \in Occupied : OwnerProcessId[StorageUnits[i]] = p}
<1> DEFINE match == {i \in Occupied : OwnerProcessId[StorageUnits[i]] = p}
<1>1. SUFFICES ASSUME NEW i \in match
               PROVE  Cardinality({j \in match : j < i}) < StorageUnitCount
  BY DEF UseBitmap
<1> DEFINE D == {j \in match : j < i}
<1>2. Occupied \in SUBSET Slot /\ D \in SUBSET Occupied /\ i \in Occupied /\ i \notin D
  <2>1. i \in Nat
    BY StorageUnitAssumption DEF Occupied, Slot
  <2>2. QED
    BY <2>1 DEF Occupied
<1>3. IsFiniteSet(Occupied) /\ Cardinality(Occupied) \in Nat
  BY <1>2, FiniteSlots
<1> HIDE DEF D
<1>4. Cardinality(D) <= Cardinality(Occupied) /\ Cardinality(D) # Cardinality(Occupied)
  BY <1>2, <1>3, FS_Subset
<1>5. Cardinality(D) \in Nat
  BY <1>2, FiniteSlots
<1>6. QED
  BY <1>3, <1>4, <1>5 DEF TableInv, TableCount, GuidsDiffer, D

\* A step that fills no slot and ends no process, and after which a notify
\* routine still visits the slots of its process.
LEMMA OwnerStep ==
  ASSUME Types, OwnerAlive, NEW t \in Thread, NEW c, Moves(t, c),
         alive \subseteq alive',
         \A i \in Occupied' : /\ i \in Occupied /\ StorageUnits'[i] = StorageUnits[i]
                              /\ OwnerProcessId'[StorageUnits[i]] = OwnerProcessId[StorageUnits[i]],
         \A i \in Occupied' \cap call[t].todo :
           call[t].op = "unprovision" /\ call[t].pid = OwnerProcessId[StorageUnits[i]] =>
             c.op = "unprovision" /\ c.pid = call[t].pid /\ i \in c.todo
  PROVE  OwnerAlive'
<1>1. call'[t] = c /\ \A x \in Thread \ {t} : call'[x] = call[x]
  BY MovesCalls
<1>2. SUFFICES ASSUME NEW i \in Occupied',
                      OwnerProcessId[StorageUnits[i]] \notin alive'
               PROVE  \E x \in Thread : /\ call'[x].op = "unprovision"
                                        /\ call'[x].pid = OwnerProcessId[StorageUnits[i]]
                                        /\ i \in call'[x].todo
  BY DEF OwnerAlive
<1>3. PICK x \in Thread : /\ call[x].op = "unprovision"
                          /\ call[x].pid = OwnerProcessId[StorageUnits[i]]
                          /\ i \in call[x].todo
  BY <1>2 DEF OwnerAlive
<1>4. CASE x = t
  BY <1>1, <1>3, <1>4
<1>5. CASE x # t
  BY <1>1, <1>3, <1>5
<1>6. QED
  BY <1>4, <1>5

\* Initially there are no units.
LEMMA OwnerAliveInit == Init => OwnerAlive
BY DEF Init, OwnerAlive, Occupied

\* The unit that is freed is not in the table.
LEMMA OwnersKept ==
  ASSUME Types, RefInv, NEW t \in Thread, call[t].at \in {"discard", "free"},
         FreeUnit(call[t].unit)
  PROVE  \A i \in Occupied : OwnerProcessId'[StorageUnits[i]] = OwnerProcessId[StorageUnits[i]]
BY FreedUnit DEF FreeUnit, Types, Occupied, InTable

\* Every operation keeps a live owner, or a notify routine under way, for each
\* slot.
LEMMA OwnerAliveNext == Types /\ RefInv /\ OwnerAlive /\ [Next]_vars => OwnerAlive'
<1> SUFFICES ASSUME Types, RefInv, OwnerAlive, [Next]_vars PROVE OwnerAlive'
  OBVIOUS
<1> USE DEF tableVars, paramVars, fieldVars, envVars
<1>0. \A t \in Thread : WellFormed(call[t]) /\ call[t] \in Call
  BY DEF Types
<1>1. ASSUME NEW t \in Thread, NEW p \in Process, NEW g \in Guid, Provision(t, p, g)
      PROVE  OwnerAlive'
  <2>1. PICK u \in Unit \ heap :
          /\ Begin(t, Provisioning(p, u))
          /\ OwnerProcessId' = [OwnerProcessId EXCEPT ![u] = p]
          /\ UNCHANGED <<tableVars, envVars>>
    BY <1>1 DEF Provision, Provisioning
  <2>2. PICK c : Moves(t, c) /\ call[t] = Idle
    BY <2>1, ProvisionCall
  <2>3. call[t].todo = {}
    BY <2>2, IdleCall
  <2>4. \A i \in Occupied : OwnerProcessId'[StorageUnits[i]] = OwnerProcessId[StorageUnits[i]]
    BY <2>1 DEF RefInv, ReferencedInHeap, Occupied, Types
  <2>5. QED
    BY <2>1, <2>2, <2>3, <2>4, OwnerStep DEF Occupied
<1>2. ASSUME NEW t \in Thread, Insert(t)
      PROVE  OwnerAlive'
  <2>1. /\ call[t].at = "insert" /\ call[t].op = "provision" /\ call[t].unit \in Unit
        /\ OwnerProcessId[call[t].unit] = call[t].pid /\ call[t].pid \in alive
        /\ UNCHANGED <<OwnerProcessId, alive>>
    BY <1>0, <1>2 DEF Insert, WellFormed, Call, Pointing, RefInv, FreshUnits
  <2>2. CASE ~Duplicate(call[t].unit) /\ FreeSlots # {}
    <3>1. PICK i : i = Min(FreeSlots)
      OBVIOUS
    <3>2. i \in Slot /\ StorageUnits[i] = NULL
      BY <2>2, <3>1, MinSlot DEF FreeSlots, Occupied
    <3>3. StorageUnits' = [StorageUnits EXCEPT ![i] = call[t].unit] /\ Moves(t, Idle)
      BY <1>2, <2>2, <3>1, IdleCall DEF Insert, Continue, Moves
    <3>4. call'[t] = Idle /\ \A x \in Thread \ {t} : call'[x] = call[x]
      BY <3>3, MovesCalls
    <3>5. \A j \in Occupied' : \/ j = i /\ StorageUnits'[j] = call[t].unit
                               \/ j \in Occupied /\ StorageUnits'[j] = StorageUnits[j]
      BY <3>2, <3>3 DEF Occupied, Types
    <3>6. QED
      BY <2>1, <3>4, <3>5 DEF OwnerAlive
  <2>3. CASE ~(~Duplicate(call[t].unit) /\ FreeSlots # {})
    <3>1. Goto(t, "discard") /\ UNCHANGED tableVars
      BY <1>2, <2>3 DEF Insert
    <3>2. PICK c : c = [call[t] EXCEPT !.at = "discard"]
      OBVIOUS
    <3>3. Moves(t, c)
      BY <2>1, <3>1, <3>2, KeepsUnit
    <3>4. QED
      BY <2>1, <3>1, <3>3, OwnerStep DEF Occupied
  <2>4. QED
    BY <2>2, <2>3
<1>3. ASSUME NEW t \in Thread, Discard(t)
      PROVE  OwnerAlive'
  <2>1. call[t].op # "unprovision"
    BY <1>0, <1>3 DEF Discard, WellFormed
  <2>2. Moves(t, Idle) /\ UNCHANGED <<tableVars, alive>>
    BY <1>3, IdleCall DEF Discard, Continue, Moves
  <2>3. \A i \in Occupied : OwnerProcessId'[StorageUnits[i]] = OwnerProcessId[StorageUnits[i]]
    BY <1>3, OwnersKept DEF Discard
  <2>4. QED
    BY <2>1, <2>2, <2>3, OwnerStep DEF Occupied
<1>4. ASSUME NEW t \in Thread, NEW p \in Process, ProcessExit(t, p)
      PROVE  OwnerAlive'
  <2> DEFINE b == [Idle EXCEPT !.op = "unprovision", !.pid = p, !.todo = UseBitmap(p)]
             c == NextSlot(b)
  <2>1. /\ call[t] = Idle /\ call' = [call EXCEPT ![t] = c] /\ alive' = alive \ {p}
        /\ UNCHANGED <<tableVars, OwnerProcessId>>
    BY <1>4 DEF ProcessExit, Begin, Continue
  <2>2. b \in Call /\ b.op = "unprovision" /\ b.guid = NULL /\ b.pid = p /\ b.todo = UseBitmap(p)
    <3>1. Idle \in Call /\ UseBitmap(p) \subseteq Slot
      BY IdleCall DEF WellFormed, UseBitmap, Occupied
    <3>2. QED
      BY <3>1 DEF Idle, Call
  <2>3. /\ WellFormed(c)
        /\ UseBitmap(p) # {} => c.todo = UseBitmap(p) /\ c.op = "unprovision" /\ c.pid = p
    <3> HIDE DEF b
    <3>1. QED
      BY <2>2, NextSlotCall
  <2> HIDE DEF c
  <2>4. Moves(t, c)
    BY <2>1, <2>3 DEF Moves
  <2>5. call'[t] = c /\ (\A x \in Thread \ {t} : call'[x] = call[x]) /\ call[t].todo = {}
    BY <2>1, <2>4, MovesCalls, IdleCall
  <2>6. UseBitmap(p) = {i \in Occupied : OwnerProcessId[StorageUnits[i]] = p}
    BY UseBitmapComplete DEF RefInv
  <2>7. SUFFICES ASSUME NEW i \in Occupied, OwnerProcessId[StorageUnits[i]] \notin alive'
                 PROVE  \E x \in Thread : /\ call'[x].op = "unprovision"
                                          /\ call'[x].pid = OwnerProcessId[StorageUnits[i]]
                                          /\ i \in call'[x].todo
    BY <2>1 DEF OwnerAlive, Occupied
  <2>8. CASE OwnerProcessId[StorageUnits[i]] = p
    BY <2>3, <2>5, <2>6, <2>8
  <2>9. CASE OwnerProcessId[StorageUnits[i]] # p
    <3>1. PICK x \in Thread : /\ call[x].op = "unprovision"
                              /\ call[x].pid = OwnerProcessId[StorageUnits[i]]
                              /\ i \in call[x].todo
      BY <2>1, <2>7, <2>9 DEF OwnerAlive
    <3>2. QED
      BY <2>5, <3>1
  <2>10. QED
    BY <2>8, <2>9
<1>5. ASSUME NEW t \in Thread,
             \/ \E p \in Process, g \in Guid : IoctlUnprovision(t, p, g)
             \/ \E op \in {"transact", "setTransactPid"}, p \in Process, i \in Slot :
                  ServiceRequest(t, op, p, i)
             \/ \E op \in {"executeScsi", "reset", "stop"}, slots \in SUBSET Slot :
                  StorportRequest(t, op, slots)
             \/ \E d \in Device, i \in Slot : StartDevice(t, d, i)
             \/ \E d \in Device : RemoveDevice(t, d)
      PROVE  OwnerAlive'
  <2>1. PICK c : Moves(t, c) /\ call[t] = Idle
    BY <1>5, StartsEmpty, RemoveDeviceCall
  <2>2. UNCHANGED <<tableVars, OwnerProcessId, alive>>
    BY <1>5 DEF IoctlUnprovision, ServiceRequest, StorportRequest, StartDevice, RemoveDevice
  <2>3. call[t].todo = {}
    BY <2>1, IdleCall
  <2>4. QED
    BY <2>1, <2>2, <2>3, OwnerStep DEF Occupied
<1>6. ASSUME NEW t \in Thread,
             \/ StopIoq(t) \/ SetTransactPid(t) \/ SetDevice(t) \/ ExecuteScsi(t)
             \/ ResetUnit(t) \/ Transact(t) \/ TransactReturn(t) \/ TransactCancelled(t)
      PROVE  OwnerAlive'
  <2>1. PICK l \in {"wait", "dereference"} : Moves(t, [call[t] EXCEPT !.at = l])
    BY <1>6, GoesOn
  <2>2. PICK c : c = [call[t] EXCEPT !.at = l]
    OBVIOUS
  <2>3. Moves(t, c) /\ c.op = call[t].op /\ c.pid = call[t].pid /\ c.todo = call[t].todo
    BY <1>0, <2>1, <2>2, GotoCall
  <2>4. UNCHANGED <<tableVars, OwnerProcessId, alive>>
    BY <1>6 DEF StopIoq, SetTransactPid, SetDevice, ExecuteScsi, ResetUnit, Transact,
                TransactReturn, TransactCancelled
  <2>5. QED
    BY <2>3, <2>4, OwnerStep DEF Occupied
<1>7. ASSUME NEW t \in Thread, Remove(t)
      PROVE  OwnerAlive'
  <2>1. UNCHANGED <<OwnerProcessId, alive>>
    BY <1>7 DEF Remove
  <2>2. ASSUME NEW c, Moves(t, c), UNCHANGED tableVars,
               \A j \in call[t].todo \cap Occupied :
                 j \in c.todo /\ c.op = "unprovision" /\ c.pid = call[t].pid
        PROVE  OwnerAlive'
    BY <2>1, <2>2, OwnerStep DEF Occupied
  <2>3. ASSUME NEW i \in Occupied, NEW c, Moves(t, c), c.op = "unprovision",
               c.pid = call[t].pid,
               c.removed <=> OwnerProcessId[StorageUnits[i]] = c.pid,
               \A j \in call[t].todo \cap Occupied : j = i \/ j \in c.todo,
               IF c.removed THEN StorageUnits' = [StorageUnits EXCEPT ![i] = NULL]
                            ELSE UNCHANGED tableVars
        PROVE  OwnerAlive'
    <3>1. \A j \in Occupied' : /\ j \in Occupied /\ StorageUnits'[j] = StorageUnits[j]
                               /\ c.removed => j # i
      BY <2>3 DEF Occupied, Types
    <3>2. \A j \in Occupied' \cap call[t].todo :
            call[t].pid = OwnerProcessId[StorageUnits[j]] => j \in c.todo
      BY <2>3, <3>1
    <3>3. QED
      BY <2>1, <2>3, <3>1, <3>2, OwnerStep
  <2>4. QED
    BY <1>7, <2>2, <2>3, RemoveCall
<1>8. ASSUME NEW t \in Thread, TestOwner(t) \/ RemoveDevicePnp(t) \/ ReferenceByBtl(t)
      PROVE  OwnerAlive'
  <2>1. UNCHANGED <<tableVars, OwnerProcessId, alive>>
    BY <1>8 DEF TestOwner, RemoveDevicePnp, ReferenceByBtl
  <2>2. PICK c : /\ Moves(t, c)
                 /\ call[t].op = "unprovision" /\ call[t].todo # {} =>
                      c.todo = call[t].todo /\ c.op = call[t].op /\ c.pid = call[t].pid
    <3>1. CASE TestOwner(t)
      BY <3>1, TestOwnerCall
    <3>2. CASE RemoveDevicePnp(t)
      BY <3>2, PnpCall
    <3>3. CASE ReferenceByBtl(t)
      BY <1>0, <3>3, LookupCall DEF WellFormed
    <3>4. QED
      BY <1>8, <3>1, <3>2, <3>3
  <2>3. QED
    BY <2>1, <2>2, OwnerStep DEF Occupied
<1>9. ASSUME NEW t \in Thread, Dereference(t) \/ Free(t)
      PROVE  OwnerAlive'
  <2>1. /\ UNCHANGED <<tableVars, alive>>
        /\ \A i \in Occupied :
             OwnerProcessId'[StorageUnits[i]] = OwnerProcessId[StorageUnits[i]]
    BY <1>9, OwnersKept DEF Dereference, Free
  <2>2. call[t].at \in {"dereference", "free"}
    BY <1>9 DEF Dereference, Free
  <2>3. \/ Goto(t, "free") /\ call[t].at = "dereference"
        \/ call' = [call EXCEPT ![t] = Return(call[t])]
    BY <1>9 DEF Dereference, Free, Continue
  <2>4. PICK c : /\ Moves(t, c)
                 /\ call[t].todo # {} =>
                      c.todo = call[t].todo /\ c.op = call[t].op /\ c.pid = call[t].pid
    <3>1. CASE Goto(t, "free") /\ call[t].at = "dereference"
      <4>1. PICK c : c = [call[t] EXCEPT !.at = "free"]
        OBVIOUS
      <4>2. /\ Moves(t, c) /\ c.todo = call[t].todo /\ c.op = call[t].op
            /\ c.pid = call[t].pid
        BY <3>1, <4>1, KeepsUnit
      <4>3. QED
        BY <4>2
    <3>2. CASE call' = [call EXCEPT ![t] = Return(call[t])]
      BY <1>0, <2>2, <3>2, ReturnCall DEF Moves
    <3>3. QED
      BY <2>3, <3>1, <3>2
  <2>5. QED
    BY <2>1, <2>4, OwnerStep DEF Occupied
<1>10. ASSUME NEW p \in Process, ProcessStart(p)
       PROVE  OwnerAlive'
  BY <1>10 DEF ProcessStart, OwnerAlive, Occupied
<1>11. CASE UNCHANGED vars
  BY <1>11 DEF vars, OwnerAlive, Occupied
<1>12. QED
  BY <1>1, <1>2, <1>3, <1>4, <1>5, <1>6, <1>7, <1>8, <1>9, <1>10, <1>11
     DEF Next, BeginCall, Step, Undefined

\* Only the call that unprovisions on behalf of the owner empties a slot.
LEMMA SlotLeftToOwner ==
  ASSUME Types, [Next]_vars, NEW i \in Occupied, StorageUnits'[i] # StorageUnits[i]
  PROVE  \E t \in Thread : /\ call'[t].at = "test" /\ call'[t].unit = StorageUnits[i]
                           /\ call'[t].pid = OwnerProcessId[StorageUnits[i]]
<1> USE DEF tableVars
<1>1. ASSUME NEW t \in Thread, Insert(t)
      PROVE  FALSE
  <2>1. CASE UNCHANGED tableVars
    BY <2>1
  <2>2. CASE ~UNCHANGED tableVars
    <3>1. /\ FreeSlots # {}
          /\ StorageUnits' = [StorageUnits EXCEPT ![Min(FreeSlots)] = call[t].unit]
      BY <1>1, <2>2 DEF Insert
    <3>2. Min(FreeSlots) \in FreeSlots
      BY <3>1, MinSlot DEF FreeSlots
    <3>3. i # Min(FreeSlots) /\ i \in Slot
      BY <3>2 DEF FreeSlots, Occupied
    <3>4. QED
      BY <3>1, <3>3 DEF Types
  <2>3. QED
    BY <2>1, <2>2
<1>2. ASSUME NEW t \in Thread, Remove(t)
      PROVE  /\ call'[t].at = "test" /\ call'[t].unit = StorageUnits[i]
             /\ call'[t].pid = OwnerProcessId[StorageUnits[i]]
  <2>11. PICK j \in Occupied : \E c :
          /\ Moves(t, c) /\ c.unit = StorageUnits[j] /\ c.at = "test"
          /\ c.removed <=> OwnerProcessId[StorageUnits[j]] = c.pid
          /\ c.removed
          /\ StorageUnits' = [StorageUnits EXCEPT ![j] = NULL]
    BY <1>2, RemoveCall
  <2>1. PICK c :
          /\ Moves(t, c) /\ c.unit = StorageUnits[j] /\ c.at = "test"
          /\ c.removed <=> OwnerProcessId[StorageUnits[j]] = c.pid
          /\ c.removed
          /\ StorageUnits' = [StorageUnits EXCEPT ![j] = NULL]
    BY <2>11
  <2>2. i = j
    BY <2>1 DEF Occupied, Types
  <2>3. call'[t] = c
    BY <2>1, MovesCalls
  <2>4. QED
    BY <2>1, <2>2, <2>3
<1>3. \E t \in Thread : Insert(t) \/ Remove(t)
  <2>1. ~UNCHANGED tableVars
    OBVIOUS
  <2>2. ASSUME NEW t \in Thread, BeginCall(t)
        PROVE  UNCHANGED tableVars
    BY <2>2 DEF BeginCall, Provision, IoctlUnprovision, ProcessExit, ServiceRequest,
                StorportRequest, RemoveDevice, StartDevice
  <2>3. ASSUME NEW t \in Thread, Step(t), ~Insert(t), ~Remove(t)
        PROVE  UNCHANGED tableVars
    BY <2>3 DEF Step, Discard, TestOwner, StopIoq, ReferenceByBtl, Dereference, Free,
                SetTransactPid, SetDevice, ExecuteScsi, ResetUnit, Transact,
                TransactReturn, RemoveDevicePnp
  <2>4. ASSUME NEW t \in Thread, TransactCancelled(t)
        PROVE  UNCHANGED tableVars
    BY <2>4 DEF TransactCancelled
  <2>5. ASSUME NEW p \in Process, ProcessStart(p)
        PROVE  UNCHANGED tableVars
    BY <2>5 DEF ProcessStart
  <2>6. QED
    BY <2>1, <2>2, <2>3, <2>4, <2>5 DEF Next, Undefined, vars
<1>4. QED
  BY <1>1, <1>2, <1>3

-----------------------------------------------------------------------------
(***************************************************************************)
(* The counter of units and the history variable, whatever happened.       *)
(***************************************************************************)

\* Filling or emptying a slot is counted, also when memory is not intact.
LEMMA TableCountNext == Types /\ TableCount /\ [Next]_vars => TableCount'
<1> SUFFICES ASSUME Types, TableCount, [Next]_vars PROVE TableCount'
  OBVIOUS
<1> USE DEF tableVars
<1>1. CASE UNCHANGED tableVars
  BY <1>1 DEF TableCount, Occupied
<1>2. ASSUME NEW t \in Thread, Insert(t), ~UNCHANGED tableVars
      PROVE  TableCount'
  <2>1. PICK i : i = Min(FreeSlots)
    OBVIOUS
  <2>2. PICK u \in Unit : u = call[t].unit
    BY <1>2 DEF Insert, Types, WellFormed, Call, Pointing
  <2>3. /\ FreeSlots # {} /\ StorageUnits' = [StorageUnits EXCEPT ![i] = u]
        /\ StorageUnitCount' = StorageUnitCount + 1
    BY <1>2, <2>1, <2>2 DEF Insert
  <2>4. i \in Slot /\ StorageUnits[i] = NULL
    BY <2>1, <2>3, MinSlot DEF FreeSlots, Occupied
  <2>5. QED
    BY <2>3, <2>4, SlotFilled DEF TableCount
<1>3. ASSUME NEW t \in Thread, Remove(t), ~UNCHANGED tableVars
      PROVE  TableCount'
  <2>1. PICK i \in Occupied : /\ StorageUnits' = [StorageUnits EXCEPT ![i] = NULL]
                              /\ StorageUnitCount' = StorageUnitCount - 1
    BY <1>3, RemoveCall
  <2>2. PICK u : u = StorageUnits[i]
    OBVIOUS
  <2>3. Cardinality(Occupied)' = Cardinality(Occupied) - 1
    BY <2>1, <2>2, SlotEmptied
  <2>4. QED
    BY <2>1, <2>3 DEF TableCount
<1>4. ASSUME NEW t \in Thread, BeginCall(t)
      PROVE  UNCHANGED tableVars
  BY <1>4 DEF BeginCall, Provision, IoctlUnprovision, ProcessExit, ServiceRequest,
              StorportRequest, RemoveDevice, StartDevice
<1>5. ASSUME NEW t \in Thread, Step(t), ~Insert(t), ~Remove(t)
      PROVE  UNCHANGED tableVars
  BY <1>5 DEF Step, Discard, TestOwner, StopIoq, ReferenceByBtl, Dereference, Free,
              SetTransactPid, SetDevice, ExecuteScsi, ResetUnit, Transact,
              TransactReturn, RemoveDevicePnp
<1>6. ASSUME NEW t \in Thread, TransactCancelled(t)
      PROVE  UNCHANGED tableVars
  BY <1>6 DEF TransactCancelled
<1>7. ASSUME NEW p \in Process, ProcessStart(p)
      PROVE  UNCHANGED tableVars
  BY <1>7 DEF ProcessStart
<1>8. QED
  BY <1>1, <1>2, <1>3, <1>4, <1>5, <1>6, <1>7 DEF Next, Undefined, vars

\* A wrong answer of the unlocked test is remembered.
LEMMA RacedStays == raced /\ [Next]_vars => raced'
<1> SUFFICES ASSUME raced, [Next]_vars PROVE raced'
  OBVIOUS
<1>1. ASSUME NEW t \in Thread, BeginCall(t)
      PROVE  raced'
  BY <1>1 DEF BeginCall, Provision, IoctlUnprovision, ProcessExit, ServiceRequest,
              StorportRequest, RemoveDevice, StartDevice
<1>2. ASSUME NEW t \in Thread, Step(t)
      PROVE  raced'
  BY <1>2 DEF Step, Insert, Remove, Discard, TestOwner, StopIoq, ReferenceByBtl,
              Dereference, Free, SetTransactPid, SetDevice, ExecuteScsi, ResetUnit,
              Transact, TransactReturn, RemoveDevicePnp
<1>3. ASSUME NEW t \in Thread, TransactCancelled(t)
      PROVE  raced'
  BY <1>3 DEF TransactCancelled
<1>4. ASSUME NEW p \in Process, ProcessStart(p)
      PROVE  raced'
  BY <1>4 DEF ProcessStart
<1>5. QED
  BY <1>1, <1>2, <1>3, <1>4 DEF Next, Undefined, vars

-----------------------------------------------------------------------------
(***************************************************************************)
(* The theorems.  All but the types hold until a call passes the unlocked  *)
(* test of SpdStorageUnitUnprovision for a unit that it had not taken out  *)
(* of the table, which the run storage_unit_race shows to be possible.     *)
(***************************************************************************)

\* What the code keeps until then: reference counts and table, queues, owners.
Kept == RefInv /\ QueueInv /\ OwnerAlive

\* The inductive invariant: types and call shapes and the counter of units, and
\* what the code keeps until the unlocked test is passed wrongly.
THEOREM InductiveInvariant == Spec => [](Types /\ TableCount /\ (raced \/ Kept))
<1>1. Init => Types /\ TableCount /\ (raced \/ Kept)
  BY TypesInit, RefInvInit, QueueInvInit, OwnerAliveInit DEF Kept, RefInv, TableInv
<1>2. Types /\ TableCount /\ (raced \/ Kept) /\ [Next]_vars
        => (Types /\ TableCount /\ (raced \/ Kept))'
  BY TypesNext, TableCountNext, RacedStays, RefInvNext, QueueInvNext, OwnerAliveNext DEF Kept
<1>3. QED
  BY <1>1, <1>2, PTL DEF Spec

\* Every variable keeps its type, and StorageUnitCount counts the occupied
\* slots, whatever the unlocked test answers.
THEOREM TypeCorrect == Spec => []TypeOK
<1>1. Types /\ TableCount => TypeOK
  BY DEF Types, TableCount, TypeOK
<1>2. QED
  BY <1>1, InductiveInvariant, PTL

\* The RefCount of every allocated unit is the number of its references: the
\* slot that SpdStorageUnitProvision filled and the calls between
\* SpdStorageUnitReferenceBy... and SpdStorageUnitDereference, until the
\* unlocked test is passed wrongly.
THEOREM AlwaysRefCountExact == Spec => []RefCountExact
<1>1. raced \/ Kept => RefCountExact
  BY DEF Kept, RefInv, RefCountExact
<1>2. QED
  BY <1>1, InductiveInvariant, PTL

\* Until the unlocked test is passed wrongly it is the only access to freed
\* memory: no slot refers to a unit that SpdStorageUnitDereference has freed,
\* no call that looked a unit up does, and a unit is freed by one thread.
THEOREM AlwaysNoDangling == Spec => []NoDangling
<1>1. Types /\ RefInv => ReferencesAllocated
  <2> SUFFICES ASSUME Types, RefInv PROVE ReferencesAllocated
    OBVIOUS
  <2>1. \A i \in Occupied : StorageUnits[i] \in heap
    BY DEF RefInv, ReferencedInHeap
  <2>2. \A u \in Unit : Holders(u) # {} => u \in heap
    BY DEF RefInv, ReferencedInHeap, Holders, Holds, Counted
  <2>3. \A t \in Thread : call[t].at = "free" =>
          /\ call[t].unit \in heap /\ ~InTable(call[t].unit)
          /\ \A x \in Thread \ {t} :
               call[x].unit = call[t].unit => call[x].at = "test" /\ ~call[x].removed
    BY FreedUnit
  <2>4. QED
    BY <2>1, <2>2, <2>3 DEF ReferencesAllocated
<1>2. Types /\ (raced \/ Kept) => NoDangling
  BY <1>1 DEF Kept, NoDangling
<1>3. QED
  BY <1>2, InductiveInvariant, PTL

\* No two provisioned units have the same Guid, until the unlocked test is
\* passed wrongly.
THEOREM AlwaysTableConsistent == Spec => []TableConsistent
<1>1. raced \/ Kept => TableConsistent
  BY DEF Kept, RefInv, TableInv, TableConsistent
<1>2. QED
  BY <1>1, InductiveInvariant, PTL

\* An SRB that a queue accepted is aborted before the queue is freed, until the
\* unlocked test is passed wrongly.
THEOREM AlwaysNoSrbLost == Spec => []NoSrbLost
<1>1. raced \/ Kept => NoSrbLost
  BY DEF Kept, QueueInv, NoSrbLost
<1>2. QED
  BY <1>1, InductiveInvariant, PTL

\* A unit does not outlive its process, unless the notify routine is on its way
\* to its slot, and leaves the table only on behalf of that process, until the
\* unlocked test is passed wrongly.
THEOREM UnitsFollowOwners == Spec => OwnerLifetime
<1>1. Types /\ (raced \/ Kept) /\ [Next]_vars =>
        [~raced' => OwnerAlive' /\ \A i \in Occupied : StorageUnits'[i] # StorageUnits[i] =>
           \E t \in Thread : /\ call'[t].at = "test" /\ call'[t].unit = StorageUnits[i]
                             /\ call'[t].pid = OwnerProcessId[StorageUnits[i]]]_vars
  BY OwnerAliveNext, SlotLeftToOwner, RacedStays DEF Kept
<1>2. QED
  BY <1>1, InductiveInvariant, PTL DEF Spec, OwnerLifetime
=============================================================================
