--------------------------- MODULE LauncherProofs ---------------------------
(***************************************************************************)
(* Proofs about the launcher service (module Launcher), for any number of  *)
(* instances, users, processes and handles.                                *)
(***************************************************************************)
EXTENDS Launcher, SequenceTheorems, FiniteSetTheorems, TLAPS

-----------------------------------------------------------------------------
(***************************************************************************)
(* The inductive invariant                                                 *)
(***************************************************************************)

MainState == [at : {"off", "enum", "create", "release", "remove", "free", "done"},
              J : 0 .. Cardinality(Name) + 1, entry : Entry \cup {NULL},
              obj : Pid \cup {NULL}, seen : SUBSET Name]
SrvState == [at : {"off", "connect", "read", "transact", "persist", "release", "remove",
                   "free", "write", "stopAll", "killing", "wait", "stopped", "timedOut"},
             user : User \cup {NULL}, cmd : Command \cup {NULL},
             obj : Pid \cup {NULL}, todo : SUBSET Pid]

\* What the threads hold and what is in the pipe.
PipeTypes ==
  /\ pipe \in {"none", "listening", "connected", "closing", "disconnected"}
  /\ peer \in User \cup {NULL}
  /\ msg \in [user : User, cmd : Command] \cup {NULL}
  /\ client \in [User -> {"idle", "busy", "open", "wait"}]
HandleTypes ==
  /\ reclosed \in BOOLEAN
  /\ handle \in [Handle -> {Free} \cup ({"vol", "dup"} \X Pid)]
  /\ timers \in SUBSET (Pid \X Handle)

\* The values of the registry have different names, and those that the thread
\* has passed were seen.
RegistryOK ==
  /\ registry \in Seq(Entry)
  /\ \A i, j \in 1 .. Len(registry) : registry[i].name = registry[j].name => i = j
Seen ==
  main.at \notin {"off", "done"} =>
    \A i \in 1 .. Len(registry) : Passed(i) => registry[i].name \in main.seen

MainOK ==
  /\ main \in MainState
  /\ main.at = "create" => main.entry \in Entry
  /\ main.at \in {"release", "remove", "free"} => main.obj \in Pid
  /\ main.at \in {"create", "release", "remove", "free"} => main.J <= Cardinality(Name)
  /\ main.at \notin {"off", "done"} => main.J >= 1
SrvOK ==
  /\ srv \in SrvState
  /\ srv.at = "transact" => srv.user \in User /\ srv.cmd \in Command
  /\ srv.at \in {"persist", "release", "remove", "free"} => srv.obj \in Pid
  /\ lock \in BOOLEAN
  /\ lock <=> srv.at = "killing"
  /\ lock => srv.todo \subseteq SvcInstanceList

\* Who has a reference to p, who has brought its count to zero, and who has
\* taken it out of the list.
MainHolds(p) == main.obj = p /\ main.at = "release"
SrvHolds(p) == srv.obj = p /\ srv.at \in {"persist", "release"}
CbHolds(p) == cb[p] = "armed"
MainFrees(p) == main.obj = p /\ main.at \in {"remove", "free"}
SrvFrees(p) == srv.obj = p /\ srv.at \in {"remove", "free"}
CbFrees(p) == cb[p] \in {"remove", "free"}
Removed(p) == \/ main.obj = p /\ main.at = "free"
              \/ srv.obj = p /\ srv.at = "free"
              \/ cb[p] = "free"

\* Both references of an instance are there; one is left; it is being freed.
Both(p) == CbHolds(p) /\ (MainHolds(p) <=> ~SrvHolds(p)) /\ ~MainFrees(p) /\ ~SrvFrees(p)
CreatorLeft(p) == cb[p] = "done" /\ (MainHolds(p) <=> ~SrvHolds(p)) /\ ~MainFrees(p) /\ ~SrvFrees(p)
CbLeft(p) == CbHolds(p) /\ ~MainHolds(p) /\ ~SrvHolds(p) /\ ~MainFrees(p) /\ ~SrvFrees(p)
CreatorFrees(p) == cb[p] = "done" /\ ~MainHolds(p) /\ ~SrvHolds(p) /\ (MainFrees(p) <=> ~SrvFrees(p))
CbIsFreeing(p) == CbFrees(p) /\ ~MainHolds(p) /\ ~SrvHolds(p) /\ ~MainFrees(p) /\ ~SrvFrees(p)
None(p) == cb[p] = "none" /\ ~MainHolds(p) /\ ~SrvHolds(p) /\ ~MainFrees(p) /\ ~SrvFrees(p)

\* What processes do, and those of which the service knows nothing.
ProcState == {"none", "running", "breaking", "exited", "orphan"}
Unknown == {"none", "orphan"}
USE DEF ProcState, Unknown

\* The life of an instance and of its process.
Life(p) ==
  /\ inst[p] = NULL => None(p) /\ p \notin SvcInstanceList /\ proc[p] \in Unknown
  /\ inst[p] # NULL =>
       /\ \/ inst[p].RefCount = 2 /\ Both(p)
          \/ inst[p].RefCount = 1 /\ (CreatorLeft(p) \/ CbLeft(p))
          \/ inst[p].RefCount = 0 /\ (CreatorFrees(p) \/ CbIsFreeing(p))
       /\ p \in SvcInstanceList <=> ~Removed(p)
       /\ proc[p] \notin Unknown
       /\ ~CbHolds(p) => proc[p] = "exited"
InstOK ==
  /\ SvcInstanceList \in SUBSET Pid
  /\ inst \in [Pid -> Instance \cup {NULL}]
  /\ proc \in [Pid -> ProcState]
  /\ cb \in [Pid -> {"none", "armed", "remove", "free", "done"}]
  /\ \A p \in Pid : Life(p)
ListOK ==
  /\ SvcInstanceEvent \in BOOLEAN
  /\ SvcInstanceEvent <=> SvcInstanceList = {}
  /\ \A p, q \in SvcInstanceList : inst[p].name = inst[q].name => p = q

\* Nothing is started while or after the service is told to stop.
ServiceOK ==
  /\ svc \in {"off", "start_pending", "running", "stop_pending", "stopped"}
  /\ SvcEvent \in BOOLEAN
  /\ svc = "running" \/ SvcEvent => main.at = "done"
  /\ svc = "off" => main.at = "off" /\ srv.at = "off" /\ SvcInstanceList = {}
  /\ svc = "stopped" /\ SvcEvent /\ srv.at = "stopped" => SvcInstanceList = {}

Inv ==
  /\ PipeTypes /\ HandleTypes /\ RegistryOK /\ MainOK /\ SrvOK
  /\ InstOK /\ ListOK /\ ServiceOK /\ Seen

-----------------------------------------------------------------------------
(***************************************************************************)
(* Lemmas                                                                  *)
(***************************************************************************)

\* The places at which a thread is concerned with an instance.
MainActive == {"release", "remove", "free"}
SrvActive == {"persist", "release", "remove", "free"}

\* The records of the threads at rest.
LEMMA IdleFits ==
  /\ MainIdle \in MainState /\ MainIdle.at = "off" /\ MainIdle.obj = NULL
  /\ MainIdle.seen = {} /\ MainIdle.J = 0
  /\ SrvIdle \in SrvState /\ SrvIdle.at = "off" /\ SrvIdle.obj = NULL
<1>1. Cardinality(Name) \in Nat
  BY LauncherAssumption, FS_CardinalityType
<1>2. 0 \in 0 .. Cardinality(Name) + 1
  BY <1>1
<1>3. MainIdle \in MainState
  BY <1>2 DEF MainIdle, MainState
<1>4. /\ MainIdle.at = "off" /\ MainIdle.obj = NULL
      /\ MainIdle.seen = {} /\ MainIdle.J = 0
  BY DEF MainIdle
<1>5. SrvIdle \in SrvState
  BY DEF SrvIdle, SrvState
<1>6. SrvIdle.at = "off" /\ SrvIdle.obj = NULL
  BY DEF SrvIdle
<1> QED
  BY <1>3, <1>4, <1>5, <1>6

\* The registry has at most one value for every name.
LEMMA RegistryBound ==
  ASSUME RegistryOK
  PROVE  Len(registry) \in Nat /\ Len(registry) <= Cardinality(Name)
<1> DEFINE f == [i \in 1 .. Len(registry) |-> registry[i].name]
<1>1. registry \in Seq(Entry) /\ Len(registry) \in Nat
  BY DEF RegistryOK
<1>2. f \in [1 .. Len(registry) -> Name]
  <2>1. \A i \in 1 .. Len(registry) : registry[i] \in Entry
    BY <1>1
  <2>2. \A e \in Entry : e.name \in Name
    BY DEF Entry
  <2> QED
    BY <2>1, <2>2
<1>3. \A i, j \in 1 .. Len(registry) : f[i] = f[j] => i = j
  BY DEF RegistryOK
<1>4. f \in Injection(1 .. Len(registry), Name)
  BY <1>2, <1>3 DEF Injection, IsInjective
<1>5. IsFiniteSet(1 .. Len(registry)) /\ Cardinality(1 .. Len(registry)) = Len(registry)
  <2>1. PICK n \in Nat : n = Len(registry)
    BY <1>1
  <2>2. IsFiniteSet(1 .. n) /\ Cardinality(1 .. n) = IF 1 > n THEN 0 ELSE n - 1 + 1
    BY ONLY n \in Nat, FS_Interval
  <2>3. Cardinality(1 .. n) = n
    BY <2>2
  <2> QED
    BY <2>1, <2>2, <2>3
<1>6. Cardinality(1 .. Len(registry)) <= Cardinality(Name)
  BY <1>4, LauncherAssumption, FS_Injection
<1> QED
  BY <1>1, <1>5, <1>6

\* What an instance that is not freed yet is like.
LEMMA InstanceFits ==
  ASSUME InstOK, NEW p \in Pid, inst[p] # NULL
  PROVE  inst[p] \in Instance /\ inst[p].RefCount \in 0 .. 2
BY DEF InstOK, Instance

\* An instance in the list is not freed, and its process has a handle.
LEMMA ListedLives ==
  ASSUME InstOK, NEW p \in SvcInstanceList
  PROVE  p \in Pid /\ inst[p] # NULL /\ inst[p] \in Instance /\ proc[p] \notin Unknown
BY DEF InstOK, Life

\* A step that neither creates, releases, removes nor frees an instance.
LEMMA InstFrame ==
  ASSUME InstOK, UNCHANGED <<SvcInstanceList, cb>>,
         inst' \in [Pid -> Instance \cup {NULL}],
         \A p \in Pid : /\ inst'[p] = NULL <=> inst[p] = NULL
                        /\ inst[p] # NULL => inst'[p].RefCount = inst[p].RefCount,
         proc' \in [Pid -> ProcState],
         \A p \in Pid : /\ proc'[p] \in Unknown <=> proc[p] \in Unknown
                        /\ proc[p] = "exited" => proc'[p] = "exited",
         \/ main'.at = main.at /\ main'.obj = main.obj
         \/ main.at \notin MainActive /\ main'.at \notin MainActive,
         \/ srv'.at = srv.at /\ srv'.obj = srv.obj
         \/ srv.at \notin SrvActive /\ srv'.at \notin SrvActive
  PROVE  InstOK'
<1>1. ASSUME NEW p \in Pid
      PROVE  Life(p)'
  <2>1. Life(p)
    BY DEF InstOK
  <2>2. /\ MainHolds(p)' <=> MainHolds(p)
        /\ MainFrees(p)' <=> MainFrees(p)
        /\ SrvHolds(p)' <=> SrvHolds(p)
        /\ SrvFrees(p)' <=> SrvFrees(p)
        /\ CbHolds(p)' <=> CbHolds(p)
        /\ CbFrees(p)' <=> CbFrees(p)
        /\ Removed(p)' <=> Removed(p)
    BY DEF MainHolds, MainFrees, SrvHolds, SrvFrees, CbHolds, CbFrees, Removed,
           MainActive, SrvActive
  <2>3. /\ Both(p)' <=> Both(p)
        /\ CreatorLeft(p)' <=> CreatorLeft(p)
        /\ CbLeft(p)' <=> CbLeft(p)
        /\ CreatorFrees(p)' <=> CreatorFrees(p)
        /\ CbIsFreeing(p)' <=> CbIsFreeing(p)
        /\ None(p)' <=> None(p)
    BY <2>2 DEF Both, CreatorLeft, CbLeft, CreatorFrees, CbIsFreeing, None
  <2> QED
    BY <2>1, <2>2, <2>3 DEF Life
<1> QED
  BY <1>1 DEF InstOK

LEMMA ListFrame ==
  ASSUME InstOK, ListOK, UNCHANGED <<SvcInstanceList, SvcInstanceEvent>>,
         \A p \in Pid : inst[p] # NULL => inst'[p].name = inst[p].name
  PROVE  ListOK'
<1>1. \A p \in SvcInstanceList : inst'[p].name = inst[p].name
  BY ListedLives
<1> QED
  BY <1>1 DEF ListOK

\* The rest of the invariant, when its variables stay.
LEMMA SeenFrame ==
  ASSUME Seen, UNCHANGED <<main, registry>>
  PROVE  Seen'
BY DEF Seen, Passed

LEMMA PipeFrame ==
  ASSUME PipeTypes, UNCHANGED pipeVars
  PROVE  PipeTypes'
BY DEF PipeTypes, pipeVars

-----------------------------------------------------------------------------
(***************************************************************************)
(* The life of an instance                                                 *)
(***************************************************************************)

\* The thread that creates an instance: the starter or the server.
MainCreates(p) ==
  /\ main.at \notin MainActive /\ main'.at = "release" /\ main'.obj = p
  /\ UNCHANGED srv
SrvCreates(p) ==
  /\ srv.at \notin SrvActive /\ srv'.at = "persist" /\ srv'.obj = p
  /\ UNCHANGED main

LEMMA CreateKeeps ==
  ASSUME InstOK, ListOK, NEW p \in Pid, NEW e \in Entry, Create(p, e),
         MainCreates(p) \/ SrvCreates(p)
  PROVE  InstOK' /\ ListOK' /\ SvcInstanceList' = SvcInstanceList \cup {p}
<1> USE DEF Create
<1>1. /\ inst[p] = NULL /\ Life(p)
      /\ proc' = [proc EXCEPT ![p] = "running"]
      /\ cb' = [cb EXCEPT ![p] = "armed"]
      /\ SvcInstanceList' = SvcInstanceList \cup {p}
      /\ SvcInstanceEvent' = FALSE
  BY DEF CreateProcess, InstOK
<1>2. PICK i : i = NewInstance(e)
  OBVIOUS
<1>3. i \in Instance /\ i # NULL /\ i.RefCount = 2 /\ i.name = e.name
  BY <1>2, NullAssumption DEF NewInstance, FirstRefCount, Instance, Entry
<1>4. inst' = [inst EXCEPT ![p] = i]
  BY <1>2
<1>5. /\ inst \in [Pid -> Instance \cup {NULL}]
      /\ proc \in [Pid -> ProcState]
      /\ cb \in [Pid -> {"none", "armed", "remove", "free", "done"}]
      /\ SvcInstanceList \in SUBSET Pid
  BY DEF InstOK
<1>6. /\ inst' \in [Pid -> Instance \cup {NULL}]
      /\ proc' \in [Pid -> ProcState]
      /\ cb' \in [Pid -> {"none", "armed", "remove", "free", "done"}]
      /\ SvcInstanceList' \in SUBSET Pid
  BY <1>1, <1>3, <1>4, <1>5
<1>7. ASSUME NEW q \in Pid \ {p}
      PROVE  Life(q)'
  <2>1. /\ inst'[q] = inst[q] /\ proc'[q] = proc[q] /\ cb'[q] = cb[q] /\ Life(q)
        /\ q \in SvcInstanceList' <=> q \in SvcInstanceList
    BY <1>1, <1>4, <1>5 DEF InstOK
  <2>2. /\ MainHolds(q)' <=> MainHolds(q)
        /\ MainFrees(q)' <=> MainFrees(q)
        /\ SrvHolds(q)' <=> SrvHolds(q)
        /\ SrvFrees(q)' <=> SrvFrees(q)
        /\ CbHolds(q)' <=> CbHolds(q)
        /\ CbFrees(q)' <=> CbFrees(q)
        /\ Removed(q)' <=> Removed(q)
    BY <2>1 DEF MainCreates, SrvCreates, MainHolds, MainFrees, SrvHolds, SrvFrees,
                CbHolds, CbFrees, Removed, MainActive, SrvActive
  <2> QED
    BY <2>1, <2>2
       DEF Life, Both, CreatorLeft, CbLeft, CreatorFrees, CbIsFreeing, None
<1>8. Life(p)'
  <2>1. inst'[p] = i /\ proc'[p] = "running" /\ cb'[p] = "armed" /\ p \in SvcInstanceList'
    BY <1>1, <1>4, <1>5
  <2>2. None(p)
    BY <1>1 DEF Life
  <2>3. Both(p)' /\ ~Removed(p)' /\ CbHolds(p)'
    BY <2>1, <2>2, LauncherAssumption
       DEF MainCreates, SrvCreates, Both, None, MainHolds, MainFrees, SrvHolds, SrvFrees,
           CbHolds, Removed, MainActive, SrvActive
  <2> QED
    BY <1>3, <2>1, <2>3 DEF Life
<1>9. InstOK'
  BY <1>6, <1>7, <1>8 DEF InstOK
<1>10. ListOK'
  <2>1. \A q \in SvcInstanceList : q # p /\ q \in Pid /\ inst'[q] = inst[q]
    BY <1>1, <1>4, <1>5 DEF Life
  <2>2. \A q \in SvcInstanceList : inst[q].name # e.name
    BY DEF NameFree, Lookup
  <2>3. inst'[p].name = e.name
    BY <1>3, <1>4, <1>5
  <2>4. SvcInstanceList' # {} /\ SvcInstanceEvent' = FALSE
    BY <1>1
  <2>5. ASSUME NEW q \in SvcInstanceList', NEW r \in SvcInstanceList',
               inst'[q].name = inst'[r].name
        PROVE  q = r
    <3>1. CASE q \in SvcInstanceList /\ r \in SvcInstanceList
      BY <2>1, <2>5, <3>1 DEF ListOK
    <3>2. CASE q = p \/ r = p
      BY <1>1, <2>1, <2>2, <2>3, <2>5, <3>2
    <3> QED
      BY <1>1, <3>1, <3>2
  <2> QED
    BY <2>4, <2>5 DEF ListOK
<1> QED
  BY <1>1, <1>9, <1>10

\* The thread that gives up a reference goes on to take the instance out of the
\* list if it was the last one.
MainReleases(p) ==
  /\ main.at = "release" /\ main.obj = p
  /\ IF IsLast(p) THEN main'.at = "remove" /\ main'.obj = p ELSE main'.at \notin MainActive
  /\ UNCHANGED <<srv, cb>>
SrvReleases(p) ==
  /\ srv.at = "release" /\ srv.obj = p
  /\ IF IsLast(p) THEN srv'.at = "remove" /\ srv'.obj = p ELSE srv'.at \notin SrvActive
  /\ UNCHANGED <<main, cb>>
CbReleases(p) ==
  /\ cb[p] = "armed" /\ proc[p] = "exited"
  /\ cb' = [cb EXCEPT ![p] = IF IsLast(p) THEN "remove" ELSE "done"]
  /\ UNCHANGED <<main, srv>>

LEMMA CountDownKeeps ==
  ASSUME InstOK, ListOK, NEW p \in Pid, CountDown(p),
         MainReleases(p) \/ SrvReleases(p) \/ CbReleases(p),
         UNCHANGED <<SvcInstanceList, SvcInstanceEvent, proc>>
  PROVE  InstOK' /\ ListOK'
<1>1. /\ inst \in [Pid -> Instance \cup {NULL}]
      /\ proc \in [Pid -> ProcState]
      /\ cb \in [Pid -> {"none", "armed", "remove", "free", "done"}]
      /\ SvcInstanceList \in SUBSET Pid /\ Life(p)
  BY DEF InstOK
<1>2. inst[p] # NULL
  BY <1>1 DEF Life, None, MainReleases, SrvReleases, CbReleases, MainHolds, SrvHolds
<1>3. inst[p] \in Instance /\ inst[p].RefCount \in 1 .. 2
  BY <1>1, <1>2 DEF Life, MainReleases, SrvReleases, CbReleases, MainHolds, SrvHolds, CbHolds,
     CreatorFrees, CbIsFreeing, CbFrees
<1>4. PICK i : i = [inst[p] EXCEPT !.RefCount = @ - 1]
  OBVIOUS
<1>5. i \in Instance /\ i # NULL /\ i.RefCount = inst[p].RefCount - 1 /\ i.name = inst[p].name
  BY <1>3, <1>4, NullAssumption DEF Instance
<1>6. inst' = [inst EXCEPT ![p] = i]
  BY <1>4 DEF CountDown
<1>7. /\ inst' \in [Pid -> Instance \cup {NULL}] /\ inst'[p] = i
      /\ \A q \in Pid \ {p} : inst'[q] = inst[q]
  BY <1>1, <1>5, <1>6
<1>8. /\ cb' \in [Pid -> {"none", "armed", "remove", "free", "done"}]
      /\ \A q \in Pid \ {p} : cb'[q] = cb[q]
  BY <1>1 DEF MainReleases, SrvReleases, CbReleases
<1>9. ASSUME NEW q \in Pid \ {p}
      PROVE  Life(q)'
  <2>1. inst'[q] = inst[q] /\ cb'[q] = cb[q] /\ Life(q)
    BY <1>7, <1>8 DEF InstOK
  <2>2. /\ MainHolds(q)' <=> MainHolds(q)
        /\ MainFrees(q)' <=> MainFrees(q)
        /\ SrvHolds(q)' <=> SrvHolds(q)
        /\ SrvFrees(q)' <=> SrvFrees(q)
        /\ CbHolds(q)' <=> CbHolds(q)
        /\ CbFrees(q)' <=> CbFrees(q)
        /\ Removed(q)' <=> Removed(q)
    BY <2>1 DEF MainReleases, SrvReleases, CbReleases, MainHolds, MainFrees, SrvHolds, SrvFrees,
                CbHolds, CbFrees, Removed, MainActive, SrvActive
  <2> QED
    BY <2>1, <2>2
       DEF Life, Both, CreatorLeft, CbLeft, CreatorFrees, CbIsFreeing, None
<1>10. Life(p)'
  <2>1. CASE inst[p].RefCount = 2
    <3>1. Both(p) /\ ~IsLast(p) /\ i.RefCount = 1
      BY <1>1, <1>2, <1>3, <1>5, <2>1 DEF Life, IsLast
    <3>2. (CreatorLeft(p) \/ CbLeft(p))'
      BY <1>1, <3>1 DEF Both, CreatorLeft, CbLeft, MainReleases, SrvReleases, CbReleases,
         MainHolds, MainFrees, SrvHolds, SrvFrees, CbHolds, MainActive, SrvActive
    <3>3. p \in SvcInstanceList /\ ~Removed(p) /\ (~CbHolds(p) => proc[p] = "exited")
      BY <1>1, <1>2, <3>1 DEF Life, Both, MainFrees, SrvFrees, CbHolds, Removed
    <3>4. ~Removed(p)'
      BY <1>1, <3>1, <3>3 DEF MainReleases, SrvReleases, CbReleases, Removed, MainActive, SrvActive
    <3>5. ~CbHolds(p)' => proc[p] = "exited"
      BY <3>3 DEF MainReleases, SrvReleases, CbReleases, CbHolds
    <3> QED
      BY <1>1, <1>2, <1>5, <1>7, <3>1, <3>2, <3>3, <3>4, <3>5 DEF Life
  <2>2. CASE inst[p].RefCount = 1
    <3>1. (CreatorLeft(p) \/ CbLeft(p)) /\ IsLast(p) /\ i.RefCount = 0
      BY <1>1, <1>2, <1>3, <1>5, <2>2 DEF Life, IsLast
    <3>2. (CreatorFrees(p) \/ CbIsFreeing(p))'
      BY <1>1, <3>1 DEF CreatorLeft, CbLeft, CreatorFrees, CbIsFreeing,
         MainReleases, SrvReleases, CbReleases,
         MainHolds, MainFrees, SrvHolds, SrvFrees, CbHolds, CbFrees, MainActive, SrvActive
    <3>3. p \in SvcInstanceList /\ ~Removed(p) /\ (~CbHolds(p) => proc[p] = "exited")
      BY <1>1, <1>2, <3>1 DEF Life, CreatorLeft, CbLeft, MainFrees, SrvFrees, CbHolds, Removed
    <3>4. ~Removed(p)'
      BY <1>1, <3>1, <3>3 DEF MainReleases, SrvReleases, CbReleases, Removed, MainActive, SrvActive
    <3>5. ~CbHolds(p)' => proc[p] = "exited"
      BY <3>3 DEF MainReleases, SrvReleases, CbReleases, CbHolds
    <3> QED
      BY <1>1, <1>2, <1>5, <1>7, <3>1, <3>2, <3>3, <3>4, <3>5 DEF Life
  <2> QED
    BY <1>3, <2>1, <2>2
<1>11. InstOK'
  BY <1>1, <1>7, <1>8, <1>9, <1>10 DEF InstOK
<1>12. ListOK'
  BY <1>5, <1>7, ListFrame
<1> QED
  BY <1>11, <1>12

\* The thread that has brought the count to zero takes the instance out of the
\* list, and then frees it.
MainRemoves(p) ==
  /\ main.at = "remove" /\ main.obj = p /\ main'.at = "free" /\ main'.obj = p
  /\ UNCHANGED <<srv, cb>>
SrvRemoves(p) ==
  /\ srv.at = "remove" /\ srv.obj = p /\ srv'.at = "free" /\ srv'.obj = p
  /\ UNCHANGED <<main, cb>>
CbRemoves(p) ==
  /\ cb[p] = "remove" /\ cb' = [cb EXCEPT ![p] = "free"]
  /\ UNCHANGED <<main, srv>>

LEMMA RemoveKeeps ==
  ASSUME InstOK, ListOK, NEW p \in Pid, RemoveEntry(p), UNCHANGED proc,
         MainRemoves(p) \/ SrvRemoves(p) \/ CbRemoves(p)
  PROVE  InstOK' /\ ListOK' /\ SvcInstanceList' = SvcInstanceList \ {p}
<1>1. /\ inst \in [Pid -> Instance \cup {NULL}] /\ UNCHANGED inst
      /\ proc \in [Pid -> ProcState]
      /\ cb \in [Pid -> {"none", "armed", "remove", "free", "done"}]
      /\ SvcInstanceList \in SUBSET Pid /\ Life(p)
      /\ SvcInstanceList' = SvcInstanceList \ {p}
      /\ SvcInstanceEvent' = (SvcInstanceEvent \/ SvcInstanceList = {p})
  BY DEF InstOK, RemoveEntry, NowEmpty
<1>2. inst[p] # NULL
  BY <1>1 DEF Life, None, MainRemoves, SrvRemoves, CbRemoves, MainFrees, SrvFrees
<1>3. /\ cb' \in [Pid -> {"none", "armed", "remove", "free", "done"}]
      /\ \A q \in Pid \ {p} : cb'[q] = cb[q]
  BY <1>1 DEF MainRemoves, SrvRemoves, CbRemoves
<1>4. ASSUME NEW q \in Pid \ {p}
      PROVE  Life(q)'
  <2>1. /\ cb'[q] = cb[q] /\ Life(q)
        /\ q \in SvcInstanceList' <=> q \in SvcInstanceList
    BY <1>1, <1>3 DEF InstOK
  <2>2. /\ MainHolds(q)' <=> MainHolds(q)
        /\ MainFrees(q)' <=> MainFrees(q)
        /\ SrvHolds(q)' <=> SrvHolds(q)
        /\ SrvFrees(q)' <=> SrvFrees(q)
        /\ CbHolds(q)' <=> CbHolds(q)
        /\ CbFrees(q)' <=> CbFrees(q)
        /\ Removed(q)' <=> Removed(q)
    BY <2>1 DEF MainRemoves, SrvRemoves, CbRemoves, MainHolds, MainFrees, SrvHolds, SrvFrees,
                CbHolds, CbFrees, Removed
  <2> QED
    BY <1>1, <2>1, <2>2
       DEF Life, Both, CreatorLeft, CbLeft, CreatorFrees, CbIsFreeing, None
<1>5. Life(p)'
  <2>1. inst[p].RefCount = 0 /\ (CreatorFrees(p) \/ CbIsFreeing(p))
    <3>1. MainFrees(p) \/ SrvFrees(p) \/ CbFrees(p)
      BY DEF MainRemoves, SrvRemoves, CbRemoves, MainFrees, SrvFrees, CbFrees
    <3>2. CbFrees(p) => ~CbHolds(p) /\ cb[p] # "done"
      BY DEF CbFrees, CbHolds
    <3> QED
      BY <1>1, <1>2, <3>1, <3>2 DEF Life, Both, CreatorLeft, CbLeft
  <2>2. (CreatorFrees(p) \/ CbIsFreeing(p))'
    BY <1>1, <2>1 DEF CreatorFrees, CbIsFreeing, MainRemoves, SrvRemoves, CbRemoves,
       MainHolds, MainFrees, SrvHolds, SrvFrees, CbFrees
  <2>3. Removed(p)' /\ p \notin SvcInstanceList'
    BY <1>1 DEF Removed, MainRemoves, SrvRemoves, CbRemoves
  <2>4. proc[p] = "exited"
    BY <1>1, <1>2, <2>1 DEF Life, CreatorFrees, CbIsFreeing, CbHolds, CbFrees
  <2> QED
    BY <1>1, <1>2, <2>1, <2>2, <2>3, <2>4 DEF Life
<1>6. InstOK'
  BY <1>1, <1>3, <1>4, <1>5 DEF InstOK
<1>7. ListOK'
  <2>1. SvcInstanceList' = {} <=> SvcInstanceList = {} \/ SvcInstanceList = {p}
    BY <1>1
  <2>2. SvcInstanceEvent \in BOOLEAN /\ (SvcInstanceEvent <=> SvcInstanceList = {})
    BY DEF ListOK
  <2>3. SvcInstanceEvent' \in BOOLEAN /\ (SvcInstanceEvent' <=> SvcInstanceList' = {})
    BY <1>1, <2>1, <2>2
  <2>4. \A q, r \in SvcInstanceList' : inst'[q].name = inst'[r].name => q = r
    BY <1>1 DEF ListOK
  <2> QED
    BY <2>3, <2>4 DEF ListOK
<1> QED
  BY <1>1, <1>6, <1>7

MainFreed(p) ==
  /\ main.at = "free" /\ main.obj = p /\ main'.at \notin MainActive
  /\ UNCHANGED srv
SrvFreed(p) ==
  /\ srv.at = "free" /\ srv.obj = p /\ srv'.at \notin SrvActive
  /\ UNCHANGED main
CbFreed(p) == cb[p] = "free" /\ UNCHANGED <<main, srv>>

LEMMA FreeKeeps ==
  ASSUME InstOK, ListOK, NEW p \in Pid, FreeInstance(p),
         MainFreed(p) \/ SrvFreed(p) \/ CbFreed(p)
  PROVE  InstOK' /\ ListOK' /\ SvcInstanceList' = SvcInstanceList
<1>1. /\ inst \in [Pid -> Instance \cup {NULL}] /\ inst' = [inst EXCEPT ![p] = NULL]
      /\ proc \in [Pid -> ProcState]
      /\ proc' = [proc EXCEPT ![p] = "none"]
      /\ cb \in [Pid -> {"none", "armed", "remove", "free", "done"}]
      /\ cb' = [cb EXCEPT ![p] = "none"]
      /\ SvcInstanceList \in SUBSET Pid /\ Life(p)
      /\ UNCHANGED <<SvcInstanceList, SvcInstanceEvent>>
  BY DEF InstOK, FreeInstance
<1>2. inst[p] # NULL /\ p \notin SvcInstanceList
  BY <1>1 DEF Life, None, Removed, MainFreed, SrvFreed, CbFreed, MainFrees, SrvFrees
<1>3. /\ inst' \in [Pid -> Instance \cup {NULL}]
      /\ proc' \in [Pid -> ProcState]
      /\ cb' \in [Pid -> {"none", "armed", "remove", "free", "done"}]
      /\ \A q \in Pid \ {p} : inst'[q] = inst[q] /\ proc'[q] = proc[q] /\ cb'[q] = cb[q]
  BY <1>1
<1>4. ASSUME NEW q \in Pid \ {p}
      PROVE  Life(q)'
  <2>1. inst'[q] = inst[q] /\ proc'[q] = proc[q] /\ cb'[q] = cb[q] /\ Life(q)
    BY <1>1, <1>3 DEF InstOK
  <2>2. /\ MainHolds(q)' <=> MainHolds(q)
        /\ MainFrees(q)' <=> MainFrees(q)
        /\ SrvHolds(q)' <=> SrvHolds(q)
        /\ SrvFrees(q)' <=> SrvFrees(q)
        /\ CbHolds(q)' <=> CbHolds(q)
        /\ CbFrees(q)' <=> CbFrees(q)
        /\ Removed(q)' <=> Removed(q)
    BY <2>1 DEF MainFreed, SrvFreed, CbFreed, MainHolds, MainFrees, SrvHolds, SrvFrees,
                CbHolds, CbFrees, Removed, MainActive, SrvActive
  <2> QED
    BY <1>1, <2>1, <2>2
       DEF Life, Both, CreatorLeft, CbLeft, CreatorFrees, CbIsFreeing, None
<1>5. Life(p)'
  <2>1. inst'[p] = NULL /\ proc'[p] = "none" /\ cb'[p] = "none" /\ p \notin SvcInstanceList'
    BY <1>1, <1>2
  <2>2. CreatorFrees(p) \/ CbIsFreeing(p)
    <3>1. MainFrees(p) \/ SrvFrees(p) \/ CbFrees(p)
      BY DEF MainFreed, SrvFreed, CbFreed, MainFrees, SrvFrees, CbFrees
    <3>2. CbFrees(p) => ~CbHolds(p) /\ cb[p] # "done"
      BY DEF CbFrees, CbHolds
    <3> QED
      BY <1>1, <1>2, <3>1, <3>2 DEF Life, Both, CreatorLeft, CbLeft
  <2>3. None(p)'
    BY <2>1, <2>2 DEF None, CreatorFrees, CbIsFreeing, MainFreed, SrvFreed, CbFreed,
       MainHolds, MainFrees, SrvHolds, SrvFrees, CbFrees, MainActive, SrvActive
  <2> QED
    BY <2>1, <2>3 DEF Life
<1>6. InstOK'
  BY <1>1, <1>3, <1>4, <1>5 DEF InstOK
<1>7. ListOK'
  <2>1. \A q \in SvcInstanceList : inst'[q] = inst[q]
    BY <1>1, <1>2, <1>3
  <2> QED
    BY <1>1, <2>1 DEF ListOK
<1> QED
  BY <1>1, <1>6, <1>7

-----------------------------------------------------------------------------
(***************************************************************************)
(* Killing a process                                                       *)
(***************************************************************************)

LEMMA KillProcessFits ==
  ASSUME HandleTypes, InstOK, NEW p \in Pid, proc[p] \notin Unknown,
         NEW how \in {"breaking", "exited", "spare"}, NEW d \in Handle \cup {NULL},
         NEW kept, NEW closed, KillProcess(p, how, d, kept, closed)
  PROVE  /\ HandleTypes'
         /\ proc' \in [Pid -> ProcState]
         /\ \A q \in Pid : /\ proc'[q] \in Unknown <=> proc[q] \in Unknown
                           /\ proc[q] = "exited" => proc'[q] = "exited"
<1> USE DEF KillProcess
<1>1. /\ handle \in [Handle -> {Free} \cup ({"vol", "dup"} \X Pid)]
      /\ timers \in SUBSET (Pid \X Handle)
      /\ proc \in [Pid -> ProcState]
  BY DEF HandleTypes, InstOK
<1>2. timers' \in SUBSET (Pid \X Handle)
  <2>1. CASE d = NULL
    BY <1>1, <2>1
  <2>2. CASE d # NULL
    <3>1. <<p, d>> \in Pid \X Handle
      BY <2>2
    <3> QED
      BY <1>1, <2>2, <3>1
  <2> QED
    BY <2>1, <2>2
<1>3. handle' \in [Handle -> {Free} \cup ({"vol", "dup"} \X Pid)]
  <2>1. <<"dup", p>> \in {"vol", "dup"} \X Pid /\ <<"vol", p>> \in {"vol", "dup"} \X Pid
    OBVIOUS
  <2>2. PICK S : S = {Free} \cup ({"vol", "dup"} \X Pid)
    OBVIOUS
  <2>3. Free \in S /\ <<"dup", p>> \in S /\ <<"vol", p>> \in S /\ handle \in [Handle -> S]
    BY <1>1, <2>1, <2>2
  <2>4. handle' \in [Handle -> S]
    BY <2>3
  <2> QED
    BY <2>2, <2>4
<1>4. \/ UNCHANGED proc
      \/ proc[p] # "exited" /\ how \in {"breaking", "exited"} /\ proc' = [proc EXCEPT ![p] = how]
  OBVIOUS
<1>5. proc' \in [Pid -> ProcState]
  BY <1>1, <1>4
<1>6. \A q \in Pid : /\ proc'[q] \in Unknown <=> proc[q] \in Unknown
                     /\ proc[q] = "exited" => proc'[q] = "exited"
  BY <1>1, <1>4
<1> QED
  BY <1>2, <1>3, <1>5, <1>6 DEF HandleTypes

LEMMA FreeHandleTypes ==
  ASSUME HandleTypes, NEW p, FreeInstance(p)
  PROVE  HandleTypes'
BY DEF HandleTypes, FreeInstance, CloseVolumes

LEMMA TimerFits ==
  ASSUME NEW p, NEW how, NEW free \in SUBSET Handle, NEW d \in Timer(p, how, free)
  PROVE  d \in Handle \cup {NULL}
BY DEF Timer

\* SvcInstanceKill keeps the instance; at most it adds handles to it.
LEMMA KillFits ==
  ASSUME HandleTypes, InstOK, NEW p \in SvcInstanceList, NEW f,
         KillUnused(p) \/ KillInUse(p, f)
  PROVE  /\ HandleTypes'
         /\ inst' \in [Pid -> Instance \cup {NULL}]
         /\ \A q \in Pid : /\ inst'[q] = NULL <=> inst[q] = NULL
                           /\ inst[q] # NULL => /\ inst'[q].RefCount = inst[q].RefCount
                                                /\ inst'[q].name = inst[q].name
         /\ proc' \in [Pid -> ProcState]
         /\ \A q \in Pid : /\ proc'[q] \in Unknown <=> proc[q] \in Unknown
                           /\ proc[q] = "exited" => proc'[q] = "exited"
<1>1. /\ p \in Pid /\ inst[p] # NULL /\ inst[p] \in Instance /\ proc[p] \notin Unknown
      /\ inst \in [Pid -> Instance \cup {NULL}] /\ FreeHandle \in SUBSET Handle
  BY ListedLives DEF InstOK, FreeHandle
<1>2. CASE KillUnused(p)
  <2>1. PICK vols \in IF inst[p].VolumeHandles # {} THEN {{}} ELSE OpenAndDismountVolumes(Volumes),
             how \in KillModes :
          \E kept \in {{}, vols}, d \in Timer(p, how, FreeHandle \ vols) :
            /\ KillProcess(p, how, d, kept, Left(vols, kept))
            /\ inst' = [inst EXCEPT ![p].VolumeHandles = @ \cup kept]
    BY <1>2 DEF KillUnused
  <2>2. PICK kept \in {{}, vols}, d \in Timer(p, how, FreeHandle \ vols) :
          /\ KillProcess(p, how, d, kept, Left(vols, kept))
          /\ inst' = [inst EXCEPT ![p].VolumeHandles = @ \cup kept]
    BY <2>1
  <2>3. kept \in SUBSET Handle
    BY <1>1, <2>1, <2>2 DEF OpenAndDismountVolumes
  <2>4. d \in Handle \cup {NULL} /\ how \in {"breaking", "exited", "spare"}
    <3>1. PICK free : free = FreeHandle \ vols
      OBVIOUS
    <3>2. free \in SUBSET Handle
      BY <1>1, <3>1
    <3> QED
      BY <2>1, <2>2, <3>1, <3>2, TimerFits DEF KillModes
  <2>5. PICK i : i = [inst[p] EXCEPT !.VolumeHandles = @ \cup kept]
    OBVIOUS
  <2>6. i \in Instance /\ i.RefCount = inst[p].RefCount /\ i.name = inst[p].name /\ i # NULL
    BY <1>1, <2>3, <2>5, NullAssumption DEF Instance
  <2>7. inst' = [inst EXCEPT ![p] = i]
    BY <2>2, <2>5
  <2>8. /\ inst' \in [Pid -> Instance \cup {NULL}]
        /\ \A q \in Pid : /\ inst'[q] = NULL <=> inst[q] = NULL
                          /\ inst[q] # NULL => /\ inst'[q].RefCount = inst[q].RefCount
                                               /\ inst'[q].name = inst[q].name
    BY <1>1, <2>6, <2>7
  <2>9. PICK left : left = Left(vols, kept)
    OBVIOUS
  <2> QED
    BY <1>1, <2>2, <2>4, <2>8, <2>9, KillProcessFits
<1>3. CASE KillInUse(p, f)
  <2>1. PICK vols \in OpenAndDismountVolumes(Volumes - 1),
             how \in (IF f THEN KillModes ELSE {"spare"}) :
          /\ inst[p].VolumeHandles = {}
          /\ \E d \in Timer(p, how, FreeHandle) : KillProcess(p, how, d, {}, vols)
          /\ UNCHANGED inst
    BY <1>3 DEF KillInUse
  <2>2. PICK d \in Timer(p, how, FreeHandle) : KillProcess(p, how, d, {}, vols)
    BY <2>1
  <2>3. d \in Handle \cup {NULL} /\ how \in {"breaking", "exited", "spare"}
    <3>1. PICK free : free = FreeHandle
      OBVIOUS
    <3> QED
      BY <1>1, <2>1, <2>2, <3>1, TimerFits DEF KillModes
  <2>4. PICK none : none = {}
    OBVIOUS
  <2> QED
    BY <1>1, <2>1, <2>2, <2>3, <2>4, KillProcessFits
<1> QED
  BY <1>2, <1>3

-----------------------------------------------------------------------------
(***************************************************************************)
(* Every step keeps the invariant: the service, processes and clients      *)
(***************************************************************************)

LEMMA MainFrame ==
  ASSUME MainOK, UNCHANGED main
  PROVE  MainOK'
BY DEF MainOK

LEMMA SrvFrame ==
  ASSUME SrvOK, UNCHANGED <<srv, lock>>, SvcInstanceList \subseteq SvcInstanceList' \/ ~lock
  PROVE  SrvOK'
BY DEF SrvOK

LEMMA StartFailsKeeps ==
  ASSUME Inv, StartFails
  PROVE  Inv'
<1> USE DEF Inv, StartFails, listVars, procVars
<1>1. PipeTypes' /\ Seen' /\ MainOK' /\ SrvOK'
  BY PipeFrame, SeenFrame, MainFrame, SrvFrame
<1>2. HandleTypes' /\ RegistryOK'
  BY DEF HandleTypes, RegistryOK
<1>3. InstOK'
  BY InstFrame DEF InstOK
<1>4. ListOK'
  BY ListFrame
<1>5. ServiceOK'
  BY DEF ServiceOK
<1> QED
  BY <1>1, <1>2, <1>3, <1>4, <1>5

LEMMA StartServiceKeeps ==
  ASSUME Inv, StartService
  PROVE  Inv'
<1>1. /\ svc = "off" /\ main.at = "off" /\ srv.at = "off" /\ SvcInstanceList = {} /\ ~lock
      /\ UNCHANGED <<SvcInstanceList, inst, proc, handle, timers, reclosed, registry, cb, lock>>
      /\ UNCHANGED <<peer, msg, client>> /\ pipe' = "listening"
      /\ svc' = "start_pending" /\ SvcEvent' = FALSE /\ SvcInstanceEvent' = TRUE
  BY DEF Inv, StartService, ServiceOK, SrvOK, procVars
<1>2. PICK a : a = [MainIdle EXCEPT !.at = "enum"]
  OBVIOUS
<1>3. a \in MainState /\ a.at = "enum" /\ a.obj = NULL /\ a.seen = {}
  BY <1>2, IdleFits DEF MainState
<1>4. main' = [a EXCEPT !.J = 1]
  BY <1>2 DEF StartService
<1>5. 1 \in 0 .. Cardinality(Name) + 1
  BY LauncherAssumption, FS_CardinalityType
<1>6. main' \in MainState /\ main'.at = "enum" /\ main'.J = 1 /\ main'.seen = {}
  BY <1>3, <1>4, <1>5 DEF MainState
<1>7. srv' = [SrvIdle EXCEPT !.at = "connect"]
  BY DEF StartService
<1>8. srv' \in SrvState /\ srv'.at = "connect"
  BY <1>7, IdleFits DEF SrvState
<1>9. PipeTypes'
  BY <1>1 DEF Inv, PipeTypes
<1>10. HandleTypes' /\ RegistryOK'
  BY <1>1 DEF Inv, HandleTypes, RegistryOK
<1>11. MainOK'
  BY <1>6 DEF MainOK
<1>12. SrvOK'
  BY <1>1, <1>8 DEF Inv, SrvOK
<1>13. InstOK'
  BY <1>1, <1>6, <1>8, InstFrame DEF Inv, InstOK, MainActive, SrvActive
<1>14. ListOK'
  BY <1>1 DEF Inv, ListOK
<1>15. ServiceOK'
  BY <1>1, <1>6, <1>8 DEF ServiceOK
<1>16. Seen'
  <2>1. Len(registry) \in Nat
    BY RegistryBound DEF Inv
  <2> QED
    BY <1>1, <1>6, <2>1 DEF Seen, Passed
<1> QED
  BY <1>9, <1>10, <1>11, <1>12, <1>13, <1>14, <1>15, <1>16 DEF Inv

LEMMA ControlKeeps ==
  ASSUME Inv, Control
  PROVE  Inv'
<1> USE DEF Inv, Control, listVars, procVars
<1>1. PipeTypes' /\ Seen' /\ MainOK' /\ SrvOK'
  BY PipeFrame, SeenFrame, MainFrame, SrvFrame
<1>2. HandleTypes' /\ RegistryOK'
  BY DEF HandleTypes, RegistryOK
<1>3. InstOK'
  BY InstFrame DEF InstOK
<1>4. ListOK'
  BY ListFrame
<1>5. ServiceOK'
  BY DEF ServiceOK, AcceptsStop
<1> QED
  BY <1>1, <1>2, <1>3, <1>4, <1>5

\* A service that has ended is as it was before it was started.
Rest ==
  /\ svc = "off" /\ SvcEvent = FALSE
  /\ SvcInstanceEvent = TRUE /\ SvcInstanceList = {}
  /\ inst = [p \in Pid |-> NULL] /\ proc \in [Pid -> Unknown]
  /\ handle = [h \in Handle |-> Free] /\ timers = {} /\ reclosed = FALSE
  /\ main = MainIdle /\ srv = SrvIdle
  /\ cb = [p \in Pid |-> "none"] /\ lock = FALSE
  /\ pipe = "none" /\ peer = NULL /\ msg = NULL
  /\ client = [u \in User |-> "idle"]

LEMMA AtRest == Rest /\ RegistryOK => Inv
<1> SUFFICES ASSUME Rest, RegistryOK
             PROVE  Inv
  OBVIOUS
<1> USE DEF Rest
<1>1. PipeTypes /\ HandleTypes
  BY DEF PipeTypes, HandleTypes
<1>2. MainOK /\ SrvOK
  BY IdleFits DEF MainOK, SrvOK
<1>3. InstOK
  <2>1. ASSUME NEW p \in Pid PROVE Life(p)
    BY IdleFits DEF Life, None, MainHolds, SrvHolds, MainFrees, SrvFrees
  <2> QED
    BY <2>1 DEF InstOK
<1>4. ListOK /\ ServiceOK /\ Seen
  BY IdleFits DEF ListOK, ServiceOK, Seen
<1> QED
  BY <1>1, <1>2, <1>3, <1>4 DEF Inv

LEMMA ExitKeeps ==
  ASSUME Inv, NEW p \in Pid, Exit(p)
  PROVE  Inv'
<1> USE DEF Inv, Exit, listVars
<1>1. PipeTypes' /\ Seen' /\ MainOK' /\ SrvOK'
  BY PipeFrame, SeenFrame, MainFrame, SrvFrame
<1>2. HandleTypes' /\ RegistryOK'
  BY DEF HandleTypes, RegistryOK
<1>3. InstOK'
  <2>1. /\ proc \in [Pid -> ProcState]
        /\ inst \in [Pid -> Instance \cup {NULL}]
    BY DEF InstOK
  <2>2. /\ proc' \in [Pid -> ProcState]
        /\ \A q \in Pid : /\ proc'[q] \in Unknown <=> proc[q] \in Unknown
                          /\ proc[q] = "exited" => proc'[q] = "exited"
    BY <2>1
  <2> QED
    BY <2>1, <2>2, InstFrame
<1>4. ListOK'
  BY ListFrame
<1>5. ServiceOK'
  BY DEF ServiceOK
<1> QED
  BY <1>1, <1>2, <1>3, <1>4, <1>5

LEMMA EndKeeps ==
  ASSUME Inv, NEW outlive, End(outlive)
  PROVE  Inv'
<1>1. RegistryOK'
  BY DEF Inv, End, RegistryOK
<1>2. Rest'
  BY DEF End, Rest
<1>3. Rest' /\ RegistryOK' => Inv'
  BY AtRest, PTL
<1> QED
  BY <1>1, <1>2, <1>3

LEMMA KillProcessWaitKeeps ==
  ASSUME Inv, NEW p \in Pid, NEW h \in Handle, KillProcessWait(p, h)
  PROVE  Inv'
<1>1. UNCHANGED <<svc, SvcEvent, SvcInstanceList, SvcInstanceEvent, inst, registry, main, srv, cb,
                  lock, pipeVars>>
  BY DEF KillProcessWait, listVars
<1>2. PipeTypes' /\ Seen' /\ MainOK' /\ SrvOK'
  BY <1>1, PipeFrame, SeenFrame, MainFrame, SrvFrame DEF Inv
<1>3. RegistryOK' /\ ServiceOK'
  BY <1>1 DEF Inv, RegistryOK, ServiceOK
<1>4. HandleTypes'
  BY DEF Inv, KillProcessWait, HandleTypes
<1>5. InstOK'
  <2>1. /\ proc \in [Pid -> ProcState]
        /\ inst \in [Pid -> Instance \cup {NULL}] /\ InstOK
    BY DEF Inv, InstOK
  <2>2. /\ proc' \in [Pid -> ProcState]
        /\ \A q \in Pid : /\ proc'[q] \in Unknown <=> proc[q] \in Unknown
                          /\ proc[q] = "exited" => proc'[q] = "exited"
    <3>1. CASE handle[h][1] = "dup" /\ proc[handle[h][2]] \in {"running", "breaking"}
      <4>1. PICK q : q = handle[h][2]
        OBVIOUS
      <4>2. handle[h] \in {Free} \cup ({"vol", "dup"} \X Pid)
        BY DEF Inv, HandleTypes
      <4>3. q \in Pid
        BY <3>1, <4>1, <4>2 DEF Free
      <4>4. proc' = [proc EXCEPT ![q] = "exited"] /\ proc[q] \in {"running", "breaking"}
        BY <3>1, <4>1 DEF KillProcessWait
      <4> QED
        BY <2>1, <4>3, <4>4
    <3>2. CASE ~(handle[h][1] = "dup" /\ proc[handle[h][2]] \in {"running", "breaking"})
      BY <2>1, <3>2 DEF KillProcessWait
    <3> QED
      BY <3>1, <3>2
  <2> QED
    BY <1>1, <2>1, <2>2, InstFrame
<1>6. ListOK'
  BY <1>1, ListFrame DEF Inv
<1> QED
  BY <1>2, <1>3, <1>4, <1>5, <1>6 DEF Inv

LEMMA TerminatedKeeps ==
  ASSUME Inv, NEW p \in Pid, Terminated(p)
  PROVE  Inv'
<1>1. UNCHANGED <<svc, SvcEvent, registry, main, srv, lock, pipeVars>>
  BY DEF Terminated
<1>2. PipeTypes' /\ Seen' /\ MainOK' /\ RegistryOK'
  BY <1>1, PipeFrame, SeenFrame, MainFrame DEF Inv, RegistryOK
<1>3. /\ InstOK' /\ ListOK' /\ HandleTypes'
      /\ SvcInstanceList' = SvcInstanceList \/ (~lock /\ SvcInstanceList' = SvcInstanceList \ {p})
  <2>1. CASE /\ cb[p] = "armed" /\ proc[p] = "exited"
             /\ CountDown(p)
             /\ cb' = [cb EXCEPT ![p] = IF IsLast(p) THEN "remove" ELSE "done"]
             /\ UNCHANGED <<SvcInstanceList, SvcInstanceEvent, procVars>>
    <3>1. CbReleases(p) /\ UNCHANGED <<proc, handle, timers, reclosed>>
      BY <1>1, <2>1 DEF CbReleases, procVars
    <3> QED
      BY <2>1, <3>1, CountDownKeeps DEF Inv, HandleTypes
  <2>2. CASE /\ cb[p] = "remove"
             /\ RemoveEntry(p)
             /\ cb' = [cb EXCEPT ![p] = "free"]
             /\ UNCHANGED procVars
    <3>1. CbRemoves(p) /\ UNCHANGED <<proc, handle, timers, reclosed>> /\ ~lock
      BY <1>1, <2>2 DEF CbRemoves, procVars, RemoveEntry
    <3> QED
      BY <2>2, <3>1, RemoveKeeps DEF Inv, HandleTypes
  <2>3. CASE cb[p] = "free" /\ FreeInstance(p)
    <3>1. CbFreed(p)
      BY <1>1, <2>3 DEF CbFreed
    <3>2. HandleTypes'
      BY <2>3, FreeHandleTypes DEF Inv
    <3> QED
      BY <2>3, <3>1, <3>2, FreeKeeps DEF Inv
  <2> QED
    BY <2>1, <2>2, <2>3 DEF Terminated
<1>4. SrvOK'
  BY <1>1, <1>3, SrvFrame DEF Inv
<1>5. ServiceOK'
  BY <1>1, <1>3 DEF Inv, ServiceOK
<1> QED
  BY <1>2, <1>3, <1>4, <1>5 DEF Inv

LEMMA ClientKeeps ==
  ASSUME Inv, NEW u \in User, ClientOpen(u) \/ ClientTransact(u) \/ ClientLeave(u)
  PROVE  Inv'
<1>1. UNCHANGED <<svc, SvcEvent, SvcInstanceList, SvcInstanceEvent, inst, proc, handle, timers, reclosed,
                  registry, main, srv, cb, lock>>
  BY DEF ClientOpen, ClientTransact, ClientLeave, listVars, procVars
<1>2. Seen' /\ MainOK' /\ SrvOK'
  BY <1>1, SeenFrame, MainFrame, SrvFrame DEF Inv
<1>3. RegistryOK' /\ ServiceOK' /\ HandleTypes'
  BY <1>1 DEF Inv, RegistryOK, ServiceOK, HandleTypes
<1>4. InstOK'
  BY <1>1, InstFrame DEF Inv, InstOK
<1>5. ListOK'
  BY <1>1, ListFrame DEF Inv
<1>6. PipeTypes'
  <2> USE DEF Inv, PipeTypes
  <2>1. CASE ClientOpen(u)
    BY <2>1 DEF ClientOpen
  <2>2. CASE ClientTransact(u)
    BY <2>2 DEF ClientTransact
  <2>3. CASE ClientLeave(u)
    BY <2>3 DEF ClientLeave
  <2> QED
    BY <2>1, <2>2, <2>3
<1> QED
  BY <1>2, <1>3, <1>4, <1>5, <1>6 DEF Inv

-----------------------------------------------------------------------------
(***************************************************************************)
(* Every step keeps the invariant: the thread that serves the pipe         *)
(***************************************************************************)

\* A step of the server that only it and the pipe notice.
LEMMA SrvMoves ==
  ASSUME Inv, srv' \in SrvState,
         srv.at \notin SrvActive \cup {"killing"}, srv'.at \notin SrvActive \cup {"killing"},
         srv'.at = "transact" => srv'.user \in User /\ srv'.cmd \in Command,
         srv.at # "off", srv'.at # "stopped",
         PipeTypes',
         UNCHANGED <<svc, SvcEvent, SvcInstanceList, SvcInstanceEvent, inst, proc, handle, timers, reclosed,
                     registry, main, cb, lock>>
  PROVE  Inv'
<1>1. Seen' /\ MainOK'
  BY SeenFrame, MainFrame DEF Inv
<1>2. RegistryOK' /\ ServiceOK' /\ HandleTypes'
  BY DEF Inv, RegistryOK, ServiceOK, HandleTypes
<1>3. SrvOK'
  BY DEF Inv, SrvOK, SrvActive
<1>4. InstOK'
  BY InstFrame DEF Inv, InstOK
<1>5. ListOK'
  BY ListFrame DEF Inv
<1> QED
  BY <1>1, <1>2, <1>3, <1>4, <1>5 DEF Inv

LEMMA DisconnectFits ==
  ASSUME PipeTypes, Disconnect
  PROVE  PipeTypes'
BY DEF PipeTypes, Disconnect

LEMMA SrvStopKeeps ==
  ASSUME Inv, SrvStop
  PROVE  Inv'
<1>1. srv' = [SrvIdle EXCEPT !.at = "stopAll"]
  BY DEF SrvStop
<1>2. srv' \in SrvState /\ srv'.at = "stopAll"
  BY <1>1, IdleFits DEF SrvState
<1>3. PipeTypes'
  BY PipeFrame DEF Inv, SrvStop
<1> QED
  BY <1>2, <1>3, SrvMoves DEF SrvStop, SrvActive, listVars, procVars

LEMMA SrvConnectKeeps ==
  ASSUME Inv, SrvConnect
  PROVE  Inv'
<1>1. srv \in SrvState /\ srv.at = "connect"
  BY DEF Inv, SrvOK, SrvConnect
<1>2. srv' = srv \/ srv' = [srv EXCEPT !.at = "read"]
  BY DEF SrvConnect
<1>3. srv' \in SrvState /\ srv'.at \in {"connect", "read"}
  BY <1>1, <1>2 DEF SrvState
<1>4. PipeTypes'
  BY DEF Inv, SrvConnect, PipeTypes
<1> QED
  BY <1>1, <1>3, <1>4, SrvMoves DEF SrvConnect, SrvActive, listVars, procVars

LEMMA SrvReadKeeps ==
  ASSUME Inv, SrvRead
  PROVE  Inv'
<1>1. srv \in SrvState /\ srv.at = "read" /\ PipeTypes
  BY DEF Inv, SrvOK, SrvRead
<1>2. /\ PipeTypes' /\ srv' \in SrvState
      /\ srv'.at \in {"transact", "connect", "stopAll"}
      /\ srv'.at = "transact" => srv'.user \in User /\ srv'.cmd \in Command
  <2>1. CASE /\ msg # NULL
             /\ srv' = [srv EXCEPT !.at = "transact", !.user = msg.user, !.cmd = msg.cmd]
             /\ msg' = NULL
             /\ UNCHANGED <<pipe, peer, client>>
    <3>1. msg.user \in User /\ msg.cmd \in Command
      BY <1>1, <2>1 DEF PipeTypes
    <3>2. PICK a : a = [srv EXCEPT !.at = "transact"]
      OBVIOUS
    <3>3. a \in SrvState /\ a.at = "transact"
      BY <1>1, <3>2 DEF SrvState
    <3>4. PICK b : b = [a EXCEPT !.user = msg.user]
      OBVIOUS
    <3>5. b \in SrvState /\ b.at = "transact" /\ b.user \in User
      BY <3>1, <3>3, <3>4 DEF SrvState
    <3>6. srv' = [b EXCEPT !.cmd = msg.cmd]
      BY <2>1, <3>2, <3>4
    <3>7. srv' \in SrvState /\ srv'.at = "transact" /\ srv'.user \in User /\ srv'.cmd \in Command
      BY <3>1, <3>5, <3>6 DEF SrvState
    <3> QED
      BY <1>1, <2>1, <3>7 DEF PipeTypes
  <2>2. CASE Disconnect /\ (Serve \/ srv' = [SrvIdle EXCEPT !.at = "stopAll"])
    <3>1. srv' \in SrvState /\ srv'.at \in {"connect", "stopAll"}
      BY <2>2, IdleFits DEF Serve, SrvState
    <3> QED
      BY <1>1, <2>2, <3>1, DisconnectFits
  <2> QED
    BY <2>1, <2>2 DEF SrvRead
<1> QED
  BY <1>1, <1>2, SrvMoves DEF SrvRead, SrvActive, listVars, procVars

LEMMA SrvWriteKeeps ==
  ASSUME Inv, SrvWrite
  PROVE  Inv'
<1>1. srv' \in SrvState /\ srv'.at = "connect"
  BY IdleFits DEF SrvWrite, Serve, SrvState
<1>2. PipeTypes'
  BY DisconnectFits DEF Inv, SrvWrite
<1> QED
  BY <1>1, <1>2, SrvMoves DEF SrvWrite, SrvActive, listVars, procVars

LEMMA TransactOtherKeeps ==
  ASSUME Inv, TransactOther
  PROVE  Inv'
<1>1. srv' \in SrvState /\ srv'.at = "write"
  BY IdleFits DEF TransactOther, Reply, SrvState
<1>2. PipeTypes'
  BY PipeFrame DEF Inv, TransactOther
<1> QED
  BY <1>1, <1>2, SrvMoves DEF TransactOther, SrvActive, listVars, procVars

LEMMA TransactStartKeeps ==
  ASSUME Inv, TransactStart
  PROVE  Inv'
<1>1. /\ srv \in SrvState /\ srv.at = "transact" /\ srv.user \in User /\ srv.cmd \in Command
      /\ srv.cmd.kind = "start"
      /\ UNCHANGED <<svc, SvcEvent, registry, main, lock, pipeVars>>
  BY DEF Inv, SrvOK, TransactStart
<1>2. CASE CreateFails /\ Reply
  <2>1. srv' \in SrvState /\ srv'.at = "write"
    BY <1>2, IdleFits DEF Reply, SrvState
  <2>2. PipeTypes'
    BY <1>1, PipeFrame DEF Inv
  <2> QED
    BY <1>1, <1>2, <2>1, <2>2, SrvMoves DEF CreateFails, SrvActive, listVars, procVars
<1>3. CASE \E p \in Pid :
             /\ Create(p, [name |-> srv.cmd.name, sd |-> UserRights(srv.user)])
             /\ srv' = [SrvIdle EXCEPT !.at = "persist", !.obj = p]
  <2>1. PICK p \in Pid :
             /\ Create(p, [name |-> srv.cmd.name, sd |-> UserRights(srv.user)])
             /\ srv' = [SrvIdle EXCEPT !.at = "persist", !.obj = p]
    BY <1>3
  <2>2. PICK e : e = [name |-> srv.cmd.name, sd |-> UserRights(srv.user)]
    OBVIOUS
  <2>3. e \in Entry
    <3>1. srv.cmd.name \in Name
      BY <1>1 DEF Command
    <3>2. UserRights(srv.user) \in SUBSET User
      BY <1>1, LauncherAssumption DEF UserRights
    <3> QED
      BY <2>2, <3>1, <3>2 DEF Entry
  <2>4. Create(p, e) /\ ~lock
    BY <2>1, <2>2 DEF Create
  <2>5. PICK a : a = [SrvIdle EXCEPT !.at = "persist"]
    OBVIOUS
  <2>6. a \in SrvState /\ a.at = "persist"
    BY <2>5, IdleFits DEF SrvState
  <2>7. srv' = [a EXCEPT !.obj = p]
    BY <2>1, <2>5
  <2>8. srv' \in SrvState /\ srv'.at = "persist" /\ srv'.obj = p
    BY <2>6, <2>7 DEF SrvState
  <2>9. SrvCreates(p)
    BY <1>1, <2>8 DEF SrvCreates, SrvActive
  <2>10. InstOK' /\ ListOK'
    BY <2>3, <2>4, <2>9, CreateKeeps DEF Inv
  <2>11. PipeTypes' /\ Seen' /\ MainOK' /\ RegistryOK'
    BY <1>1, PipeFrame, SeenFrame, MainFrame DEF Inv, RegistryOK
  <2>12. HandleTypes'
    BY <2>4 DEF Inv, HandleTypes, Create, CreateProcess
  <2>13. SrvOK'
    BY <1>1, <2>4, <2>8 DEF Inv, SrvOK
  <2>14. ServiceOK'
    BY <1>1, <2>8 DEF Inv, ServiceOK
  <2> QED
    BY <2>10, <2>11, <2>12, <2>13, <2>14 DEF Inv
<1> QED
  BY <1>2, <1>3 DEF TransactStart

\* What the starter has seen may be changed by the other thread.
LEMMA SeenFits ==
  ASSUME MainOK, NEW S \in SUBSET Name, main' = [main EXCEPT !.seen = S]
  PROVE  /\ MainOK'
         /\ main'.at = main.at /\ main'.J = main.J /\ main'.obj = main.obj /\ main'.seen = S
<1>1. /\ main \in MainState /\ main' \in MainState
      /\ main'.at = main.at /\ main'.J = main.J /\ main'.obj = main.obj /\ main'.seen = S
      /\ main'.entry = main.entry
  BY DEF MainOK, MainState
<1> QED
  BY <1>1 DEF MainOK

\* Entering a value into the registry and deleting one.
LEMMA SetPersistentKeeps ==
  ASSUME RegistryOK, MainOK, Seen, NEW e \in Entry, SetPersistent(e),
         main' = [main EXCEPT !.seen = @ \cup AddedPast(e.name)]
  PROVE  /\ RegistryOK' /\ MainOK' /\ Seen'
         /\ main'.at = main.at /\ main'.obj = main.obj
<1> DEFINE L == Len(registry)
<1>0. /\ MainOK'
      /\ main'.at = main.at /\ main'.J = main.J /\ main'.obj = main.obj
      /\ main'.seen = main.seen \cup AddedPast(e.name)
  <2>1. PICK S : S = main.seen \cup AddedPast(e.name)
    OBVIOUS
  <2>2. S \in SUBSET Name
    BY <2>1 DEF MainOK, MainState, AddedPast, Entry
  <2>3. main' = [main EXCEPT !.seen = S]
    BY <2>1
  <2> QED
    BY <2>1, <2>2, <2>3, SeenFits
<1>1. registry \in Seq(Entry) /\ L \in Nat /\ main.J \in Int
  BY DEF RegistryOK, MainOK, MainState
<1>2. \A i, j \in 1 .. L : registry[i].name = registry[j].name => i = j
  BY DEF RegistryOK
<1>3. CASE IndexOf(e.name) = {}
  <2>1. registry' = Append(registry, e)
    BY <1>3 DEF SetPersistent
  <2>2. /\ registry' \in Seq(Entry) /\ Len(registry') = L + 1 /\ registry'[L + 1] = e
        /\ \A i \in 1 .. L : registry'[i] = registry[i]
    BY <1>1, <2>1
  <2>3. \A i \in 1 .. L : registry[i].name # e.name
    BY <1>3 DEF IndexOf
  <2>4. RegistryOK'
    BY <1>1, <1>2, <2>2, <2>3 DEF RegistryOK
  <2>5. Passed(L + 1) => e.name \in main'.seen
    BY <1>0 DEF AddedPast
  <2>6. Seen'
    BY <1>0, <1>1, <2>2, <2>5 DEF Seen, Passed
  <2> QED
    BY <1>0, <2>4, <2>6
<1>4. CASE IndexOf(e.name) # {}
  <2>1. registry' = [i \in 1 .. L |-> IF registry[i].name = e.name THEN e ELSE registry[i]]
    BY <1>4 DEF SetPersistent
  <2>2. \A i \in 1 .. L : registry[i] \in Entry
    BY <1>1
  <2>3. registry' \in Seq(Entry) /\ Len(registry') = L
    BY <1>1, <2>1, <2>2
  <2>4. \A i \in 1 .. L : registry'[i].name = registry[i].name
    BY <2>1
  <2>5. RegistryOK'
    BY <1>2, <2>3, <2>4 DEF RegistryOK
  <2>6. Seen'
    BY <1>0, <2>3, <2>4 DEF Seen, Passed
  <2> QED
    BY <1>0, <2>5, <2>6
<1> QED
  BY <1>3, <1>4

LEMMA RemoveAtFits ==
  ASSUME NEW S, NEW s \in Seq(S), NEW i \in 1 .. Len(s)
  PROVE  /\ RemoveAt(s, i) \in Seq(S) /\ Len(RemoveAt(s, i)) = Len(s) - 1
         /\ \A j \in 1 .. Len(s) - 1 : RemoveAt(s, i)[j] = IF j < i THEN s[j] ELSE s[j + 1]
<1> DEFINE a == SubSeq(s, 1, i - 1)
           b == SubSeq(s, i + 1, Len(s))
<1>1. Len(s) \in Nat
  OBVIOUS
<1>2. a \in Seq(S) /\ Len(a) = i - 1 /\ \A j \in 1 .. i - 1 : a[j] = s[j]
  BY <1>1, SubSeqProperties
<1>3. b \in Seq(S) /\ Len(b) = Len(s) - i /\ \A j \in 1 .. Len(s) - i : b[j] = s[i + j]
  BY <1>1, SubSeqProperties
<1>4. RemoveAt(s, i) = a \o b
  BY DEF RemoveAt
<1>5. PICK c : c = RemoveAt(s, i)
  OBVIOUS
<1> HIDE DEF a, b
<1>6. /\ c \in Seq(S) /\ Len(c) = Len(a) + Len(b)
      /\ \A j \in 1 .. Len(a) + Len(b) : c[j] = IF j <= Len(a) THEN a[j] ELSE b[j - Len(a)]
  <2>1. a \in Seq(S) /\ b \in Seq(S) /\ c = a \o b
    BY <1>2, <1>3, <1>4, <1>5
  <2> QED
    BY ONLY <2>1, ConcatProperties
<1>7. Len(c) = Len(s) - 1
  BY <1>1, <1>2, <1>3, <1>6
<1>8. ASSUME NEW j \in 1 .. Len(s) - 1
      PROVE  c[j] = IF j < i THEN s[j] ELSE s[j + 1]
  <2>1. CASE j < i
    <3>1. j \in 1 .. i - 1 /\ j \in 1 .. Len(a) + Len(b) /\ j <= Len(a)
      BY <1>1, <1>2, <1>3, <2>1
    <3> QED
      BY <1>2, <1>6, <2>1, <3>1
  <2>2. CASE i <= j
    <3>1. /\ j - (i - 1) \in 1 .. Len(s) - i /\ i + (j - (i - 1)) = j + 1
          /\ j \in 1 .. Len(a) + Len(b) /\ ~(j <= Len(a)) /\ ~(j < i)
      BY <1>1, <1>2, <1>3, <2>2
    <3> QED
      BY <1>2, <1>3, <1>6, <3>1
  <2> QED
    BY <1>1, <2>1, <2>2
<1> QED
  BY <1>5, <1>6, <1>7, <1>8

LEMMA DeletePersistentKeeps ==
  ASSUME RegistryOK, MainOK, Seen, NEW n, DeletePersistent(n)
  PROVE  /\ RegistryOK' /\ MainOK' /\ Seen'
         /\ main'.at = main.at /\ main'.obj = main.obj
<1>1. CASE UNCHANGED <<registry, main>>
  BY <1>1, SeenFrame DEF RegistryOK, MainOK
<1>2. CASE \E i \in IndexOf(n) :
             /\ registry' = RemoveAt(registry, i)
             /\ main' = [main EXCEPT !.seen = (@ \ {n}) \cup PassedOver(i)]
  <2>1. PICK i \in 1 .. Len(registry) :
             /\ registry[i].name = n
             /\ registry' = RemoveAt(registry, i)
             /\ main' = [main EXCEPT !.seen = (@ \ {n}) \cup PassedOver(i)]
    BY <1>2 DEF IndexOf
  <2>2. registry \in Seq(Entry) /\ Len(registry) \in Nat
    BY DEF RegistryOK
  <2>3. /\ registry' \in Seq(Entry) /\ Len(registry') = Len(registry) - 1
        /\ \A j \in 1 .. Len(registry) - 1 :
             registry'[j] = IF j < i THEN registry[j] ELSE registry[j + 1]
    <3>1. PICK r : r = registry
      OBVIOUS
    <3>2. r \in Seq(Entry) /\ i \in 1 .. Len(r) /\ registry' = RemoveAt(r, i)
      BY <2>1, <2>2, <3>1
    <3> QED
      BY <3>1, <3>2, RemoveAtFits
  <2>4. RegistryOK'
    BY <2>2, <2>3, SMTT(30) DEF RegistryOK
  <2>5. /\ MainOK' /\ main'.at = main.at /\ main'.J = main.J /\ main'.obj = main.obj
        /\ main'.seen = (main.seen \ {n}) \cup PassedOver(i)
    <3>1. PICK S : S = (main.seen \ {n}) \cup PassedOver(i)
      OBVIOUS
    <3>2. \A k \in 2 .. Len(registry) : registry[k].name \in Name
      <4>1. \A k \in 2 .. Len(registry) : registry[k] \in Entry
        BY <2>2
      <4> QED
        BY <4>1 DEF Entry
    <3>3. S \in SUBSET Name
      BY <3>1, <3>2 DEF MainOK, MainState, PassedOver
    <3>4. main' = [main EXCEPT !.seen = S]
      BY <2>1, <3>1
    <3> QED
      BY <3>1, <3>3, <3>4, SeenFits
  <2>6. ASSUME main.at \notin {"off", "done"}, NEW j \in 1 .. Len(registry) - 1, Passed(j)
        PROVE  registry'[j].name \in main'.seen
    <3>1. main.J \in Int
      BY DEF MainOK, MainState
    <3>2. CASE j < i
      <4>1. j \in 1 .. Len(registry) /\ registry'[j] = registry[j]
        BY <2>2, <2>3, <3>2
      <4>2. registry[j].name \in main.seen /\ registry[j].name # n
        BY <2>1, <2>6, <3>2, <4>1 DEF Seen, RegistryOK
      <4> QED
        BY <2>5, <4>1, <4>2
    <3>3. CASE i <= j
      <4>1. PICK k : k = j + 1
        OBVIOUS
      <4>2. /\ k \in 2 .. Len(registry) /\ k \in 1 .. Len(registry) /\ k - 1 = j
            /\ registry'[j] = registry[k]
        BY <2>2, <2>3, <3>3, <4>1
      <4>3. registry[k].name # n
        BY <2>1, <3>3, <4>1, <4>2 DEF RegistryOK
      <4>4. CASE Passed(k)
        BY <2>5, <2>6, <4>2, <4>3, <4>4 DEF Seen
      <4>5. CASE ~Passed(k)
        <5>1. Passed(i)
          BY <2>6, <3>1, <3>3 DEF Passed
        <5>2. registry[k].name \in PassedOver(i)
          BY <2>6, <4>2, <4>5, <5>1 DEF PassedOver
        <5> QED
          BY <2>5, <4>2, <5>2
      <4> QED
        BY <4>4, <4>5
    <3> QED
      BY <2>2, <3>2, <3>3
  <2>7. Seen'
    BY <2>3, <2>5, <2>6 DEF Seen, Passed
  <2> QED
    BY <2>4, <2>5, <2>7
<1> QED
  BY <1>1, <1>2 DEF DeletePersistent

LEMMA SrvReleaseKeeps ==
  ASSUME Inv, SrvRelease
  PROVE  Inv'
<1>1. /\ srv \in SrvState /\ srv.at \in SrvActive /\ srv.obj \in Pid /\ ~lock
      /\ UNCHANGED <<svc, SvcEvent, lock, pipeVars>>
  BY DEF Inv, SrvOK, SrvRelease, SrvActive
<1>2. PICK p \in Pid : p = srv.obj
  BY <1>1
<1>3. PipeTypes'
  BY <1>1, PipeFrame DEF Inv
<1>4. SUFFICES /\ InstOK' /\ ListOK' /\ HandleTypes' /\ RegistryOK' /\ MainOK' /\ Seen'
               /\ main'.at = main.at
               /\ srv' \in SrvState /\ srv'.at \in SrvActive \cup {"write"}
               /\ srv'.at \in SrvActive => srv'.obj \in Pid
  <2>1. SrvOK'
    BY <1>1, <1>4 DEF Inv, SrvOK, SrvActive
  <2>2. ServiceOK'
    BY <1>1, <1>4 DEF Inv, ServiceOK, SrvActive
  <2> QED
    BY <1>3, <1>4, <2>1, <2>2 DEF Inv
<1>5. CASE /\ srv.at = "persist"
           /\ \/ /\ SetPersistent([name |-> inst[srv.obj].name, sd |-> inst[srv.obj].sd])
                 /\ main' = [main EXCEPT !.seen = @ \cup AddedPast(inst[srv.obj].name)]
              \/ UNCHANGED <<registry, main>>
           /\ srv' = [srv EXCEPT !.at = "release"]
           /\ UNCHANGED <<listVars, procVars, cb>>
  <2>1. srv' \in SrvState /\ srv'.at = "release" /\ srv'.obj = p
    BY <1>1, <1>2, <1>5 DEF SrvState
  <2>2. inst[p] # NULL /\ inst[p] \in Instance
    <3>1. SrvHolds(p) /\ Life(p)
      BY <1>2, <1>5 DEF Inv, InstOK, SrvHolds
    <3>2. inst[p] # NULL
      BY <3>1 DEF Life, None
    <3> QED
      BY <3>2, InstanceFits DEF Inv
  <2>3. PICK e : e = [name |-> inst[p].name, sd |-> inst[p].sd]
    OBVIOUS
  <2>4. e \in Entry /\ e.name = inst[p].name
    BY <2>2, <2>3 DEF Instance, Entry
  <2>5. RegistryOK' /\ MainOK' /\ Seen' /\ main'.at = main.at /\ main'.obj = main.obj
    <3>1. CASE UNCHANGED <<registry, main>>
      BY <1>1, <3>1, SeenFrame, MainFrame DEF Inv, RegistryOK
    <3>2. CASE /\ SetPersistent(e)
               /\ main' = [main EXCEPT !.seen = @ \cup AddedPast(e.name)]
      BY <1>1, <2>4, <3>2, SetPersistentKeeps DEF Inv
    <3> QED
      BY <1>2, <1>5, <2>3, <2>4, <3>1, <3>2
  <2>6. UNCHANGED <<SvcInstanceList, SvcInstanceEvent, inst, proc, handle, timers, reclosed, cb>>
    BY <1>5 DEF listVars, procVars
  <2>7. InstOK'
    <3>1. ASSUME NEW q \in Pid
          PROVE  Life(q)'
      <4>1. Life(q)
        BY DEF Inv, InstOK
      <4>2. /\ MainHolds(q)' <=> MainHolds(q)
            /\ MainFrees(q)' <=> MainFrees(q)
            /\ SrvHolds(q)' <=> SrvHolds(q)
            /\ SrvFrees(q)' <=> SrvFrees(q)
            /\ CbHolds(q)' <=> CbHolds(q)
            /\ CbFrees(q)' <=> CbFrees(q)
            /\ Removed(q)' <=> Removed(q)
        BY <1>1, <1>2, <1>5, <2>1, <2>5, <2>6
           DEF MainHolds, MainFrees, SrvHolds, SrvFrees, CbHolds, CbFrees, Removed
      <4> QED
        BY <2>6, <4>1, <4>2
           DEF Life, Both, CreatorLeft, CbLeft, CreatorFrees, CbIsFreeing, None
    <3> QED
      BY <2>6, <3>1 DEF Inv, InstOK
  <2>8. ListOK' /\ HandleTypes'
    BY <2>6, ListFrame DEF Inv, HandleTypes
  <2> QED
    BY <2>1, <2>5, <2>7, <2>8 DEF SrvActive
<1>6. CASE /\ srv.at = "release"
           /\ CountDown(srv.obj)
           /\ IF IsLast(srv.obj) THEN srv' = [srv EXCEPT !.at = "remove"] ELSE Reply
           /\ UNCHANGED <<SvcInstanceList, SvcInstanceEvent, procVars, registry, main, cb>>
  <2>1. CountDown(p) /\ UNCHANGED <<SvcInstanceList, SvcInstanceEvent, proc, handle, timers, reclosed, registry, main, cb>>
    BY <1>2, <1>6 DEF procVars
  <2>2. /\ srv' \in SrvState
        /\ IF IsLast(p) THEN srv'.at = "remove" /\ srv'.obj = p ELSE srv'.at = "write"
    <3>1. CASE IsLast(p)
      BY <1>1, <1>2, <1>6, <3>1 DEF SrvState
    <3>2. CASE ~IsLast(p)
      BY <1>2, <1>6, <3>2, IdleFits DEF SrvState, Reply
    <3> QED
      BY <3>1, <3>2
  <2>3. SrvReleases(p)
    BY <1>1, <1>2, <1>6, <2>1, <2>2 DEF SrvReleases, SrvActive
  <2>4. InstOK' /\ ListOK'
    BY <2>1, <2>3, CountDownKeeps DEF Inv
  <2>5. HandleTypes' /\ RegistryOK' /\ MainOK' /\ Seen'
    BY <2>1, SeenFrame, MainFrame DEF Inv, HandleTypes, RegistryOK
  <2> QED
    BY <2>1, <2>2, <2>4, <2>5 DEF SrvActive
<1>7. CASE /\ srv.at = "remove"
           /\ RemoveEntry(srv.obj)
           /\ srv' = [srv EXCEPT !.at = "free"]
           /\ UNCHANGED <<procVars, registry, main, cb>>
  <2>1. RemoveEntry(p) /\ UNCHANGED <<proc, handle, timers, reclosed, registry, main, cb>>
    BY <1>2, <1>7 DEF procVars
  <2>2. srv' \in SrvState /\ srv'.at = "free" /\ srv'.obj = p
    BY <1>1, <1>2, <1>7 DEF SrvState
  <2>3. SrvRemoves(p)
    BY <1>1, <1>2, <1>7, <2>1, <2>2 DEF SrvRemoves
  <2>4. InstOK' /\ ListOK'
    BY <2>1, <2>3, RemoveKeeps DEF Inv
  <2>5. HandleTypes' /\ RegistryOK' /\ MainOK' /\ Seen'
    BY <2>1, SeenFrame, MainFrame DEF Inv, HandleTypes, RegistryOK
  <2> QED
    BY <2>1, <2>2, <2>4, <2>5 DEF SrvActive
<1>8. CASE /\ srv.at = "free"
           /\ FreeInstance(srv.obj)
           /\ Reply
           /\ UNCHANGED <<registry, main>>
  <2>1. FreeInstance(p) /\ UNCHANGED <<registry, main>>
    BY <1>2, <1>8
  <2>2. srv' \in SrvState /\ srv'.at = "write"
    BY <1>8, IdleFits DEF SrvState, Reply
  <2>3. SrvFreed(p)
    BY <1>1, <1>2, <1>8, <2>2 DEF SrvFreed, SrvActive
  <2>4. InstOK' /\ ListOK'
    BY <2>1, <2>3, FreeKeeps DEF Inv
  <2>5. HandleTypes' /\ RegistryOK' /\ MainOK' /\ Seen'
    BY <2>1, SeenFrame, MainFrame, FreeHandleTypes DEF Inv, RegistryOK
  <2> QED
    BY <2>1, <2>2, <2>4, <2>5 DEF SrvActive
<1> QED
  BY <1>5, <1>6, <1>7, <1>8 DEF SrvRelease

LEMMA TransactStopKeeps ==
  ASSUME Inv, TransactStop
  PROVE  Inv'
<1>1. /\ srv \in SrvState /\ srv.at = "transact" /\ ~lock
      /\ UNCHANGED <<svc, SvcEvent, SvcInstanceList, SvcInstanceEvent, cb, lock, pipeVars>>
  BY DEF Inv, SrvOK, TransactStop
<1>2. srv' \in SrvState /\ srv'.at = "write"
  BY IdleFits DEF TransactStop, Reply, SrvState
<1>3. CASE UNCHANGED <<inst, procVars, registry, main>>
  <2>1. PipeTypes'
    BY <1>1, PipeFrame DEF Inv
  <2> QED
    BY <1>1, <1>2, <1>3, <2>1, SrvMoves DEF SrvActive, procVars
<1>4. CASE \E p \in Lookup(srv.cmd.name) :
             /\ AccessCheck(srv.user, p)
             /\ \/ KillUnused(p) /\ (DeletePersistent(inst[p].name) \/ UNCHANGED <<registry, main>>)
                \/ KillInUse(p, srv.cmd.kind = "stopForced") /\ UNCHANGED <<registry, main>>
  <2>1. PICK p \in SvcInstanceList :
             \/ KillUnused(p) /\ (DeletePersistent(inst[p].name) \/ UNCHANGED <<registry, main>>)
             \/ KillInUse(p, srv.cmd.kind = "stopForced") /\ UNCHANGED <<registry, main>>
    BY <1>4 DEF Lookup
  <2>2. PICK f : f = (srv.cmd.kind = "stopForced")
    OBVIOUS
  <2>3. KillUnused(p) \/ KillInUse(p, f)
    BY <2>1, <2>2
  <2>4. /\ HandleTypes'
        /\ inst' \in [Pid -> Instance \cup {NULL}]
        /\ \A q \in Pid : /\ inst'[q] = NULL <=> inst[q] = NULL
                          /\ inst[q] # NULL => /\ inst'[q].RefCount = inst[q].RefCount
                                               /\ inst'[q].name = inst[q].name
        /\ proc' \in [Pid -> ProcState]
        /\ \A q \in Pid : /\ proc'[q] \in Unknown <=> proc[q] \in Unknown
                          /\ proc[q] = "exited" => proc'[q] = "exited"
    BY <2>3, KillFits DEF Inv
  <2>5. /\ RegistryOK' /\ MainOK' /\ Seen'
        /\ main'.at = main.at /\ main'.obj = main.obj
    <3>1. CASE UNCHANGED <<registry, main>>
      BY <3>1, SeenFrame DEF Inv, RegistryOK, MainOK
    <3>2. CASE DeletePersistent(inst[p].name)
      <4>1. PICK n : n = inst[p].name
        OBVIOUS
      <4> QED
        BY <3>2, <4>1, DeletePersistentKeeps DEF Inv
    <3> QED
      BY <2>1, <3>1, <3>2
  <2>6. InstOK'
    BY <1>1, <1>2, <2>4, <2>5, InstFrame DEF Inv, SrvActive
  <2>7. ListOK'
    BY <1>1, <2>4, ListFrame DEF Inv
  <2>8. PipeTypes'
    BY <1>1, PipeFrame DEF Inv
  <2>9. SrvOK'
    BY <1>1, <1>2 DEF Inv, SrvOK
  <2>10. ServiceOK'
    BY <1>1, <1>2, <2>5 DEF Inv, ServiceOK
  <2> QED
    BY <2>4, <2>5, <2>6, <2>7, <2>8, <2>9, <2>10 DEF Inv
<1> QED
  BY <1>3, <1>4 DEF TransactStop

LEMMA StopAllKeeps ==
  ASSUME Inv, StopAll
  PROVE  Inv'
<1>1. /\ srv \in SrvState /\ srv.at \in {"stopAll", "killing"}
      /\ UNCHANGED <<svc, SvcEvent, SvcInstanceList, SvcInstanceEvent, registry, main, cb, pipeVars>>
  BY DEF Inv, SrvOK, StopAll
<1>2. PipeTypes' /\ MainOK' /\ Seen' /\ RegistryOK'
  BY <1>1, PipeFrame, MainFrame, SeenFrame DEF Inv, RegistryOK
<1>3. /\ SrvOK' /\ srv'.at \in {"killing", "wait"}
      /\ HandleTypes'
      /\ inst' \in [Pid -> Instance \cup {NULL}]
      /\ \A q \in Pid : /\ inst'[q] = NULL <=> inst[q] = NULL
                        /\ inst[q] # NULL => /\ inst'[q].RefCount = inst[q].RefCount
                                             /\ inst'[q].name = inst[q].name
      /\ proc' \in [Pid -> ProcState]
      /\ \A q \in Pid : /\ proc'[q] \in Unknown <=> proc[q] \in Unknown
                        /\ proc[q] = "exited" => proc'[q] = "exited"
  <2>1. CASE /\ srv.at = "stopAll"
             /\ lock' = TRUE
             /\ srv' = [srv EXCEPT !.at = "killing", !.todo = SvcInstanceList]
             /\ UNCHANGED <<inst, procVars>>
    <3>1. PICK a : a = [srv EXCEPT !.at = "killing"]
      OBVIOUS
    <3>2. a \in SrvState /\ a.at = "killing"
      BY <1>1, <3>1 DEF SrvState
    <3>3. srv' = [a EXCEPT !.todo = SvcInstanceList]
      BY <2>1, <3>1
    <3>4. SvcInstanceList \in SUBSET Pid
      BY DEF Inv, InstOK
    <3>5. srv' \in SrvState /\ srv'.at = "killing" /\ srv'.todo = SvcInstanceList
      BY <3>2, <3>3, <3>4 DEF SrvState
    <3>6. SrvOK'
      BY <1>1, <2>1, <3>5 DEF SrvOK
    <3> QED
      BY <2>1, <3>5, <3>6 DEF Inv, InstOK, HandleTypes, procVars
  <2>2. CASE /\ srv.at = "killing"
             /\ \E p \in srv.todo :
                  /\ KillUnused(p) \/ KillInUse(p, TRUE)
                  /\ srv' = [srv EXCEPT !.todo = @ \ {p}]
             /\ UNCHANGED lock
    <3>1. PICK p \in srv.todo :
                  /\ KillUnused(p) \/ KillInUse(p, TRUE)
                  /\ srv' = [srv EXCEPT !.todo = @ \ {p}]
      BY <2>2
    <3>2. lock /\ p \in SvcInstanceList /\ srv.todo \subseteq SvcInstanceList
      BY <2>2, <3>1 DEF Inv, SrvOK
    <3>3. PICK f : f = TRUE
      OBVIOUS
    <3>4. srv' \in SrvState /\ srv'.at = "killing" /\ srv'.todo = srv.todo \ {p}
      BY <1>1, <2>2, <3>1 DEF SrvState
    <3>5. SrvOK'
      BY <1>1, <2>2, <3>2, <3>4 DEF Inv, SrvOK
    <3> QED
      BY <3>1, <3>2, <3>3, <3>4, <3>5, KillFits DEF Inv
  <2>3. CASE /\ srv.at = "killing" /\ srv.todo = {}
             /\ lock' = FALSE
             /\ srv' = [srv EXCEPT !.at = "wait"]
             /\ UNCHANGED <<inst, procVars>>
    <3>1. srv' \in SrvState /\ srv'.at = "wait"
      BY <1>1, <2>3 DEF SrvState
    <3>2. SrvOK'
      BY <2>3, <3>1 DEF SrvOK
    <3> QED
      BY <2>3, <3>1, <3>2 DEF Inv, InstOK, HandleTypes, procVars
  <2> QED
    BY <2>1, <2>2, <2>3 DEF StopAll
<1>4. InstOK'
  BY <1>1, <1>3, InstFrame DEF Inv, SrvActive
<1>5. ListOK'
  BY <1>1, <1>3, ListFrame DEF Inv
<1>6. ServiceOK'
  BY <1>1, <1>3 DEF Inv, ServiceOK
<1> QED
  BY <1>2, <1>3, <1>4, <1>5, <1>6 DEF Inv

LEMMA StoppedKeeps ==
  ASSUME Inv, Stopped
  PROVE  Inv'
<1>1. /\ srv \in SrvState /\ srv.at = "wait" /\ ~lock /\ svc' = "stopped"
      /\ UNCHANGED <<SvcEvent, SvcInstanceList, SvcInstanceEvent, inst, proc, handle, timers, reclosed,
                     registry, main, cb, lock, pipeVars>>
  BY DEF Inv, SrvOK, Stopped, listVars, procVars
<1>2. /\ srv' \in SrvState /\ srv'.at \in {"stopped", "timedOut"}
      /\ srv'.at = "stopped" => SvcInstanceEvent
  BY <1>1 DEF Stopped, SrvState
<1>3. PipeTypes' /\ MainOK' /\ Seen' /\ RegistryOK' /\ HandleTypes'
  BY <1>1, PipeFrame, MainFrame, SeenFrame DEF Inv, RegistryOK, HandleTypes
<1>4. SrvOK'
  BY <1>1, <1>2 DEF Inv, SrvOK
<1>5. InstOK'
  BY <1>1, <1>2, InstFrame DEF Inv, InstOK, SrvActive
<1>6. ListOK'
  BY <1>1, ListFrame DEF Inv
<1>7. ServiceOK'
  BY <1>1, <1>2 DEF Inv, ServiceOK, ListOK
<1> QED
  BY <1>3, <1>4, <1>5, <1>6, <1>7 DEF Inv

-----------------------------------------------------------------------------
(***************************************************************************)
(* Every step keeps the invariant: the thread that starts the service      *)
(***************************************************************************)

\* What is left of the invariant when only the starter and its instances move.
LEMMA StarterMoves ==
  ASSUME Inv, MainOK', Seen', InstOK', ListOK', HandleTypes',
         main.at # "off",
         UNCHANGED <<SvcEvent, registry, srv, lock, pipeVars>>,
         \/ main.at # "done" /\ main'.at # "done" /\ UNCHANGED svc
         \/ main'.at = "done" /\ svc' = "running",
         UNCHANGED SvcInstanceList \/ ~lock
  PROVE  Inv'
<1>1. PipeTypes' /\ RegistryOK'
  BY PipeFrame DEF Inv, RegistryOK
<1>2. SrvOK'
  BY SrvFrame DEF Inv
<1>3. ServiceOK'
  <2>1. svc # "off"
    BY DEF Inv, ServiceOK
  <2> QED
    BY <2>1 DEF Inv, ServiceOK
<1> QED
  BY <1>1, <1>2, <1>3 DEF Inv

\* The name of the value at the starter's index is added to those it has seen.
LEMMA SeenValue ==
  ASSUME RegistryOK, MainOK, Seen, main.at = "enum", main.J <= Len(registry),
         NEW e, e = registry[main.J], UNCHANGED registry,
         main'.seen = main.seen \cup {e.name},
         \/ main'.at = "enum" /\ main'.J = main.J + 1
         \/ main'.at = "create" /\ main'.J = main.J,
         e \in Entry
  PROVE  Seen'
<1>1. Len(registry) \in Nat /\ main.J \in Nat /\ main.seen \subseteq Name /\ e.name \in Name
  BY RegistryBound DEF MainOK, MainState, Entry
<1>2. \A i \in 1 .. Len(registry) : Passed(i) => registry[i].name \in main.seen
  BY DEF Seen
<1>3. \A i \in 1 .. Len(registry) : Passed(i)' => Passed(i) \/ i = main.J
  BY <1>1 DEF Passed
<1>4. \A i \in 1 .. Len(registry) : Passed(i)' => registry[i].name \in main'.seen
  BY <1>1, <1>2, <1>3
<1> QED
  BY <1>4 DEF Seen

\* When the starter has done with a value it goes on to the next.
LEMMA SeenNext ==
  ASSUME RegistryOK, MainOK, Seen, main.at \in {"create", "release", "remove", "free"},
         main'.at = "enum", main'.J = main.J + 1, main'.seen = main.seen, UNCHANGED registry
  PROVE  Seen'
<1>1. Len(registry) \in Nat /\ main.J \in Nat
  BY RegistryBound DEF MainOK, MainState
<1>2. \A i \in 1 .. Len(registry) : Passed(i)' => Passed(i)
  BY <1>1 DEF Passed
<1> QED
  BY <1>2 DEF Seen

\* Until then what it has seen stays.
LEMMA SeenSame ==
  ASSUME Seen, main.at \notin {"enum", "off", "done"}, main'.at # "enum",
         main'.J = main.J, main'.seen = main.seen, UNCHANGED registry
  PROVE  Seen'
BY DEF Seen, Passed

LEMMA EnumValueKeeps ==
  ASSUME Inv, EnumValue
  PROVE  Inv'
<1>1. /\ main \in MainState /\ main.at = "enum"
      /\ UNCHANGED <<SvcEvent, SvcInstanceList, SvcInstanceEvent, inst, proc, handle, timers, reclosed,
                     registry, srv, cb, lock, pipeVars>>
  BY DEF Inv, MainOK, EnumValue, listVars, procVars
<1>2. ListOK' /\ HandleTypes'
  BY <1>1, ListFrame DEF Inv, HandleTypes
<1>3. CASE main.J <= Len(registry) /\ Readable(registry[main.J])
  <2>1. PICK e : e = registry[main.J]
    OBVIOUS
  <2>2. PICK m : m = [main EXCEPT !.seen = @ \cup {e.name}]
    OBVIOUS
  <2>3. /\ main' = IF e.name \in NoArgs THEN [m EXCEPT !.J = @ + 1]
                   ELSE [m EXCEPT !.at = "create", !.entry = e]
        /\ UNCHANGED svc
    BY <1>3, <2>1, <2>2 DEF EnumValue
  <2>4. e \in Entry /\ e.name \in Name /\ main.J + 1 \in 0 .. Cardinality(Name) + 1
        /\ main.J <= Cardinality(Name)
    <3>1. /\ registry \in Seq(Entry) /\ Len(registry) \in Nat /\ Len(registry) <= Cardinality(Name)
          /\ Cardinality(Name) \in Nat
      BY RegistryBound, LauncherAssumption, FS_CardinalityType DEF Inv, RegistryOK
    <3>2. main.J \in Nat /\ main.J >= 1
      BY <1>1 DEF Inv, MainOK, MainState
    <3>3. e \in Entry
      BY <1>3, <2>1, <3>1, <3>2
    <3> QED
      BY <1>3, <3>1, <3>2, <3>3 DEF Entry
  <2>5. m \in MainState /\ m.at = "enum" /\ m.J = main.J /\ m.seen = main.seen \cup {e.name}
    BY <1>1, <2>2, <2>4 DEF MainState
  <2>6. CASE e.name \in NoArgs
    <3>1. main' = [m EXCEPT !.J = @ + 1]
      BY <2>3, <2>6
    <3>2. /\ main' \in MainState /\ main'.at = "enum" /\ main'.J = main.J + 1
          /\ main'.seen = main.seen \cup {e.name}
      BY <2>4, <2>5, <3>1 DEF MainState
    <3>3. Seen'
      BY <1>1, <1>3, <2>1, <2>4, <3>2, SeenValue DEF Inv
    <3>4. MainOK'
      BY <1>1, <2>4, <3>2 DEF Inv, MainOK, MainState
    <3>5. InstOK'
      BY <1>1, <3>2, InstFrame DEF Inv, InstOK, MainActive
    <3> QED
      BY <1>1, <1>2, <2>3, <3>2, <3>3, <3>4, <3>5, StarterMoves
  <2>7. CASE e.name \notin NoArgs
    <3>1. PICK a : a = [m EXCEPT !.at = "create"]
      OBVIOUS
    <3>2. a \in MainState /\ a.at = "create" /\ a.J = main.J /\ a.seen = main.seen \cup {e.name}
      BY <2>5, <3>1 DEF MainState
    <3>3. main' = [a EXCEPT !.entry = e]
      BY <2>3, <2>7, <3>1
    <3>4. /\ main' \in MainState /\ main'.at = "create" /\ main'.J = main.J /\ main'.entry = e
          /\ main'.seen = main.seen \cup {e.name}
      BY <2>4, <3>2, <3>3 DEF MainState
    <3>5. Seen'
      BY <1>1, <1>3, <2>1, <2>4, <3>4, SeenValue DEF Inv
    <3>6. MainOK'
      BY <1>1, <2>4, <3>4 DEF Inv, MainOK
    <3>7. InstOK'
      BY <1>1, <3>4, InstFrame DEF Inv, InstOK, MainActive
    <3> QED
      BY <1>1, <1>2, <2>3, <3>4, <3>5, <3>6, <3>7, StarterMoves
  <2> QED
    BY <2>6, <2>7
<1>4. CASE ~(main.J <= Len(registry) /\ Readable(registry[main.J]))
  <2>1. main' = [MainIdle EXCEPT !.at = "done"] /\ svc' = "running"
    BY <1>4 DEF EnumValue, SvcEntry
  <2>2. main' \in MainState /\ main'.at = "done"
    BY <2>1, IdleFits DEF MainState
  <2>3. MainOK' /\ Seen'
    BY <2>2 DEF MainOK, Seen
  <2>4. InstOK'
    BY <1>1, <2>2, InstFrame DEF Inv, InstOK, MainActive
  <2> QED
    BY <1>1, <1>2, <2>1, <2>2, <2>3, <2>4, StarterMoves
<1> QED
  BY <1>3, <1>4

\* The next index, after an instance or after none.
LEMMA NextIndex ==
  ASSUME MainOK, main.at \in {"create", "release", "remove", "free"},
         NEW o \in Pid \cup {NULL}, NEW m,
         m = [main EXCEPT !.at = "enum", !.J = @ + 1, !.entry = NULL, !.obj = o]
  PROVE  m \in MainState /\ m.at = "enum" /\ m.J = main.J + 1 /\ m.seen = main.seen
<1>1. main \in MainState /\ main.J + 1 \in 0 .. Cardinality(Name) + 1
  <2>1. Cardinality(Name) \in Nat
    BY LauncherAssumption, FS_CardinalityType
  <2> QED
    BY <2>1 DEF MainOK, MainState
<1>2. PICK a : a = [main EXCEPT !.at = "enum"]
  OBVIOUS
<1>3. a \in MainState /\ a.at = "enum" /\ a.J = main.J /\ a.seen = main.seen
  BY <1>1, <1>2 DEF MainState
<1>4. PICK b : b = [a EXCEPT !.J = main.J + 1]
  OBVIOUS
<1>5. b \in MainState /\ b.at = "enum" /\ b.J = main.J + 1 /\ b.seen = main.seen
  BY <1>1, <1>3, <1>4 DEF MainState
<1>6. PICK c : c = [b EXCEPT !.entry = NULL]
  OBVIOUS
<1>7. c \in MainState /\ c.at = "enum" /\ c.J = main.J + 1 /\ c.seen = main.seen
  BY <1>5, <1>6 DEF MainState
<1>8. m = [c EXCEPT !.obj = o]
  BY <1>1, <1>2, <1>4, <1>6 DEF MainState
<1> QED
  BY <1>7, <1>8 DEF MainState

LEMMA MainStepKeeps ==
  ASSUME Inv, MainStep
  PROVE  Inv'
<1>1. /\ main \in MainState /\ main.at \in {"create", "release", "remove", "free"}
      /\ UNCHANGED <<svc, SvcEvent, registry, srv, lock, pipeVars>>
      /\ main.J >= 1 /\ main.J <= Cardinality(Name) /\ main.J \in Nat
  <2>1. /\ main.at \in {"create", "release", "remove", "free"}
        /\ UNCHANGED <<svc, SvcEvent, registry, srv, lock, pipeVars>>
    BY DEF MainStep
  <2> QED
    BY <2>1 DEF Inv, MainOK, MainState
<1>2. CASE /\ main.at = "create"
           /\ \E p \in Pid : /\ Create(p, main.entry)
                             /\ main' = [main EXCEPT !.at = "release", !.obj = p]
  <2>1. PICK p \in Pid : /\ Create(p, main.entry)
                         /\ main' = [main EXCEPT !.at = "release", !.obj = p]
    BY <1>2
  <2>2. PICK e : e = main.entry
    OBVIOUS
  <2>3. e \in Entry /\ Create(p, e) /\ ~lock
    BY <1>2, <2>1, <2>2 DEF Inv, MainOK, Create
  <2>4. PICK a : a = [main EXCEPT !.at = "release"]
    OBVIOUS
  <2>5. a \in MainState /\ a.at = "release" /\ a.J = main.J /\ a.seen = main.seen
    BY <1>1, <2>4 DEF MainState
  <2>6. main' = [a EXCEPT !.obj = p]
    BY <2>1, <2>4
  <2>7. /\ main' \in MainState /\ main'.at = "release" /\ main'.obj = p
        /\ main'.J = main.J /\ main'.seen = main.seen
    BY <2>5, <2>6 DEF MainState
  <2>8. MainCreates(p)
    BY <1>1, <1>2, <2>7 DEF MainCreates, MainActive
  <2>9. InstOK' /\ ListOK'
    BY <2>3, <2>8, CreateKeeps DEF Inv
  <2>10. HandleTypes'
    BY <2>3 DEF Inv, HandleTypes, Create, CreateProcess
  <2>11. MainOK'
    BY <1>1, <2>7 DEF MainOK
  <2>12. Seen'
    BY <1>1, <1>2, <2>7, SeenSame DEF Inv
  <2> QED
    BY <1>1, <1>2, <2>3, <2>7, <2>9, <2>10, <2>11, <2>12, StarterMoves
<1>3. CASE main.at = "create" /\ CreateFails /\ main' = AfterError
  <2>1. PICK o \in Pid \cup {NULL} : o = main.obj
    BY <1>1 DEF MainState
  <2>2. main' = [main EXCEPT !.at = "enum", !.J = @ + 1, !.entry = NULL, !.obj = o]
    BY <1>1, <1>3, <2>1 DEF AfterError, MainState
  <2>3. main' \in MainState /\ main'.at = "enum" /\ main'.J = main.J + 1 /\ main'.seen = main.seen
    <3>1. PICK m : m = main'
      OBVIOUS
    <3> QED
      BY <1>3, <2>2, <3>1, NextIndex DEF Inv
  <2>4. UNCHANGED <<SvcInstanceList, SvcInstanceEvent, inst, proc, handle, timers, reclosed, cb>>
    BY <1>3 DEF CreateFails, listVars, procVars
  <2>5. InstOK'
    BY <1>1, <1>3, <2>3, <2>4, InstFrame DEF Inv, InstOK, MainActive
  <2>6. ListOK' /\ HandleTypes'
    BY <2>4, ListFrame DEF Inv, HandleTypes
  <2>7. MainOK'
    BY <1>1, <2>3 DEF MainOK
  <2>8. Seen'
    BY <1>1, <2>3, SeenNext DEF Inv
  <2> QED
    BY <1>1, <1>3, <2>3, <2>4, <2>5, <2>6, <2>7, <2>8, StarterMoves
<1>4. CASE /\ main.at = "release"
           /\ CountDown(main.obj)
           /\ main' = IF IsLast(main.obj) THEN [main EXCEPT !.at = "remove"] ELSE NextValue
           /\ UNCHANGED <<SvcInstanceList, SvcInstanceEvent, procVars, cb>>
  <2>1. PICK p \in Pid : p = main.obj
    BY <1>4 DEF Inv, MainOK
  <2>2. CountDown(p) /\ UNCHANGED <<SvcInstanceList, SvcInstanceEvent, proc, handle, timers, reclosed, cb>>
    BY <1>4, <2>1 DEF procVars
  <2>3. /\ main' \in MainState /\ main'.seen = main.seen
        /\ IF IsLast(p) THEN main'.at = "remove" /\ main'.obj = p /\ main'.J = main.J
           ELSE main'.at = "enum" /\ main'.J = main.J + 1
    <3>1. CASE IsLast(p)
      BY <1>1, <1>4, <2>1, <3>1 DEF MainState
    <3>2. CASE ~IsLast(p)
      <4>1. PICK m : m = main'
        OBVIOUS
      <4>2. m = [main EXCEPT !.at = "enum", !.J = @ + 1, !.entry = NULL, !.obj = NULL]
        BY <1>4, <2>1, <3>2, <4>1 DEF NextValue
      <4>3. m \in MainState /\ m.at = "enum" /\ m.J = main.J + 1 /\ m.seen = main.seen
        BY <1>4, <4>2, NextIndex DEF Inv
      <4> QED
        BY <3>2, <4>1, <4>3
    <3> QED
      BY <3>1, <3>2
  <2>4. MainReleases(p)
    BY <1>1, <1>4, <2>1, <2>2, <2>3 DEF MainReleases, MainActive
  <2>5. InstOK' /\ ListOK'
    BY <2>2, <2>4, CountDownKeeps DEF Inv
  <2>6. HandleTypes'
    BY <2>2 DEF Inv, HandleTypes
  <2>7. MainOK'
    BY <1>1, <2>3 DEF MainOK
  <2>8. Seen'
    <3>1. CASE IsLast(p)
      BY <1>1, <1>4, <2>3, <3>1, SeenSame DEF Inv
    <3>2. CASE ~IsLast(p)
      BY <1>1, <2>3, <3>2, SeenNext DEF Inv
    <3> QED
      BY <3>1, <3>2
  <2> QED
    BY <1>1, <1>4, <2>2, <2>3, <2>5, <2>6, <2>7, <2>8, StarterMoves
<1>5. CASE /\ main.at = "remove"
           /\ RemoveEntry(main.obj)
           /\ main' = [main EXCEPT !.at = "free"]
           /\ UNCHANGED <<procVars, cb>>
  <2>1. PICK p \in Pid : p = main.obj
    BY <1>5 DEF Inv, MainOK
  <2>2. RemoveEntry(p) /\ ~lock /\ UNCHANGED <<proc, handle, timers, reclosed, cb>>
    BY <1>5, <2>1 DEF procVars, RemoveEntry
  <2>3. /\ main' \in MainState /\ main'.seen = main.seen /\ main'.at = "free" /\ main'.obj = p
        /\ main'.J = main.J
    BY <1>1, <1>5, <2>1 DEF MainState
  <2>4. MainRemoves(p)
    BY <1>1, <1>5, <2>1, <2>2, <2>3 DEF MainRemoves
  <2>5. InstOK' /\ ListOK'
    BY <2>2, <2>4, RemoveKeeps DEF Inv
  <2>6. HandleTypes'
    BY <2>2 DEF Inv, HandleTypes
  <2>7. MainOK'
    BY <1>1, <2>3 DEF MainOK
  <2>8. Seen'
    BY <1>1, <1>5, <2>3, SeenSame DEF Inv
  <2> QED
    BY <1>1, <1>5, <2>2, <2>3, <2>5, <2>6, <2>7, <2>8, StarterMoves
<1>6. CASE /\ main.at = "free"
           /\ FreeInstance(main.obj)
           /\ main' = NextValue
  <2>1. PICK p \in Pid : p = main.obj
    BY <1>6 DEF Inv, MainOK
  <2>2. FreeInstance(p) /\ UNCHANGED SvcInstanceList
    BY <1>6, <2>1 DEF FreeInstance
  <2>3. main' \in MainState /\ main'.seen = main.seen /\ main'.at = "enum" /\ main'.J = main.J + 1
    <3>1. PICK m : m = main'
      OBVIOUS
    <3>2. m = [main EXCEPT !.at = "enum", !.J = @ + 1, !.entry = NULL, !.obj = NULL]
      BY <1>6, <3>1 DEF NextValue
    <3> QED
      <4>1. m \in MainState /\ m.at = "enum" /\ m.J = main.J + 1 /\ m.seen = main.seen
        BY <1>6, <3>2, NextIndex DEF Inv
      <4> QED
        BY <3>1, <4>1
  <2>4. MainFreed(p)
    BY <1>1, <1>6, <2>1, <2>3 DEF MainFreed, MainActive
  <2>5. InstOK' /\ ListOK'
    BY <2>2, <2>4, FreeKeeps DEF Inv
  <2>6. HandleTypes'
    BY <2>2, FreeHandleTypes DEF Inv
  <2>7. MainOK'
    BY <1>1, <2>3 DEF MainOK
  <2>8. Seen'
    BY <1>1, <2>3, SeenNext DEF Inv
  <2> QED
    BY <1>1, <1>6, <2>2, <2>3, <2>5, <2>6, <2>7, <2>8, StarterMoves
<1> QED
  BY <1>2, <1>3, <1>4, <1>5, <1>6 DEF MainStep

-----------------------------------------------------------------------------
(***************************************************************************)
(* The theorems                                                            *)
(***************************************************************************)

LEMMA InitHolds == Init => Inv
<1> SUFFICES ASSUME Init
             PROVE  Inv
  OBVIOUS
<1>1. Rest
  BY DEF Init, Rest
<1>2. RegistryOK
  BY DEF Init, RegistryOK
<1> QED
  BY <1>1, <1>2, AtRest

LEMMA NextKeeps == Inv /\ [Next]_vars => Inv'
<1> SUFFICES ASSUME Inv, [Next]_vars
             PROVE  Inv'
  OBVIOUS
<1>1. CASE UNCHANGED vars
  <2> USE <1>1 DEF vars, listVars, procVars
  <2>1. PipeTypes' /\ Seen' /\ MainOK' /\ SrvOK'
    BY PipeFrame, SeenFrame, MainFrame, SrvFrame DEF Inv
  <2>2. RegistryOK' /\ HandleTypes' /\ ServiceOK'
    BY DEF Inv, RegistryOK, HandleTypes, ServiceOK
  <2>3. InstOK'
    BY InstFrame DEF Inv, InstOK
  <2>4. ListOK'
    BY ListFrame DEF Inv
  <2> QED
    BY <2>1, <2>2, <2>3, <2>4 DEF Inv
<1>2. CASE StartFails \/ StartService \/ Control
  BY <1>2, StartFailsKeeps, StartServiceKeeps, ControlKeeps
<1>3. CASE StarterStep
  BY <1>3, EnumValueKeeps, MainStepKeeps DEF StarterStep
<1>4. CASE ServerStep
  BY <1>4, SrvStopKeeps, SrvConnectKeeps, SrvReadKeeps, TransactStartKeeps, TransactStopKeeps,
     TransactOtherKeeps, SrvReleaseKeeps, SrvWriteKeeps, StopAllKeeps, StoppedKeeps
     DEF ServerStep, SvcPipeTransact
<1>5. CASE ProcessEnd \/ SystemRestart
  BY <1>5, EndKeeps DEF ProcessEnd, SystemRestart
<1>6. CASE \E p \in Pid : Exit(p) \/ Terminated(p)
  BY <1>6, ExitKeeps, TerminatedKeeps
<1>7. CASE \E p \in Pid, h \in Handle : KillProcessWait(p, h)
  BY <1>7, KillProcessWaitKeeps
<1>8. CASE \E u \in User : ClientOpen(u) \/ ClientTransact(u) \/ ClientLeave(u)
  BY <1>8, ClientKeeps
<1> QED
  BY <1>1, <1>2, <1>3, <1>4, <1>5, <1>6, <1>7, <1>8 DEF Next

\* Whatever the threads, the processes and the clients do and in which order, the
\* parts of the invariant hold together.
THEOREM InductiveInvariant == Spec => []Inv
<1>1. Init => Inv
  BY InitHolds
<1>2. Inv /\ [Next]_vars => Inv'
  BY NextKeeps
<1> QED
  BY <1>1, <1>2, PTL DEF Spec

\* Sets that are no larger than the threads that an instance knows.
LEMMA AtMostOne ==
  ASSUME NEW S, \A x, y \in S : x = y
  PROVE  Cardinality(S) <= 1
<1>1. CASE S = {}
  BY <1>1, FS_EmptySet
<1>2. CASE S # {}
  <2>1. PICK x : x \in S
    BY <1>2
  <2>2. S = {x}
    BY <2>1
  <2> QED
    BY <2>2, FS_Singleton
<1> QED
  BY <1>1, <1>2

LEMMA PairCardinality ==
  ASSUME NEW a, NEW b, a # b
  PROVE  Cardinality({a, b}) = 2
<1>1. IsFiniteSet({a}) /\ Cardinality({a}) = 1
  BY FS_Singleton
<1>2. Cardinality({a} \cup {b}) = Cardinality({a}) + 1
  BY <1>1, FS_AddElement
<1>3. {a, b} = {a} \cup {b}
  OBVIOUS
<1> QED
  BY <1>1, <1>2, <1>3

\* Every variable of the launcher keeps its type, and the registry has at most
\* one value for every name, for every number of instances and clients.
THEOREM TypeCorrect == Spec => []TypeOK
<1>1. Inv => TypeOK
  <2> SUFFICES ASSUME Inv
               PROVE  TypeOK
    OBVIOUS
  <2>1. \A n \in Name : Cardinality(IndexOf(n)) <= 1
    <3>1. ASSUME NEW n \in Name
          PROVE  Cardinality(IndexOf(n)) <= 1
      <4>1. PICK S : S = IndexOf(n)
        OBVIOUS
      <4>2. \A x, y \in S : x = y
        BY <4>1 DEF Inv, RegistryOK, IndexOf
      <4> QED
        BY <4>1, <4>2, AtMostOne
    <3> QED
      BY <3>1
  <2>2. registry \in Seq(Entry)
    BY DEF Inv, RegistryOK
  <2>3. /\ svc \in {"off", "start_pending", "running", "stop_pending", "stopped"}
        /\ SvcEvent \in BOOLEAN /\ SvcInstanceEvent \in BOOLEAN /\ lock \in BOOLEAN
    BY DEF Inv, ServiceOK, ListOK, SrvOK
  <2>4. main \in MainState /\ srv \in SrvState
    BY DEF Inv, MainOK, SrvOK
  <2>5. PipeTypes /\ HandleTypes
    BY DEF Inv
  <2>6. /\ SvcInstanceList \in SUBSET Pid
        /\ inst \in [Pid -> Instance \cup {NULL}]
        /\ proc \in [Pid -> ProcState]
        /\ cb \in [Pid -> {"none", "armed", "remove", "free", "done"}]
    BY DEF Inv, InstOK
  <2> QED
    BY <2>1, <2>2, <2>3, <2>4, <2>5, <2>6
       DEF TypeOK, PipeTypes, HandleTypes, MainState, SrvState
<1> QED
  BY <1>1, InductiveInvariant, PTL

\* The creator of an instance and the callback of its process race to release it:
\* SvcInstanceRelease frees it exactly once, by the thread that brought the
\* count to zero, however many instances there are.
THEOREM AlwaysFreedOnce == Spec => []FreedOnce
<1>1. Inv => FreedOnce
  <2> SUFFICES ASSUME Inv, NEW p \in Pid
               PROVE  IF inst[p] = NULL
                      THEN Holders(p) \cup Releasers(p) = {} /\ p \notin SvcInstanceList
                      ELSE /\ inst[p].RefCount = Cardinality(Holders(p))
                           /\ Cardinality(Releasers(p)) = (IF Holders(p) = {} THEN 1 ELSE 0)
    BY DEF FreedOnce
  <2>1. Life(p)
    BY DEF Inv, InstOK
  <2>2. /\ "main" \in Holders(p) <=> MainHolds(p)
        /\ "srv" \in Holders(p) <=> SrvHolds(p)
        /\ "cb" \in Holders(p) <=> CbHolds(p)
        /\ Holders(p) \subseteq {"main", "srv", "cb"}
    BY DEF Holders, MainHolds, SrvHolds, CbHolds
  <2>3. /\ "main" \in Releasers(p) <=> MainFrees(p)
        /\ "srv" \in Releasers(p) <=> SrvFrees(p)
        /\ "cb" \in Releasers(p) <=> CbFrees(p)
        /\ Releasers(p) \subseteq {"main", "srv", "cb"}
    BY DEF Releasers, MainFrees, SrvFrees, CbFrees
  <2>4. CbFrees(p) => ~CbHolds(p) /\ cb[p] \notin {"none", "done"}
    BY DEF CbFrees, CbHolds
  <2>5. CbHolds(p) => cb[p] \notin {"none", "done"}
    BY DEF CbHolds
  <2>6. CASE inst[p] = NULL
    BY <2>1, <2>2, <2>3, <2>4, <2>5, <2>6 DEF Life, None
  <2>7. CASE inst[p] # NULL /\ inst[p].RefCount = 2
    <3>1. Both(p)
      BY <2>1, <2>7 DEF Life
    <3>2. Releasers(p) = {} /\ Holders(p) # {}
      BY <2>2, <2>3, <2>4, <3>1 DEF Both
    <3>3. Holders(p) = {"main", "cb"} \/ Holders(p) = {"srv", "cb"}
      BY <2>2, <3>1 DEF Both
    <3>4. Cardinality(Holders(p)) = 2
      <4>1. "main" # "cb" /\ "srv" # "cb"
        OBVIOUS
      <4> QED
        BY <3>3, <4>1, PairCardinality
    <3> QED
      BY <2>7, <3>2, <3>4, FS_EmptySet
  <2>8. CASE inst[p] # NULL /\ inst[p].RefCount = 1
    <3>1. CreatorLeft(p) \/ CbLeft(p)
      BY <2>1, <2>8 DEF Life
    <3>2. Releasers(p) = {} /\ Holders(p) # {}
      BY <2>2, <2>3, <2>4, <2>5, <3>1 DEF CreatorLeft, CbLeft
    <3>3. Holders(p) = {"main"} \/ Holders(p) = {"srv"} \/ Holders(p) = {"cb"}
      BY <2>2, <2>5, <3>1 DEF CreatorLeft, CbLeft
    <3>4. Cardinality(Holders(p)) = 1
      BY <3>3, FS_Singleton
    <3> QED
      BY <2>8, <3>2, <3>4, FS_EmptySet
  <2>9. CASE inst[p] # NULL /\ inst[p].RefCount = 0
    <3>1. CreatorFrees(p) \/ CbIsFreeing(p)
      BY <2>1, <2>9 DEF Life
    <3>2. Holders(p) = {}
      BY <2>2, <2>4, <2>5, <3>1 DEF CreatorFrees, CbIsFreeing
    <3>3. Releasers(p) = {"main"} \/ Releasers(p) = {"srv"} \/ Releasers(p) = {"cb"}
      BY <2>3, <2>4, <3>1 DEF CreatorFrees, CbIsFreeing
    <3>4. Cardinality(Releasers(p)) = 1
      BY <3>3, FS_Singleton
    <3> QED
      BY <2>9, <3>2, <3>4, FS_EmptySet
  <2> QED
    BY <2>1, <2>6, <2>7, <2>8, <2>9 DEF Life
<1> QED
  BY <1>1, InductiveInvariant, PTL

\* Whatever process the launcher has started and still runs is in its list, and is
\* the only one there with its name.
THEOREM AlwaysNoStrayProcess == Spec => []NoStrayProcess
<1>1. Inv => NoStrayProcess
  <2> SUFFICES ASSUME Inv, NEW p \in Pid, proc[p] \in {"running", "breaking"}
               PROVE  p \in SvcInstanceList /\ Lookup(inst[p].name) = {p}
    BY DEF NoStrayProcess
  <2>1. Life(p)
    BY DEF Inv, InstOK
  <2>2. inst[p] # NULL /\ CbHolds(p)
    BY <2>1 DEF Life
  <2>3. ~CbFrees(p) /\ cb[p] # "done"
    BY <2>2 DEF CbHolds, CbFrees
  <2>4. ~MainFrees(p) /\ ~SrvFrees(p) /\ ~CbFrees(p)
    BY <2>1, <2>2, <2>3 DEF Life, Both, CreatorLeft, CbLeft, CreatorFrees, CbIsFreeing
  <2>5. ~Removed(p)
    BY <2>4 DEF Removed, MainFrees, SrvFrees, CbFrees
  <2>6. p \in SvcInstanceList
    BY <2>1, <2>2, <2>5 DEF Life
  <2> QED
    BY <2>6 DEF Inv, ListOK, Lookup
<1> QED
  BY <1>1, InductiveInvariant, PTL

\* SvcInstanceEvent is set exactly when the list is empty, and a service that was
\* told to stop and reports that it has stopped in time has left no instance.
THEOREM AlwaysStopLeavesNone == Spec => []StopLeavesNone
<1>1. Inv => StopLeavesNone
  BY DEF Inv, StopLeavesNone, ListOK, ServiceOK
<1> QED
  BY <1>1, InductiveInvariant, PTL

\* SvcInstanceStartAllPersistent is done only when the index is behind the last
\* value of the registry, or at one that cannot be read.
LEMMA DoneAtEnd ==
  ASSUME Inv, Next, main.at = "enum", main'.at = "done"
  PROVE  ~(main.J <= Len(registry) /\ Readable(registry[main.J]))
<1>1. CASE EnumValue
  <2>1. ASSUME main.J <= Len(registry), Readable(registry[main.J]) PROVE FALSE
    <3>1. PICK e : e = registry[main.J]
      OBVIOUS
    <3>2. PICK m : m = [main EXCEPT !.seen = @ \cup {e.name}]
      OBVIOUS
    <3>3. main' = IF e.name \in NoArgs THEN [m EXCEPT !.J = @ + 1]
                  ELSE [m EXCEPT !.at = "create", !.entry = e]
      BY <1>1, <2>1, <3>1, <3>2 DEF EnumValue
    <3>4. main \in MainState
      BY DEF Inv, MainOK
    <3>5. main'.at \in {"enum", "create"}
      BY <3>2, <3>3, <3>4 DEF MainState
    <3> QED
      BY <3>5
  <2> QED
    BY <2>1
<1>2. CASE TransactStop
  <2>1. CASE UNCHANGED main
    BY <2>1
  <2>2. CASE \E n : DeletePersistent(n)
    BY <2>2, DeletePersistentKeeps DEF Inv
  <2> QED
    BY <1>2, <2>1, <2>2 DEF TransactStop
<1>3. CASE ProcessEnd \/ SystemRestart
  BY <1>3, IdleFits DEF ProcessEnd, SystemRestart, End
<1>4. CASE StartService
  BY <1>4 DEF StartService, Inv, ServiceOK
<1>5. CASE MainStep
  BY <1>5 DEF MainStep
<1>6. CASE SrvRelease
  <2>1. CASE UNCHANGED main
    BY <2>1
  <2>2. CASE \E n : main' = [main EXCEPT !.seen = @ \cup AddedPast(n)]
    <3>1. PICK S : main' = [main EXCEPT !.seen = S]
      BY <2>2
    <3>2. main'.at = main.at
      BY <3>1 DEF Inv, MainOK, MainState
    <3> QED
      BY <3>2
  <2> QED
    BY <1>6, <2>1, <2>2 DEF SrvRelease
<1> QED
  BY <1>1, <1>2, <1>3, <1>4, <1>5, <1>6
     DEF Next, StartFails, StarterStep, ServerStep, SrvStop, SrvConnect, SrvRead, SvcPipeTransact,
         TransactStart, TransactOther, SrvWrite, StopAll, Stopped, Control, Exit,
         Terminated, KillProcessWait, ClientOpen, ClientTransact, ClientLeave

\* When the service has started, it has looked at every entry of the registry in
\* front of the first that cannot be read, but for those that came to a place it
\* had passed.
THEOREM RestartsAllHolds == Spec => RestartsAll
<1>1. Inv /\ [Next]_vars =>
        [main.at = "enum" /\ main'.at = "done" =>
           \A i \in 1 .. Len(registry) :
             (\A k \in 1 .. i : Readable(registry[k])) => registry[i].name \in main.seen]_vars
  <2> SUFFICES ASSUME Inv, Next, main.at = "enum", main'.at = "done",
                      NEW i \in 1 .. Len(registry), \A k \in 1 .. i : Readable(registry[k])
               PROVE  registry[i].name \in main.seen
    OBVIOUS
  <2>1. Len(registry) \in Nat /\ main.J \in Nat /\ main.J >= 1
    BY RegistryBound DEF Inv, MainOK, MainState
  <2>2. ~(main.J <= Len(registry) /\ Readable(registry[main.J]))
    BY DoneAtEnd
  <2>3. ASSUME main.J <= i PROVE FALSE
    <3>1. main.J \in 1 .. i /\ main.J <= Len(registry)
      BY <2>1, <2>3
    <3> QED
      BY <2>2, <3>1
  <2>4. Passed(i)
    BY <2>1, <2>3 DEF Passed
  <2> QED
    BY <2>4 DEF Inv, Seen
<1> QED
  BY <1>1, InductiveInvariant, PTL DEF Spec, RestartsAll

-----------------------------------------------------------------------------
(***************************************************************************)
(* Handles, as long as SvcInstanceKill closes none in error: a handle it     *)
(* opens then never has the value of one it closes afterwards.               *)
(***************************************************************************)

HandleInv == VolumeHandlesKept /\ KillHandleValid

\* KillProcess opens a duplicate d and keeps the volumes in "kept"; what it closes
\* is free already.
LEMMA KillProcessHandles ==
  ASSUME HandleTypes, InstOK, HandleInv, NEW p \in Pid, inst[p] # NULL, inst[p] \in Instance,
         NEW how, NEW d \in FreeHandle \cup {NULL}, NEW kept \in SUBSET FreeHandle,
         NEW closed \in SUBSET FreeHandle, d \notin kept, d \notin closed,
         kept \cap closed = {},
         KillProcess(p, how, d, kept, closed),
         inst' = [inst EXCEPT ![p].VolumeHandles = @ \cup kept]
  PROVE  HandleInv'
<1>1. /\ inst \in [Pid -> Instance \cup {NULL}] /\ FreeHandle \subseteq Handle
      /\ handle \in [Handle -> {Free} \cup ({"vol", "dup"} \X Pid)]
      /\ NULL \notin Handle
  BY LauncherAssumption DEF InstOK, FreeHandle, HandleTypes
<1>2. PICK i : i = [inst[p] EXCEPT !.VolumeHandles = @ \cup kept]
  OBVIOUS
<1>3. i \in Instance /\ i # NULL /\ i.VolumeHandles = inst[p].VolumeHandles \cup kept
  BY <1>1, <1>2, NullAssumption DEF Instance
<1>4. inst' = [inst EXCEPT ![p] = i]
  BY <1>2
<1>5. inst'[p] = i /\ \A q \in Pid \ {p} : inst'[q] = inst[q]
  BY <1>1, <1>4
<1>6. \A h \in Handle : handle'[h] = IF h \in closed THEN Free
                                     ELSE IF h = d THEN <<"dup", p>>
                                     ELSE IF h \in kept THEN <<"vol", p>> ELSE handle[h]
  BY DEF KillProcess
<1>7. \A h \in FreeHandle : h \in Handle /\ handle[h] = Free
  BY DEF FreeHandle
<1>8. \A q : <<"vol", q>> # Free /\ <<"dup", q>> # Free
  BY DEF Free
<1>9. VolumeHandlesKept'
  <2> SUFFICES ASSUME NEW h \in Handle, NEW q \in Pid
               PROVE  handle'[h] = <<"vol", q>> <=> inst'[q] # NULL /\ h \in inst'[q].VolumeHandles
    BY DEF VolumeHandlesKept
  <2>1. handle[h] = <<"vol", q>> <=> inst[q] # NULL /\ h \in inst[q].VolumeHandles
    BY DEF HandleInv, VolumeHandlesKept
  <2>2. \A r : <<"dup", p>> # <<"vol", r>>
    OBVIOUS
  <2>3. \A r : <<"vol", p>> = <<"vol", r>> => p = r
    OBVIOUS
  <2>4. CASE h \in closed
    <3>1. handle'[h] = Free /\ handle[h] = Free /\ h \notin kept
      BY <1>6, <1>7, <2>4
    <3> QED
      BY <1>3, <1>5, <1>8, <2>1, <3>1
  <2>5. CASE h \notin closed /\ h = d
    <3>1. handle'[h] = <<"dup", p>> /\ handle[h] = Free /\ h \notin kept
      BY <1>1, <1>6, <1>7, <2>5
    <3> QED
      BY <1>3, <1>5, <1>8, <2>1, <2>2, <3>1
  <2>6. CASE h \notin closed /\ h # d /\ h \in kept
    <3>1. handle'[h] = <<"vol", p>> /\ handle[h] = Free
      BY <1>6, <1>7, <2>6
    <3> QED
      BY <1>3, <1>5, <1>8, <2>1, <2>3, <2>6, <3>1
  <2>7. CASE h \notin closed /\ h # d /\ h \notin kept
    BY <1>3, <1>5, <1>6, <2>1, <2>7
  <2> QED
    BY <2>4, <2>5, <2>6, <2>7
<1>10. KillHandleValid'
  <2> SUFFICES ASSUME NEW t \in timers'
               PROVE  handle'[t[2]] = <<"dup", t[1]>>
    BY DEF KillHandleValid
  <2>1. CASE t \in timers
    <3>1. t[2] \in Handle /\ handle[t[2]] = <<"dup", t[1]>>
      BY <2>1 DEF HandleInv, KillHandleValid, HandleTypes
    <3>2. t[2] \notin FreeHandle /\ t[2] # NULL
      BY <1>1, <1>7, <1>8, <3>1
    <3> QED
      BY <1>6, <3>1, <3>2
  <2>2. CASE d # NULL /\ t = <<p, d>>
    <3>1. t[1] = p /\ t[2] = d /\ d \in Handle
      BY <1>1, <2>2
    <3> QED
      BY <1>6, <3>1
  <2> QED
    BY <2>1, <2>2 DEF KillProcess
<1> QED
  BY <1>9, <1>10 DEF HandleInv

LEMMA TimerFree ==
  ASSUME NEW p, NEW how, NEW free, NEW d \in Timer(p, how, free)
  PROVE  d \in free \cup {NULL}
BY DEF Timer

LEMMA KillHandles ==
  ASSUME ~reclosed', HandleTypes, InstOK, HandleInv, NEW p \in SvcInstanceList, NEW f,
         KillUnused(p) \/ KillInUse(p, f)
  PROVE  HandleInv'
<1>1. /\ p \in Pid /\ inst[p] # NULL /\ inst[p] \in Instance
      /\ inst \in [Pid -> Instance \cup {NULL}] /\ FreeHandle \in SUBSET Handle
      /\ IsFiniteSet(Handle) /\ Volumes \in Nat /\ NULL \notin Handle
  BY ListedLives, LauncherAssumption DEF InstOK, FreeHandle
<1>2. CASE KillUnused(p)
  <2>1. PICK vols \in IF inst[p].VolumeHandles # {} THEN {{}} ELSE OpenAndDismountVolumes(Volumes),
             how \in KillModes :
          \E kept \in {{}, vols}, d \in Timer(p, how, FreeHandle \ vols) :
            /\ KillProcess(p, how, d, kept, Left(vols, kept))
            /\ inst' = [inst EXCEPT ![p].VolumeHandles = @ \cup kept]
    BY <1>2 DEF KillUnused
  <2>2. PICK kept \in {{}, vols}, d \in Timer(p, how, FreeHandle \ vols) :
          /\ KillProcess(p, how, d, kept, Left(vols, kept))
          /\ inst' = [inst EXCEPT ![p].VolumeHandles = @ \cup kept]
    BY <2>1
  <2>3. vols \in SUBSET FreeHandle /\ kept \in SUBSET FreeHandle
    BY <2>1, <2>2 DEF OpenAndDismountVolumes
  <2>4. d \in (FreeHandle \ vols) \cup {NULL}
    <3>1. PICK free : free = FreeHandle \ vols
      OBVIOUS
    <3> QED
      BY <2>2, <3>1, TimerFree
  <2>5. PICK left : left = vols \ kept
    OBVIOUS
  <2>6. KillProcess(p, how, d, kept, left)
    BY <2>2, <2>5 DEF Left
  <2>7. /\ d \in FreeHandle \cup {NULL} /\ left \in SUBSET FreeHandle
        /\ d \notin kept /\ d \notin left /\ kept \cap left = {}
    BY <1>1, <2>2, <2>3, <2>4, <2>5
  <2> QED
    BY <1>1, <2>2, <2>3, <2>6, <2>7, KillProcessHandles
<1>3. CASE KillInUse(p, f)
  <2>1. PICK vols \in OpenAndDismountVolumes(Volumes - 1),
             how \in (IF f THEN KillModes ELSE {"spare"}) :
          /\ inst[p].VolumeHandles = {}
          /\ \E d \in Timer(p, how, FreeHandle) : KillProcess(p, how, d, {}, vols)
          /\ UNCHANGED inst
    BY <1>3 DEF KillInUse
  <2>2. PICK d \in Timer(p, how, FreeHandle) : KillProcess(p, how, d, {}, vols)
    BY <2>1
  <2>3. vols \in SUBSET FreeHandle /\ d \notin vols
    BY <2>1, <2>2 DEF OpenAndDismountVolumes, KillProcess
  <2>4. d \in FreeHandle \cup {NULL}
    <3>1. PICK free : free = FreeHandle
      OBVIOUS
    <3> QED
      BY <2>2, <3>1, TimerFree
  <2>5. PICK none : none = {}
    OBVIOUS
  <2>6. inst' = [inst EXCEPT ![p].VolumeHandles = @ \cup none]
    <3>1. [inst[p] EXCEPT !.VolumeHandles = @ \cup none] = inst[p]
      BY <1>1, <2>5 DEF Instance
    <3> QED
      BY <1>1, <2>1, <3>1
  <2>7. KillProcess(p, how, d, none, vols)
    BY <2>2, <2>5
  <2>8. /\ none \in SUBSET FreeHandle /\ d \notin none /\ none \cap vols = {}
    BY <2>5
  <2> QED
    BY <1>1, <2>3, <2>4, <2>6, <2>7, <2>8, KillProcessHandles
<1> QED
  BY <1>2, <1>3

\* A step that opens and closes no handle.
LEMMA HandleFrame ==
  ASSUME HandleInv, UNCHANGED <<handle, timers, reclosed>>,
         \A p \in Pid : \/ inst'[p] = inst[p]
                        \/ inst[p] = NULL /\ inst'[p] # NULL /\ inst'[p].VolumeHandles = {}
                        \/ /\ inst[p] # NULL /\ inst'[p] # NULL
                           /\ inst'[p].VolumeHandles = inst[p].VolumeHandles
  PROVE  HandleInv'
<1>1. VolumeHandlesKept'
  <2> SUFFICES ASSUME NEW h \in Handle, NEW p \in Pid
               PROVE  handle'[h] = <<"vol", p>> <=> inst'[p] # NULL /\ h \in inst'[p].VolumeHandles
    BY DEF VolumeHandlesKept
  <2>1. handle[h] = <<"vol", p>> <=> inst[p] # NULL /\ h \in inst[p].VolumeHandles
    BY DEF HandleInv, VolumeHandlesKept
  <2> QED
    BY <2>1
<1>2. KillHandleValid'
  BY DEF HandleInv, KillHandleValid
<1> QED
  BY <1>1, <1>2 DEF HandleInv

LEMMA CreateHandles ==
  ASSUME HandleInv, InstOK, NEW p \in Pid, NEW e \in Entry, Create(p, e)
  PROVE  HandleInv'
<1>1. PICK i : i = NewInstance(e)
  OBVIOUS
<1>2. i # NULL /\ i.VolumeHandles = {}
  <2>1. i \in Instance
    BY <1>1 DEF NewInstance, FirstRefCount, Instance, Entry
  <2> QED
    BY <1>1, <2>1, NullAssumption DEF NewInstance
<1>3. inst' = [inst EXCEPT ![p] = i] /\ inst[p] = NULL /\ UNCHANGED <<handle, timers, reclosed>>
  BY <1>1 DEF Create, CreateProcess
<1>4. inst \in [Pid -> Instance \cup {NULL}]
  BY DEF InstOK
<1>5. inst'[p] = i /\ \A q \in Pid \ {p} : inst'[q] = inst[q]
  BY <1>3, <1>4
<1> QED
  BY <1>2, <1>3, <1>5, HandleFrame

LEMMA CountDownHandles ==
  ASSUME HandleInv, InstOK, NEW p \in Pid, CountDown(p), UNCHANGED <<handle, timers, reclosed>>,
         MainHolds(p) \/ SrvHolds(p) \/ CbHolds(p)
  PROVE  HandleInv'
<1>1. inst \in [Pid -> Instance \cup {NULL}] /\ Life(p)
  BY DEF InstOK
<1>2. inst[p] # NULL
  BY <1>1 DEF Life, None, CbHolds
<1>3. inst[p].RefCount \in 1 .. 2 /\ inst[p] \in Instance
  BY <1>1, <1>2 DEF Life, CreatorFrees, CbIsFreeing, CbHolds, CbFrees
<1>4. PICK i : i = [inst[p] EXCEPT !.RefCount = @ - 1]
  OBVIOUS
<1>5. i # NULL /\ i.VolumeHandles = inst[p].VolumeHandles
  BY <1>3, <1>4, NullAssumption DEF Instance
<1>6. inst' = [inst EXCEPT ![p] = i]
  BY <1>4 DEF CountDown
<1>7. inst'[p] = i /\ \A q \in Pid \ {p} : inst'[q] = inst[q]
  BY <1>1, <1>6
<1> QED
  BY <1>2, <1>5, <1>7, HandleFrame

LEMMA FreeHandles ==
  ASSUME HandleInv, InstOK, HandleTypes, NEW p \in Pid, inst[p] # NULL, FreeInstance(p)
  PROVE  HandleInv'
<1>1. /\ inst \in [Pid -> Instance \cup {NULL}] /\ inst' = [inst EXCEPT ![p] = NULL]
      /\ UNCHANGED timers /\ timers \in SUBSET (Pid \X Handle)
      /\ \A h \in Handle : handle'[h] = IF h \in inst[p].VolumeHandles THEN Free ELSE handle[h]
  BY DEF InstOK, HandleTypes, FreeInstance, CloseVolumes
<1>2. inst'[p] = NULL /\ \A q \in Pid \ {p} : inst'[q] = inst[q]
  BY <1>1
<1>3. \A q : <<"vol", q>> # Free /\ <<"dup", q>> # Free
  BY DEF Free
<1>4. \A h \in Handle, q \in Pid :
        handle[h] = <<"vol", q>> <=> inst[q] # NULL /\ h \in inst[q].VolumeHandles
  BY DEF HandleInv, VolumeHandlesKept
<1>5. VolumeHandlesKept'
  <2> SUFFICES ASSUME NEW h \in Handle, NEW q \in Pid
               PROVE  handle'[h] = <<"vol", q>> <=> inst'[q] # NULL /\ h \in inst'[q].VolumeHandles
    BY DEF VolumeHandlesKept
  <2>1. CASE h \in inst[p].VolumeHandles
    <3>1. handle'[h] = Free /\ handle[h] = <<"vol", p>>
      BY <1>1, <1>4, <2>1
    <3>2. q # p => handle[h] # <<"vol", q>>
      <4>1. q # p => <<"vol", p>> # <<"vol", q>>
        OBVIOUS
      <4> QED
        BY <3>1, <4>1
    <3> QED
      BY <1>2, <1>3, <1>4, <3>1, <3>2
  <2>2. CASE h \notin inst[p].VolumeHandles
    <3>1. handle'[h] = handle[h]
      BY <1>1, <2>2
    <3> QED
      BY <1>2, <1>4, <2>2, <3>1
  <2> QED
    BY <2>1, <2>2
<1>6. KillHandleValid'
  <2> SUFFICES ASSUME NEW t \in timers
               PROVE  handle'[t[2]] = <<"dup", t[1]>>
    BY <1>1 DEF KillHandleValid
  <2>1. t[2] \in Handle /\ handle[t[2]] = <<"dup", t[1]>>
    BY <1>1 DEF HandleInv, KillHandleValid
  <2>2. handle[t[2]] # <<"vol", p>>
    BY <2>1
  <2>3. t[2] \notin inst[p].VolumeHandles
    BY <1>4, <2>1, <2>2
  <2> QED
    BY <1>1, <2>1, <2>3
<1> QED
  BY <1>5, <1>6 DEF HandleInv

\* A timer closes the duplicate that it has waited for, and no other uses it.
LEMMA WaitHandles ==
  ASSUME HandleInv, HandleTypes, NEW p \in Pid, NEW h \in Handle, KillProcessWait(p, h)
  PROVE  HandleInv'
<1>1. /\ handle' = [handle EXCEPT ![h] = Free] /\ <<p, h>> \in timers
      /\ timers' = timers \ {<<p, h>>} /\ UNCHANGED inst
      /\ handle \in [Handle -> {Free} \cup ({"vol", "dup"} \X Pid)]
      /\ timers \in SUBSET (Pid \X Handle)
  BY DEF KillProcessWait, HandleTypes, listVars
<1>2. handle[h] = <<"dup", p>>
  <2>1. PICK t : t = <<p, h>>
    OBVIOUS
  <2>2. handle[t[2]] = <<"dup", t[1]>>
    BY <1>1, <2>1 DEF HandleInv, KillHandleValid
  <2>3. t[1] = p /\ t[2] = h
    BY <2>1
  <2> QED
    BY <2>2, <2>3
<1>3. handle'[h] = Free /\ \A g \in Handle \ {h} : handle'[g] = handle[g]
  BY <1>1
<1>4. VolumeHandlesKept'
  <2> SUFFICES ASSUME NEW g \in Handle, NEW q \in Pid
               PROVE  handle'[g] = <<"vol", q>> <=> inst'[q] # NULL /\ g \in inst'[q].VolumeHandles
    BY DEF VolumeHandlesKept
  <2>1. handle[g] = <<"vol", q>> <=> inst[q] # NULL /\ g \in inst[q].VolumeHandles
    BY DEF HandleInv, VolumeHandlesKept
  <2>2. <<"dup", p>> # <<"vol", q>> /\ Free # <<"vol", q>>
    BY DEF Free
  <2> QED
    BY <1>1, <1>2, <1>3, <2>1, <2>2
<1>5. KillHandleValid'
  <2> SUFFICES ASSUME NEW t \in timers'
               PROVE  handle'[t[2]] = <<"dup", t[1]>>
    BY DEF KillHandleValid
  <2>1. t \in timers /\ t # <<p, h>> /\ t \in Pid \X Handle
    BY <1>1
  <2>2. handle[t[2]] = <<"dup", t[1]>>
    BY <2>1 DEF HandleInv, KillHandleValid
  <2>3. t[2] # h
    <3>1. ASSUME t[2] = h PROVE FALSE
      <4>1. <<"dup", p>> = <<"dup", t[1]>>
        BY <1>2, <2>2, <3>1
      <4>2. t[1] = p
        BY <4>1
      <4> QED
        BY <2>1, <3>1, <4>2
    <3> QED
      BY <3>1
  <2> QED
    BY <1>3, <2>1, <2>2, <2>3
<1> QED
  BY <1>4, <1>5 DEF HandleInv

\* When the process of the service ends, all its handles are closed.
LEMMA EndHandles ==
  ASSUME NEW outlive, End(outlive)
  PROVE  HandleInv'
<1>1. /\ \A p \in Pid : inst'[p] = NULL
      /\ \A h \in Handle : handle'[h] = Free
      /\ timers' = {}
  BY DEF End
<1>2. \A p : <<"vol", p>> # Free
  BY DEF Free
<1> QED
  BY <1>1, <1>2 DEF HandleInv, VolumeHandlesKept, KillHandleValid

\* What was closed in error stays so until the process of the service ends.
LEMMA ReclosedStays ==
  ASSUME Inv, [Next]_vars, reclosed
  PROVE  reclosed' \/ \E outlive : End(outlive)
<1>1. ASSUME NEW p, NEW e, Create(p, e) PROVE UNCHANGED reclosed
  BY <1>1 DEF Create, CreateProcess
<1>2. ASSUME NEW p, FreeInstance(p) PROVE UNCHANGED reclosed
  BY <1>2 DEF FreeInstance
<1>3. ASSUME NEW p, NEW f, KillUnused(p) \/ KillInUse(p, f) PROVE reclosed'
  BY <1>3 DEF KillUnused, KillInUse, KillProcess
<1>4. CASE MainStep
  BY <1>1, <1>2, <1>4 DEF MainStep, CreateFails, procVars
<1>5. CASE TransactStart \/ SrvRelease \/ \E p \in Pid : Terminated(p)
  BY <1>1, <1>2, <1>5 DEF TransactStart, SrvRelease, Terminated, CreateFails, procVars
<1>6. CASE TransactStop \/ StopAll
  BY <1>3, <1>6 DEF TransactStop, StopAll, procVars
<1>7. CASE ProcessEnd \/ SystemRestart
  BY <1>7 DEF ProcessEnd, SystemRestart
<1>8. CASE \/ StartFails \/ StartService \/ EnumValue \/ SrvStop \/ SrvConnect \/ SrvRead
           \/ TransactOther \/ SrvWrite \/ Stopped \/ Control \/ UNCHANGED vars
           \/ \E p \in Pid : Exit(p)
           \/ \E p \in Pid, h \in Handle : KillProcessWait(p, h)
           \/ \E u \in User : ClientOpen(u) \/ ClientTransact(u) \/ ClientLeave(u)
  BY <1>8 DEF StartFails, StartService, EnumValue, SrvStop, SrvConnect, SrvRead, TransactOther,
     SrvWrite, Stopped, Control, vars, Exit, KillProcessWait, ClientOpen, ClientTransact,
     ClientLeave, procVars
<1> QED
  BY <1>4, <1>5, <1>6, <1>7, <1>8
     DEF Next, StarterStep, ServerStep, SvcPipeTransact

LEMMA HandlesKept ==
  ASSUME Inv, HandleInv, [Next]_vars, ~reclosed'
  PROVE  HandleInv'
<1>1. CASE UNCHANGED <<inst, handle, timers, reclosed>>
  BY <1>1, HandleFrame
<1>2. CASE MainStep
  <2>1. CASE \E p \in Pid : main.at = "create" /\ Create(p, main.entry)
    <3>1. PICK e : e = main.entry
      OBVIOUS
    <3>2. e \in Entry
      BY <2>1, <3>1 DEF Inv, MainOK
    <3> QED
      BY <2>1, <3>1, <3>2, CreateHandles DEF Inv
  <2>2. CASE CreateFails \/ (RemoveEntry(main.obj) /\ UNCHANGED procVars)
    BY <1>1, <2>2 DEF CreateFails, RemoveEntry, listVars, procVars
  <2>3. CASE main.at = "release" /\ CountDown(main.obj) /\ UNCHANGED procVars
    <3>1. PICK p \in Pid : p = main.obj
      BY <2>3 DEF Inv, MainOK
    <3>2. MainHolds(p) /\ UNCHANGED <<handle, timers, reclosed>>
      BY <2>3, <3>1 DEF MainHolds, procVars
    <3> QED
      BY <2>3, <3>1, <3>2, CountDownHandles DEF Inv
  <2>4. CASE main.at = "free" /\ FreeInstance(main.obj)
    <3>1. PICK p \in Pid : p = main.obj
      BY <2>4 DEF Inv, MainOK
    <3>2. MainFrees(p) /\ Life(p)
      BY <2>4, <3>1 DEF MainFrees, Inv, InstOK
    <3>3. inst[p] # NULL
      BY <3>2 DEF Life, None
    <3> QED
      BY <2>4, <3>1, <3>3, FreeHandles DEF Inv
  <2> QED
    BY <1>2, <2>1, <2>2, <2>3, <2>4 DEF MainStep
<1>3. CASE TransactStart
  <2>1. CASE CreateFails
    BY <1>1, <2>1 DEF CreateFails, listVars, procVars
  <2>2. CASE \E p \in Pid : Create(p, [name |-> srv.cmd.name, sd |-> UserRights(srv.user)])
    <3>1. PICK e : e = [name |-> srv.cmd.name, sd |-> UserRights(srv.user)]
      OBVIOUS
    <3>2. srv.user \in User /\ srv.cmd \in Command /\ srv.cmd.kind = "start"
      BY <1>3 DEF Inv, SrvOK, TransactStart
    <3>3. srv.cmd.name \in Name /\ UserRights(srv.user) \in SUBSET User
      BY <3>2, LauncherAssumption DEF Command, UserRights
    <3>4. e \in Entry
      BY <3>1, <3>3 DEF Entry
    <3> QED
      BY <2>2, <3>1, <3>4, CreateHandles DEF Inv
  <2> QED
    BY <1>3, <2>1, <2>2 DEF TransactStart
<1>4. CASE SrvRelease
  <2>1. CASE UNCHANGED <<listVars, procVars, cb>> \/ (RemoveEntry(srv.obj) /\ UNCHANGED procVars)
    BY <1>1, <2>1 DEF RemoveEntry, listVars, procVars
  <2>2. CASE srv.at = "release" /\ CountDown(srv.obj) /\ UNCHANGED procVars
    <3>1. PICK p \in Pid : p = srv.obj
      BY <2>2 DEF Inv, SrvOK
    <3>2. SrvHolds(p) /\ UNCHANGED <<handle, timers, reclosed>>
      BY <2>2, <3>1 DEF SrvHolds, procVars
    <3> QED
      BY <2>2, <3>1, <3>2, CountDownHandles DEF Inv
  <2>3. CASE srv.at = "free" /\ FreeInstance(srv.obj)
    <3>1. PICK p \in Pid : p = srv.obj
      BY <2>3 DEF Inv, SrvOK
    <3>2. SrvFrees(p) /\ Life(p)
      BY <2>3, <3>1 DEF SrvFrees, Inv, InstOK
    <3>3. inst[p] # NULL
      BY <3>2 DEF Life, None
    <3> QED
      BY <2>3, <3>1, <3>3, FreeHandles DEF Inv
  <2> QED
    BY <1>4, <2>1, <2>2, <2>3 DEF SrvRelease
<1>5. CASE TransactStop
  <2>1. CASE UNCHANGED <<inst, procVars>>
    BY <1>1, <2>1 DEF procVars
  <2>2. CASE \E p \in Lookup(srv.cmd.name) :
               KillUnused(p) \/ KillInUse(p, srv.cmd.kind = "stopForced")
    <3>1. PICK f : f = (srv.cmd.kind = "stopForced")
      OBVIOUS
    <3>2. PICK p \in SvcInstanceList : KillUnused(p) \/ KillInUse(p, f)
      BY <2>2, <3>1 DEF Lookup
    <3> QED
      BY <3>2, KillHandles DEF Inv
  <2> QED
    BY <1>5, <2>1, <2>2 DEF TransactStop
<1>6. CASE StopAll
  <2>1. CASE UNCHANGED <<inst, procVars>>
    BY <1>1, <2>1 DEF procVars
  <2>2. CASE srv.at = "killing" /\ \E p \in srv.todo : KillUnused(p) \/ KillInUse(p, TRUE)
    <3>1. PICK f : f = TRUE
      OBVIOUS
    <3>2. PICK p \in SvcInstanceList : KillUnused(p) \/ KillInUse(p, f)
      BY <2>2, <3>1 DEF Inv, SrvOK
    <3> QED
      BY <3>2, KillHandles DEF Inv
  <2> QED
    BY <1>6, <2>1, <2>2 DEF StopAll
<1>7. CASE \E p \in Pid : Terminated(p)
  <2>1. PICK p \in Pid : Terminated(p)
    BY <1>7
  <2>2. CASE cb[p] = "armed" /\ CountDown(p) /\ UNCHANGED procVars
    <3>1. CbHolds(p) /\ UNCHANGED <<handle, timers, reclosed>>
      BY <2>2 DEF CbHolds, procVars
    <3> QED
      BY <2>2, <3>1, CountDownHandles DEF Inv
  <2>3. CASE RemoveEntry(p) /\ UNCHANGED procVars
    BY <1>1, <2>3 DEF RemoveEntry, procVars
  <2>4. CASE cb[p] = "free" /\ FreeInstance(p)
    <3>1. inst[p] # NULL
      BY <2>4 DEF Inv, InstOK, Life, None
    <3> QED
      BY <2>4, <3>1, FreeHandles DEF Inv
  <2> QED
    BY <2>1, <2>2, <2>3, <2>4 DEF Terminated
<1>8. CASE \E p \in Pid, h \in Handle : KillProcessWait(p, h)
  BY <1>8, WaitHandles DEF Inv
<1>9. CASE \E outlive : End(outlive)
  BY <1>9, EndHandles
<1>10. CASE \/ StartFails \/ StartService \/ EnumValue \/ SrvStop \/ SrvConnect \/ SrvRead
            \/ TransactOther \/ SrvWrite \/ Stopped \/ Control \/ UNCHANGED vars
            \/ \E p \in Pid : Exit(p)
            \/ \E u \in User : ClientOpen(u) \/ ClientTransact(u) \/ ClientLeave(u)
  <2>1. UNCHANGED <<inst, handle, timers, reclosed>>
    BY <1>10 DEF StartFails, StartService, EnumValue, SrvStop, SrvConnect, SrvRead, TransactOther,
       SrvWrite, Stopped, Control, vars, Exit, ClientOpen, ClientTransact, ClientLeave,
       listVars, procVars
  <2> QED
    BY <1>1, <2>1
<1> QED
  BY <1>2, <1>3, <1>4, <1>5, <1>6, <1>7, <1>8, <1>9, <1>10
     DEF Next, StarterStep, ServerStep, SvcPipeTransact, ProcessEnd, SystemRestart

\* The handles that keep the volumes of a process locked stay open until
\* its instance is freed and no longer, and KillProcessWait terminates the process
\* that it was started for, until SvcInstanceKill closes a handle in error.
THEOREM HandlesStayValid == Spec => []VolumesStayLocked
<1> DEFINE Kept == reclosed \/ HandleInv
<1>1. Init => Kept
  <2> SUFFICES ASSUME Init
               PROVE  HandleInv
    OBVIOUS
  <2>1. /\ \A p \in Pid : inst[p] = NULL
        /\ \A h \in Handle : handle[h] = Free
        /\ timers = {}
    BY DEF Init
  <2>2. \A p : <<"vol", p>> # Free
    BY DEF Free
  <2> QED
    BY <2>1, <2>2 DEF HandleInv, VolumeHandlesKept, KillHandleValid
<1>2. Inv /\ Kept /\ [Next]_vars => Kept'
  <2> SUFFICES ASSUME Inv, Kept, [Next]_vars, ~reclosed'
               PROVE  HandleInv'
    OBVIOUS
  <2>1. CASE reclosed
    BY <2>1, ReclosedStays, EndHandles
  <2>2. CASE HandleInv
    BY <2>2, HandlesKept
  <2> QED
    BY <2>1, <2>2
<1>3. Kept => VolumesStayLocked
  BY DEF HandleInv, VolumesStayLocked
<1> QED
  BY <1>1, <1>2, <1>3, InductiveInvariant, PTL DEF Spec
=============================================================================
