--------------------------- MODULE StgPipeProofs ----------------------------
(***************************************************************************)
(* Proofs about the pipe transport (module StgPipe), for any number of     *)
(* clients, dispatcher threads and responders.                             *)
(*                                                                         *)
(* Inv says what the threads know of the connection: each remembers the    *)
(* present number or an earlier one, and one that is about to drop the     *)
(* present connection knows that it is dead.  TypeCorrect and ClientIsKept *)
(* follow from it.  TokenInv follows the requests through the pipe, the    *)
(* threads, the table of hints and back; OwnResponseAccepted follows from  *)
(* both.                                                                   *)
(***************************************************************************)
EXTENDS StgPipe, TLAPS

\* The places between the two uses of the lock: the thread remembers a
\* connection.
Inside == {"take", "write", "read", "reading", "put", "disconnect"}

\* The places at which the lock is held.
Locking == {"connect", "params"}

\* What the local variables of a call say.
WellFormed(c) ==
  /\ c \in Call
  /\ c.at \in {"take", "write"} => c.rsp \in Request
  /\ c.at \in {"serve", "put"} => c.req \in Request
  /\ c.at \in Inside => c.conn > 0

\* A thread remembers the present connection or an earlier one.
NeverAhead(c, n) == c.at \in Inside => c.conn <= n \/ c.conn <= -n

\* A client that sends no message that is longer than the server's buffer.
Fitting(e) == e \in Client /\ "long" \notin Sends[e]

\* A thread that is about to drop the present connection knows that the client
\* has left, that the unit is being shut down, or that a message was too long.
DropsDead(c, n, p, u, e) ==
  c.at = "disconnect" /\ c.conn = n => p # "connected" \/ u # "open" \/ ~Fitting(e)

\* What the pipe's state and the lock allow the threads.
CallsOK ==
  \A t \in Caller : /\ WellFormed(call[t])
                    /\ NeverAhead(call[t], Connected)
                    /\ DropsDead(call[t], Connected, pipe, unit, peer)

\* The lock is held by a thread that waits for a client or welcomes it, and
\* then there is no connection; before the unit is open nothing happens.
LockOK ==
  /\ lock \in Caller \cup {NULL}
  /\ \A t \in Caller : lock = t <=> call[t].at \in Locking
  /\ lock # NULL => Connected <= 0
  /\ unit = "none" => Connected = 0 /\ \A t \in Caller : call[t].at = "idle"

\* The states of a client.
ClientState == [at : {"none", "busy", "opened", "ready", "wait", "closed"},
                id : Identifier \cup {NULL}, n : 0 .. OpCount,
                kind : Kind \cup {NULL}]

\* A client has an identifier before it sends its first request.
ClientFits(d) ==
  /\ d.at \in {"none", "busy"} => d.n = 0
  /\ d.at \in {"opened", "ready", "wait"} => d.id \in Identifier

\* The requests q in the pipe in state p are those of the client e that has it.
QueueFits(q, p, e) ==
  /\ p \in {"none", "listening", "disconnected"} => q = <<>> /\ e = NULL
  /\ Fitting(e) => \A i \in 1 .. Len(q) : q[i].kind # "long"

\* The types of what the clients, the pipe and the application hold.
DataOK ==
  /\ unit \in {"none", "open", "shut", "closed"}
  /\ pipe \in {"none", "listening", "connected", "closing", "disconnected"}
  /\ peer \in Client \cup {NULL}
  /\ toServer \in Seq(Request) /\ toClient \in Seq(Message)
  /\ Connected \in Int
  /\ hints \in SUBSET Request
  /\ call \in [Caller -> Call]
  /\ owed \in SUBSET Request
  /\ client \in [Client -> ClientState]
  /\ dropped \in SUBSET Request
  /\ \A c \in Client : ClientFits(client[c])
  /\ QueueFits(toServer, pipe, peer)
  /\ unit = "none" => pipe = "none"
  /\ Connected > 0 /\ unit # "closed" => pipe \in {"connected", "closing"}

\* The inductive invariant.
Inv == DataOK /\ LockOK /\ CallsOK

-----------------------------------------------------------------------------
(***************************************************************************)
(* Lemmas about one call                                                   *)
(***************************************************************************)

\* NULL is not one of the threads.
LEMMA NullNoCaller == NULL \notin Caller
BY StgPipeAssumption DEF Caller

\* The call of a thread that is outside of SpdStorageUnitHandleTransactPipe.
LEMMA IdleFits ==
  /\ Idle \in Call /\ WellFormed(Idle) /\ Idle.at = "idle"
  /\ Ended \in Call /\ WellFormed(Ended) /\ Ended.at = "done"
BY DEF Idle, Ended, Call, WellFormed, Inside

\* A thread goes on, and the connection stays what it is.
LEMMA Moved ==
  ASSUME Inv, NEW t \in Caller, NEW c, WellFormed(c), Continue(t, c),
         UNCHANGED <<unit, pipe, peer, Connected>>,
         NeverAhead(c, Connected), DropsDead(c, Connected, pipe, unit, peer)
  PROVE  /\ call' \in [Caller -> Call] /\ CallsOK'
         /\ call'[t] = c /\ \A s \in Caller \ {t} : call'[s] = call[s]
<1>1. /\ call' \in [Caller -> Call]
      /\ call'[t] = c /\ \A s \in Caller \ {t} : call'[s] = call[s]
  BY DEF Inv, DataOK, Continue, WellFormed
<1>2. CallsOK'
  BY <1>1 DEF Inv, CallsOK
<1> QED
  BY <1>1, <1>2

\* A thread that neither takes nor gives up the lock leaves it alone.
LEMMA LockKept ==
  ASSUME Inv, NEW t \in Caller, UNCHANGED <<unit, Connected, lock>>, unit # "none",
         \A s \in Caller \ {t} : call'[s] = call[s],
         call'[t].at \in Locking <=> call[t].at \in Locking
  PROVE  LockOK'
BY DEF Inv, LockOK

\* SpdStorageUnitHandleTransactPipe returns, with a request or with none.
LEMMA Returned ==
  ASSUME Inv, NEW t \in Caller, NEW r \in Request \cup {NULL}, Return(t, r),
         UNCHANGED <<unit, pipe, peer, Connected>>
  PROVE  /\ call' \in [Caller -> Call] /\ CallsOK'
         /\ call'[t].at \notin Locking
         /\ \A s \in Caller \ {t} : call'[s] = call[s]
<1> DEFINE c == [Idle EXCEPT !.at = IF r = NULL THEN "idle" ELSE "serve", !.req = r]
<1>1. /\ c \in Call /\ c.at \in {"idle", "serve"} /\ c.req = r
      /\ c.at = "serve" => r # NULL
  BY IdleFits DEF Call
<1>2. Continue(t, c)
  BY DEF Return
<1> HIDE DEF c
<1>3. WellFormed(c) /\ NeverAhead(c, Connected) /\ DropsDead(c, Connected, pipe, unit, peer)
  BY <1>1 DEF WellFormed, NeverAhead, DropsDead, Inside
<1>4. /\ call' \in [Caller -> Call] /\ CallsOK'
      /\ call'[t] = c /\ \A s \in Caller \ {t} : call'[s] = call[s]
  BY <1>2, <1>3, Moved
<1> QED
  BY <1>1, <1>4 DEF Locking

\* A thread goes on to a place between the two uses of the lock, and to the
\* second one only when its I/O has failed.
LEMMA WentOn ==
  ASSUME Inv, NEW t \in Caller, call[t].at \in Inside,
         NEW c \in Call, c.at \in Inside, c.conn = call[t].conn,
         c.at \in {"take", "write"} => c.rsp \in Request,
         c.at = "put" => c.req \in Request,
         c.at = "disconnect" => pipe # "connected" \/ unit # "open" \/ ~Fitting(peer),
         Continue(t, c), UNCHANGED <<unit, pipe, peer, Connected>>
  PROVE  /\ call' \in [Caller -> Call] /\ CallsOK'
         /\ call'[t].at \notin Locking
         /\ \A s \in Caller \ {t} : call'[s] = call[s]
<1>1. /\ WellFormed(call[t]) /\ NeverAhead(call[t], Connected)
  BY DEF Inv, CallsOK
<1>2. WellFormed(c) /\ NeverAhead(c, Connected) /\ DropsDead(c, Connected, pipe, unit, peer)
  BY <1>1 DEF WellFormed, NeverAhead, DropsDead, Inside
<1>3. /\ call' \in [Caller -> Call] /\ CallsOK'
      /\ call'[t] = c /\ \A s \in Caller \ {t} : call'[s] = call[s]
  BY <1>2, Moved
<1> QED
  BY <1>3 DEF Locking, Inside

-----------------------------------------------------------------------------
(***************************************************************************)
(* The steps of the server                                                 *)
(***************************************************************************)

\* A thread that is inside of a call belongs to a unit that was opened.
LEMMA UnitOpened ==
  ASSUME Inv, NEW t \in Caller, call[t].at # "idle"
  PROVE  unit # "none"
BY DEF Inv, LockOK

\* A thread begins a call, or shuts the unit down because it cannot.
LEMMA BeginKeeps ==
  ASSUME Inv, NEW t \in Caller, NEW r \in Request \cup {NULL}, Begin(t, r),
         call[t].at \in {"idle", "serve"}, unit \in {"open", "shut"},
         UNCHANGED <<pipeVars, unitVars, client, dropped>>,
         owed' \in SUBSET Request
  PROVE  Inv'
<1>1. CASE unit = "open" /\ Continue(t, [Idle EXCEPT !.at = "lock", !.rsp = r]) /\ UNCHANGED unit
  <2> DEFINE c == [Idle EXCEPT !.at = "lock", !.rsp = r]
  <2>1. c \in Call /\ c.at = "lock" /\ Continue(t, c)
    BY <1>1, IdleFits DEF Call
  <2> HIDE DEF c
  <2>2. WellFormed(c) /\ NeverAhead(c, Connected) /\ DropsDead(c, Connected, pipe, unit, peer)
    BY <2>1 DEF WellFormed, NeverAhead, DropsDead, Inside
  <2>3. /\ call' \in [Caller -> Call] /\ CallsOK'
        /\ call'[t] = c /\ \A s \in Caller \ {t} : call'[s] = call[s]
    BY <1>1, <2>1, <2>2, Moved DEF pipeVars, unitVars
  <2>4. LockOK'
    BY <1>1, <2>1, <2>3, LockKept DEF unitVars, Locking
  <2>5. DataOK'
    BY <1>1, <2>3 DEF Inv, DataOK, pipeVars, unitVars
  <2> QED
    BY <2>3, <2>4, <2>5 DEF Inv
<1>2. CASE Continue(t, Ended) /\ unit' = "shut"
  <2>1. /\ call' \in [Caller -> Call]
        /\ call'[t] = Ended /\ \A s \in Caller \ {t} : call'[s] = call[s]
    BY <1>2, IdleFits DEF Inv, DataOK, Continue
  <2>2. CallsOK'
    <3> SUFFICES ASSUME NEW s \in Caller
                 PROVE  WellFormed(call'[s]) /\ NeverAhead(call'[s], Connected)
      BY <1>2 DEF CallsOK, DropsDead, unitVars
    <3>1. WellFormed(call[s]) /\ NeverAhead(call[s], Connected)
      BY DEF Inv, CallsOK
    <3>2. WellFormed(Ended) /\ NeverAhead(Ended, Connected)
      BY IdleFits DEF NeverAhead, Inside
    <3> QED
      BY <2>1, <3>1, <3>2
  <2>3. LockOK'
    BY <1>2, <2>1, IdleFits DEF Inv, LockOK, Locking, unitVars
  <2>4. DataOK'
    BY <1>2, <2>1 DEF Inv, DataOK, pipeVars, unitVars
  <2> QED
    BY <2>2, <2>3, <2>4 DEF Inv
<1> QED
  BY <1>1, <1>2 DEF Begin

\* A dispatcher thread asks for its next request; a responder sends a response.
LEMMA TransactKeeps ==
  ASSUME Inv, NEW t \in Caller, Transact(t)
  PROVE  Inv'
<1> USE DEF Transact
<1>1. call[t] \in Call /\ WellFormed(call[t]) /\ unit \in {"open", "shut"}
  BY DEF Inv, DataOK, CallsOK
<1>2. owed \in SUBSET Request
  BY DEF Inv, DataOK
<1>3. CASE call[t].at = "idle" /\ Begin(t, NULL) /\ UNCHANGED owed
  BY <1>1, <1>2, <1>3, BeginKeeps
<1>4. CASE call[t].at = "serve" /\ Begin(t, call[t].req) /\ UNCHANGED owed
  <2>1. PICK r : r = call[t].req
    OBVIOUS
  <2>2. r \in Request
    BY <1>1, <1>4, <2>1 DEF WellFormed
  <2> QED
    BY <1>1, <1>2, <1>4, <2>1, <2>2, BeginKeeps
<1>5. CASE call[t].at = "serve" /\ Begin(t, NULL) /\ owed' = owed \cup {call[t].req}
  <2>1. call[t].req \in Request
    BY <1>1, <1>5 DEF WellFormed
  <2> QED
    BY <1>1, <1>2, <1>5, <2>1, BeginKeeps
<1> QED
  BY <1>3, <1>4, <1>5

LEMMA SendResponseKeeps ==
  ASSUME Inv, NEW t \in Caller, SendResponse(t)
  PROVE  Inv'
<1> USE DEF SendResponse
<1>1. PICK r \in owed : Begin(t, r) /\ owed' = owed \ {r}
  OBVIOUS
<1>2. r \in Request /\ owed' \in SUBSET Request
  BY <1>1 DEF Inv, DataOK
<1> QED
  BY <1>1, <1>2, BeginKeeps

\* ConnectNamedPipe returns.
LEMMA ConnectNamedPipeKeeps ==
  ASSUME Inv, NEW t \in Caller, ConnectNamedPipe(t)
  PROVE  Inv'
<1> USE DEF ConnectNamedPipe
<1>1. call[t] \in Call /\ lock = t /\ t # NULL /\ unit # "none"
  BY NullNoCaller, UnitOpened DEF Inv, DataOK, LockOK, Locking
<1>2. CASE Stopped /\ lock' = NULL /\ Continue(t, Ended)
  <2>1. NeverAhead(Ended, Connected) /\ DropsDead(Ended, Connected, pipe, unit, peer)
    BY IdleFits DEF NeverAhead, DropsDead, Inside
  <2>2. /\ call' \in [Caller -> Call] /\ CallsOK'
        /\ call'[t] = Ended /\ \A s \in Caller \ {t} : call'[s] = call[s]
    BY <1>2, <2>1, IdleFits, Moved DEF pipeVars
  <2>3. LockOK'
    BY <1>1, <1>2, <2>2, IdleFits, NullNoCaller DEF Inv, LockOK, Locking
  <2>4. DataOK'
    BY <2>2 DEF Inv, DataOK, pipeVars
  <2> QED
    BY <2>2, <2>3, <2>4 DEF Inv
<1>3. CASE Goto(t, "params") /\ UNCHANGED lock
  <2> DEFINE c == [call[t] EXCEPT !.at = "params"]
  <2>1. c \in Call /\ c.at = "params" /\ Continue(t, c)
    BY <1>1, <1>3 DEF Call, Goto
  <2> HIDE DEF c
  <2>2. WellFormed(c) /\ NeverAhead(c, Connected) /\ DropsDead(c, Connected, pipe, unit, peer)
    BY <2>1 DEF WellFormed, NeverAhead, DropsDead, Inside
  <2>3. /\ call' \in [Caller -> Call] /\ CallsOK'
        /\ call'[t] = c /\ \A s \in Caller \ {t} : call'[s] = call[s]
    BY <2>1, <2>2, Moved DEF pipeVars
  <2>4. LockOK'
    BY <1>1, <1>3, <2>1, <2>3, LockKept DEF Locking
  <2>5. DataOK'
    BY <2>3 DEF Inv, DataOK, pipeVars
  <2> QED
    BY <2>3, <2>4, <2>5 DEF Inv
<1> QED
  BY <1>2, <1>3

\* Where a thread goes on when it has released the lock.
LEMMA AfterLockFits ==
  ASSUME Inv, NEW t \in Caller
  PROVE  /\ AfterLock(t) \in Call /\ AfterLock(t).conn = Connected
         /\ AfterLock(t).at \in {"read", "take", "write"}
         /\ AfterLock(t).at \in {"take", "write"} => AfterLock(t).rsp \in Request
<1>1. call[t] \in Call /\ Connected \in Int
  BY DEF Inv, DataOK
<1> QED
  BY <1>1 DEF Call, AfterLock

\* The lock is taken.
LEMMA LockKeeps ==
  ASSUME Inv, NEW t \in Caller, Lock(t)
  PROVE  Inv'
<1> USE DEF Lock
<1>1. call[t] \in Call /\ lock # t /\ t # NULL /\ unit # "none" /\ Connected \in Int
  BY NullNoCaller, UnitOpened DEF Inv, DataOK, LockOK, Locking
<1>2. CASE Connected > 0 /\ Continue(t, AfterLock(t)) /\ UNCHANGED <<pipe, lock>>
  <2>1. PICK c : c = AfterLock(t)
    OBVIOUS
  <2>2. /\ c \in Call /\ c.at \in {"read", "take", "write"} /\ c.conn = Connected
        /\ c.at \in {"take", "write"} => c.rsp \in Request
    BY <2>1, AfterLockFits
  <2>3. WellFormed(c) /\ NeverAhead(c, Connected) /\ DropsDead(c, Connected, pipe, unit, peer)
    BY <1>1, <1>2, <2>2 DEF WellFormed, NeverAhead, DropsDead, Inside
  <2>4. /\ call' \in [Caller -> Call] /\ CallsOK'
        /\ call'[t] = c /\ \A s \in Caller \ {t} : call'[s] = call[s]
    BY <1>2, <2>1, <2>3, Moved
  <2>5. LockOK'
    BY <1>1, <1>2, <2>2, <2>4, LockKept DEF Locking
  <2>6. DataOK'
    BY <1>2, <2>4 DEF Inv, DataOK
  <2> QED
    BY <2>4, <2>5, <2>6 DEF Inv
<1>3. CASE /\ Connected <= 0 /\ lock' = t
           /\ \E p \in {"connect", "params"} : Goto(t, p)
           /\ pipe' = pipe \/ pipe' = "listening"
  <2>1. PICK p \in {"connect", "params"} : Goto(t, p)
    BY <1>3
  <2> DEFINE c == [call[t] EXCEPT !.at = p]
  <2>2. c \in Call /\ c.at = p /\ call' = [call EXCEPT ![t] = c]
    BY <1>1, <2>1 DEF Call, Goto, Continue
  <2> HIDE DEF c
  <2>3. WellFormed(c) /\ NeverAhead(c, Connected)
    BY <2>2 DEF WellFormed, NeverAhead, Inside
  <2>4. /\ call' \in [Caller -> Call]
        /\ call'[t] = c /\ \A s \in Caller \ {t} : call'[s] = call[s]
    BY <2>2 DEF Inv, DataOK
  <2>5. CallsOK'
    <3> SUFFICES ASSUME NEW s \in Caller
                 PROVE  /\ WellFormed(call'[s]) /\ NeverAhead(call'[s], Connected)
                        /\ DropsDead(call'[s], Connected, pipe', unit', peer')
      BY DEF CallsOK
    <3>1. WellFormed(call'[s]) /\ NeverAhead(call'[s], Connected)
      BY <2>3, <2>4 DEF Inv, CallsOK
    <3> QED
      BY <1>1, <1>3, <3>1 DEF WellFormed, DropsDead, Inside
  <2>6. LockOK'
    BY <1>1, <1>3, <2>2, <2>4, NullNoCaller DEF Inv, LockOK, Locking
  <2>7. DataOK'
    BY <1>1, <1>3, <2>4 DEF Inv, DataOK, QueueFits
  <2> QED
    BY <2>5, <2>6, <2>7 DEF Inv
<1>4. CASE Return(t, NULL) /\ UNCHANGED <<pipe, lock>>
  <2>1. /\ call' \in [Caller -> Call] /\ CallsOK'
        /\ call'[t].at \notin Locking
        /\ \A s \in Caller \ {t} : call'[s] = call[s]
    BY <1>4, Returned
  <2>2. LockOK'
    BY <1>1, <1>4, <2>1, LockKept DEF Locking
  <2>3. DataOK'
    BY <1>4, <2>1 DEF Inv, DataOK
  <2> QED
    BY <2>1, <2>2, <2>3 DEF Inv
<1> QED
  BY <1>2, <1>3, <1>4

\* DisconnectNamedPipe fails the reads in progress: the threads that wait for
\* one go to drop the connection themselves, which is no longer there.
LEMMA DisconnectedKeeps ==
  ASSUME Inv, NEW t \in Caller, call' = [Disconnected(call) EXCEPT ![t] = Idle],
         NEW n \in Int, Connected' = n, n <= 0, n = Connected \/ n = -Connected,
         UNCHANGED unit
  PROVE  /\ call' \in [Caller -> Call] /\ CallsOK'
         /\ call'[t] = Idle
         /\ \A s \in Caller \ {t} :
              \/ call'[s].at = call[s].at
              \/ call[s].at = "reading" /\ call'[s].at = "disconnect"
<1>1. call \in [Caller -> Call] /\ Connected \in Int
  BY DEF Inv, DataOK
<1>2. call'[t] = Idle
  BY DEF Disconnected
<1>3. ASSUME NEW s \in Caller \ {t}
      PROVE  /\ call'[s] \in Call
             /\ call'[s].conn = call[s].conn /\ call'[s].req = call[s].req
             /\ call'[s].rsp = call[s].rsp
             /\ \/ call'[s].at = call[s].at
                \/ call[s].at = "reading" /\ call'[s].at = "disconnect"
  <2>1. call[s] \in Call
    BY <1>1
  <2>2. call'[s] = IF call[s].at = "reading" THEN [call[s] EXCEPT !.at = "disconnect"]
                                             ELSE call[s]
    BY DEF Disconnected
  <2>3. CASE call[s].at = "reading"
    <3> DEFINE d == [call[s] EXCEPT !.at = "disconnect"]
    <3>1. /\ d \in Call /\ d.conn = call[s].conn /\ d.req = call[s].req
          /\ d.rsp = call[s].rsp /\ d.at = "disconnect"
      BY <2>1 DEF Call
    <3> QED
      BY <2>2, <2>3, <3>1
  <2> QED
    BY <2>1, <2>2, <2>3
<1>4. call' \in [Caller -> Call]
  <2>1. /\ DOMAIN call' = Caller /\ call' = [s \in Caller |-> call'[s]]
    BY DEF Disconnected
  <2> QED
    BY <1>2, <1>3, <2>1, IdleFits
<1>5. CallsOK'
  <2> SUFFICES ASSUME NEW s \in Caller
               PROVE  /\ WellFormed(call'[s]) /\ NeverAhead(call'[s], Connected')
                      /\ DropsDead(call'[s], Connected', pipe', unit', peer')
    BY DEF CallsOK
  <2>1. WellFormed(call[s]) /\ NeverAhead(call[s], Connected)
    BY DEF Inv, CallsOK
  <2>2. CASE s = t
    BY <1>2, <2>2, IdleFits DEF NeverAhead, DropsDead, Inside
  <2>3. CASE s # t
    <3>1. WellFormed(call'[s])
      BY <1>3, <2>1, <2>3 DEF WellFormed, Inside
    <3>2. NeverAhead(call'[s], Connected')
      BY <1>1, <1>3, <2>1, <2>3 DEF WellFormed, NeverAhead, Inside, Call
    <3>3. DropsDead(call'[s], Connected', pipe', unit', peer')
      BY <1>3, <2>3, <3>1 DEF WellFormed, DropsDead, Inside, Call
    <3> QED
      BY <3>1, <3>2, <3>3
  <2> QED
    BY <2>2, <2>3
<1> QED
  BY <1>2, <1>3, <1>4, <1>5

\* DisconnectNamedPipe leaves a pipe without a client and without messages.
LEMMA Disconnects ==
  ASSUME NEW s \in {"none", "disconnected"}, DisconnectPipe(s)
  PROVE  /\ pipe' = s /\ peer' = NULL
         /\ toServer' \in Seq(Request) /\ toClient' \in Seq(Message)
         /\ QueueFits(toServer', pipe', peer')
BY DEF DisconnectPipe, QueueFits

\* The StorageUnitParams are written: with success there is a connection with
\* a number that no thread remembers.
LEMMA WriteParamsKeeps ==
  ASSUME Inv, NEW t \in Caller, WriteParams(t)
  PROVE  Inv'
<1> USE DEF WriteParams
<1>1. /\ call \in [Caller -> Call] /\ lock = t /\ t # NULL /\ unit # "none"
      /\ Connected \in Int /\ Connected <= 0
  BY NullNoCaller, UnitOpened DEF Inv, DataOK, LockOK, Locking
<1>2. CASE pipe = "connected" /\ ~Stopped
  <2> DEFINE n == NextConnected
             c == [AfterLock(t) EXCEPT !.conn = n]
  <2>1. n \in Int /\ n > 0 /\ n = -Connected + 1
    BY <1>1 DEF NextConnected
  <2>2. /\ c \in Call /\ c.at \in {"read", "take", "write"} /\ c.conn = n
        /\ c.at \in {"take", "write"} => c.rsp \in Request
    BY <2>1, AfterLockFits DEF Call
  <2>3. call' = [call EXCEPT ![t] = c]
    BY <1>2 DEF Continue
  <2> HIDE DEF c, n
  <2>4. /\ call' \in [Caller -> Call]
        /\ call'[t] = c /\ \A s \in Caller \ {t} : call'[s] = call[s]
    BY <1>1, <2>2, <2>3
  <2>5. CallsOK'
    <3> SUFFICES ASSUME NEW s \in Caller
                 PROVE  /\ WellFormed(call'[s]) /\ NeverAhead(call'[s], Connected')
                        /\ DropsDead(call'[s], Connected', pipe', unit', peer')
      BY DEF CallsOK
    <3>1. Connected' = n
      BY <1>2 DEF n
    <3>2. WellFormed(call[s]) /\ NeverAhead(call[s], Connected)
      BY DEF Inv, CallsOK
    <3>3. CASE s = t
      BY <2>1, <2>2, <2>4, <3>1, <3>3 DEF WellFormed, NeverAhead, DropsDead, Inside
    <3>4. CASE s # t
      BY <1>1, <2>1, <2>4, <3>1, <3>2, <3>4
         DEF WellFormed, NeverAhead, DropsDead, Inside, Call
    <3> QED
      BY <3>3, <3>4
  <2>6. LockOK'
    BY <1>1, <2>2, <2>4, NullNoCaller DEF Inv, LockOK, Locking
  <2>7. toClient' \in Seq(Message)
    <3>1. toClient \in Seq(Message) /\ Params \in Message
      BY DEF Inv, DataOK, Message
    <3> QED
      BY <1>2, <3>1
  <2>8. DataOK'
    BY <1>2, <2>1, <2>4, <2>7 DEF Inv, DataOK, n
  <2> QED
    BY <2>5, <2>6, <2>8 DEF Inv
<1>3. CASE ~(pipe = "connected" /\ ~Stopped)
  <2>1. /\ call' \in [Caller -> Call] /\ CallsOK' /\ call'[t] = Idle
        /\ \A s \in Caller \ {t} :
             \/ call'[s].at = call[s].at
             \/ call[s].at = "reading" /\ call'[s].at = "disconnect"
    <3>1. PICK n : n = Connected
      OBVIOUS
    <3> QED
      BY <1>1, <1>3, <3>1, DisconnectedKeeps
  <2>2. LockOK'
    BY <1>1, <2>1, IdleFits, NullNoCaller DEF Inv, LockOK, Locking
  <2>3. DataOK'
    <3>1. DisconnectPipe("disconnected") /\ UNCHANGED <<Connected, unit, hints, owed, client>>
      BY <1>3
    <3> QED
      BY <1>1, <2>1, <3>1, Disconnects DEF Inv, DataOK
  <2> QED
    BY <2>1, <2>2, <2>3 DEF Inv
<1> QED
  BY <1>2, <1>3

\* Under the lock a thread drops the connection it remembers, or returns.
LEMMA DisconnectKeeps ==
  ASSUME Inv, NEW t \in Caller, Disconnect(t)
  PROVE  Inv'
<1> USE DEF Disconnect
<1>1. /\ call \in [Caller -> Call] /\ lock # t /\ unit # "none" /\ Connected \in Int
      /\ WellFormed(call[t])
  BY UnitOpened DEF Inv, DataOK, LockOK, CallsOK, Locking
<1>2. CASE SameConnection(t)
  <2>1. Connected > 0 /\ -Connected \in Int /\ Connected' = -Connected
    BY <1>1, <1>2 DEF SameConnection, Dropped, WellFormed, Inside
  <2>2. /\ call' \in [Caller -> Call] /\ CallsOK' /\ call'[t] = Idle
        /\ \A s \in Caller \ {t} :
             \/ call'[s].at = call[s].at
             \/ call[s].at = "reading" /\ call'[s].at = "disconnect"
    <3>1. PICK n : n = -Connected
      OBVIOUS
    <3> QED
      BY <1>1, <1>2, <2>1, <3>1, DisconnectedKeeps
  <2>3. LockOK'
    BY <1>1, <2>1, <2>2, IdleFits, NullNoCaller DEF Inv, LockOK, Locking
  <2>4. DataOK'
    BY <1>1, <1>2, <2>1, <2>2, Disconnects DEF Inv, DataOK
  <2> QED
    BY <2>2, <2>3, <2>4 DEF Inv
<1>3. CASE ~SameConnection(t)
  <2>1. Return(t, NULL) /\ UNCHANGED <<pipe, peer, toServer, toClient, Connected>>
    BY <1>3 DEF pipeVars
  <2>2. /\ call' \in [Caller -> Call] /\ CallsOK'
        /\ call'[t].at \notin Locking
        /\ \A s \in Caller \ {t} : call'[s] = call[s]
    BY <2>1, Returned
  <2>3. LockOK'
    BY <1>1, <2>1, <2>2, LockKept DEF Locking
  <2>4. DataOK'
    BY <2>1, <2>2 DEF Inv, DataOK
  <2> QED
    BY <2>2, <2>3, <2>4 DEF Inv
<1> QED
  BY <1>2, <1>3

\* TakeHintValue and PutHintValue.
LEMMA TakeHintValueKeeps ==
  ASSUME Inv, NEW t \in Caller, TakeHintValue(t)
  PROVE  Inv'
<1> USE DEF TakeHintValue
<1>1. /\ call[t] \in Call /\ unit # "none" /\ WellFormed(call[t])
      /\ call[t].at \in Inside /\ call[t].at \notin Locking
  BY UnitOpened DEF Inv, DataOK, CallsOK, Inside, Locking
<1>2. PICK d : d = IF InUse(call[t].rsp) THEN 1 ELSE 0
  OBVIOUS
<1>d. d \in 0 .. 1
  BY <1>2
<1> DEFINE c == [call[t] EXCEPT !.at = "write", !.data = d]
<1>3. c \in Call /\ c.at = "write" /\ c.conn = call[t].conn /\ c.rsp = call[t].rsp
  BY <1>1, <1>d DEF Call
<1> HIDE DEF c
<1>4. /\ call' \in [Caller -> Call] /\ CallsOK'
      /\ call'[t].at \notin Locking
      /\ \A s \in Caller \ {t} : call'[s] = call[s]
  <2>1. Continue(t, c) /\ c.rsp \in Request
    BY <1>1, <1>2, <1>3 DEF c, WellFormed
  <2> QED
    BY <1>1, <1>3, <2>1, WentOn DEF pipeVars, Inside
<1>5. LockOK'
  BY <1>1, <1>4, LockKept
<1>6. DataOK'
  BY <1>4 DEF Inv, DataOK, Forget, pipeVars
<1> QED
  BY <1>4, <1>5, <1>6 DEF Inv

LEMMA PutHintValueKeeps ==
  ASSUME Inv, NEW t \in Caller, PutHintValue(t)
  PROVE  Inv'
<1> USE DEF PutHintValue
<1>1. /\ call[t] \in Call /\ unit # "none" /\ WellFormed(call[t])
      /\ call[t].at \notin Locking
  BY UnitOpened DEF Inv, DataOK, CallsOK, Locking
<1>2. PICK r : r = call[t].req
  OBVIOUS
<1>3. r \in Request
  BY <1>1, <1>2 DEF WellFormed
<1>4. \/ Return(t, NULL) /\ UNCHANGED hints
      \/ Return(t, r) /\ hints' = hints \cup {r}
  BY <1>2
<1>5. /\ call' \in [Caller -> Call] /\ CallsOK'
      /\ call'[t].at \notin Locking
      /\ \A s \in Caller \ {t} : call'[s] = call[s]
  BY <1>3, <1>4, Returned DEF pipeVars
<1>6. LockOK'
  BY <1>1, <1>5, LockKept
<1>7. hints' \in SUBSET Request /\ dropped' \in SUBSET Request
  BY <1>2, <1>3 DEF Inv, DataOK
<1>8. DataOK'
  BY <1>5, <1>7 DEF Inv, DataOK, pipeVars
<1> QED
  BY <1>5, <1>6, <1>8 DEF Inv

\* The response is taken out of a call.
LEMMA Cleared ==
  ASSUME NEW k \in Call, NEW l \in {"read", "disconnect"}
  PROVE  LET c == [k EXCEPT !.at = l, !.rsp = NULL, !.data = 0]
         IN  c \in Call /\ c.at = l /\ c.conn = k.conn
<1> DEFINE a == [k EXCEPT !.at = l]
           b == [a EXCEPT !.rsp = NULL]
           c == [b EXCEPT !.data = 0]
<1>1. a \in Call /\ a.at = l /\ a.conn = k.conn
  BY DEF Call
<1> HIDE DEF a
<1>2. b \in Call /\ b.at = l /\ b.conn = k.conn
  BY <1>1 DEF Call
<1> HIDE DEF b
<1>3. c \in Call /\ c.at = l /\ c.conn = k.conn
  BY <1>2 DEF Call
<1> QED
  BY <1>3 DEF a, b

\* The response is written.
LEMMA WriteResponseKeeps ==
  ASSUME Inv, NEW t \in Caller, WriteResponse(t)
  PROVE  Inv'
<1> USE DEF WriteResponse
<1>1. /\ call[t] \in Call /\ unit # "none" /\ WellFormed(call[t])
      /\ call[t].at \in Inside /\ call[t].at \notin Locking
  BY UnitOpened DEF Inv, DataOK, CallsOK, Inside, Locking
<1>2. /\ call' \in [Caller -> Call] /\ CallsOK'
      /\ call'[t].at \notin Locking
      /\ \A s \in Caller \ {t} : call'[s] = call[s]
  <2>1. CASE Return(t, NULL)
    BY <2>1, Returned DEF unitVars
  <2>2. CASE /\ pipe # "connected" \/ Stopped
             /\ Continue(t, [call[t] EXCEPT !.at = "disconnect", !.rsp = NULL, !.data = 0])
    <3> DEFINE c == [call[t] EXCEPT !.at = "disconnect", !.rsp = NULL, !.data = 0]
    <3>1. c \in Call /\ c.at = "disconnect" /\ c.conn = call[t].conn
      BY <1>1, Cleared
    <3>2. Continue(t, c)
      BY <2>2
    <3> HIDE DEF c
    <3> QED
      BY <1>1, <2>2, <3>1, <3>2, WentOn DEF unitVars, Inside, Stopped
  <2>3. CASE Continue(t, [call[t] EXCEPT !.at = "read", !.rsp = NULL, !.data = 0])
    <3> DEFINE c == [call[t] EXCEPT !.at = "read", !.rsp = NULL, !.data = 0]
    <3>1. c \in Call /\ c.at = "read" /\ c.conn = call[t].conn
      BY <1>1, Cleared
    <3>2. Continue(t, c)
      BY <2>3
    <3> HIDE DEF c
    <3> QED
      BY <1>1, <3>1, <3>2, WentOn DEF unitVars, Inside
  <2> QED
    BY <2>1, <2>2, <2>3
<1>3. LockOK'
  BY <1>1, <1>2, LockKept DEF unitVars
<1>4. toClient' \in Seq(Message)
  <2>1. toClient \in Seq(Message) /\ call[t].rsp \in Request /\ call[t].data \in 0 .. 1
    BY <1>1 DEF Inv, DataOK, WellFormed, Call
  <2>2. [req |-> call[t].rsp, data |-> call[t].data] \in Message
    BY <2>1 DEF Message, Response
  <2> QED
    BY <2>1, <2>2
<1>5. DataOK'
  BY <1>2, <1>4 DEF Inv, DataOK, unitVars
<1> QED
  BY <1>2, <1>3, <1>5 DEF Inv

\* A read is issued, and ends.
LEMMA BeginReadKeeps ==
  ASSUME Inv, NEW t \in Caller, BeginRead(t)
  PROVE  Inv'
<1> USE DEF BeginRead
<1>1. /\ call[t] \in Call /\ unit # "none"
      /\ call[t].at \in Inside /\ call[t].at \notin Locking
  BY UnitOpened DEF Inv, DataOK, Inside, Locking
<1>2. PICK l : l = IF pipe \in {"connected", "closing"} THEN "reading" ELSE "disconnect"
  OBVIOUS
<1> DEFINE c == [call[t] EXCEPT !.at = l]
<1>3. l \in {"reading", "disconnect"} /\ (l = "disconnect" => pipe # "connected")
  BY <1>2
<1>4. c \in Call /\ c.at = l /\ c.conn = call[t].conn
  BY <1>1, <1>3 DEF Call
<1>5. Continue(t, c)
  BY <1>2 DEF Goto
<1> HIDE DEF c
<1>6. /\ call' \in [Caller -> Call] /\ CallsOK'
      /\ call'[t].at \notin Locking
      /\ \A s \in Caller \ {t} : call'[s] = call[s]
  BY <1>1, <1>3, <1>4, <1>5, WentOn DEF pipeVars, unitVars, Inside
<1>7. LockOK'
  BY <1>1, <1>6, LockKept DEF unitVars
<1>8. DataOK'
  BY <1>6 DEF Inv, DataOK, pipeVars, unitVars
<1> QED
  BY <1>6, <1>7, <1>8 DEF Inv

\* What is left of a message that is too long; its client sends such messages.
LEMMA PartRead ==
  ASSUME NEW q \in Seq(Request), NEW p, NEW e, QueueFits(q, p, e), q # <<>>,
         Head(q).kind = "long"
  PROVE  LET z == [q EXCEPT ![1].kind = "bad"]
         IN  z \in Seq(Request) /\ QueueFits(z, p, e) /\ ~Fitting(e)
<1> DEFINE z == [q EXCEPT ![1].kind = "bad"]
<1>1. 1 \in 1 .. Len(q) /\ Head(q) = q[1] /\ q[1] \in Request
  OBVIOUS
<1>2. ~Fitting(e) /\ p \notin {"none", "listening", "disconnected"}
  BY <1>1 DEF QueueFits
<1>3. [q[1] EXCEPT !.kind = "bad"] \in Request
  BY <1>1 DEF Request, Kind
<1>4. z \in Seq(Request)
  BY <1>1, <1>3
<1> QED
  BY <1>2, <1>4 DEF QueueFits

LEMMA EndReadKeeps ==
  ASSUME Inv, NEW t \in Caller, EndRead(t)
  PROVE  Inv'
<1> USE DEF EndRead
<1>1. /\ call[t] \in Call /\ unit # "none" /\ toServer \in Seq(Request)
      /\ QueueFits(toServer, pipe, peer)
      /\ call[t].at \in Inside /\ call[t].at \notin Locking
  BY UnitOpened DEF Inv, DataOK, Inside, Locking
<1>2. /\ call' \in [Caller -> Call] /\ CallsOK'
      /\ call'[t].at \notin Locking
      /\ \A s \in Caller \ {t} : call'[s] = call[s]
      /\ toServer' \in Seq(Request) /\ QueueFits(toServer', pipe, peer)
  <2>1. CASE toServer # <<>> /\ ReadMessage(t)
    <3>1. PICK r : r = Head(toServer)
      OBVIOUS
    <3>2. /\ r \in Request /\ toServer' \in Seq(Request)
          /\ QueueFits(toServer', pipe, peer)
      BY <1>1, <2>1, <3>1 DEF ReadMessage, QueueFits
    <3>3. CASE r.kind = "read"
      <4> DEFINE c == [call[t] EXCEPT !.at = "put", !.req = r]
      <4>1. c \in Call /\ c.at = "put" /\ c.conn = call[t].conn /\ c.req = r
        BY <1>1, <3>2 DEF Call
      <4>2. Continue(t, c)
        BY <2>1, <3>1, <3>3 DEF ReadMessage
      <4> HIDE DEF c
      <4> QED
        BY <1>1, <3>2, <4>1, <4>2, WentOn DEF unitVars, Inside
    <3>4. CASE r.kind # "read"
      <4>1. PICK q : q = IF r.kind = "bad" THEN NULL ELSE r
        OBVIOUS
      <4>2. Return(t, q) /\ q \in Request \cup {NULL}
        BY <2>1, <3>1, <3>2, <3>4, <4>1 DEF ReadMessage
      <4> QED
        BY <3>2, <4>2, Returned DEF unitVars
    <3> QED
      BY <3>3, <3>4
  <2>2. CASE /\ Goto(t, "disconnect")
             /\ toServer' \in Seq(Request) /\ QueueFits(toServer', pipe, peer)
             /\ pipe # "connected" \/ unit # "open" \/ ~Fitting(peer)
    <3> DEFINE c == [call[t] EXCEPT !.at = "disconnect"]
    <3>1. c \in Call /\ c.at = "disconnect" /\ c.conn = call[t].conn
      BY <1>1 DEF Call
    <3>2. Continue(t, c)
      BY <2>2 DEF Goto
    <3> HIDE DEF c
    <3>3. /\ call' \in [Caller -> Call] /\ CallsOK'
          /\ call'[t].at \notin Locking
          /\ \A s \in Caller \ {t} : call'[s] = call[s]
      BY <1>1, <2>2, <3>1, <3>2, WentOn DEF unitVars, Inside
    <3> QED
      BY <2>2, <3>3
  <2>3. CASE toServer # <<>> /\ ReadPart(t)
    <3>1. toServer' = [toServer EXCEPT ![1].kind = "bad"] /\ Head(toServer).kind = "long"
      BY <2>3 DEF ReadPart
    <3>2. toServer' \in Seq(Request) /\ QueueFits(toServer', pipe, peer) /\ ~Fitting(peer)
      BY <1>1, <2>3, <3>1, PartRead
    <3> QED
      BY <2>2, <2>3, <3>2 DEF ReadPart
  <2>4. CASE /\ Stopped \/ (toServer = <<>> /\ pipe = "closing")
             /\ Goto(t, "disconnect") /\ UNCHANGED toServer
    BY <1>1, <2>2, <2>4 DEF Stopped
  <2> QED
    BY <2>1, <2>3, <2>4
<1>3. LockOK'
  BY <1>1, <1>2, LockKept DEF unitVars
<1>4. DataOK'
  BY <1>2 DEF Inv, DataOK, unitVars
<1> QED
  BY <1>2, <1>3, <1>4 DEF Inv

-----------------------------------------------------------------------------
(***************************************************************************)
(* The steps of the clients and of the application                         *)
(***************************************************************************)

\* What a client does to the pipe leaves the threads of the server where they
\* are: it connects to a pipe that listens, and then there is no connection a
\* thread could drop; or it closes its end.
LEMMA ClientKeeps ==
  ASSUME Inv, UNCHANGED <<unit, unitVars, call, owed>>,
         \/ pipe' = pipe /\ peer' = peer
         \/ pipe' = "closing" /\ pipe # "none"
         \/ pipe = "listening" /\ pipe' = "connected",
         peer' \in Client \cup {NULL}, QueueFits(toServer', pipe', peer'),
         toServer' \in Seq(Request), toClient' \in Seq(Message),
         client' \in [Client -> ClientState], \A d \in Client : ClientFits(client'[d]),
         UNCHANGED dropped
  PROVE  Inv'
<1>1. DataOK'
  BY DEF Inv, DataOK, unitVars
<1>2. LockOK'
  BY DEF Inv, LockOK, unitVars
<1>3. CallsOK'
  <2> SUFFICES ASSUME NEW s \in Caller
               PROVE  /\ WellFormed(call[s]) /\ NeverAhead(call[s], Connected)
                      /\ DropsDead(call[s], Connected, pipe', unit, peer')
    BY DEF CallsOK, unitVars
  <2>1. /\ WellFormed(call[s]) /\ NeverAhead(call[s], Connected)
        /\ DropsDead(call[s], Connected, pipe, unit, peer)
    BY DEF Inv, CallsOK
  <2>2. Connected > 0 /\ unit # "closed" => pipe \in {"connected", "closing"}
    BY DEF Inv, DataOK
  <2> QED
    BY <2>1, <2>2 DEF WellFormed, DropsDead, Inside
<1> QED
  BY <1>1, <1>2, <1>3 DEF Inv

\* The state of a client changes.
LEMMA ClientMoved ==
  ASSUME Inv, NEW c \in Client,
         NEW l \in {"none", "busy", "opened", "ready", "wait", "closed"}, ClientGoto(c, l)
  PROVE  /\ client' \in [Client -> ClientState]
         /\ \/ l = "closed"
            \/ l = "busy" /\ client[c].at = "none"
            \/ l = "ready" /\ client[c].at \in {"opened", "wait"}
            => \A d \in Client : ClientFits(client'[d])
<1>1. client \in [Client -> ClientState] /\ \A d \in Client : ClientFits(client[d])
  BY DEF Inv, DataOK
<1>2. PICK e : e = [client[c] EXCEPT !.at = l]
  OBVIOUS
<1>3. /\ e \in ClientState /\ e.at = l /\ e.id = client[c].id /\ e.n = client[c].n
  BY <1>1, <1>2 DEF ClientState
<1>4. client' = [client EXCEPT ![c] = e]
  BY <1>2 DEF ClientGoto
<1>5. client'[c] = e /\ \A d \in Client \ {c} : client'[d] = client[d]
  BY <1>1, <1>4
<1> QED
  BY <1>1, <1>3, <1>4, <1>5 DEF ClientFits

\* A client closes its end of the pipe.
LEMMA CloseClientFits ==
  ASSUME Inv, NEW c \in Client, CloseClient(c) \/ UNCHANGED pipeVars
  PROVE  /\ pipe' = pipe \/ (pipe' = "closing" /\ pipe # "none")
         /\ peer' \in Client \cup {NULL} /\ peer' = peer
         /\ toServer' \in Seq(Request) /\ toClient' \in Seq(Message)
         /\ QueueFits(toServer', pipe', peer')
<1>1. /\ peer \in Client \cup {NULL} /\ QueueFits(toServer, pipe, peer)
      /\ toServer \in Seq(Request) /\ toClient \in Seq(Message)
  BY DEF Inv, DataOK
<1>2. <<>> \in Seq(Message)
  OBVIOUS
<1>3. /\ QueueFits(toServer', pipe', peer')
      /\ pipe' = pipe \/ (pipe' = "closing" /\ pipe # "none")
  BY <1>1, StgPipeAssumption DEF CloseClient, pipeVars, QueueFits
<1> QED
  BY <1>1, <1>2, <1>3 DEF CloseClient, pipeVars

LEMMA OpenClientKeeps ==
  ASSUME Inv, NEW c \in Client, OpenClient(c)
  PROVE  Inv' /\ (pipe = "connected" => peer' = peer)
<1> USE DEF OpenClient
<1>1. /\ client \in [Client -> ClientState] /\ \A d \in Client : ClientFits(client[d])
      /\ QueueFits(toServer, pipe, peer) /\ ClientFits(client[c])
      /\ client[c] \in ClientState /\ client[c].at \in {"none", "busy"}
      /\ peer \in Client \cup {NULL}
  BY DEF Inv, DataOK
<1>2. CASE /\ pipe = "listening" /\ pipe' = "connected" /\ peer' = c
           /\ \E h \in ThreadId[c] : client' = [client EXCEPT ![c].at = "opened", ![c].id = h]
  <2>1. PICK h \in ThreadId[c] : client' = [client EXCEPT ![c].at = "opened", ![c].id = h]
    BY <1>2
  <2>2. h \in Identifier
    BY DEF Identifier
  <2>3. PICK e : e = [client[c] EXCEPT !.at = "opened", !.id = h]
    OBVIOUS
  <2>4. /\ e \in ClientState /\ e.at = "opened" /\ e.id = h
    BY <1>1, <2>2, <2>3 DEF ClientState
  <2>5. client' = [client EXCEPT ![c] = e]
    BY <2>1, <2>3
  <2>6. client'[c] = e /\ \A d \in Client \ {c} : client'[d] = client[d]
    BY <1>1, <2>5
  <2>7. /\ client' \in [Client -> ClientState] /\ \A d \in Client : ClientFits(client'[d])
    BY <1>1, <2>2, <2>4, <2>5, <2>6 DEF ClientFits
  <2>8. QueueFits(toServer', pipe', peer')
    <3>1. toServer = <<>> /\ toServer' = <<>>
      BY <1>1, <1>2 DEF QueueFits
    <3> QED
      BY <1>2, <3>1 DEF QueueFits
  <2> QED
    BY <1>1, <1>2, <2>7, <2>8, ClientKeeps DEF Inv, DataOK
<1>3. CASE /\ UNCHANGED <<pipe, peer>>
           /\ \/ client[c].at = "none" /\ ClientGoto(c, "busy")
              \/ ClientGoto(c, "closed")
  <2>1. /\ client' \in [Client -> ClientState] /\ \A d \in Client : ClientFits(client'[d])
    BY <1>3, ClientMoved
  <2> QED
    BY <1>1, <1>3, <2>1, ClientKeeps DEF Inv, DataOK
<1> QED
  BY <1>2, <1>3

LEMMA ReadParamsKeeps ==
  ASSUME Inv, NEW c \in Client, ReadParams(c)
  PROVE  Inv' /\ peer' = peer
<1> USE DEF ReadParams
<1>1. /\ client' \in [Client -> ClientState] /\ \A d \in Client : ClientFits(client'[d])
  BY ClientMoved
<1>2. /\ pipe' = pipe \/ (pipe' = "closing" /\ pipe # "none")
      /\ peer' \in Client \cup {NULL} /\ peer' = peer
      /\ toServer' \in Seq(Request) /\ toClient' \in Seq(Message)
      /\ QueueFits(toServer', pipe', peer')
  <2>1. CASE CloseClient(c) \/ UNCHANGED pipeVars
    BY <2>1, CloseClientFits
  <2>2. CASE toClient # <<>> /\ toClient' = Tail(toClient) /\ UNCHANGED <<pipe, peer, toServer>>
    <3>1. toClient \in Seq(Message)
      BY DEF Inv, DataOK
    <3>2. toClient' \in Seq(Message)
      BY <2>2, <3>1
    <3> QED
      BY <2>2, <3>2 DEF Inv, DataOK
  <2> QED
    BY <2>1, <2>2
<1> QED
  BY <1>1, <1>2, ClientKeeps

LEMMA ReadResponseKeeps ==
  ASSUME Inv, NEW c \in Client, ReadResponse(c)
  PROVE  Inv' /\ peer' = peer
<1> USE DEF ReadResponse
<1>1. /\ client' \in [Client -> ClientState] /\ \A d \in Client : ClientFits(client'[d])
  BY ClientMoved
<1>2. /\ pipe' = pipe \/ (pipe' = "closing" /\ pipe # "none")
      /\ peer' \in Client \cup {NULL} /\ peer' = peer
      /\ toServer' \in Seq(Request) /\ toClient' \in Seq(Message)
      /\ QueueFits(toServer', pipe', peer')
  <2>1. CASE CloseClient(c) \/ UNCHANGED pipeVars
    BY <2>1, CloseClientFits
  <2>2. CASE toClient # <<>> /\ toClient' = Tail(toClient) /\ UNCHANGED <<pipe, peer, toServer>>
    <3>1. toClient \in Seq(Message)
      BY DEF Inv, DataOK
    <3>2. toClient' \in Seq(Message)
      BY <2>2, <3>1
    <3> QED
      BY <2>2, <3>2 DEF Inv, DataOK
  <2> QED
    BY <2>1, <2>2
<1> QED
  BY <1>1, <1>2, ClientKeeps

\* The client that has the pipe sends its next request.
LEMMA Sent ==
  ASSUME Inv, NEW c \in Client, SendRequest(c), peer = c
  PROVE  \E k \in Sends[c], e \in ClientState, r \in Request :
           /\ client' = [client EXCEPT ![c] = e] /\ toServer' = Append(toServer, r)
           /\ e.at = "wait" /\ e.n = client[c].n + 1 /\ e.id = client[c].id /\ e.kind = k
           /\ r.from = c /\ r.op = e.n /\ r.id = e.id /\ r.kind = k
           /\ ClientFits(e)
<1>1. PICK k \in Sends[c] :
        /\ client' = [client EXCEPT ![c].at = "wait", ![c].n = @ + 1, ![c].kind = k]
        /\ client[c].n < OpCount
        /\ toServer' = Append(toServer, Pending(c)')
  BY DEF SendRequest
<1>2. /\ client \in [Client -> ClientState] /\ client[c] \in ClientState
      /\ ClientFits(client[c]) /\ client[c].at = "ready" /\ k \in Kind
      /\ client[c].n + 1 \in 1 .. OpCount
  BY <1>1, StgPipeAssumption DEF Inv, DataOK, ClientState, SendRequest
<1>3. PICK e : e = [client[c] EXCEPT !.at = "wait", !.n = @ + 1, !.kind = k]
  OBVIOUS
<1>4. /\ e \in ClientState /\ e.at = "wait" /\ e.n = client[c].n + 1
      /\ e.id = client[c].id /\ e.kind = k /\ ClientFits(e)
  <2>1. PICK n : n = client[c].n + 1
    OBVIOUS
  <2>2. e = [client[c] EXCEPT !.at = "wait", !.n = n, !.kind = k] /\ n \in 0 .. OpCount
    BY <1>2, <1>3, <2>1
  <2>3. /\ e \in ClientState /\ e.at = "wait" /\ e.n = n
        /\ e.id = client[c].id /\ e.kind = k
    BY ONLY <1>2, <2>2 DEF ClientState
  <2> QED
    BY <1>2, <2>1, <2>3 DEF ClientFits
<1>5. client' = [client EXCEPT ![c] = e]
  BY <1>1, <1>3
<1>6. client'[c] = e
  BY <1>2, <1>5
<1>7. PICK r : r = [from |-> c, id |-> e.id, op |-> e.n, kind |-> e.kind]
  OBVIOUS
<1>8. r \in Request /\ r.from = c /\ r.op = e.n /\ r.id = e.id /\ r.kind = k
  BY <1>2, <1>4, <1>7 DEF Request, ClientFits
<1>9. toServer' = Append(toServer, r)
  BY <1>1, <1>6, <1>7 DEF Pending
<1> QED
  BY <1>4, <1>5, <1>8, <1>9

LEMMA SendRequestKeeps ==
  ASSUME Inv, NEW c \in Client, SendRequest(c)
  PROVE  Inv' /\ peer' = peer
<1>1. /\ client \in [Client -> ClientState] /\ \A d \in Client : ClientFits(client[d])
      /\ toServer \in Seq(Request) /\ QueueFits(toServer, pipe, peer)
      /\ peer \in Client \cup {NULL} /\ toClient \in Seq(Message)
  BY DEF Inv, DataOK
<1>2. CASE peer = c
  <2>1. PICK k \in Sends[c], e \in ClientState, r \in Request :
           /\ client' = [client EXCEPT ![c] = e] /\ toServer' = Append(toServer, r)
           /\ r.kind = k /\ ClientFits(e)
    BY <1>2, Sent
  <2>2. /\ client' \in [Client -> ClientState] /\ \A d \in Client : ClientFits(client'[d])
    BY <1>1, <2>1
  <2>3. toServer' \in Seq(Request) /\ QueueFits(toServer', pipe, peer)
    BY <1>1, <1>2, <2>1, StgPipeAssumption DEF QueueFits, Fitting
  <2> QED
    BY <1>1, <2>2, <2>3, ClientKeeps DEF SendRequest
<1>3. CASE peer # c
  <2>1. /\ client' \in [Client -> ClientState] /\ \A d \in Client : ClientFits(client'[d])
    BY <1>3, ClientMoved DEF SendRequest
  <2> QED
    BY <1>1, <1>3, <2>1, ClientKeeps DEF SendRequest
<1> QED
  BY <1>2, <1>3

LEMMA LeaveKeeps ==
  ASSUME Inv, NEW c \in Client, Leave(c)
  PROVE  Inv' /\ peer' = peer
<1>1. /\ client' \in [Client -> ClientState] /\ \A d \in Client : ClientFits(client'[d])
  BY ClientMoved DEF Leave
<1> QED
  BY <1>1, CloseClientFits, ClientKeeps DEF Leave

\* The unit is opened, shut down and closed.
LEMMA UnitKeeps ==
  ASSUME Inv, Open \/ Shutdown \/ Close
  PROVE  Inv' /\ (unit = "open" => peer' = peer)
<1>1. CASE Open
  <2>1. CallsOK'
    BY <1>1 DEF Inv, LockOK, CallsOK, Open, DropsDead, unitVars
  <2>2. LockOK' /\ DataOK'
    <3>1. QueueFits(toServer', pipe', peer')
      BY <1>1 DEF Inv, DataOK, Open, QueueFits
    <3> QED
      BY <1>1, <3>1 DEF Inv, LockOK, DataOK, Open, unitVars
  <2> QED
    BY <1>1, <2>1, <2>2 DEF Inv, Open
<1>2. CASE Shutdown
  <2>1. CallsOK'
    BY <1>2 DEF Inv, CallsOK, Shutdown, DropsDead, unitVars, pipeVars
  <2>2. LockOK' /\ DataOK'
    BY <1>2 DEF Inv, LockOK, DataOK, Shutdown, unitVars, pipeVars
  <2> QED
    BY <1>2, <2>1, <2>2 DEF Inv, Shutdown, pipeVars
<1>3. CASE Close
  <2>1. CallsOK'
    BY <1>3 DEF Inv, CallsOK, Close, DropsDead
  <2>2. LockOK' /\ DataOK'
    BY <1>3, Disconnects DEF Inv, LockOK, DataOK, Close
  <2> QED
    BY <1>3, <2>1, <2>2 DEF Inv, Close
<1> QED
  BY <1>1, <1>2, <1>3

-----------------------------------------------------------------------------
(***************************************************************************)
(* Types, and the client is kept                                           *)
(***************************************************************************)

\* A thread of the server drops the client of a unit that is not shut down
\* only if the client has closed its end.
LEMMA ServerKeepsPeer ==
  ASSUME Inv, NEW t \in Caller, ServerStep(t), unit = "open", pipe = "connected",
         Fitting(peer)
  PROVE  peer' = peer
<1>1. CASE WriteParams(t)
  BY <1>1 DEF WriteParams, Stopped
<1>2. CASE Disconnect(t)
  <2>1. DropsDead(call[t], Connected, pipe, unit, peer)
    BY DEF Inv, CallsOK
  <2>2. ~SameConnection(t)
    BY <1>2, <2>1 DEF Disconnect, DropsDead, SameConnection
  <2> QED
    BY <1>2, <2>2 DEF Disconnect, pipeVars
<1>3. CASE Transact(t) \/ SendResponse(t) \/ TakeHintValue(t) \/ PutHintValue(t)
             \/ ConnectNamedPipe(t) \/ BeginRead(t)
  BY <1>3 DEF Transact, SendResponse, TakeHintValue, PutHintValue, ConnectNamedPipe,
              BeginRead, pipeVars
<1>4. CASE Lock(t) \/ WriteResponse(t) \/ EndRead(t)
  BY <1>4 DEF Lock, WriteResponse, EndRead
<1> QED
  BY <1>1, <1>2, <1>3, <1>4 DEF ServerStep

\* Every step keeps the invariant, and the client.
LEMMA NextKeeps ==
  ASSUME Inv, [Next]_vars
  PROVE  /\ Inv'
         /\ unit = "open" /\ pipe = "connected" /\ Fitting(peer) => peer' = peer
<1>1. CASE Open \/ Shutdown \/ Close
  BY <1>1, UnitKeeps
<1>2. CASE \E t \in Caller : ServerStep(t)
  <2>1. PICK t \in Caller : ServerStep(t)
    BY <1>2
  <2>2. Inv'
    BY <2>1, TransactKeeps, SendResponseKeeps, LockKeeps, ConnectNamedPipeKeeps,
       WriteParamsKeeps, TakeHintValueKeeps, WriteResponseKeeps, BeginReadKeeps,
       EndReadKeeps, PutHintValueKeeps, DisconnectKeeps DEF ServerStep
  <2> QED
    BY <2>1, <2>2, ServerKeepsPeer
<1>3. CASE \E c \in Client : OpenClient(c) \/ ClientStep(c) \/ Leave(c)
  BY <1>3, OpenClientKeeps, ReadParamsKeeps, SendRequestKeeps, ReadResponseKeeps, LeaveKeeps
     DEF ClientStep
<1>4. CASE UNCHANGED vars
  <2>1. UNCHANGED <<unit, pipe, peer, toServer, toClient, Connected, lock, hints, call, owed,
                  client, dropped>>
    BY <1>4 DEF vars, pipeVars, unitVars
  <2> QED
    BY <2>1 DEF Inv, DataOK, LockOK, CallsOK
<1> QED
  BY <1>1, <1>2, <1>3, <1>4 DEF Next, Terminated

LEMMA InitHolds == Init => Inv
<1> SUFFICES ASSUME Init PROVE Inv
  OBVIOUS
<1>1. call = [t \in Caller |-> Idle] /\ Connected = 0 /\ lock = NULL /\ unit = "none"
  BY DEF Init
<1>2. DataOK
  <2>1. <<>> \in Seq(Request) /\ <<>> \in Seq(Message)
    OBVIOUS
  <2>2. /\ client \in [Client -> ClientState] /\ \A c \in Client : ClientFits(client[c])
    BY StgPipeAssumption DEF Init, ClientState, ClientFits
  <2>3. QueueFits(toServer, pipe, peer)
    BY StgPipeAssumption DEF Init, QueueFits, Fitting
  <2> QED
    BY <1>1, <2>1, <2>2, <2>3, IdleFits DEF DataOK, Init
<1>3. LockOK
  BY <1>1, IdleFits, NullNoCaller DEF LockOK, Locking
<1>4. CallsOK
  BY <1>1, IdleFits DEF CallsOK, NeverAhead, DropsDead, Inside
<1> QED
  BY <1>2, <1>3, <1>4 DEF Inv

\* The invariant holds in every reachable state, for any number of clients,
\* dispatcher threads and responders.
THEOREM InductiveInvariant == Spec => []Inv
<1>1. Inv /\ [Next]_vars => Inv'
  BY NextKeeps
<1> QED
  BY InitHolds, <1>1, PTL DEF Spec

\* Types, the discipline of StorageUnit->Lock (held exactly by the thread that
\* waits for a client or welcomes it), and Connected positive only for a pipe
\* that has or had a client.
THEOREM TypeCorrect == Spec => []TypeOK
<1>1. Inv => TypeOK
  BY DEF Inv, DataOK, LockOK, TypeOK, Locking, ClientState
<1> QED
  BY InductiveInvariant, <1>1, PTL

\* As long as the unit is open no thread of the server disconnects a client
\* that is there and sends no message that is too long, whichever connection its own I/O failed on: the comparison
\* of Connected in the error path of SpdStorageUnitHandleTransactPipe suffices.
THEOREM ClientIsKept == Spec => KeepsClient
<1>1. Inv /\ [Next]_vars =>
        [\A c \in Client :
           unit = "open" /\ peer = c /\ pipe = "connected" /\ "long" \notin Sends[c] =>
             peer' = c]_vars
  BY NextKeeps DEF Fitting
<1> QED
  BY InductiveInvariant, <1>1, PTL DEF Spec, KeepsClient

-----------------------------------------------------------------------------
(***************************************************************************)
(* Requests on their way                                                   *)
(***************************************************************************)

\* The messages in one direction of the pipe.
Items(q) == {q[i] : i \in 1 .. Len(q)}

\* A request that a call carries: one it has read, or one it answers.
Carries(c) ==
  \/ c.at \in {"serve", "put"}
  \/ c.at \in {"lock", "connect", "params", "take", "write"} /\ c.rsp # NULL
Carried(c) == IF c.at \in {"serve", "put"} THEN c.req ELSE c.rsp

\* It is a Read whose Hint is in the table: the code has put it there and has
\* not taken it out yet.
HoldsRead(c) == Carries(c) /\ c.at \notin {"put", "write"} /\ Carried(c).kind = "read"

\* A response to a Read is written with the data, for which a Hint is taken out
\* of the table.
DataReady(c) == /\ c.at \in {"take", "write"} => c.rsp # NULL
                /\ c.at = "take" => c.rsp.kind = "read"
                /\ c.at = "write" /\ c.rsp.kind = "read" => c.data = 1

\* A request is one its client has sent, with the identifier it has.
Genuine(r) == r.op <= client[r.from].n /\ r.id = client[r.from].id

CallTokens ==
  \A t \in Caller : /\ Carries(call[t]) => Genuine(Carried(call[t]))
                    /\ HoldsRead(call[t]) => InUse(Carried(call[t]))
                    /\ DataReady(call[t])
OwedTokens ==
  \A r \in owed : Genuine(r) /\ (r.kind = "read" => InUse(r))

\* No Hint is used for two Reads that are being served.
Apart ==
  /\ \A s, t \in Caller : s # t /\ HoldsRead(call[s]) /\ HoldsRead(call[t]) =>
       HintOf(Carried(call[s])) # HintOf(Carried(call[t]))
  /\ \A t \in Caller, r \in owed : HoldsRead(call[t]) /\ r.kind = "read" =>
       HintOf(Carried(call[t])) # HintOf(r)
  /\ \A q, r \in owed : q # r /\ q.kind = "read" /\ r.kind = "read" =>
       HintOf(q) # HintOf(r)
PipeTokens ==
  /\ \A r \in Items(toServer) : Genuine(r)
  /\ \A m \in Items(toClient) : m # Params =>
       Genuine(m.req) /\ (m.req.kind = "read" => m.data = 1)

TokenInv == CallTokens /\ OwedTokens /\ Apart /\ PipeTokens

\* What a call carries is a request.
LEMMA CarriedFits ==
  ASSUME NEW c, WellFormed(c), Carries(c)
  PROVE  Carried(c) \in Request
BY DEF WellFormed, Carries, Carried, Call

LEMMA ItemsFit ==
  ASSUME NEW S, NEW q \in Seq(S)
  PROVE  Items(q) \subseteq S
BY DEF Items

LEMMA ItemsOf ==
  ASSUME NEW S, NEW q \in Seq(S)
  PROVE  /\ Items(<<>>) = {}
         /\ \A x \in S : Items(Append(q, x)) \subseteq Items(q) \cup {x}
         /\ q # <<>> => Head(q) \in Items(q) /\ Items(Tail(q)) \subseteq Items(q)
<1>1. Items(<<>>) = {}
  BY DEF Items
<1>2. ASSUME NEW x \in S
      PROVE  Items(Append(q, x)) \subseteq Items(q) \cup {x}
  <2> SUFFICES ASSUME NEW i \in 1 .. Len(Append(q, x))
               PROVE  Append(q, x)[i] \in Items(q) \cup {x}
    BY DEF Items
  <2>1. CASE i = Len(q) + 1
    BY <2>1
  <2>2. CASE i \in 1 .. Len(q)
    BY <2>2 DEF Items
  <2> QED
    BY <2>1, <2>2
<1>3. ASSUME q # <<>>
      PROVE  Head(q) \in Items(q) /\ Items(Tail(q)) \subseteq Items(q)
  <2>1. Len(q) >= 1 /\ Head(q) = q[1]
    BY <1>3
  <2>2. ASSUME NEW i \in 1 .. Len(Tail(q))
        PROVE  Tail(q)[i] \in Items(q)
    <3>1. i + 1 \in 1 .. Len(q) /\ Tail(q)[i] = q[i + 1]
      BY <1>3
    <3> QED
      BY <3>1 DEF Items
  <2> QED
    BY <2>1, <2>2 DEF Items
<1> QED
  BY <1>1, <1>2, <1>3

\* The clients only send more requests, and keep their identifiers.
ClientsGoOn ==
  \A c \in Client : /\ client'[c].n >= client[c].n
                    /\ client[c].n > 0 => client'[c].id = client[c].id

LEMMA ClientsStay ==
  ASSUME Inv, UNCHANGED client
  PROVE  ClientsGoOn
BY StgPipeAssumption DEF Inv, DataOK, ClientState, ClientsGoOn

LEMMA GenuineKept ==
  ASSUME Inv, Inv', ClientsGoOn, NEW r \in Request, Genuine(r)
  PROVE  Genuine(r)'
<1>1. r.from \in Client /\ r.op \in Nat /\ r.op > 0
  BY StgPipeAssumption DEF Request
<1>2. client[r.from].n \in Nat /\ client'[r.from].n \in Nat
  BY <1>1, StgPipeAssumption DEF Inv, DataOK, ClientState
<1> QED
  BY <1>1, <1>2 DEF Genuine, ClientsGoOn

\* From c to d a call keeps the request it carries, or drops it.
KeepsOrDrops(c, d) ==
  /\ Carries(d) => Carries(c) /\ Carried(d) = Carried(c)
  /\ HoldsRead(d) => HoldsRead(c)
  /\ DataReady(d)

\* Requests that are being served, and stay where they are or are dropped.
LEMMA ServedKept ==
  ASSUME Inv, Inv', TokenInv, ClientsGoOn, UNCHANGED <<hints, owed>>,
         \A s \in Caller : KeepsOrDrops(call[s], call'[s])
  PROVE  CallTokens' /\ OwedTokens' /\ Apart'
<1>1. ASSUME NEW s \in Caller
      PROVE  /\ KeepsOrDrops(call[s], call'[s]) /\ WellFormed(call[s])
             /\ Carries(call[s]) => Genuine(Carried(call[s]))
             /\ HoldsRead(call[s]) => InUse(Carried(call[s]))
  BY DEF Inv, CallsOK, TokenInv, CallTokens
<1>2. CallTokens'
  <2> SUFFICES ASSUME NEW s \in Caller, NEW r, r = Carried(call'[s])
               PROVE  /\ Carries(call'[s]) => Genuine(r)'
                      /\ HoldsRead(call'[s]) => InUse(r)'
                      /\ DataReady(call'[s])
    BY DEF CallTokens, Genuine, InUse
  <2>1. Carries(call'[s]) => r = Carried(call[s]) /\ Carries(call[s])
    BY <1>1 DEF KeepsOrDrops
  <2>2. Carries(call'[s]) => Genuine(r)'
    <3> SUFFICES ASSUME Carries(call'[s]) PROVE Genuine(r)'
      OBVIOUS
    <3>1. r \in Request
      BY <1>1, <2>1, CarriedFits
    <3>2. Genuine(r)
      BY <1>1, <2>1
    <3> QED
      BY <3>1, <3>2, GenuineKept
  <2>3. HoldsRead(call'[s]) => InUse(r)'
    <3> SUFFICES ASSUME HoldsRead(call'[s]) PROVE InUse(r)'
      OBVIOUS
    <3>1. InUse(r)
      BY <1>1, <2>1 DEF KeepsOrDrops, HoldsRead
    <3> QED
      BY <3>1 DEF InUse
  <2> QED
    BY <1>1, <2>2, <2>3 DEF KeepsOrDrops
<1>3. OwedTokens'
  <2> SUFFICES ASSUME NEW r \in owed
               PROVE  Genuine(r)' /\ (r.kind = "read" => InUse(r)')
    BY DEF OwedTokens
  <2>1. r \in Request /\ Genuine(r) /\ (r.kind = "read" => InUse(r))
    BY DEF Inv, DataOK, TokenInv, OwedTokens
  <2> QED
    BY <2>1, GenuineKept DEF InUse
<1>4. Apart'
  <2>1. ASSUME NEW s \in Caller, HoldsRead(call'[s])
        PROVE  HoldsRead(call[s]) /\ Carried(call'[s]) = Carried(call[s])
    BY <1>1, <2>1 DEF KeepsOrDrops, HoldsRead
  <2> QED
    BY <2>1 DEF TokenInv, Apart
<1> QED
  BY <1>2, <1>3, <1>4

\* Messages that stay in the pipe or are lost.
LEMMA MessagesKept ==
  ASSUME Inv, Inv', TokenInv, ClientsGoOn,
         Items(toServer') \subseteq Items(toServer),
         Items(toClient') \subseteq Items(toClient) \cup {Params}
  PROVE  PipeTokens'
<1>1. ASSUME NEW r \in Items(toServer')
      PROVE  Genuine(r)'
  <2>1. r \in Request /\ Genuine(r)
    BY <1>1, ItemsFit DEF Inv, DataOK, TokenInv, PipeTokens
  <2> QED
    BY <2>1, GenuineKept
<1>2. ASSUME NEW m \in Items(toClient'), m # Params
      PROVE  Genuine(m.req)' /\ (m.req.kind = "read" => m.data = 1)
  <2>1. m \in Items(toClient) /\ m \in Response
    BY <1>2, ItemsFit DEF Inv, DataOK, Message
  <2>2. m.req \in Request /\ Genuine(m.req) /\ (m.req.kind = "read" => m.data = 1)
    BY <1>2, <2>1 DEF TokenInv, PipeTokens, Response
  <2> QED
    BY <2>2, GenuineKept
<1> QED
  BY <1>1, <1>2 DEF PipeTokens

\* Requests and messages that stay where they are or are dropped keep the
\* invariant.
LEMMA TokensKept ==
  ASSUME Inv, Inv', TokenInv, ClientsGoOn, UNCHANGED <<hints, owed>>,
         \A s \in Caller : KeepsOrDrops(call[s], call'[s]),
         Items(toServer') \subseteq Items(toServer),
         Items(toClient') \subseteq Items(toClient) \cup {Params}
  PROVE  TokenInv'
BY ServedKept, MessagesKept DEF TokenInv

\* One thread keeps or drops its request, the others do nothing.
LEMMA ThreadKeeps ==
  ASSUME Inv, Inv', TokenInv, NEW t \in Caller, NEW c, Continue(t, c),
         KeepsOrDrops(call[t], c), UNCHANGED <<hints, owed, client>>,
         Items(toServer') \subseteq Items(toServer),
         Items(toClient') \subseteq Items(toClient) \cup {Params}
  PROVE  TokenInv'
<1>1. ClientsGoOn
  BY ClientsStay
<1>2. ASSUME NEW s \in Caller
      PROVE  KeepsOrDrops(call[s], call'[s])
  <2>1. call'[s] = IF s = t THEN c ELSE call[s]
    BY DEF Continue, Inv, DataOK
  <2>2. DataReady(call[s])
    BY DEF TokenInv, CallTokens
  <2> QED
    BY <2>1, <2>2 DEF KeepsOrDrops
<1> QED
  BY <1>1, <1>2, TokensKept

\* A call that carries nothing.
LEMMA Empty ==
  ASSUME NEW c, NEW d, \/ d.at \in {"idle", "done", "read", "reading", "disconnect"}
                       \/ d.at = "lock" /\ d.rsp = NULL
  PROVE  KeepsOrDrops(c, d)
BY DEF KeepsOrDrops, Carries, HoldsRead, DataReady

\* A call that goes on to answer the same request.
LEMMA Answers ==
  ASSUME NEW c, NEW d, c.at \in {"lock", "connect", "params"},
         d.at \in {"lock", "connect", "params", "take", "write"}, d.rsp = c.rsp,
         d.at \in {"take", "write"} => d.rsp # NULL,
         d.at = "take" => d.rsp.kind = "read",
         d.at = "write" => d.rsp.kind # "read"
  PROVE  KeepsOrDrops(c, d)
BY DEF KeepsOrDrops, Carries, Carried, HoldsRead, DataReady

LEMMA TransactTokens ==
  ASSUME Inv, Inv', TokenInv, NEW t \in Caller, Transact(t)
  PROVE  TokenInv'
<1> USE DEF Transact
<1>1. /\ UNCHANGED <<hints, client, toServer, toClient>>
      /\ WellFormed(call[t]) /\ call \in [Caller -> Call]
  BY DEF Inv, DataOK, CallsOK, pipeVars, unitVars
<1>2. PICK b : b = [Idle EXCEPT !.at = "lock", !.rsp = NULL]
  OBVIOUS
<1>3. b.at = "lock" /\ b.rsp = NULL
  BY <1>2, IdleFits DEF Call
<1>4. PICK n : n = IF Continue(t, Ended) THEN Ended ELSE b
  OBVIOUS
<1>5. /\ \/ n.at = "done"
         \/ n.at = "lock" /\ n.rsp = NULL
      /\ Begin(t, NULL) => Continue(t, n)
  BY <1>2, <1>3, <1>4, IdleFits DEF Begin
<1>6. CASE call[t].at = "idle" /\ Begin(t, NULL) /\ UNCHANGED owed
  <2>1. Continue(t, n)
    BY <1>5, <1>6
  <2>2. KeepsOrDrops(call[t], n)
    BY <1>5, Empty
  <2> QED
    BY <1>1, <1>6, <2>1, <2>2, ThreadKeeps
<1>7. CASE call[t].at = "serve" /\ Begin(t, call[t].req) /\ UNCHANGED owed
  <2>1. PICK r : r = call[t].req
    OBVIOUS
  <2>2. r \in Request
    BY <1>1, <1>7, <2>1 DEF WellFormed
  <2>3. PICK d : d = [Idle EXCEPT !.at = "lock", !.rsp = r]
    OBVIOUS
  <2>4. d.at = "lock" /\ d.rsp = r
    BY <2>2, <2>3, IdleFits DEF Call
  <2>5. PICK e : (e = d \/ e = Ended) /\ Continue(t, e)
    BY <1>7, <2>1, <2>3 DEF Begin
  <2>6. Continue(t, e)
    BY <2>5
  <2>7. KeepsOrDrops(call[t], e)
    <3>1. CASE e = d
      BY <1>7, <2>1, <2>4, <3>1 DEF KeepsOrDrops, Carries, Carried, HoldsRead, DataReady
    <3>2. CASE e = Ended
      BY <3>2, IdleFits, Empty
    <3> QED
      BY <2>5, <3>1, <3>2
  <2> QED
    BY <1>1, <1>7, <2>6, <2>7, ThreadKeeps
<1>8. CASE call[t].at = "serve" /\ Begin(t, NULL) /\ owed' = owed \cup {call[t].req}
  <2>1. call'[t] = n /\ \A s \in Caller \ {t} : call'[s] = call[s]
    BY <1>1, <1>5, <1>8 DEF Continue
  <2>2. ~Carries(n) /\ ~HoldsRead(n) /\ DataReady(n)
    BY <1>5 DEF Carries, HoldsRead, DataReady
  <2>3. PICK r : r = call[t].req
    OBVIOUS
  <2>4. /\ r = Carried(call[t]) /\ Carries(call[t]) /\ owed' = owed \cup {r}
        /\ r.kind = "read" => HoldsRead(call[t])
    BY <1>8, <2>3 DEF Carries, Carried, HoldsRead
  <2>5. CallTokens'
    <3> SUFFICES ASSUME NEW s \in Caller
                 PROVE  /\ Carries(call'[s]) => Genuine(Carried(call'[s]))
                        /\ HoldsRead(call'[s]) => InUse(Carried(call'[s]))
                        /\ DataReady(call'[s])
      BY <1>1 DEF CallTokens, Genuine, InUse
    <3> QED
      BY <2>1, <2>2 DEF TokenInv, CallTokens
  <2>6. OwedTokens'
    <3>1. Genuine(r) /\ (r.kind = "read" => InUse(r))
      BY <2>4 DEF TokenInv, CallTokens
    <3> QED
      BY <1>1, <2>4, <3>1 DEF TokenInv, OwedTokens, Genuine, InUse
  <2>7. Apart'
    <3>1. ASSUME NEW s \in Caller, HoldsRead(call'[s])
          PROVE  s # t /\ call'[s] = call[s]
      BY <2>1, <2>2, <3>1
    <3>2. \A s \in Caller \ {t} : HoldsRead(call[s]) /\ r.kind = "read" =>
            HintOf(Carried(call[s])) # HintOf(r)
      BY <2>4 DEF TokenInv, Apart
    <3>3. \A q \in owed : q.kind = "read" /\ r.kind = "read" => HintOf(q) # HintOf(r)
      BY <2>4 DEF TokenInv, Apart
    <3>4. /\ \A s, u \in Caller : s # u /\ HoldsRead(call'[s]) /\ HoldsRead(call'[u]) =>
               HintOf(Carried(call'[s])) # HintOf(Carried(call'[u]))
          /\ \A s \in Caller, q \in owed' : HoldsRead(call'[s]) /\ q.kind = "read" =>
               HintOf(Carried(call'[s])) # HintOf(q)
      BY <2>4, <3>1, <3>2 DEF TokenInv, Apart
    <3>5. \A p, q \in owed' : p # q /\ p.kind = "read" /\ q.kind = "read" =>
            HintOf(p) # HintOf(q)
      BY <2>4, <3>3 DEF TokenInv, Apart
    <3> QED
      BY <3>4, <3>5 DEF Apart
  <2>8. PipeTokens'
    BY <1>1 DEF TokenInv, PipeTokens, Genuine
  <2> QED
    BY <2>5, <2>6, <2>7, <2>8 DEF TokenInv
<1> QED
  BY <1>6, <1>7, <1>8

LEMMA SendResponseTokens ==
  ASSUME Inv, Inv', TokenInv, NEW t \in Caller, SendResponse(t)
  PROVE  TokenInv'
<1> USE DEF SendResponse
<1>1. /\ UNCHANGED <<hints, client, toServer, toClient>>
      /\ WellFormed(call[t]) /\ call \in [Caller -> Call]
  BY DEF Inv, DataOK, CallsOK, pipeVars, unitVars
<1>2. PICK r \in owed : Begin(t, r) /\ owed' = owed \ {r}
  OBVIOUS
<1>3. r \in Request /\ Genuine(r) /\ (r.kind = "read" => InUse(r))
  BY DEF Inv, DataOK, TokenInv, OwedTokens
<1>4. PICK d : d = [Idle EXCEPT !.at = "lock", !.rsp = r]
  OBVIOUS
<1>5. d.at = "lock" /\ d.rsp = r
  BY <1>3, <1>4, IdleFits DEF Call
<1>6. PICK e : (e = d \/ e = Ended) /\ Continue(t, e)
  BY <1>2, <1>4 DEF Begin
<1>7. call'[t] = e /\ \A s \in Caller \ {t} : call'[s] = call[s]
  BY <1>1, <1>6 DEF Continue
<1>8. /\ DataReady(e) /\ (Carries(e) => Carried(e) = r)
      /\ HoldsRead(e) => Carried(e) = r /\ r.kind = "read"
  <2>1. CASE e = d
    BY <1>5, <2>1 DEF Carries, Carried, HoldsRead, DataReady
  <2>2. CASE e = Ended
    BY <2>2, IdleFits DEF Carries, HoldsRead, DataReady
  <2> QED
    BY <1>6, <2>1, <2>2
<1>9. CallTokens'
  <2> SUFFICES ASSUME NEW s \in Caller
               PROVE  /\ Carries(call'[s]) => Genuine(Carried(call'[s]))
                      /\ HoldsRead(call'[s]) => InUse(Carried(call'[s]))
                      /\ DataReady(call'[s])
    BY <1>1 DEF CallTokens, Genuine, InUse
  <2> QED
    BY <1>3, <1>7, <1>8 DEF TokenInv, CallTokens
<1>10. OwedTokens'
  BY <1>1, <1>2 DEF TokenInv, OwedTokens, Genuine, InUse
<1>11. Apart'
  <2>1. \A s \in Caller, q \in owed : HoldsRead(call[s]) /\ q.kind = "read" =>
          HintOf(Carried(call[s])) # HintOf(q)
    BY DEF TokenInv, Apart
  <2>2. \A p, q \in owed : p # q /\ p.kind = "read" /\ q.kind = "read" =>
          HintOf(p) # HintOf(q)
    BY DEF TokenInv, Apart
  <2>3. \A s, u \in Caller : s # u /\ HoldsRead(call'[s]) /\ HoldsRead(call'[u]) =>
          HintOf(Carried(call'[s])) # HintOf(Carried(call'[u]))
    <3> SUFFICES ASSUME NEW s \in Caller, NEW u \in Caller, s # u,
                        HoldsRead(call'[s]), HoldsRead(call'[u])
                 PROVE  HintOf(Carried(call'[s])) # HintOf(Carried(call'[u]))
      OBVIOUS
    <3>1. CASE s # t /\ u # t
      BY <1>7, <3>1 DEF TokenInv, Apart
    <3>2. CASE s = t
      BY <1>2, <1>7, <1>8, <2>1, <3>2
    <3>3. CASE u = t
      BY <1>2, <1>7, <1>8, <2>1, <3>3
    <3> QED
      BY <3>1, <3>2, <3>3
  <2>4. \A s \in Caller, q \in owed' : HoldsRead(call'[s]) /\ q.kind = "read" =>
          HintOf(Carried(call'[s])) # HintOf(q)
    BY <1>2, <1>7, <1>8, <2>1, <2>2
  <2>5. \A p, q \in owed' : p # q /\ p.kind = "read" /\ q.kind = "read" =>
          HintOf(p) # HintOf(q)
    BY <1>2, <2>2
  <2> QED
    BY <2>3, <2>4, <2>5 DEF Apart
<1>12. PipeTokens'
  BY <1>1 DEF TokenInv, PipeTokens, Genuine
<1> QED
  BY <1>9, <1>10, <1>11, <1>12 DEF TokenInv

LEMMA LockTokens ==
  ASSUME Inv, Inv', TokenInv, NEW t \in Caller, Lock(t)
  PROVE  TokenInv'
<1> USE DEF Lock
<1>1. /\ UNCHANGED <<hints, owed, client, toServer, toClient>>
      /\ call[t] \in Call
  BY DEF Inv, DataOK
<1>2. CASE Continue(t, AfterLock(t))
  <2>1. PICK c : c = AfterLock(t)
    OBVIOUS
  <2>2. /\ c.rsp = call[t].rsp /\ c.at \in {"read", "take", "write"}
        /\ c.at \in {"take", "write"} => c.rsp # NULL
        /\ c.at = "take" => c.rsp.kind = "read"
        /\ c.at = "write" => c.rsp.kind # "read"
    BY <1>1, <2>1 DEF AfterLock, Call
  <2>3. KeepsOrDrops(call[t], c)
    BY <2>2, Empty, Answers
  <2> QED
    BY <1>1, <1>2, <2>1, <2>3, ThreadKeeps
<1>3. CASE \E p \in {"connect", "params"} : Goto(t, p)
  <2>1. PICK p \in {"connect", "params"} : Goto(t, p)
    BY <1>3
  <2>2. PICK c : c = [call[t] EXCEPT !.at = p]
    OBVIOUS
  <2>3. c.rsp = call[t].rsp /\ c.at = p
    BY <1>1, <2>2 DEF Call
  <2>4. KeepsOrDrops(call[t], c)
    BY <2>3, Answers
  <2> QED
    BY <1>1, <2>1, <2>2, <2>4, ThreadKeeps DEF Goto
<1>4. CASE Return(t, NULL)
  <2>1. PICK c : c = [Idle EXCEPT !.at = IF NULL = NULL THEN "idle" ELSE "serve", !.req = NULL]
    OBVIOUS
  <2>2. c.at = "idle"
    BY <2>1, IdleFits DEF Call
  <2>3. KeepsOrDrops(call[t], c)
    BY <2>2, Empty
  <2> QED
    BY <1>1, <1>4, <2>1, <2>3, ThreadKeeps DEF Return
<1> QED
  BY <1>2, <1>3, <1>4

LEMMA ConnectNamedPipeTokens ==
  ASSUME Inv, Inv', TokenInv, NEW t \in Caller, ConnectNamedPipe(t)
  PROVE  TokenInv'
<1> USE DEF ConnectNamedPipe
<1>1. /\ UNCHANGED <<hints, owed, client, toServer, toClient>>
      /\ call[t] \in Call
  BY DEF Inv, DataOK, pipeVars
<1>2. CASE Continue(t, Ended)
  BY <1>1, <1>2, IdleFits, Empty, ThreadKeeps
<1>3. CASE Goto(t, "params")
  <2>1. PICK c : c = [call[t] EXCEPT !.at = "params"]
    OBVIOUS
  <2>2. c.rsp = call[t].rsp /\ c.at = "params"
    BY <1>1, <2>1 DEF Call
  <2>3. KeepsOrDrops(call[t], c)
    BY <2>2, Answers
  <2> QED
    BY <1>1, <1>3, <2>1, <2>3, ThreadKeeps DEF Goto
<1> QED
  BY <1>2, <1>3

\* The reads that DisconnectNamedPipe fails carry nothing, and the messages in
\* the pipe are lost.
LEMMA DisconnectedTokens ==
  ASSUME Inv, Inv', TokenInv, NEW t \in Caller,
         call' = [Disconnected(call) EXCEPT ![t] = Idle],
         DisconnectPipe("disconnected"), UNCHANGED <<hints, owed, client>>
  PROVE  TokenInv'
<1>1. ASSUME NEW s \in Caller
      PROVE  KeepsOrDrops(call[s], call'[s])
  <2>1. call[s] \in Call /\ DataReady(call[s])
    BY DEF Inv, DataOK, TokenInv, CallTokens
  <2>2. CASE s = t
    <3>1. call'[s] = Idle
      BY <2>2 DEF Disconnected
    <3> QED
      BY <3>1, IdleFits, Empty
  <2>3. CASE s # t /\ call[s].at = "reading"
    <3>1. PICK c : c = [call[s] EXCEPT !.at = "disconnect"]
      OBVIOUS
    <3>2. c.at = "disconnect"
      BY <2>1, <3>1 DEF Call
    <3>3. call'[s] = c
      BY <2>3, <3>1 DEF Disconnected
    <3>4. KeepsOrDrops(call[s], c)
      BY <3>2, Empty
    <3> QED
      BY <3>3, <3>4
  <2>4. CASE s # t /\ call[s].at # "reading"
    <3>1. call'[s] = call[s]
      BY <2>4 DEF Disconnected
    <3> QED
      BY <2>1, <3>1 DEF KeepsOrDrops
  <2> QED
    BY <2>2, <2>3, <2>4
<1>2. Items(toServer') = {} /\ Items(toClient') = {}
  BY DEF DisconnectPipe, Items
<1>3. ClientsGoOn
  BY ClientsStay
<1> QED
  BY <1>1, <1>2, <1>3, TokensKept

LEMMA WriteParamsTokens ==
  ASSUME Inv, Inv', TokenInv, NEW t \in Caller, WriteParams(t)
  PROVE  TokenInv'
<1> USE DEF WriteParams
<1>1. CASE pipe = "connected" /\ ~Stopped
  <2>1. /\ call[t] \in Call /\ AfterLock(t) \in Call /\ NextConnected \in Int
    BY AfterLockFits DEF Inv, DataOK, NextConnected
  <2>2. PICK d : d = AfterLock(t)
    OBVIOUS
  <2>3. PICK c : c = [d EXCEPT !.conn = NextConnected]
    OBVIOUS
  <2>4. /\ d.rsp = call[t].rsp /\ d.at \in {"read", "take", "write"}
        /\ d.at \in {"take", "write"} => d.rsp # NULL
        /\ d.at = "take" => d.rsp.kind = "read"
        /\ d.at = "write" => d.rsp.kind # "read"
    BY <2>1, <2>2 DEF AfterLock, Call
  <2>5. c.rsp = d.rsp /\ c.at = d.at
    BY <2>1, <2>2, <2>3 DEF Call
  <2>6. KeepsOrDrops(call[t], c)
    BY <2>4, <2>5, Empty, Answers
  <2>7. Items(toClient') \subseteq Items(toClient) \cup {Params} /\ toServer' = toServer
    <3>1. toClient \in Seq(Message) /\ Params \in Message
      BY DEF Inv, DataOK, Message
    <3> QED
      BY <1>1, <3>1, ItemsOf
  <2> QED
    BY <1>1, <2>2, <2>3, <2>6, <2>7, ThreadKeeps
<1>2. CASE ~(pipe = "connected" /\ ~Stopped)
  BY <1>2, DisconnectedTokens
<1> QED
  BY <1>1, <1>2

LEMMA DisconnectTokens ==
  ASSUME Inv, Inv', TokenInv, NEW t \in Caller, Disconnect(t)
  PROVE  TokenInv'
<1> USE DEF Disconnect
<1>1. CASE SameConnection(t)
  BY <1>1, DisconnectedTokens
<1>2. CASE ~SameConnection(t)
  <2>1. PICK c : c = [Idle EXCEPT !.at = IF NULL = NULL THEN "idle" ELSE "serve", !.req = NULL]
    OBVIOUS
  <2>2. c.at = "idle"
    BY <2>1, IdleFits DEF Call
  <2>3. KeepsOrDrops(call[t], c)
    BY <2>2, Empty
  <2>4. Continue(t, c) /\ UNCHANGED <<toServer, toClient>>
    BY <1>2, <2>1 DEF Return, pipeVars
  <2> QED
    BY <2>3, <2>4, ThreadKeeps
<1> QED
  BY <1>1, <1>2

LEMMA BeginReadTokens ==
  ASSUME Inv, Inv', TokenInv, NEW t \in Caller, BeginRead(t)
  PROVE  TokenInv'
<1> USE DEF BeginRead
<1>1. PICK l : l = IF pipe \in {"connected", "closing"} THEN "reading" ELSE "disconnect"
  OBVIOUS
<1>2. PICK c : c = [call[t] EXCEPT !.at = l]
  OBVIOUS
<1>3. c.at \in {"reading", "disconnect"}
  BY <1>1, <1>2 DEF Inv, DataOK, Call
<1>4. KeepsOrDrops(call[t], c)
  BY <1>3, Empty
<1>5. Continue(t, c)
  BY <1>1, <1>2 DEF Goto
<1> QED
  BY <1>4, <1>5, ThreadKeeps DEF pipeVars, unitVars

\* A call that is about to take a Hint, and one that is about to write.
LEMMA TakesRead ==
  ASSUME NEW c, DataReady(c), c.at = "take"
  PROVE  HoldsRead(c) /\ Carried(c) = c.rsp /\ c.rsp.kind = "read" /\ c.rsp # NULL
BY DEF DataReady, HoldsRead, Carries, Carried

LEMMA WritesData ==
  ASSUME NEW c, DataReady(c), c.at = "write"
  PROVE  Carries(c) /\ Carried(c) = c.rsp /\ (c.rsp.kind = "read" => c.data = 1)
BY DEF DataReady, Carries, Carried

\* The Hint is taken out of the table: it is there, and is no other's.
LEMMA TakeHintValueTokens ==
  ASSUME Inv, Inv', TokenInv, NEW t \in Caller, TakeHintValue(t)
  PROVE  TokenInv'
<1> USE DEF TakeHintValue
<1>1. /\ UNCHANGED <<owed, client, toServer, toClient>>
      /\ WellFormed(call[t]) /\ call \in [Caller -> Call]
  BY DEF Inv, DataOK, CallsOK, pipeVars
<1>2. PICK r : r = call[t].rsp
  OBVIOUS
<1>3. r = Carried(call[t]) /\ r.kind = "read" /\ r # NULL /\ HoldsRead(call[t])
  <2>1. DataReady(call[t]) /\ call[t].at = "take"
    BY DEF TokenInv, CallTokens
  <2> QED
    BY <1>2, <2>1, TakesRead
<1>4. InUse(r) /\ Genuine(r)
  BY <1>3 DEF TokenInv, CallTokens, HoldsRead
<1>5. PICK c : c = [call[t] EXCEPT !.at = "write", !.data = 1]
  OBVIOUS
<1>6. c.at = "write" /\ c.rsp = r /\ c.data = 1
  BY <1>1, <1>2, <1>5 DEF Call
<1>7. call'[t] = c /\ \A s \in Caller \ {t} : call'[s] = call[s]
  BY <1>1, <1>2, <1>4, <1>5 DEF Continue, InUse
<1>8. Carried(c) = r /\ ~HoldsRead(c) /\ DataReady(c)
  BY <1>3, <1>6 DEF Carried, HoldsRead, DataReady
<1>9. ASSUME NEW q, InUse(q), HintOf(q) # HintOf(r)
      PROVE  InUse(q)'
  BY <1>2, <1>9 DEF InUse, Forget
<1>10. CallTokens'
  <2> SUFFICES ASSUME NEW s \in Caller, NEW q, q = Carried(call'[s])
               PROVE  /\ Carries(call'[s]) => Genuine(q)
                      /\ HoldsRead(call'[s]) => InUse(q)'
                      /\ DataReady(call'[s])
    BY <1>1 DEF CallTokens, Genuine, InUse
  <2>1. CASE s = t
    BY <1>4, <1>7, <1>8, <2>1
  <2>2. CASE s # t
    <3>1. /\ Carries(call[s]) => Genuine(q)
          /\ HoldsRead(call[s]) => InUse(q)
          /\ DataReady(call[s]) /\ call'[s] = call[s]
      BY <1>7, <2>2 DEF TokenInv, CallTokens
    <3>2. HoldsRead(call[s]) => HintOf(q) # HintOf(r)
      BY <1>3, <1>7, <2>2 DEF TokenInv, Apart
    <3> QED
      BY <1>9, <3>1, <3>2
  <2> QED
    BY <2>1, <2>2
<1>11. OwedTokens'
  <2> SUFFICES ASSUME NEW q \in owed
               PROVE  Genuine(q) /\ (q.kind = "read" => InUse(q)')
    BY <1>1 DEF OwedTokens, Genuine
  <2>1. Genuine(q) /\ (q.kind = "read" => InUse(q) /\ HintOf(q) # HintOf(r))
    BY <1>3 DEF TokenInv, OwedTokens, Apart
  <2> QED
    BY <1>9, <2>1
<1>12. Apart'
  <2>1. \A s \in Caller : HoldsRead(call'[s]) => HoldsRead(call[s]) /\ call'[s] = call[s]
    BY <1>7, <1>8
  <2> QED
    BY <1>1, <2>1 DEF TokenInv, Apart
<1>13. PipeTokens'
  BY <1>1 DEF TokenInv, PipeTokens, Genuine
<1> QED
  BY <1>10, <1>11, <1>12, <1>13 DEF TokenInv

\* A Hint is put into the table only if it is not there: so it is no other's.
LEMMA PutHintValueTokens ==
  ASSUME Inv, Inv', TokenInv, NEW t \in Caller, PutHintValue(t)
  PROVE  TokenInv'
<1> USE DEF PutHintValue
<1>1. /\ UNCHANGED <<owed, client, toServer, toClient>>
      /\ WellFormed(call[t]) /\ call \in [Caller -> Call]
  BY DEF Inv, DataOK, CallsOK, pipeVars
<1>2. PICK r : r = call[t].req
  OBVIOUS
<1>3. r = Carried(call[t]) /\ Genuine(r) /\ r \in Request
  BY <1>1, <1>2 DEF Carried, Carries, TokenInv, CallTokens, WellFormed
<1>4. CASE Return(t, NULL) /\ UNCHANGED hints
  <2>1. PICK c : c = [Idle EXCEPT !.at = IF NULL = NULL THEN "idle" ELSE "serve", !.req = NULL]
    OBVIOUS
  <2>2. c.at = "idle"
    BY <2>1, IdleFits DEF Call
  <2>3. KeepsOrDrops(call[t], c)
    BY <2>2, Empty
  <2>4. Continue(t, c) /\ UNCHANGED hints
    BY <1>4, <2>1 DEF Return
  <2> QED
    BY <1>1, <2>3, <2>4, ThreadKeeps
<1>5. CASE ~InUse(r) /\ Return(t, r) /\ hints' = hints \cup {r}
  <2>1. PICK c : c = [Idle EXCEPT !.at = IF r = NULL THEN "idle" ELSE "serve", !.req = r]
    OBVIOUS
  <2>2. c.at \in {"idle", "serve"} /\ c.req = r
    BY <1>3, <2>1, IdleFits DEF Call
  <2>3. Continue(t, c) /\ hints' = hints \cup {r}
    BY <1>5, <2>1 DEF Return
  <2>4. call'[t] = c /\ \A s \in Caller \ {t} : call'[s] = call[s]
    BY <1>1, <2>3 DEF Continue
  <2>5. (Carries(c) => Carried(c) = r) /\ (HoldsRead(c) => Carried(c) = r) /\ DataReady(c)
    BY <2>2 DEF Carried, Carries, HoldsRead, DataReady
  <2>6. InUse(r)' /\ \A q : InUse(q) => InUse(q)' /\ HintOf(q) # HintOf(r)
    BY <1>5, <2>3 DEF InUse
  <2>7. CallTokens'
    <3> SUFFICES ASSUME NEW s \in Caller, NEW q, q = Carried(call'[s])
                 PROVE  /\ Carries(call'[s]) => Genuine(q)
                        /\ HoldsRead(call'[s]) => InUse(q)'
                        /\ DataReady(call'[s])
      BY <1>1 DEF CallTokens, Genuine, InUse
    <3>1. CASE s = t
      BY <1>3, <2>4, <2>5, <2>6, <3>1
    <3>2. CASE s # t
      <4>1. /\ Carries(call[s]) => Genuine(q)
            /\ HoldsRead(call[s]) => InUse(q)
            /\ DataReady(call[s]) /\ call'[s] = call[s]
        BY <2>4, <3>2 DEF TokenInv, CallTokens
      <4> QED
        BY <2>6, <4>1
    <3> QED
      BY <3>1, <3>2
  <2>8. OwedTokens'
    <3> SUFFICES ASSUME NEW q \in owed
                 PROVE  Genuine(q) /\ (q.kind = "read" => InUse(q)')
      BY <1>1 DEF OwedTokens, Genuine
    <3> QED
      BY <2>6 DEF TokenInv, OwedTokens
  <2>9. Apart'
    <3>1. \A s \in Caller \ {t} : HoldsRead(call[s]) => HintOf(Carried(call[s])) # HintOf(r)
      BY <2>6 DEF TokenInv, CallTokens
    <3>2. \A q \in owed : q.kind = "read" => HintOf(q) # HintOf(r)
      BY <2>6 DEF TokenInv, OwedTokens
    <3>3. \A s, u \in Caller : s # u /\ HoldsRead(call'[s]) /\ HoldsRead(call'[u]) =>
            HintOf(Carried(call'[s])) # HintOf(Carried(call'[u]))
      <4> SUFFICES ASSUME NEW s \in Caller, NEW u \in Caller, s # u,
                          HoldsRead(call'[s]), HoldsRead(call'[u])
                   PROVE  HintOf(Carried(call'[s])) # HintOf(Carried(call'[u]))
        OBVIOUS
      <4>1. CASE s # t /\ u # t
        BY <2>4, <4>1 DEF TokenInv, Apart
      <4>2. CASE s = t
        BY <2>4, <2>5, <3>1, <4>2
      <4>3. CASE u = t
        BY <2>4, <2>5, <3>1, <4>3
      <4> QED
        BY <4>1, <4>2, <4>3
    <3>4. \A s \in Caller, q \in owed : HoldsRead(call'[s]) /\ q.kind = "read" =>
            HintOf(Carried(call'[s])) # HintOf(q)
      <4> SUFFICES ASSUME NEW s \in Caller, NEW q \in owed, HoldsRead(call'[s]), q.kind = "read"
                   PROVE  HintOf(Carried(call'[s])) # HintOf(q)
        OBVIOUS
      <4>1. CASE s = t
        BY <2>4, <2>5, <3>2, <4>1
      <4>2. CASE s # t
        BY <2>4, <4>2 DEF TokenInv, Apart
      <4> QED
        BY <4>1, <4>2
    <3> QED
      BY <1>1, <3>3, <3>4 DEF TokenInv, Apart
  <2>10. PipeTokens'
    BY <1>1 DEF TokenInv, PipeTokens, Genuine
  <2> QED
    BY <2>7, <2>8, <2>9, <2>10 DEF TokenInv
<1> QED
  BY <1>2, <1>4, <1>5

\* The response that is written is to a request its client has sent, and comes
\* with the data.
LEMMA WriteResponseTokens ==
  ASSUME Inv, Inv', TokenInv, NEW t \in Caller, WriteResponse(t)
  PROVE  TokenInv'
<1> USE DEF WriteResponse
<1>1. /\ UNCHANGED <<owed, client, toServer, hints>>
      /\ WellFormed(call[t]) /\ call \in [Caller -> Call] /\ toClient \in Seq(Message)
      /\ DataReady(call[t])
  BY DEF Inv, DataOK, CallsOK, unitVars, TokenInv, CallTokens
<1>2. /\ call'[t].at \in {"idle", "read", "disconnect"}
      /\ \A s \in Caller \ {t} : call'[s] = call[s]
  <2>1. CASE Return(t, NULL)
    <3>1. PICK c : c = [Idle EXCEPT !.at = IF NULL = NULL THEN "idle" ELSE "serve", !.req = NULL]
      OBVIOUS
    <3>2. c.at = "idle"
      BY <3>1, IdleFits DEF Call
    <3>3. call' = [call EXCEPT ![t] = c]
      BY <2>1, <3>1 DEF Return, Continue
    <3> QED
      BY <1>1, <3>2, <3>3
  <2>2. CASE \E l \in {"read", "disconnect"} :
               Continue(t, [call[t] EXCEPT !.at = l, !.rsp = NULL, !.data = 0])
    <3>1. PICK l \in {"read", "disconnect"} :
               Continue(t, [call[t] EXCEPT !.at = l, !.rsp = NULL, !.data = 0])
      BY <2>2
    <3>2. PICK k : k = call[t]
      OBVIOUS
    <3> DEFINE c == [k EXCEPT !.at = l, !.rsp = NULL, !.data = 0]
    <3>3. c.at = l
      <4>1. k \in Call
        BY <1>1, <3>2
      <4> QED
        BY <4>1, Cleared
    <3>4. call' = [call EXCEPT ![t] = c]
      BY <3>1, <3>2 DEF Continue
    <3> HIDE DEF c
    <3> QED
      BY <1>1, <3>3, <3>4
  <2> QED
    BY <2>1, <2>2
<1>3. ASSUME NEW s \in Caller
      PROVE  KeepsOrDrops(call[s], call'[s])
  <2>1. CASE s = t
    BY <1>2, <2>1, Empty
  <2>2. CASE s # t
    <3>1. DataReady(call[s]) /\ call'[s] = call[s]
      BY <1>2, <2>2 DEF TokenInv, CallTokens
    <3> QED
      BY <3>1 DEF KeepsOrDrops
  <2> QED
    BY <2>1, <2>2
<1>4. ClientsGoOn
  BY <1>1, ClientsStay
<1>5. CallTokens' /\ OwedTokens' /\ Apart'
  BY <1>1, <1>3, <1>4, ServedKept
<1>6. PipeTokens'
  <2>1. PICK m : m = [req |-> call[t].rsp, data |-> call[t].data]
    OBVIOUS
  <2>2. m \in Message /\ m.req = call[t].rsp /\ m.data = call[t].data
    BY <1>1, <2>1 DEF Message, Response, WellFormed, Call
  <2>3. Genuine(m.req) /\ (m.req.kind = "read" => m.data = 1)
    <3>1. /\ Carries(call[t]) /\ Carried(call[t]) = m.req
          /\ m.req.kind = "read" => m.data = 1
      BY <1>1, <2>2, WritesData
    <3>2. Genuine(m.req)
      BY <3>1 DEF TokenInv, CallTokens
    <3> QED
      BY <3>1, <3>2
  <2>4. Items(toClient') \subseteq Items(toClient) \cup {m}
    <3>1. toClient' = Append(toClient, m) \/ toClient' = toClient
      BY <2>1
    <3> QED
      BY <1>1, <2>2, <3>1, ItemsOf
  <2> QED
    BY <1>1, <2>3, <2>4 DEF TokenInv, PipeTokens, Genuine
<1> QED
  BY <1>5, <1>6 DEF TokenInv

\* The request that is read is one its client has sent.
LEMMA EndReadTokens ==
  ASSUME Inv, Inv', TokenInv, NEW t \in Caller, EndRead(t)
  PROVE  TokenInv'
<1> USE DEF EndRead
<1>1. /\ UNCHANGED <<owed, client, toClient, hints>>
      /\ call \in [Caller -> Call] /\ toServer \in Seq(Request)
  BY DEF Inv, DataOK, unitVars
<1>2. CASE toServer # <<>> /\ ReadMessage(t)
  <2>1. PICK r : r = Head(toServer)
    OBVIOUS
  <2>2. r \in Request /\ Genuine(r) /\ Items(toServer') \subseteq Items(toServer)
    <3>1. Head(toServer) \in Items(toServer) /\ Items(Tail(toServer)) \subseteq Items(toServer)
      BY <1>1, <1>2, ItemsOf
    <3> QED
      BY <1>1, <1>2, <2>1, <3>1, ItemsFit DEF TokenInv, PipeTokens, ReadMessage
  <2>3. PICK c : /\ Continue(t, c) /\ DataReady(c) /\ ~HoldsRead(c)
                 /\ Carries(c) => Carried(c) = r
    <3>1. CASE r.kind = "read"
      <4>1. PICK c : c = [call[t] EXCEPT !.at = "put", !.req = r]
        OBVIOUS
      <4>2. c.at = "put" /\ c.req = r
        BY <1>1, <2>2, <4>1 DEF Call
      <4>3. DataReady(c) /\ ~HoldsRead(c) /\ (Carries(c) => Carried(c) = r)
        BY <4>2 DEF DataReady, HoldsRead, Carries, Carried
      <4> QED
        BY <1>2, <2>1, <3>1, <4>1, <4>3 DEF ReadMessage
    <3>2. CASE r.kind # "read"
      <4>1. PICK q : q = IF r.kind = "bad" THEN NULL ELSE r
        OBVIOUS
      <4>2. PICK c : c = [Idle EXCEPT !.at = IF q = NULL THEN "idle" ELSE "serve", !.req = q]
        OBVIOUS
      <4>3. q \in Request \cup {NULL} /\ (q # NULL => q = r)
        BY <2>2, <4>1
      <4>4. c.at = (IF q = NULL THEN "idle" ELSE "serve") /\ c.req = q
        BY <4>2, <4>3, IdleFits DEF Call
      <4>5. DataReady(c) /\ ~HoldsRead(c) /\ (Carries(c) => Carried(c) = r)
        BY <3>2, <4>3, <4>4 DEF DataReady, HoldsRead, Carries, Carried
      <4>6. Continue(t, c)
        BY <1>2, <2>1, <3>2, <4>1, <4>2 DEF Return, ReadMessage
      <4> QED
        BY <4>5, <4>6
    <3> QED
      BY <3>1, <3>2
  <2>4. call'[t] = c /\ \A s \in Caller \ {t} : call'[s] = call[s]
    BY <1>1, <2>3 DEF Continue
  <2>5. CallTokens'
    <3> SUFFICES ASSUME NEW s \in Caller, NEW q, q = Carried(call'[s])
                 PROVE  /\ Carries(call'[s]) => Genuine(q)
                        /\ HoldsRead(call'[s]) => InUse(q)
                        /\ DataReady(call'[s])
      BY <1>1 DEF CallTokens, Genuine, InUse
    <3> QED
      BY <2>2, <2>3, <2>4 DEF TokenInv, CallTokens
  <2>6. OwedTokens'
    BY <1>1 DEF TokenInv, OwedTokens, Genuine, InUse
  <2>7. Apart'
    <3>1. \A s \in Caller : HoldsRead(call'[s]) => HoldsRead(call[s]) /\ call'[s] = call[s]
      BY <2>3, <2>4
    <3> QED
      BY <1>1, <3>1 DEF TokenInv, Apart
  <2>8. PipeTokens'
    BY <1>1, <2>2 DEF TokenInv, PipeTokens, Genuine
  <2> QED
    BY <2>5, <2>6, <2>7, <2>8 DEF TokenInv
<1>3. CASE Goto(t, "disconnect") /\ UNCHANGED toServer
  <2>1. PICK c : c = [call[t] EXCEPT !.at = "disconnect"]
    OBVIOUS
  <2>2. c.at = "disconnect"
    BY <1>1, <2>1 DEF Call
  <2>3. KeepsOrDrops(call[t], c)
    BY <2>2, Empty
  <2> QED
    BY <1>1, <1>3, <2>1, <2>3, ThreadKeeps DEF Goto
<1>4. CASE toServer # <<>> /\ ReadPart(t)
  <2>1. PICK c : c = [call[t] EXCEPT !.at = "disconnect"]
    OBVIOUS
  <2>2. c.at = "disconnect"
    BY <1>1, <2>1 DEF Call
  <2>3. call'[t] = c /\ \A s \in Caller \ {t} : call'[s] = call[s]
    BY <1>1, <1>4, <2>1 DEF ReadPart, Goto, Continue
  <2>4. ASSUME NEW s \in Caller
        PROVE  KeepsOrDrops(call[s], call'[s])
    <3>1. DataReady(call[s])
      BY DEF TokenInv, CallTokens
    <3> QED
      BY <2>2, <2>3, <3>1, Empty DEF KeepsOrDrops
  <2>5. CallTokens' /\ OwedTokens' /\ Apart'
    BY <1>1, <2>4, ServedKept, ClientsStay
  <2>6. ASSUME NEW r \in Items(toServer')
        PROVE  Genuine(r)
    <3>1. PICK i \in 1 .. Len(toServer') : r = toServer'[i]
      BY <2>6 DEF Items
    <3>2. /\ i \in 1 .. Len(toServer) /\ toServer[i] \in Request
          /\ \/ r = toServer[i]
             \/ r = [toServer[i] EXCEPT !.kind = "bad"]
      BY <1>1, <1>4, <3>1 DEF ReadPart
    <3>3. r.from = toServer[i].from /\ r.op = toServer[i].op /\ r.id = toServer[i].id
      BY <3>2 DEF Request
    <3>4. Genuine(toServer[i])
      BY <3>2 DEF TokenInv, PipeTokens, Items
    <3> QED
      BY <3>3, <3>4 DEF Genuine
  <2>7. PipeTokens'
    BY <1>1, <2>6 DEF TokenInv, PipeTokens, Genuine
  <2> QED
    BY <2>5, <2>7 DEF TokenInv
<1> QED
  BY <1>2, <1>3, <1>4

\* The clients, and the application.
LEMMA ClientTokens ==
  ASSUME Inv, Inv', TokenInv, NEW c \in Client, OpenClient(c) \/ ClientStep(c) \/ Leave(c)
  PROVE  TokenInv'
<1>1. UNCHANGED <<hints, owed, call>>
  BY DEF OpenClient, ClientStep, ReadParams, SendRequest, ReadResponse, Leave, unitVars
<1>2. toServer \in Seq(Request) /\ toClient \in Seq(Message) /\ client \in [Client -> ClientState]
  BY DEF Inv, DataOK
<1>3. \A s \in Caller : KeepsOrDrops(call[s], call'[s])
  BY <1>1 DEF TokenInv, CallTokens, KeepsOrDrops
<1>4. ASSUME NEW l, ClientGoto(c, l)
      PROVE  ClientsGoOn
  <2>1. PICK e : e = [client[c] EXCEPT !.at = l]
    OBVIOUS
  <2>2. client[c] \in ClientState /\ e.id = client[c].id /\ e.n = client[c].n
    BY <1>2, <2>1 DEF ClientState
  <2>3. client' = [client EXCEPT ![c] = e]
    BY <1>4, <2>1 DEF ClientGoto
  <2>4. client'[c] = e /\ \A d \in Client \ {c} : client'[d] = client[d]
    BY <1>2, <2>3
  <2>5. \A d \in Client : client[d].n \in Nat
    BY <1>2, StgPipeAssumption DEF ClientState
  <2> QED
    BY <2>2, <2>4, <2>5 DEF ClientsGoOn
<1>5. ASSUME CloseClient(c) \/ UNCHANGED pipeVars
      PROVE  /\ Items(toServer') \subseteq Items(toServer)
             /\ Items(toClient') \subseteq Items(toClient) \cup {Params}
  <2>1. toServer' = toServer /\ (toClient' = toClient \/ toClient' = <<>>)
    BY <1>5 DEF CloseClient, pipeVars
  <2> QED
    BY <1>2, <2>1, ItemsOf
<1>6. ASSUME toClient # <<>>, toClient' = Tail(toClient), UNCHANGED toServer
      PROVE  /\ Items(toServer') \subseteq Items(toServer)
             /\ Items(toClient') \subseteq Items(toClient) \cup {Params}
  BY <1>2, <1>6, ItemsOf
<1>7. CASE OpenClient(c) \/ Leave(c)
  <2>1. ClientsGoOn
    <3>1. CASE \E h \in ThreadId[c] : client' = [client EXCEPT ![c].at = "opened", ![c].id = h]
               /\ client[c].at \in {"none", "busy"}
      <4>1. client[c].n = 0 /\ client[c] \in ClientState
        BY <1>2, <3>1 DEF Inv, DataOK, ClientFits
      <4>2. PICK h : client' = [client EXCEPT ![c].at = "opened", ![c].id = h]
        BY <3>1
      <4>3. PICK e : e = [client[c] EXCEPT !.at = "opened", !.id = h]
        OBVIOUS
      <4>4. e.n = 0
        BY <4>1, <4>3 DEF ClientState
      <4>5. client'[c] = e /\ \A d \in Client \ {c} : client'[d] = client[d]
        BY <1>2, <4>2, <4>3
      <4>6. \A d \in Client : client[d].n \in Nat
        BY <1>2, StgPipeAssumption DEF ClientState
      <4> QED
        BY <4>1, <4>4, <4>5, <4>6 DEF ClientsGoOn
    <3>2. CASE \E l \in {"busy", "closed"} : ClientGoto(c, l)
      BY <1>4, <3>2
    <3> QED
      BY <1>7, <3>1, <3>2 DEF OpenClient, Leave
  <2>2. /\ Items(toServer') \subseteq Items(toServer)
        /\ Items(toClient') \subseteq Items(toClient) \cup {Params}
    BY <1>5, <1>7 DEF OpenClient, Leave
  <2> QED
    BY <1>1, <1>3, <2>1, <2>2, TokensKept
<1>8. CASE ReadParams(c) \/ ReadResponse(c)
  <2>1. ClientsGoOn
    BY <1>4, <1>8 DEF ReadParams, ReadResponse
  <2>2. /\ Items(toServer') \subseteq Items(toServer)
        /\ Items(toClient') \subseteq Items(toClient) \cup {Params}
    BY <1>5, <1>6, <1>8 DEF ReadParams, ReadResponse
  <2> QED
    BY <1>1, <1>3, <2>1, <2>2, TokensKept
<1>9. CASE SendRequest(c)
  <2>2. UNCHANGED toClient
    BY <1>9 DEF SendRequest
  <2>3. CASE peer = c
    <3>1. PICK e \in ClientState, r \in Request :
            /\ client' = [client EXCEPT ![c] = e] /\ toServer' = Append(toServer, r)
            /\ e.n = client[c].n + 1 /\ e.id = client[c].id
            /\ r.from = c /\ r.op = e.n /\ r.id = e.id
      BY <1>9, <2>3, Sent
    <3>2. /\ client'[c] = e /\ \A d \in Client \ {c} : client'[d] = client[d]
          /\ \A d \in Client : client[d].n \in Nat
      BY <1>2, <3>1, StgPipeAssumption DEF ClientState
    <3>3. ClientsGoOn
      BY <3>1, <3>2 DEF ClientsGoOn
    <3>4. CallTokens' /\ OwedTokens' /\ Apart'
      BY <1>1, <1>3, <3>3, ServedKept
    <3>7. Genuine(r)'
      BY <3>1, <3>2 DEF Genuine
    <3>8. Items(toServer') \subseteq Items(toServer) \cup {r}
      BY <1>2, <3>1, ItemsOf
    <3>9. \A q \in Items(toServer) : Genuine(q)'
      <4> TAKE q \in Items(toServer)
      <4>1. q \in Request /\ Genuine(q)
        BY <1>2, ItemsFit DEF TokenInv, PipeTokens
      <4> QED
        BY <3>3, <4>1, GenuineKept
    <3>10. \A m \in Items(toClient) : m # Params =>
             Genuine(m.req)' /\ (m.req.kind = "read" => m.data = 1)
      <4> TAKE m \in Items(toClient)
      <4> HAVE m # Params
      <4>1. m \in Response
        BY <1>2, ItemsFit DEF Message
      <4>2. m.req \in Request /\ Genuine(m.req) /\ (m.req.kind = "read" => m.data = 1)
        BY <4>1 DEF TokenInv, PipeTokens, Response
      <4> QED
        BY <3>3, <4>2, GenuineKept
    <3>11. PipeTokens'
      BY <2>2, <3>7, <3>8, <3>9, <3>10 DEF PipeTokens
    <3> QED
      BY <3>4, <3>11 DEF TokenInv
  <2>4. CASE peer # c
    <3>1. ClientsGoOn /\ UNCHANGED toServer
      BY <1>4, <1>9, <2>4 DEF SendRequest
    <3> QED
      BY <1>1, <1>3, <2>2, <3>1, TokensKept
  <2> QED
    BY <2>3, <2>4
<1> QED
  BY <1>7, <1>8, <1>9 DEF ClientStep

LEMMA UnitTokens ==
  ASSUME Inv, Inv', TokenInv, Open \/ Shutdown \/ Close
  PROVE  TokenInv'
<1>1. UNCHANGED <<call, client>>
  BY DEF Open, Shutdown, Close
<1>2. CASE Open \/ Shutdown
  <2>1. UNCHANGED <<hints, owed, toServer, toClient>>
    BY <1>2 DEF Open, Shutdown, pipeVars, unitVars
  <2> QED
    BY <1>1, <2>1
       DEF TokenInv, CallTokens, OwedTokens, Apart, PipeTokens, Genuine, InUse
<1>3. CASE Close
  <2>1. \A t \in Caller : ~Carries(call[t]) /\ ~HoldsRead(call[t])
    BY <1>3 DEF Close, Caller, Carries, HoldsRead
  <2>2. owed' = {} /\ Items(toServer') = {} /\ Items(toClient') = {}
    BY <1>3 DEF Close, DisconnectPipe, Items
  <2>3. CallTokens'
    BY <1>1, <2>1 DEF TokenInv, CallTokens
  <2> QED
    BY <1>1, <2>1, <2>2, <2>3 DEF TokenInv, OwedTokens, Apart, PipeTokens
<1> QED
  BY <1>2, <1>3

-----------------------------------------------------------------------------
(***************************************************************************)
(* A client gets its own response                                          *)
(***************************************************************************)

LEMMA NextTokens ==
  ASSUME Inv, Inv', TokenInv, [Next]_vars
  PROVE  TokenInv'
<1>1. CASE Open \/ Shutdown \/ Close
  BY <1>1, UnitTokens
<1>2. CASE \E t \in Caller : ServerStep(t)
  BY <1>2, TransactTokens, SendResponseTokens, LockTokens, ConnectNamedPipeTokens,
     WriteParamsTokens, TakeHintValueTokens, WriteResponseTokens, BeginReadTokens,
     EndReadTokens, PutHintValueTokens, DisconnectTokens DEF ServerStep
<1>3. CASE \E c \in Client : OpenClient(c) \/ ClientStep(c) \/ Leave(c)
  BY <1>3, ClientTokens
<1>4. CASE UNCHANGED vars
  <2>1. UNCHANGED <<hints, owed, toServer, toClient, call, client>>
    BY <1>4 DEF vars, pipeVars, unitVars
  <2> QED
    BY <2>1 DEF TokenInv, CallTokens, OwedTokens, Apart, PipeTokens, Genuine, InUse
<1> QED
  BY <1>1, <1>2, <1>3, <1>4 DEF Next, Terminated

LEMMA InitTokens == Init => TokenInv
<1> SUFFICES ASSUME Init PROVE TokenInv
  OBVIOUS
<1>1. \A t \in Caller : call[t] = Idle
  BY DEF Init
<1>2. ~Carries(Idle) /\ ~HoldsRead(Idle) /\ DataReady(Idle)
  BY IdleFits DEF Carries, HoldsRead, DataReady
<1>3. owed = {} /\ Items(toServer) = {} /\ Items(toClient) = {}
  BY DEF Init, Items
<1> QED
  BY <1>1, <1>2, <1>3 DEF TokenInv, CallTokens, OwedTokens, Apart, PipeTokens

\* Requests, responses and the table of hints agree in every reachable state.
THEOREM TokensAgree == Spec => []TokenInv
<1>1. Inv /\ Inv' /\ TokenInv /\ [Next]_vars => TokenInv'
  BY NextTokens
<1> QED
  BY InitTokens, InductiveInvariant, <1>1, PTL DEF Spec

\* A client that goes on accepts the response at the head of the pipe.
LEMMA GoesOn ==
  ASSUME Inv, [Next]_vars, NEW c \in Client,
         client[c].at = "wait", client'[c].at = "ready"
  PROVE  toClient # <<>> /\ Accept(c, Head(toClient))
<1>1. client \in [Client -> ClientState]
  BY DEF Inv, DataOK
<1>2. PICK d \in Client : OpenClient(d) \/ ClientStep(d) \/ Leave(d)
  <2>1. ~UNCHANGED client
    OBVIOUS
  <2> QED
    BY <2>1 DEF Next, Terminated, ServerStep, Open, Shutdown, Close, Transact, SendResponse,
       Lock, ConnectNamedPipe, WriteParams, TakeHintValue, WriteResponse, BeginRead, EndRead,
       PutHintValue, Disconnect, vars
<1>3. ASSUME NEW l, ClientGoto(d, l)
      PROVE  d = c /\ l = "ready"
  BY <1>1, <1>3 DEF ClientGoto, ClientState
<1>4. ~OpenClient(d) /\ ~Leave(d)
  <2>1. ASSUME NEW h, client' = [client EXCEPT ![d].at = "opened", ![d].id = h],
               client[d].at \in {"none", "busy"}
        PROVE  FALSE
    BY <1>1, <2>1
  <2> QED
    BY <1>3, <2>1 DEF OpenClient, Leave
<1>5. ~ReadParams(d)
  BY <1>3 DEF ReadParams
<1>6. ~SendRequest(d)
  BY <1>1, <1>3 DEF SendRequest
<1>7. ReadResponse(d)
  BY <1>2, <1>4, <1>5, <1>6 DEF ClientStep
<1> QED
  BY <1>3, <1>7 DEF ReadResponse

\* A client that waits goes on only with the response to the request it has
\* sent, or with that to the equal Hint of a run that had the same thread
\* identifier; and the response to a Read comes with data: whatever responses to
\* earlier clients are still on their way, whatever they have left in the table
\* of hints, and whichever Hints are equal.
THEOREM OwnResponseAccepted == Spec => OwnResponse
<1>1. ASSUME Inv, TokenInv, [Next]_vars
      PROVE  [\A c \in Client :
                client[c].at = "wait" /\ client'[c].at = "ready" =>
                  LET r == Head(toClient).req
                  IN  /\ \/ r = Pending(c)
                         \/ /\ r.from # c /\ r.kind = Pending(c).kind
                            /\ client[r.from].id = client[c].id
                            /\ client[r.from].n >= client[c].n
                      /\ r.kind = "read" => Head(toClient).data = 1]_vars
  <2> SUFFICES ASSUME NEW c \in Client, client[c].at = "wait", client'[c].at = "ready",
                      NEW m, m = Head(toClient)
               PROVE  /\ \/ m.req = Pending(c)
                         \/ /\ m.req.from # c /\ m.req.kind = Pending(c).kind
                            /\ client[m.req.from].id = client[c].id
                            /\ client[m.req.from].n >= client[c].n
                      /\ m.req.kind = "read" => m.data = 1
    OBVIOUS
  <2>1. toClient # <<>> /\ Accept(c, m)
    BY <1>1, GoesOn
  <2>2. m \in Items(toClient) /\ m \in Message
    BY <1>1, <2>1, ItemsOf, ItemsFit DEF Inv, DataOK
  <2>3. PICK r : r = m.req
    OBVIOUS
  <2>4. PICK q : q = Pending(c)
    OBVIOUS
  <2>5. /\ q.from = c /\ q.id = client[c].id /\ q.op = client[c].n
        /\ q.kind = client[c].kind
    BY <2>4 DEF Pending
  <2>6. m # Params /\ HintOf(r) = HintOf(q) /\ r.kind = q.kind
    BY <2>1, <2>3, <2>4 DEF Accept
  <2>7. r \in Request /\ Genuine(r) /\ (r.kind = "read" => m.data = 1)
    BY <1>1, <2>2, <2>3, <2>6 DEF Message, Response, TokenInv, PipeTokens
  <2>8. r.id = q.id /\ r.op = q.op
    BY <2>6 DEF HintOf
  <2>9. CASE r.from = c
    <3>1. r = [from |-> c, id |-> client[c].id, op |-> client[c].n, kind |-> client[c].kind]
      BY <2>5, <2>6, <2>7, <2>8, <2>9 DEF Request
    <3> QED
      BY <2>3, <2>7, <3>1 DEF Pending
  <2>10. CASE r.from # c
    BY <2>3, <2>4, <2>5, <2>6, <2>7, <2>8, <2>10, StgPipeAssumption
       DEF Genuine, Request, Inv, DataOK, ClientState
  <2> QED
    BY <2>9, <2>10
<1> QED
  BY InductiveInvariant, TokensAgree, <1>1, PTL DEF Spec, OwnResponse
=============================================================================
