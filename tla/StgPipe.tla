------------------------------ MODULE StgPipe -------------------------------
(***************************************************************************)
(* A storage unit that is served over a named pipe instead of the driver   *)
(* (src/shared/stghandle.c), and its client stgtest (src/stgtest).         *)
(*                                                                         *)
(* The pipe has one instance.  The threads of the unit's dispatcher share  *)
(* it: each writes responses and reads requests.  A thread that finds no   *)
(* client waits for one while it holds StorageUnit->Lock.  Connected       *)
(* counts the connections and is negative while there is none; a thread    *)
(* whose I/O fails drops the connection only if Connected is still what it *)
(* was when the thread began.  A request of kind Read is remembered by its *)
(* Hint, so that its response is sent with as many bytes as were asked     *)
(* for.  Clients come and go, and may die at any time.                     *)
(*                                                                         *)
(* Names of the system's pipe operations stand for what the code relies    *)
(* on: an instance that was created, or that ConnectNamedPipe was called   *)
(* for, listens; a client that opens it is connected; when the client has  *)
(* closed its end the instance is closing until DisconnectNamedPipe.       *)
(***************************************************************************)
EXTENDS Integers, Sequences, FiniteSets

CONSTANTS
  Client,    \* runs of stgtest
  ThreadId,  \* the thread identifiers that each run may be given, the upper half
             \* of its Hints: the system reuses those of threads that have ended
  Thread,    \* threads of the dispatcher
  Sender,    \* threads of the application that call SpdStorageUnitSendResponse
  Sends,     \* the kinds of requests that each run sends
  OpCount,   \* number of requests that a client sends
  NULL

\* "write" is Write, and Flush and Unmap are alike.  A "bad" request is shorter
\* than a message or asks for more than MaxTransferLength; a "long" one exceeds
\* the buffer of the server, by less than a message.  stgtest sends no request
\* of these two kinds; another program may.
Kind == {"read", "write", "bad", "long"}

ASSUME StgPipeAssumption ==
  /\ IsFiniteSet(Client) /\ DOMAIN ThreadId = Client
  /\ Thread \cap Sender = {}
  /\ Sends \in [Client -> SUBSET Kind]
  /\ OpCount \in Nat
  /\ NULL \notin Client \cup Thread \cup Sender \cup Kind

Caller == Thread \cup Sender

VARIABLES
  unit,      \* the unit: "none", "open", "shut" (Event set, slot cleared), "closed"
  pipe, peer, toServer, toClient,     \* the pipe and the messages in it
  Connected, lock, hints,             \* fields of STORAGE_UNIT
  call,      \* the transact call of each thread
  owed,      \* requests whose response is left to SpdStorageUnitSendResponse
  client,    \* the state of each client
  dropped    \* history: the requests that PutHintValue has dropped

pipeVars == <<pipe, peer, toServer, toClient>>
unitVars == <<Connected, lock, hints>>
vars == <<unit, pipeVars, unitVars, call, owed, client, dropped>>

\* A request of a run; its Hint tells it from the others of the run, and from
\* those of runs that have another thread identifier.
Identifier == UNION {ThreadId[c] : c \in Client}
Request == [from : Client, id : Identifier, op : 1 .. OpCount, kind : Kind]
HintOf(r) == <<r.id, r.op>>

\* A response, with or without the data of a Read; and the StorageUnitParams.
Response == [req : Request, data : 0 .. 1]
Params == [req |-> NULL, data |-> 0]
Message == {Params} \cup Response

\* What a thread does: outside of SpdStorageUnitHandleTransactPipe it is idle,
\* serves a request or has ended; inside, it has a response to send, wants a
\* request or not, and remembers Connected.
Call == [at : {"idle", "serve", "done", "lock", "connect", "params", "take", "write",
               "read", "reading", "put", "disconnect"},
         rsp : Request \cup {NULL}, data : 0 .. 1, req : Request \cup {NULL},
         conn : Int]
Idle == [at |-> "idle", rsp |-> NULL, data |-> 0, req |-> NULL, conn |-> 0]

Continue(t, c) == call' = [call EXCEPT ![t] = c]
Goto(t, l) == Continue(t, [call[t] EXCEPT !.at = l])

\* Return ERROR_SUCCESS with a request, or with none (zeroout).
Return(t, r) ==
  Continue(t, [Idle EXCEPT !.at = IF r = NULL THEN "idle" ELSE "serve", !.req = r])

\* An error ends the dispatcher thread.  Faulty variant: it tries again.
Ended_Retry == Idle
Ended == [Idle EXCEPT !.at = "done"]

\* WaitOverlappedResult looks at the event first.
Stopped == unit = "shut"

-----------------------------------------------------------------------------
(***************************************************************************)
(* The pipe                                                                *)
(***************************************************************************)

\* DisconnectNamedPipe discards the messages, and fails the reads in progress.
Disconnected(calls) ==
  [t \in Caller |-> IF calls[t].at = "reading" THEN [calls[t] EXCEPT !.at = "disconnect"]
                                               ELSE calls[t]]
DisconnectPipe(s) ==
  /\ pipe' = s
  /\ peer' = NULL
  /\ toServer' = <<>> /\ toClient' = <<>>

\* The client's handle is closed, by CloseHandle or because the process ends.
CloseClient(c) ==
  IF peer = c
  THEN /\ pipe' = "closing"
       /\ toClient' = <<>>
       /\ UNCHANGED <<peer, toServer>>
  ELSE UNCHANGED pipeVars

-----------------------------------------------------------------------------
(***************************************************************************)
(* SpdStorageUnitHandleOpenPipe, -ShutdownPipe and -ClosePipe              *)
(***************************************************************************)

Open ==
  /\ unit = "none"
  /\ \/ unit' = "open" /\ pipe' = "listening"
     \/ unit' = "closed" /\ UNCHANGED pipe        \* the pipe cannot be created
  /\ UNCHANGED <<peer, toServer, toClient, unitVars, call, owed, client, dropped>>

Shutdown ==
  /\ unit = "open"
  /\ unit' = "shut"
  /\ UNCHANGED <<pipeVars, unitVars, call, owed, client, dropped>>

\* SpdStorageUnitDelete: the application has waited for the dispatcher and has
\* no responder at work.
Close ==
  /\ unit = "shut"
  /\ \A t \in Thread : call[t].at = "done"
  /\ \A s \in Sender : call[s].at \in {"idle", "done"}
  /\ unit' = "closed"
  /\ DisconnectPipe("none")
  /\ hints' = {}
  /\ owed' = {}
  /\ UNCHANGED <<Connected, lock, call, client, dropped>>

-----------------------------------------------------------------------------
(***************************************************************************)
(* SpdStorageUnitHandleTransactPipe                                        *)
(***************************************************************************)

\* A call starts: the unit must be the one in the table, and an event and a
\* message are allocated.  If that fails the caller gets an error and shuts the
\* unit down; a dispatcher thread then ends.
Begin(t, r) ==
  \/ /\ unit = "open"
     /\ Continue(t, [Idle EXCEPT !.at = "lock", !.rsp = r])
     /\ UNCHANGED unit
  \/ Continue(t, Ended) /\ unit' = "shut"

\* The dispatcher asks for its next request, answering the last one unless the
\* operation is left to SpdStorageUnitSendResponse.

Transact(t) ==
  /\ unit \in {"open", "shut"}
  /\ \/ call[t].at = "idle" /\ Begin(t, NULL) /\ UNCHANGED owed
     \/ call[t].at = "serve" /\ Begin(t, call[t].req) /\ UNCHANGED owed
     \/ call[t].at = "serve" /\ Sender # {} /\ Begin(t, NULL)
          /\ owed' = owed \cup {call[t].req}
  /\ UNCHANGED <<pipeVars, unitVars, client, dropped>>

SendResponse(s) ==
  /\ unit \in {"open", "shut"}
  /\ call[s].at = "idle"
  /\ \E r \in owed : Begin(s, r) /\ owed' = owed \ {r}
  /\ UNCHANGED <<pipeVars, unitVars, client, dropped>>

\* After the lock is released: write the response, after TakeHintValue if it
\* is of kind Read, and then read a request.  Faulty variant: the response is
\* left out.
AfterLock_NoResponse(t) ==
  [call[t] EXCEPT !.conn = Connected,
                  !.at = IF t \in Thread THEN "read"
                         ELSE IF call[t].rsp.kind = "read" THEN "take" ELSE "write"]
AfterLock(t) ==
  [call[t] EXCEPT !.conn = Connected,
                  !.at = IF call[t].rsp = NULL THEN "read"
                         ELSE IF call[t].rsp.kind = "read" THEN "take" ELSE "write"]

\* AcquireSRWLockExclusive(&StorageUnit->Lock), and ConnectNamedPipe if there
\* is no connection.  A client that is there already is ERROR_PIPE_CONNECTED;
\* one that has left already is ERROR_NO_DATA, a return without a request.
Lock(t) ==
  /\ call[t].at = "lock"
  /\ lock = NULL
  /\ \/ /\ Connected > 0
        /\ Continue(t, AfterLock(t))
        /\ UNCHANGED <<pipe, lock>>
     \/ /\ Connected <= 0 /\ pipe \in {"listening", "disconnected"}
        /\ pipe' = "listening" /\ lock' = t
        /\ Goto(t, "connect")
     \/ /\ Connected <= 0 /\ pipe = "connected"
        /\ lock' = t
        /\ Goto(t, "params")
        /\ UNCHANGED pipe
     \/ /\ Connected <= 0 /\ pipe = "closing"
        /\ Return(t, NULL)
        /\ UNCHANGED <<pipe, lock>>
  /\ UNCHANGED <<unit, peer, toServer, toClient, Connected, hints, owed, client, dropped>>

\* The wait for a client ends: the event is set, or a client has connected.
ConnectNamedPipe(t) ==
  /\ call[t].at = "connect"
  /\ \/ Stopped /\ lock' = NULL /\ Continue(t, Ended)
     \/ ~Stopped /\ pipe # "listening" /\ Goto(t, "params") /\ UNCHANGED lock
  /\ UNCHANGED <<unit, pipeVars, Connected, hints, owed, client, dropped>>

\* WriteFile of the StorageUnitParams.
NextConnected == -Connected + 1
WriteParams(t) ==
  /\ call[t].at = "params"
  /\ lock' = NULL
  /\ IF pipe = "connected" /\ ~Stopped
     THEN /\ toClient' = Append(toClient, Params)
          /\ Connected' = NextConnected
          /\ Continue(t, [AfterLock(t) EXCEPT !.conn = NextConnected])
          /\ UNCHANGED <<pipe, peer, toServer>>
     ELSE /\ DisconnectPipe("disconnected")
          /\ call' = [Disconnected(call) EXCEPT ![t] = Idle]
          /\ UNCHANGED Connected
  /\ UNCHANGED <<unit, hints, owed, client, dropped>>

\* The table has an entry for the Hint of r.
InUse(r) == \E x \in hints : HintOf(x) = HintOf(r)

\* TakeHintValue; no entry is no data.
Forget(r) == {x \in hints : HintOf(x) # HintOf(r)}
TakeHintValue(t) ==
  LET r == call[t].rsp
  IN  /\ call[t].at = "take"
      /\ lock = NULL
      /\ hints' = Forget(r)
      /\ Continue(t, [call[t] EXCEPT !.at = "write",
                        !.data = IF InUse(r) THEN 1 ELSE 0])
      /\ UNCHANGED <<unit, pipeVars, Connected, lock, owed, client, dropped>>

\* WriteFile of the response; a caller without Req is done then.
WriteResponse(t) ==
  /\ call[t].at = "write"
  /\ IF pipe = "connected"
     THEN toClient' = Append(toClient, [req |-> call[t].rsp, data |-> call[t].data])
     ELSE UNCHANGED toClient
  /\ IF pipe # "connected" \/ Stopped
     THEN Continue(t, [call[t] EXCEPT !.at = "disconnect", !.rsp = NULL, !.data = 0])
     ELSE IF t \in Sender THEN Return(t, NULL)
     ELSE Continue(t, [call[t] EXCEPT !.at = "read", !.rsp = NULL, !.data = 0])
  /\ UNCHANGED <<unit, pipe, peer, toServer, unitVars, owed, client, dropped>>

\* ReadFile is issued; it fails at once when nobody is or was connected.
BeginRead(t) ==
  /\ call[t].at = "read"
  /\ Goto(t, IF pipe \in {"connected", "closing"} THEN "reading" ELSE "disconnect")
  /\ UNCHANGED <<unit, pipeVars, unitVars, owed, client, dropped>>

\* It completes with a message.  A request of kind Read is put into the hints,
\* one that is too short or asks for too much is returned as none.
ReadMessage(t) ==
  LET r == Head(toServer)
  IN  /\ r.kind # "long"
      /\ IF r.kind = "read" THEN Continue(t, [call[t] EXCEPT !.at = "put", !.req = r])
         ELSE Return(t, IF r.kind = "bad" THEN NULL ELSE r)
      /\ toServer' = Tail(toServer)

\* It completes with a part of a message, which is an error (ERROR_MORE_DATA).
\* The rest stays in the pipe, and is read next if nobody disconnects.
ReadPart(t) ==
  /\ Head(toServer).kind = "long"
  /\ toServer' = [toServer EXCEPT ![1].kind = "bad"]
  /\ Goto(t, "disconnect")

\* Or it ends with an error because the client has closed its end, or because
\* it is cancelled.
EndRead(t) ==
  /\ call[t].at = "reading"
  /\ \/ ~Stopped /\ toServer # <<>> /\ (ReadMessage(t) \/ ReadPart(t))
     \/ /\ Stopped \/ (toServer = <<>> /\ pipe = "closing")
        /\ Goto(t, "disconnect")
        /\ UNCHANGED toServer
  /\ UNCHANGED <<unit, pipe, peer, toClient, unitVars, owed, client, dropped>>

\* PutHintValue; the request is dropped, and nobody will answer it, when its
\* Hint is in use or there is no memory.
PutHintValue(t) ==
  LET r == call[t].req
  IN  /\ call[t].at = "put"
      /\ lock = NULL
      /\ \/ /\ ~InUse(r)
            /\ hints' = hints \cup {r}
            /\ Return(t, r)
            /\ UNCHANGED dropped
         \/ /\ dropped' = dropped \cup {r}
            /\ Return(t, NULL)
            /\ UNCHANGED hints
      /\ UNCHANGED <<unit, pipeVars, Connected, lock, owed, client>>

\* Under the lock: drop the connection, unless there is another by now.
\* Faulty variants: whichever connection there is; the thread remembers the
\* connection before this one.
SameConnection_Any(t) == Connected > 0
SameConnection_Stale(t) == call[t].conn = -Connected
SameConnection(t) == call[t].conn = Connected

\* Faulty variant: the count stays positive.
Dropped_Kept == Connected
Dropped == -Connected
Disconnect(t) ==
  /\ call[t].at = "disconnect"
  /\ lock = NULL
  /\ IF SameConnection(t)
     THEN /\ DisconnectPipe("disconnected")
          /\ Connected' = Dropped
          /\ call' = [Disconnected(call) EXCEPT ![t] = Idle]
     ELSE /\ Return(t, NULL)
          /\ UNCHANGED <<pipeVars, Connected>>
  /\ UNCHANGED <<unit, lock, hints, owed, client, dropped>>

-----------------------------------------------------------------------------
(***************************************************************************)
(* stgtest                                                                 *)
(***************************************************************************)

ClientGoto(c, l) == client' = [client EXCEPT ![c].at = l]

\* StgOpenPipe: CreateFile; if the pipe is busy WaitNamedPipe and try again.
OpenClient(c) ==
  /\ client[c].at \in {"none", "busy"}
  /\ unit # "none"
  /\ \/ /\ pipe = "listening"
        /\ pipe' = "connected" /\ peer' = c
        /\ \E h \in ThreadId[c] : client' = [client EXCEPT ![c].at = "opened", ![c].id = h]
     \/ /\ client[c].at = "none" /\ pipe \notin {"listening", "none"}
        /\ ClientGoto(c, "busy")
        /\ UNCHANGED <<pipe, peer>>
     \/ /\ \/ pipe = "none"
           \/ client[c].at = "busy" /\ pipe # "listening"   \* time is out
        /\ ClientGoto(c, "closed")
        /\ UNCHANGED <<pipe, peer>>
  /\ UNCHANGED <<unit, toServer, toClient, unitVars, call, owed, dropped>>

\* ReadFile of the StorageUnitParams: anything else is ERROR_IO_DEVICE.
ReadParams(c) ==
  /\ client[c].at = "opened"
  /\ IF peer = c
     THEN /\ toClient # <<>>
          /\ IF Head(toClient) = Params
             THEN /\ ClientGoto(c, "ready")
                  /\ toClient' = Tail(toClient)
                  /\ UNCHANGED <<pipe, peer, toServer>>
             ELSE ClientGoto(c, "closed") /\ CloseClient(c)
     ELSE ClientGoto(c, "closed") /\ UNCHANGED pipeVars
  /\ UNCHANGED <<unit, unitVars, call, owed, dropped>>

\* The request that c waits for a response to.
Pending(c) ==
  [from |-> c, id |-> client[c].id, op |-> client[c].n, kind |-> client[c].kind]

\* StgTransactPipe writes the next request of run.
SendRequest(c) ==
  /\ client[c].at = "ready"
  /\ \E k \in Sends[c] :
       /\ client[c].n < OpCount
       /\ IF peer = c
          THEN /\ client' = [client EXCEPT ![c].at = "wait", ![c].n = @ + 1, ![c].kind = k]
               /\ toServer' = Append(toServer, Pending(c)')
          ELSE ClientGoto(c, "closed") /\ UNCHANGED toServer
  /\ UNCHANGED <<unit, pipe, peer, toClient, unitVars, call, owed, dropped>>

\* It reads the response and compares the Hint, and run compares the Kind.
\* Faulty variant: only the Kind.
Accept_Any(c, m) == m # Params /\ m.req.kind = Pending(c).kind
Accept(c, m) ==
  m # Params /\ HintOf(m.req) = HintOf(Pending(c)) /\ m.req.kind = Pending(c).kind
ReadResponse(c) ==
  /\ client[c].at = "wait"
  /\ IF peer = c
     THEN /\ toClient # <<>>
          /\ IF Accept(c, Head(toClient))
             THEN /\ ClientGoto(c, "ready")
                  /\ toClient' = Tail(toClient)
                  /\ UNCHANGED <<pipe, peer, toServer>>
             ELSE ClientGoto(c, "closed") /\ CloseClient(c)
     ELSE ClientGoto(c, "closed") /\ UNCHANGED pipeVars
  /\ UNCHANGED <<unit, unitVars, call, owed, dropped>>

\* run is done, or the process is killed.
Leave(c) ==
  /\ client[c].at \in {"busy", "opened", "ready", "wait"}
  /\ ClientGoto(c, "closed")
  /\ CloseClient(c)
  /\ UNCHANGED <<unit, unitVars, call, owed, dropped>>

-----------------------------------------------------------------------------

Init ==
  /\ unit = "none"
  /\ pipe = "none" /\ peer = NULL /\ toServer = <<>> /\ toClient = <<>>
  /\ Connected = 0 /\ lock = NULL /\ hints = {}
  /\ call = [t \in Caller |-> Idle]
  /\ owed = {}
  /\ client = [c \in Client |-> [at |-> "none", id |-> NULL, n |-> 0, kind |-> NULL]]
  /\ dropped = {}

\* What a thread of the server does.
ServerStep(t) ==
  \/ t \in Thread /\ Transact(t)
  \/ t \in Sender /\ SendResponse(t)
  \/ Lock(t) \/ ConnectNamedPipe(t) \/ WriteParams(t)
  \/ TakeHintValue(t) \/ WriteResponse(t)
  \/ BeginRead(t) \/ EndRead(t) \/ PutHintValue(t)
  \/ Disconnect(t)

ClientStep(c) == ReadParams(c) \/ SendRequest(c) \/ ReadResponse(c)

\* All is over: the unit is closed and the clients are gone.
Terminated ==
  /\ unit = "closed"
  /\ \A c \in Client : client[c].at \in {"none", "closed"}
  /\ UNCHANGED vars

Next ==
  \/ Open \/ Shutdown \/ Close
  \/ \E t \in Caller : ServerStep(t)
  \/ \E c \in Client : OpenClient(c) \/ ClientStep(c) \/ Leave(c)
  \/ Terminated

Spec == Init /\ [][Next]_vars

\* The threads of the server run until they wait, and those of the clients
\* until they wait; an operation of the Interface ends.  Nobody has to open a
\* pipe, to leave or to shut the unit down.
FairSpec ==
  /\ Spec
  /\ \A t \in Caller : WF_vars(ServerStep(t))
  /\ \A c \in Client : WF_vars(ClientStep(c))
  /\ WF_vars(Close)

-----------------------------------------------------------------------------
(***************************************************************************)
(* Properties                                                              *)
(***************************************************************************)

\* Every variable has its type; the lock is held only by a thread that waits
\* for a client or welcomes it, and Connected is positive only for a pipe that
\* has or had a client.
TypeOK ==
  /\ unit \in {"none", "open", "shut", "closed"}
  /\ pipe \in {"none", "listening", "connected", "closing", "disconnected"}
  /\ peer \in Client \cup {NULL}
  /\ toServer \in Seq(Request) /\ toClient \in Seq(Message)
  /\ Connected \in Int
  /\ hints \in SUBSET Request
  /\ call \in [Caller -> Call]
  /\ owed \in SUBSET Request
  /\ client \in [Client -> [at : {"none", "busy", "opened", "ready", "wait", "closed"},
                            id : Identifier \cup {NULL}, n : 0 .. OpCount,
                            kind : Kind \cup {NULL}]]
  /\ dropped \in SUBSET Request
  /\ \A t \in Caller : lock = t <=> call[t].at \in {"connect", "params"}
  /\ Connected > 0 /\ unit # "closed" => pipe \in {"connected", "closing"}

\* A thread whose I/O failed never drops the connection of a later client: as
\* long as the unit is not shut down and the client has not closed its end, the
\* server does not disconnect it, if it sends no message that is too long.
KeepsClient ==
  [][\A c \in Client :
       unit = "open" /\ peer = c /\ pipe = "connected" /\ "long" \notin Sends[c] =>
         peer' = c]_vars

\* A client accepts a response only if it is the response to its own request,
\* although a response to a client that has left is sent to the one that
\* follows it; or to a request with the same Hint that an earlier run, with the
\* same thread identifier, has sent.  In either case the response to a
\* Read comes with data (without it stgtest would take zeros for the data),
\* whatever is in the table of hints and even if Hints are equal.
OwnResponse ==
  [][\A c \in Client :
       client[c].at = "wait" /\ client'[c].at = "ready" =>
         LET r == Head(toClient).req
         IN  /\ \/ r = Pending(c)
                \/ /\ r.from # c /\ r.kind = Pending(c).kind
                   /\ client[r.from].id = client[c].id
                   /\ client[r.from].n >= client[c].n
             /\ r.kind = "read" => Head(toClient).data = 1]_vars

\* A client that waits for the response to a well-formed request does not wait
\* for ever: it gets a response, or an error because the unit is being closed
\* or because it was sent the response to an earlier client; except for a Read
\* that PutHintValue has dropped.
RequestAnswered ==
  \A c \in Client :
    client[c].at = "wait" /\ client[c].kind \in {"read", "write"} ~>
      client[c].at # "wait" \/ Pending(c) \in dropped

\* Shutting the unit down releases every thread, also those that wait for a
\* client, for a request or for the lock, and the unit is closed.
ShutdownCompletes == unit = "shut" ~> unit = "closed"

\* "Any program can be used to send requests to the specified named pipe": as
\* long as the unit is not shut down, a pipe whose client was welcomed and has
\* left is made ready for the next one: some thread finds out and disconnects
\* it.  (A client that left before it was welcomed is not covered: for it
\* ConnectNamedPipe fails with ERROR_NO_DATA, and nobody disconnects.)
ListensAgain ==
  Connected > 0 /\ pipe = "closing" ~> pipe # "closing" \/ unit # "open"
=============================================================================
