--------------------------- MODULE TcpIOCPServer ---------------------------
(***************************************************************************)
(* The TestIOCPServer program while one server object runs: the accept     *)
(* thread and the worker threads of CTcpIOCPServerImp                      *)
(* (TcpIOCPServerImp.cpp), the dialog that consumes their events and calls *)
(* back into the server from their threads (CTestIOCPServerDlg,            *)
(* TestIOCPServerDlg.cpp), and the dialog's own thread, which stops the    *)
(* service when the button is clicked.                                     *)
(*                                                                         *)
(* The stubs and their manager are ClientManager (M below), the operations *)
(* and the completion port are ClientOperations (O below).  This module    *)
(* keeps the control of the threads: pc[t] is the next step of thread t,   *)
(* and ret[t] the stack of the steps that follow the call it is in.        *)
(* SetDlgItemInt sends a message to the dialog's thread and waits until    *)
(* that thread is back in its message loop.                                *)
(***************************************************************************)
EXTENDS Integers, Sequences, FiniteSets, Bags, SequencesExt

CONSTANTS
  Acceptor,     (* the accept thread                                       *)
  Workers,      (* the worker threads, m_nThreadNums of them               *)
  Sockets, NoSocket, MaxClients, InitClients, ClientBlock,
  MaxOpers, InitOpers, OperBlock, MaxPackets,
  MaxAccepts,   (* BOUND on the connections that peers open                *)
  MaxReceives,  (* BOUND on the messages that peers send                   *)
  MaxTraffic,   (* BOUND on both together                                  *)
  UserStops     (* BOUND: whether the user clicks Stop                     *)

\* m_nThreadNums is the number of processors when it is given as 0.
ASSUME WorkerAssumption == Acceptor \notin Workers /\ IsFiniteSet(Workers) /\ Workers # {}

ASSUME BoundAssumption ==
  /\ MaxAccepts \in Nat
  /\ MaxReceives \in Nat
  /\ MaxTraffic \in Nat
  /\ UserStops \in BOOLEAN

Threads  == Workers \cup {Acceptor}
Clients  == 1 .. MaxClients
NoClient == 0

VARIABLES
  freeClients, realClients, clientCount, socket, status, opened, mgr,
  freeOpers, operCount, operType, pending, io, call, exits,
  pc, ret,
  client,         (* the local variable pclient of each thread             *)
  sock,           (* m_Socket as RecvData or SendData read it              *)
  acceptRunning,  (* m_bAcceptRunning                                      *)
  ui,             (* the dialog's thread: "loop" is its message loop       *)
  accepts, receives

mgrVars  == <<freeClients, realClients, clientCount, socket, status, opened, mgr>>
operVars == <<freeOpers, operCount, operType, pending, io, call, exits>>
uiVars   == <<acceptRunning, ui>>
vars     == <<mgrVars, operVars, pc, ret, client, sock, uiVars, accepts, receives>>

M == INSTANCE ClientManager
O == INSTANCE ClientOperations

ASSUME ServerAssumption == M!SocketAssumption /\ M!ClientAssumption /\ O!OperAssumption

\* Thread t, which serves stub c, goes to step s, and will go to the steps of
\* the stack next when the call it is in returns. The stub is of no more use to
\* a thread that is back at the top of its loop.
Enter(t, s, next, c) ==
  /\ pc' = [pc EXCEPT ![t] = s]
  /\ ret' = [ret EXCEPT ![t] = next]
  /\ client' = [client EXCEPT ![t] = IF s \in {"loop", "exited"} THEN NoClient ELSE c]

GoTo(t, s, next) == Enter(t, s, next, client[t])

\* Thread t returns to the step on top of its stack.
Return(t) == GoTo(t, Head(ret[t]), Tail(ret[t]))

\* CTcpIOCPServerImp::CloseClient, called by thread t: RemoveRealClient, then
\* always ClientStatusNotify(pclient, 1), then the steps of the stack next.
CallCloseClient(t, next) == GoTo(t, "remove", <<"notify">> \o next)

----------------------------------------------------------------------------
(* The accept thread                                                       *)

\* The loop condition.
AcceptLoop ==
  /\ pc[Acceptor] = "loop"
  /\ GoTo(Acceptor, IF acceptRunning THEN "poll" ELSE "exited", <<>>)
  /\ UNCHANGED <<mgrVars, operVars, sock, uiVars, accepts, receives>>

\* 50 ms without an event, or an event that is not a connection.
AcceptTimeout ==
  /\ pc[Acceptor] = "poll"
  /\ GoTo(Acceptor, "loop", <<>>)
  /\ UNCHANGED <<mgrVars, operVars, sock, uiVars, accepts, receives>>

\* WSAEnumNetworkEvents fails: the thread ends and nobody is told.
AcceptFails ==
  /\ pc[Acceptor] = "poll"
  /\ GoTo(Acceptor, "exited", <<>>)
  /\ UNCHANGED <<mgrVars, operVars, sock, uiVars, accepts, receives>>

\* WSAAccept and GetFreeClient; s is NoSocket when WSAAccept fails.
AcceptClient(s) ==
  /\ pc[Acceptor] = "poll"
  /\ accepts < MaxAccepts /\ accepts + receives < MaxTraffic
  /\ accepts' = accepts + 1
  /\ M!AcceptClient(Acceptor, s)
  /\ Enter(Acceptor, "init", <<>>, mgr'[Acceptor].client)
  /\ sock' = [sock EXCEPT ![Acceptor] = s]
  /\ UNCHANGED <<operVars, uiVars, receives>>

InitClient ==
  /\ pc[Acceptor] = "init"
  /\ M!InitClient(Acceptor)
  /\ GoTo(Acceptor, "add", <<>>)
  /\ UNCHANGED <<operVars, sock, uiVars, accepts, receives>>

AddRealClient ==
  /\ pc[Acceptor] = "add"
  /\ M!AddRealClient(Acceptor)
  /\ GoTo(Acceptor, "associate", <<>>)
  /\ UNCHANGED <<operVars, sock, uiVars, accepts, receives>>

\* CreateIoCompletionPort fails on a handle that is not open, and may fail on
\* another: the client is removed without a notification and the thread ends.
\* Otherwise ClientStatusNotify(pclient, 0) posts the first read.
Associate ==
  /\ pc[Acceptor] = "associate"
  /\ \/ /\ sock[Acceptor] \in opened
        /\ GoTo(Acceptor, "recv", <<"update">>)
     \/ GoTo(Acceptor, "remove", <<"exited">>)
  /\ sock' = [sock EXCEPT ![Acceptor] = NoSocket]
  /\ UNCHANGED <<mgrVars, operVars, uiVars, accepts, receives>>

----------------------------------------------------------------------------
(* What any thread does: the calls of the dialog's handlers                *)

\* RecvData or SendData up to the system call, which is given m_Socket.
Fill(t, kind) ==
  /\ O!FillOper(t, client[t], kind)
  /\ sock' = [sock EXCEPT ![t] = socket[client[t]]]
  /\ UNCHANGED <<mgrVars, uiVars, accepts, receives>>

FillRecv(t) == /\ pc[t] = "recv"
               /\ Fill(t, O!READ)
               /\ GoTo(t, "post", ret[t])

\* The handler that sends goes on to read, whatever SendData returns. (Faulty:
\* it waits for the end of the write to read.)
AfterSendFaulty == <<>>
AfterSend       == <<"recv">>

FillSend(t) == /\ pc[t] = "send"
               /\ Fill(t, O!WRITE)
               /\ GoTo(t, "post", AfterSend \o ret[t])

\* The system accepts the operation only on an open handle; the completion key
\* is the stub that the handle belongs to now.
PostPends(t) ==
  /\ pc[t] = "post"
  /\ sock[t] \in opened
  /\ \E c \in Clients : M!Holds(c, sock[t]) /\ O!PostPends(t, c)
  /\ GoTo(t, "insert", ret[t])
  /\ sock' = [sock EXCEPT ![t] = NoSocket]
  /\ UNCHANGED <<mgrVars, uiVars, accepts, receives>>

\* It fails always on a handle that is not open: the handler closes the client.
PostFails(t) ==
  /\ pc[t] = "post"
  /\ O!PostFails(t)
  /\ CallCloseClient(t, ret[t])
  /\ sock' = [sock EXCEPT ![t] = NoSocket]
  /\ UNCHANGED <<mgrVars, uiVars, accepts, receives>>

InsertPending(t) ==
  /\ pc[t] = "insert"
  /\ O!InsertPending(t)
  /\ Return(t)
  /\ UNCHANGED <<mgrVars, sock, uiVars, accepts, receives>>

\* RemoveRealClient: a client that is not in the map is left alone.
RemoveRealClient(t) ==
  /\ pc[t] = "remove"
  /\ M!RemoveRealClient(t, client[t])
  /\ IF client[t] \in realClients THEN GoTo(t, "close", ret[t]) ELSE Return(t)
  /\ UNCHANGED <<operVars, sock, uiVars, accepts, receives>>

\* The steps of CTcpIOCPClientStub::CloseClient, and the return to the manager.
CloseSocket(t) ==
  /\ pc[t] = "close"
  /\ M!CloseSocket(t)
  /\ GoTo(t, "releaserecv", ret[t])
  /\ UNCHANGED <<operVars, sock, uiVars, accepts, receives>>

ReleaseRecv(t) ==
  /\ pc[t] = "releaserecv"
  /\ O!ReleasePending(t, client[t], O!READ)
  /\ GoTo(t, "releasesend", ret[t])
  /\ UNCHANGED <<mgrVars, sock, uiVars, accepts, receives>>

ReleaseSend(t) ==
  /\ pc[t] = "releasesend"
  /\ O!ReleasePending(t, client[t], O!WRITE)
  /\ M!ResetStatus(t)
  /\ GoTo(t, "push", ret[t])
  /\ UNCHANGED <<sock, uiVars, accepts, receives>>

PushFreeClient(t) ==
  /\ pc[t] = "push"
  /\ M!PushFreeClient(t)
  /\ Return(t)
  /\ UNCHANGED <<operVars, sock, uiVars, accepts, receives>>

\* SetDlgItemInt, in ClientStatusNotify: it returns when the dialog's thread is
\* in its message loop.
InMessageLoop == ui \in {"loop", "stopped"}

Notify(t) ==
  /\ pc[t] = "notify"
  /\ InMessageLoop
  /\ Return(t)
  /\ UNCHANGED <<mgrVars, operVars, sock, uiVars, accepts, receives>>

\* The last line of ClientStatusNotify(pclient, 0), then the accept loop again.
Update ==
  /\ pc[Acceptor] = "update"
  /\ InMessageLoop
  /\ GoTo(Acceptor, "loop", <<>>)
  /\ UNCHANGED <<mgrVars, operVars, sock, uiVars, accepts, receives>>

----------------------------------------------------------------------------
(* The worker threads                                                      *)

\* GetQueuedCompletionStatus returns a packet of a client, with any result that
\* its operation may have. A packet whose node is not typed is dropped, and one
\* whose node is an exit message ends the thread.
Dequeue(w, p, r) ==
  /\ pc[w] = "loop"
  /\ O!Dequeue(w, p, r)
  /\ IF p.kind = O!READ /\ r.ok /\ r.data
     THEN /\ receives < MaxReceives /\ accepts + receives < MaxTraffic
          /\ receives' = receives + 1
     ELSE UNCHANGED receives
  /\ Enter(w, CASE call'[w].at = "done"   -> "release"
                [] call'[w].at = "exited" -> "exited"
                [] OTHER                  -> "loop", <<>>, p.key)
  /\ UNCHANGED <<mgrVars, sock, uiVars, accepts>>

\* OperateNotify, by what the worker read from the node: no data closes the
\* client; a message is echoed and the next one read; an error closes the
\* client; the end of a write, and any other type, is the end of it.
OperateNotify(w) ==
  LET got == call[w] IN
  CASE ~got.data -> CallCloseClient(w, <<"loop">>)
    [] got.data /\ got.type = O!READ /\ got.ok -> GoTo(w, "send", <<"loop">>)
    [] got.data /\ got.type \in O!Kinds /\ ~got.ok -> CallCloseClient(w, <<"loop">>)
    [] OTHER -> GoTo(w, "loop", <<>>)

\* The steps of ReleaseOperData, the last one with the beginning of OperateNotify.
ReleaseOperData(w) ==
  /\ pc[w] = "release"
  /\ O!ReleaseOperData(w)
  /\ IF call'[w].at = "idle" THEN OperateNotify(w) ELSE UNCHANGED <<pc, ret, client>>
  /\ UNCHANGED <<mgrVars, sock, uiVars, accepts, receives>>

\* GetQueuedCompletionStatus returns an exit message.
TakeKillThread(w, p) ==
  /\ pc[w] = "loop"
  /\ O!TakeKillThread(w, p)
  /\ GoTo(w, IF call'[w].at = "exited" THEN "exited" ELSE "loop", <<>>)
  /\ UNCHANGED <<mgrVars, sock, uiVars, accepts, receives>>

----------------------------------------------------------------------------
(* The dialog's thread: the Stop button                                    *)

StopClick ==
  /\ UserStops
  /\ ui = "loop"
  /\ ui' = "joinaccept"
  /\ acceptRunning' = FALSE
  /\ UNCHANGED <<mgrVars, operVars, pc, ret, client, sock, accepts, receives>>

JoinAccept ==
  /\ ui = "joinaccept"
  /\ pc[Acceptor] = "exited"
  /\ ui' = "post"
  /\ UNCHANGED <<mgrVars, operVars, pc, ret, client, sock, acceptRunning, accepts, receives>>

\* Whether n exit messages are enough. (Faulty: a loop that runs once too often,
\* and one that starts at 1.)
EnoughFaultyMore(n) == n > Cardinality(Workers)
EnoughFaultyLess(n) == n + 1 >= Cardinality(Workers)
Enough(n)           == n = Cardinality(Workers)

PostKillThread ==
  /\ ui = "post"
  /\ O!PostKillThread
  /\ ui' = IF Enough(exits') THEN "joinworkers" ELSE "post"
  /\ UNCHANGED <<mgrVars, pc, ret, client, sock, acceptRunning, accepts, receives>>

\* WaitForMultipleObjects. (Faulty: a wait with a timeout.)
JoinedFaulty == TRUE
Joined       == \A w \in Workers : pc[w] = "exited"

JoinWorkers ==
  /\ ui = "joinworkers"
  /\ Joined
  /\ ui' = "closeall"
  /\ UNCHANGED <<mgrVars, operVars, pc, ret, client, sock, acceptRunning, accepts, receives>>

CloseAllClient ==
  /\ ui = "closeall"
  /\ M!CloseAllClient
  /\ O!ReleaseAllPending(realClients)
  /\ ui' = "closeport"
  /\ UNCHANGED <<pc, ret, client, sock, acceptRunning, accepts, receives>>

ClosePort ==
  /\ ui = "closeport"
  /\ O!ClosePort
  /\ ui' = "stopped"
  /\ UNCHANGED <<mgrVars, pc, ret, client, sock, acceptRunning, accepts, receives>>

----------------------------------------------------------------------------

\* InitServer and StartService have returned.
Init ==
  /\ M!Init
  /\ O!Init
  /\ pc = [t \in Threads |-> "loop"]
  /\ ret = [t \in Threads |-> <<>>]
  /\ client = [t \in Threads |-> NoClient]
  /\ sock = [t \in Threads |-> NoSocket]
  /\ acceptRunning = TRUE
  /\ ui = "loop"
  /\ accepts = 0
  /\ receives = 0

AcceptThread ==
  \/ AcceptLoop \/ AcceptTimeout \/ AcceptFails
  \/ \E s \in M!Handles : AcceptClient(s)
  \/ InitClient \/ AddRealClient \/ Associate \/ Update

Handler(t) ==
  \/ FillRecv(t) \/ FillSend(t) \/ PostPends(t) \/ PostFails(t) \/ InsertPending(t)
  \/ RemoveRealClient(t) \/ CloseSocket(t) \/ ReleaseRecv(t) \/ ReleaseSend(t)
  \/ PushFreeClient(t) \/ Notify(t)

WorkThread(w) ==
  \/ \E p \in DOMAIN io : \E r \in O!Results(p.kind) : Dequeue(w, p, r)
  \/ \E p \in DOMAIN io : TakeKillThread(w, p)
  \/ ReleaseOperData(w)

StopService ==
  \/ JoinAccept \/ PostKillThread \/ JoinWorkers \/ CloseAllClient \/ ClosePort

Next ==
  \/ AcceptThread
  \/ \E t \in Threads : Handler(t)
  \/ \E w \in Workers : WorkThread(w)
  \/ StopClick
  \/ StopService

Spec == Init /\ [][Next]_vars

\* Every thread keeps running: the accept thread and the workers poll with a
\* timeout, and the waits of the stop are those of the system. Nothing is
\* assumed of the peers, of the user, or of the calls that may fail.
Fairness ==
  /\ WF_vars(AcceptThread)
  /\ \A t \in Threads : WF_vars(Handler(t))
  /\ \A w \in Workers : WF_vars(WorkThread(w))
  /\ WF_vars(StopService)

FairSpec == Spec /\ Fairness

----------------------------------------------------------------------------

\* The type of every variable.
TypeOK ==
  /\ M!TypeOK
  /\ O!TypeOK
  /\ pc \in [Threads -> {"loop", "poll", "init", "add", "associate", "update", "release",
                         "recv", "send", "post", "insert", "remove", "close", "releaserecv",
                         "releasesend", "push", "notify", "exited"}]
  /\ \A t \in Threads :
       ret[t] \in BoundedSeq({"notify", "update", "exited", "recv", "loop"}, 3)
  /\ client \in [Threads -> Clients \cup {NoClient}]
  /\ sock \in [Threads -> M!Handles]
  /\ acceptRunning \in BOOLEAN
  /\ ui \in {"loop", "joinaccept", "post", "joinworkers", "closeall", "closeport", "stopped"}
  /\ accepts \in 0 .. MaxAccepts
  /\ receives \in 0 .. MaxReceives

\* The threads of the server call the manager, and the operations, as their
\* modules say, so that what is proved of those holds of the server.
ManagerContract    == M!Spec
OperationsContract == O!Spec

\* Every connection accepted so far is in the map or on its way there: no
\* client has been closed yet.
NoneClosed ==
  Cardinality(realClients) +
    (IF pc[Acceptor] \in {"init", "add"} THEN 1 ELSE 0) = accepts

\* Until the first client is closed no connection goes deaf: each one has a read
\* outstanding whose packet a worker will recognise, or a thread that is about
\* to post one. (Afterwards one can: CloseClient gives away nodes that are still
\* outstanding, and the packet of such a node marks the next read that uses it.)
NoneDeaf ==
  NoneClosed => \A c \in realClients :
    \/ \E p \in DOMAIN io : p.key = c /\ p.kind = O!READ /\ operType[p.oper] = O!READ
    \/ \E t \in Threads :
         /\ client[t] = c
         /\ \/ pc[t] \in {"associate", "recv", "send", "remove"} \/ "recv" \in ToSet(ret[t])
            \/ pc[t] \in {"post", "release"} /\ call[t].type = O!READ

\* The service stops cleanly, whatever its threads were doing: every socket is
\* closed, and every stub is in the free list, once.
StopIsClean ==
  ui = "stopped" =>
    /\ opened = {}
    /\ realClients = {}
    /\ IsInjective(freeClients)
    /\ ToSet(freeClients) = 1 .. clientCount

\* StopService returns, unless a thread waits for the dialog's thread in
\* SetDlgItemInt, which waits for that thread in StopService.
StopEnds ==
  ui = "joinaccept" ~> (ui = "stopped" \/ \E t \in Threads : pc[t] \in {"notify", "update"})

\* The operation types that reach the handler are those that CommParam.h:16
\* lists: "0 read 1 write 100 killthread".
DocumentedType ==
  \A w \in Workers : pc[w] = "release" => call[w].type \in {O!READ, O!WRITE, O!KILLTHREAD}
============================================================================
