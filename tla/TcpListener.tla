---------------------------- MODULE TcpListener ----------------------------
(***************************************************************************)
(* The listener of the TestUdpReceiver program: CTcpListenerBase           *)
(* (TcpListenerBase.cpp) and CTcpListener::ConsumeReq (TcpListener.h), with *)
(* the buttons of the dialog that start and stop it.  The dialog's thread  *)
(* calls Start and Stop, the threads of the completion port ConsumeReq;    *)
(* nothing excludes one from the other.  What an accepted connection does  *)
(* after it got its worker object is TcpWorker's.                          *)
(*                                                                         *)
(* One AcceptEx is posted by Start, and each that succeeds posts the next: *)
(* the listener hears as long as this chain is not broken.                 *)
(***************************************************************************)
EXTENDS Integers, FiniteSets

CONSTANTS
  Threads,       (* the threads of the completion port                     *)
  UI,            (* the dialog's thread                                    *)
  MaxSockets,    (* BOUND on the listening sockets made                    *)
  MaxClients,    (* BOUND on the connections accepted                      *)
  InitSockets    (* accept sockets that InitObject makes: 1000 in the code *)

ASSUME ListenerAssumption ==
  /\ UI \notin Threads /\ IsFiniteSet(Threads)
  /\ MaxSockets \in Nat /\ MaxClients \in Nat /\ InitSockets \in Nat

Callers  == Threads \cup {UI}
Sockets  == 1 .. MaxSockets
NoSocket == 0

VARIABLES
  status, sock,   \* m_nStatus, m_TcpSocket
  opened,         \* listening sockets that are open
  sockets,        \* how many were made: each has a number of its own
  io,             \* AcceptEx outstanding on each listening socket
  pools,          \* m_BufList, m_IOReqList, m_SocketList: made, free
  clients, closed,\* accept sockets handed to worker objects, and closed
  pc,
  broken          \* auxiliary: the chain of the present socket was cut

vars == <<status, sock, opened, sockets, io, pools, clients, closed, pc, broken>>

GoTo(t, s) == pc' = [pc EXCEPT ![t] = s]

Lists == {"buf", "req", "sock"}
\* PopHead, or new when the list is empty; PushTail. (Faulty: nothing is made
\* when the list is empty.)
TakenFaulty(p, l) == [p EXCEPT ![l].free = @ - 1]
Taken(p, l) == IF p[l].free > 0 THEN [p EXCEPT ![l].free = @ - 1] ELSE [p EXCEPT ![l].made = @ + 1]
Back(p, l)  == [p EXCEPT ![l].free = @ + 1]

----------------------------------------------------------------------------
(* The dialog's thread                                                     *)

\* A listener that runs is not started again.
MayStart == status # "run"

\* A socket that listens, or none: what was made is closed when one of the steps fails.
MakeTcpServerSocket ==
  \/ /\ sockets < MaxSockets
     /\ sockets' = sockets + 1 /\ sock' = sockets' /\ opened' = opened \cup {sock'}
  \/ sock' = NoSocket /\ UNCHANGED <<opened, sockets>>

\* The Start button. A listener that is in error gets a new socket over the one it
\* may still have, which then stays open and hears on.
StartClick ==
  /\ pc[UI] = "idle" /\ MayStart
  /\ MakeTcpServerSocket
  /\ IF sock' = NoSocket THEN GoTo(UI, "stop") /\ status' = "error"
                         ELSE GoTo(UI, "associate") /\ UNCHANGED status
  /\ broken' = FALSE
  /\ UNCHANGED <<io, pools, clients, closed>>

Associate ==
  /\ pc[UI] = "associate"
  /\ \/ GoTo(UI, "take") /\ UNCHANGED status
     \/ GoTo(UI, "stop") /\ status' = "error"
  /\ UNCHANGED <<sock, opened, sockets, io, pools, clients, closed, broken>>

\* The end of Start, when its Accept returned 0.
Running ==
  /\ pc[UI] = "run"
  /\ status' = "run"
  /\ GoTo(UI, "idle")
  /\ UNCHANGED <<sock, opened, sockets, io, pools, clients, closed, broken>>

\* Stop: by its button, or because Start failed.
StopStatus ==
  /\ pc[UI] \in {"idle", "stop"}
  /\ status' = "stop"
  /\ GoTo(UI, "close")
  /\ UNCHANGED <<sock, opened, sockets, io, pools, clients, closed, broken>>

StopSocket ==
  /\ pc[UI] = "close"
  /\ opened' = opened \ {sock} /\ sock' = NoSocket
  /\ GoTo(UI, "idle")
  /\ UNCHANGED <<status, sockets, io, pools, clients, closed, broken>>

----------------------------------------------------------------------------
(* Accept, by either                                                       *)

\* Where Accept returns to: the buttons go on to the end of Start or to Stop,
\* ConsumeReq does not look at the result. (Faulty: Start does not either.)
ReturnFaulty(t, ok) == GoTo(t, IF t # UI THEN "idle" ELSE "run")
Return(t, ok) == GoTo(t, IF t # UI THEN "idle" ELSE IF ok THEN "run" ELSE "stop")

\* The chain of a socket is cut where its AcceptEx fails, or was not posted.
Cut(t) == broken' = (broken \/ t # UI)

\* A buffer, an accept socket and a request.
TakeAccept(t) ==
  /\ pc[t] = "take"
  /\ pools' = Taken(Taken(Taken(pools, "buf"), "sock"), "req")
  /\ GoTo(t, "post")
  /\ UNCHANGED <<status, sock, opened, sockets, io, clients, closed, broken>>

\* WSASocket fails when there was none in the list.
NoAcceptSocket(t) ==
  /\ pc[t] = "take" /\ pools["sock"].free = 0
  /\ status' = "error"
  /\ pools' = Back(Taken(pools, "buf"), "buf")
  /\ Return(t, FALSE) /\ Cut(t)
  /\ UNCHANGED <<sock, opened, sockets, io, clients, closed>>

AcceptPends(t) ==
  /\ pc[t] = "post" /\ sock \in opened
  /\ io' = [io EXCEPT ![sock] = @ + 1]
  /\ Return(t, TRUE)
  /\ UNCHANGED <<status, sock, opened, sockets, pools, clients, closed, broken>>

AcceptFails(t) ==
  /\ pc[t] = "post"
  /\ status' = "error"
  /\ pools' = Back(Back(Back(pools, "buf"), "sock"), "req")
  /\ Return(t, FALSE) /\ Cut(t)
  /\ UNCHANGED <<sock, opened, sockets, io, clients, closed>>

----------------------------------------------------------------------------
(* A packet                                                                *)

\* Both go back to their lists. (Faulty: the buffer is forgotten.)
ReturnPacketFaulty == pools' = Back(pools, "req")
ReturnPacket == pools' = Back(Back(pools, "buf"), "req")

\* A connection: a worker object takes its socket, and the next AcceptEx is posted.
Accepted(t, s) ==
  /\ pc[t] = "idle" /\ io[s] > 0 /\ clients < MaxClients
  /\ io' = [io EXCEPT ![s] = @ - 1]
  /\ clients' = clients + 1
  /\ ReturnPacket
  /\ GoTo(t, "take")
  /\ UNCHANGED <<status, sock, opened, sockets, closed, broken>>

\* The AcceptEx failed: because the listening socket was closed, or because
\* the client gave up. No other one is posted.
Failed(t, s) ==
  /\ pc[t] = "idle" /\ io[s] > 0
  /\ io' = [io EXCEPT ![s] = @ - 1]
  /\ closed' = closed + 1
  /\ ReturnPacket
  /\ broken' = (broken \/ s = sock)
  /\ UNCHANGED <<status, sock, opened, sockets, clients, pc>>

----------------------------------------------------------------------------

\* InitObject: one buffer, one request, and the sockets.
Init ==
  /\ status = "stop" /\ sock = NoSocket /\ opened = {} /\ sockets = 0
  /\ io = [s \in Sockets |-> 0]
  /\ pools = [l \in Lists |-> LET k == IF l = "sock" THEN InitSockets ELSE 1
                              IN [made |-> k, free |-> k]]
  /\ clients = 0 /\ closed = 0
  /\ pc = [t \in Callers |-> "idle"]
  /\ broken = FALSE

Accept(t) == TakeAccept(t) \/ NoAcceptSocket(t) \/ AcceptPends(t) \/ AcceptFails(t)
Dialog    == StartClick \/ Associate \/ Running \/ StopStatus \/ StopSocket

Next == \/ Dialog \/ Accept(UI)
        \/ \E t \in Threads : Accept(t) \/ \E s \in Sockets : Accepted(t, s) \/ Failed(t, s)

Spec == Init /\ [][Next]_vars

\* A thread of the port goes on; and it takes a packet of a listening socket that was closed
\* when there is one, which there is in the end: the operations of a closed socket are
\* cancelled. Nothing says that an AcceptEx on an open socket ever completes.
Progress(t) == \/ Accept(t)
               \/ \E s \in Sockets \ opened : Accepted(t, s) \/ Failed(t, s)
FairSpec == Spec /\ \A t \in Threads : WF_vars(Progress(t))

----------------------------------------------------------------------------
(* Properties                                                              *)

TypeOK ==
  /\ status \in {"stop", "run", "error"} /\ sock \in 0 .. sockets
  /\ sockets \in 0 .. MaxSockets /\ opened \subseteq 1 .. sockets
  /\ io \in [Sockets -> Nat]
  /\ pools \in [Lists -> [made : Nat, free : Nat]]
  /\ clients \in 0 .. MaxClients /\ closed \in Nat
  /\ pc \in [Callers -> {"idle", "associate", "take", "post", "run", "stop", "close"}]
  /\ broken \in BOOLEAN

Outstanding == UNION {{s} \X (1 .. io[s]) : s \in Sockets}
Posting     == {t \in Callers : pc[t] = "post"}

\* Every buffer and request is in its list, under an AcceptEx or in the hands of a
\* thread that is posting one, and so is every accept socket until it is handed to a
\* session's object or closed: each once, whatever fails and whenever the listener is
\* stopped (TcpListenerBase.cpp:242, 272-274, TcpListener.h:69, 85-90). What becomes of a
\* socket that was handed to an object is TcpWorker's.
PoolsWhole ==
  LET out == Cardinality(Outstanding) + Cardinality(Posting) IN
  /\ \A l \in {"buf", "req"} : pools[l].made = pools[l].free + out
  /\ pools["sock"].made = pools["sock"].free + out + clients + closed

\* A listener that shows the running status has an AcceptEx outstanding on its
\* socket or a thread about to post one, also when it was stopped and started while
\* packets of the last socket were being processed. It holds until an AcceptEx
\* of the present socket fails (TcpListener.h:78-94).
Listening ==
  (status = "run" /\ ~broken) =>
     /\ sock \in opened
     /\ io[sock] > 0 \/ \E t \in Threads : pc[t] \in {"take", "post"}

\* After a stop the outstanding AcceptEx comes back, and all is in the lists again but
\* what is under an AcceptEx of a socket that Start has overwritten in the error state
\* (TcpListenerBase.cpp:103), which nobody closes; unless the listener is started once more.
Drained ==
  \A l \in {"buf", "req"} :
    pools[l].made = pools[l].free + Cardinality({o \in Outstanding : o[1] \in opened})
Drains == (sock = NoSocket /\ pc[UI] = "idle") ~> (Drained \/ sock # NoSocket \/ pc[UI] # "idle")

============================================================================
