--------------------------- MODULE ClientManager ---------------------------
(***************************************************************************)
(* The client stubs of the TestIOCPServer echo server and the manager that *)
(* recycles them: CTcpIOCPClientManager (TcpIOCPClientManager.cpp) and the *)
(* part of CTcpIOCPClientStub (TcpIOCPClientStub.cpp) that owns a socket.  *)
(*                                                                         *)
(* A stub is an object that is never deleted while the server lives: it    *)
(* waits in m_FreeClientList, is given to the accept thread, serves one    *)
(* connection while it is in m_RealClientList, and is pushed back by the   *)
(* thread that takes it out of m_RealClientList.  Every thread may call    *)
(* RemoveRealClient with every stub it has ever seen, at any time and as   *)
(* often as it likes: nothing in the code forbids it.                      *)
(*                                                                         *)
(* One action is one critical section of the code; mgr[t] says between     *)
(* which two of them thread t is.                                          *)
(***************************************************************************)
EXTENDS Integers, Sequences, FiniteSets, SequencesExt

CONSTANTS
  Threads,      (* the threads that call the manager                       *)
  Sockets,      (* the socket handles; the system reuses a closed one      *)
  NoSocket,     (* INVALID_SOCKET                                          *)
  MaxClients,   (* BOUND on the stubs ever allocated                       *)
  InitClients,  (* the argument of InitManager: 1000 in the code           *)
  ClientBlock   (* stubs allocated at once when none is free: 1000         *)

ASSUME SocketAssumption == NoSocket \notin Sockets

ASSUME ClientAssumption ==
  /\ InitClients \in Nat
  /\ ClientBlock \in Nat \ {0}
  /\ MaxClients \in Nat
  /\ InitClients <= MaxClients

Clients  == 1 .. MaxClients
NoClient == 0
Handles  == Sockets \cup {NoSocket}

VARIABLES
  freeClients,  (* m_FreeClientList, a FIFO list                           *)
  realClients,  (* m_RealClientList, the keys of a map                     *)
  clientCount,  (* stubs allocated so far, in the blocks of m_BigClientList*)
  socket,       (* m_Socket of every stub                                  *)
  status,       (* m_nStatus of every stub                                 *)
  opened,       (* the handles the operating system holds open             *)
  mgr           (* where each thread is inside the manager                 *)

vars == <<freeClients, realClients, clientCount, socket, status, opened, mgr>>

Idle == [at |-> "idle", client |-> NoClient, sock |-> NoSocket]

\* Moves thread t to the next step of the call it is in.
GoTo(t, step) == mgr' = [mgr EXCEPT ![t].at = step]

----------------------------------------------------------------------------

\* The stubs of a new block, the first one aside, when n stubs exist already.
NewClients(n)       == [i \in 1 .. ClientBlock - 1 |-> n + 1 + i]

\* GetFreeClient: the first free stub, or the first of a new block whose
\* other stubs become free.
GetFreeClient(c) ==
  \/ /\ freeClients # <<>>
     /\ c = Head(freeClients)
     /\ freeClients' = Tail(freeClients)
     /\ UNCHANGED clientCount
  \/ /\ freeClients = <<>>
     /\ clientCount + ClientBlock <= MaxClients
     /\ c = clientCount + 1
     /\ freeClients' = NewClients(clientCount)
     /\ clientCount' = clientCount + ClientBlock

\* The accept thread accepts a connection and gets a stub for it. s is
\* NoSocket when WSAAccept fails: its result is not looked at.
AcceptClient(t, s) ==
  /\ mgr[t] = Idle
  /\ s \in Handles \ opened
  /\ opened' = opened \cup ({s} \cap Sockets)
  /\ \E c \in Clients :
       /\ GetFreeClient(c)
       /\ mgr' = [mgr EXCEPT ![t] = [at |-> "got", client |-> c, sock |-> s]]
  /\ UNCHANGED <<realClients, socket, status>>

InitClient(t) ==
  /\ mgr[t].at = "got"
  /\ socket' = [socket EXCEPT ![mgr[t].client] = mgr[t].sock]
  /\ status' = [status EXCEPT ![mgr[t].client] = 1]
  /\ GoTo(t, "inited")
  /\ UNCHANGED <<freeClients, realClients, clientCount, opened>>

AddRealClient(t) ==
  /\ mgr[t].at = "inited"
  /\ realClients' = realClients \cup {mgr[t].client}
  /\ mgr' = [mgr EXCEPT ![t] = Idle]
  /\ UNCHANGED <<freeClients, clientCount, socket, status, opened>>

\* Whether map::erase finds stub c. (Faulty: its result is not looked at.)
ErasedFaulty(c) == TRUE
Erased(c)       == c \in realClients

\* RemoveRealClient, to the end of its first critical section: only the call
\* that erases the stub from the map goes on and closes it.
RemoveRealClient(t, c) ==
  /\ mgr[t] = Idle
  /\ IF Erased(c)
     THEN /\ realClients' = realClients \ {c}
          /\ mgr' = [mgr EXCEPT ![t] =
                       [at |-> "erased", client |-> c, sock |-> NoSocket]]
     ELSE UNCHANGED <<realClients, mgr>>
  /\ UNCHANGED <<freeClients, clientCount, socket, status, opened>>

\* INVALID_SOCKET is assigned to m_Socket of the stubs S. (Faulty: it is not.)
InvalidateFaulty(S) == UNCHANGED socket
Invalidate(S) == socket' = [c \in Clients |-> IF c \in S THEN NoSocket ELSE socket[c]]

\* The first critical section of CloseClient: closesocket and the assignment
\* of INVALID_SOCKET, or nothing when the socket is already invalid.
CloseSocket(t) ==
  /\ mgr[t].at = "erased"
  /\ opened' = opened \ {socket[mgr[t].client]}
  /\ Invalidate({mgr[t].client})
  /\ GoTo(t, "closed")
  /\ UNCHANGED <<freeClients, realClients, clientCount, status>>

\* The end of CloseClient, once the pending lists are empty.
ResetStatus(t) ==
  /\ mgr[t].at = "closed"
  /\ status' = [status EXCEPT ![mgr[t].client] = -1]
  /\ GoTo(t, "reset")
  /\ UNCHANGED <<freeClients, realClients, clientCount, socket, opened>>

\* The second critical section of RemoveRealClient.
PushFreeClient(t) ==
  /\ mgr[t].at = "reset"
  /\ freeClients' = Append(freeClients, mgr[t].client)
  /\ mgr' = [mgr EXCEPT ![t] = Idle]
  /\ UNCHANGED <<realClients, clientCount, socket, status, opened>>

\* The stubs S go back to the free list in the order of the map, which is that
\* of their addresses. (Faulty: they do not.)
PushAllFaulty(S) == UNCHANGED freeClients
PushAll(S) == \E order \in SetToSeqs(S) : freeClients' = freeClients \o order

\* CloseAllClient: the three parts of CloseClient for every real client.
CloseAllClient ==
  /\ PushAll(realClients)
  /\ opened' = opened \ {socket[c] : c \in realClients}
  /\ Invalidate(realClients)
  /\ status' = [c \in Clients |-> IF c \in realClients THEN -1 ELSE status[c]]
  /\ realClients' = {}
  /\ UNCHANGED <<clientCount, mgr>>

\* InitManager, and the constructors of the stubs.
Init ==
  /\ freeClients = [i \in 1 .. InitClients |-> i]
  /\ realClients = {}
  /\ clientCount = InitClients
  /\ socket = [c \in Clients |-> NoSocket]
  /\ status = [c \in Clients |-> -1]
  /\ opened = {}
  /\ mgr = [t \in Threads |-> Idle]

\* What the manager asks of its callers is that CloseAllClient runs alone: it
\* pushes to the free list without its lock.
Next ==
  \/ \E t \in Threads, s \in Handles : AcceptClient(t, s)
  \/ \E t \in Threads, c \in 1 .. clientCount : RemoveRealClient(t, c)
  \/ \E t \in Threads : \/ InitClient(t)
                        \/ AddRealClient(t)
                        \/ CloseSocket(t)
                        \/ ResetStatus(t)
                        \/ PushFreeClient(t)
  \/ (\A t \in Threads : mgr[t] = Idle) /\ CloseAllClient

Spec == Init /\ [][Next]_vars

----------------------------------------------------------------------------

\* The type of every variable.
TypeOK ==
  /\ freeClients \in Seq(Clients)
  /\ realClients \subseteq Clients
  /\ clientCount \in 0 .. MaxClients
  /\ socket \in [Clients -> Handles]
  /\ status \in [Clients -> {-1, 1}]
  /\ opened \subseteq Sockets
  /\ mgr \in [Threads -> {Idle} \cup [at : {"got", "inited", "erased", "closed", "reset"},
                                     client : Clients, sock : Handles]]

\* The threads that have a stub in hand, and the stubs in their hands.
Busy   == {t \in Threads : mgr[t].at # "idle"}
InHand == {mgr[t].client : t \in Busy}

\* No stub is twice in the free list, in two threads' hands, or in two of the
\* three places: so no two connections ever share a stub, although any number
\* of threads may close the same connection at once and go on using stubs
\* they no longer own.
Exclusive ==
  /\ IsInjective(freeClients)
  /\ \A t, u \in Busy : mgr[t].client = mgr[u].client => t = u
  /\ ToSet(freeClients) \cap realClients = {}
  /\ ToSet(freeClients) \cap InHand = {}
  /\ realClients \cap InHand = {}

\* No stub is lost: each one allocated is free, real or in a thread's hands.
NoneLost == ToSet(freeClients) \cup realClients \cup InHand = 1 .. clientCount

\* Each stub has one owner (RemoveRealClient's test of the number of erased
\* elements is all that ensures it).
StubOwnership == Exclusive /\ NoneLost

\* The handle that stub c answers for: the accept thread keeps it in a local
\* variable until InitClient stores it.
Holds(c, s) ==
  \/ socket[c] = s
  \/ \E t \in Threads : mgr[t].at = "got" /\ mgr[t].client = c /\ mgr[t].sock = s

\* Every open handle belongs to one stub, and the handle of a stub is open:
\* a socket is closed once, it is never closed after the system has given its
\* handle to a later connection, and none stays open when its stub is free.
SocketOwnership ==
  /\ \A s \in opened : \E c \in realClients \cup InHand : Holds(c, s)
  /\ \A s \in Sockets : \A c, d \in Clients : Holds(c, s) /\ Holds(d, s) => c = d
  /\ \A c \in Clients : socket[c] # NoSocket => socket[c] \in opened
  /\ \A i \in DOMAIN freeClients : socket[freeClients[i]] = NoSocket
============================================================================
