------------------------- MODULE TcpIOCPServerProofs -------------------------
(***************************************************************************)
(* That the server calls its manager and its operations as their modules   *)
(* ask of it, for any number of workers, connections and messages: every   *)
(* step of TcpIOCPServer is one of ClientManager, or changes none of its   *)
(* variables, and so for ClientOperations.  What is proved of those two    *)
(* holds of the server then; that a stop is clean follows.                 *)
(***************************************************************************)
EXTENDS TcpIOCPServer, FiniteSetTheorems, SequenceTheorems, TLAPS

MP == INSTANCE ClientManagerProofs
OP == INSTANCE ClientOperationsProofs

Steps == {"loop", "poll", "init", "add", "associate", "update", "release", "recv", "send", "post",
          "insert", "remove", "close", "releaserecv", "releasesend", "push", "notify", "exited"}

\* The steps at which a thread is within a call of the manager, and of the operations.
ManagerSteps   == {"init", "add", "close", "releaserecv", "releasesend", "push"}
OperationSteps == {"post", "insert", "release"}

\* What a call returns to: an end of the accept loop or of the worker's, or the read
\* that follows a send; and what the closing of a client returns to.
Bases   == {<<"loop">>, <<"update">>, <<"recv", "loop">>}
Closing == {<<"notify", "loop">>, <<"notify", "update">>, <<"notify", "recv", "loop">>, <<"exited">>}

LegalStack(s, r) ==
  /\ s = "recv" => r \in {<<"loop">>, <<"update">>}
  /\ s = "send" => r = <<"loop">>
  /\ s \in {"post", "insert", "notify"} => r \in Bases
  /\ s \in {"remove", "close", "releaserecv", "releasesend", "push"} => r \in Closing
  /\ s \in {"loop", "poll", "init", "add", "associate", "update", "release", "exited"} => r = <<>>

Types ==
  /\ pc \in [Threads -> Steps] /\ ret \in [Threads -> Bases \cup Closing \cup {<<>>}]
  /\ client \in [Threads -> Clients \cup {NoClient}] /\ sock \in [Threads -> M!Handles]
  /\ acceptRunning \in BOOLEAN
  /\ ui \in {"loop", "joinaccept", "post", "joinworkers", "closeall", "closeport", "stopped"}
  /\ accepts \in 0 .. MaxAccepts /\ receives \in 0 .. MaxReceives

\* A thread is within a call only at the steps of that call, and has a client there.
Calling ==
  \A t \in Threads :
    /\ LegalStack(pc[t], ret[t])
    /\ pc[t] \in {"loop", "poll", "exited"} \/ client[t] \in Clients
    /\ mgr[t] = M!Idle \/ pc[t] \in ManagerSteps
    /\ call[t].at \in {"idle", "exited"} \/ pc[t] \in OperationSteps

\* How far StopService is tells which threads have ended and how many exit messages
\* were posted.
Stopping ==
  /\ ui \in {"loop", "joinaccept"} => exits = 0
  /\ ui = "post" => exits < Cardinality(Workers)
  /\ ui \in {"joinworkers", "closeall", "closeport", "stopped"} => exits = Cardinality(Workers)
  /\ ui \notin {"loop", "joinaccept"} => pc[Acceptor] = "exited"
  /\ ui \in {"closeall", "closeport", "stopped"} => \A w \in Workers : pc[w] = "exited"
  /\ ui \in {"closeport", "stopped"} => realClients = {}

Own == Types /\ Calling /\ Stopping
Inv == M!TypeOK /\ M!StubOwnership /\ O!TypeOK /\ OP!Locals /\ Own

\* What is shown of each step.
Kept == [M!Next]_(M!vars) /\ [O!Next]_(O!vars) /\ Own'

----------------------------------------------------------------------------

LEMMA Constants0 ==
  /\ Acceptor \in Threads /\ Workers \subseteq Threads /\ Acceptor \notin Workers
  /\ Threads = Workers \cup {Acceptor}
  /\ Cardinality(Workers) \in Nat \ {0}
  /\ NoClient \notin Clients /\ M!NoClient = NoClient /\ M!Clients = Clients
<1>1. Cardinality(Workers) \in Nat /\ Cardinality(Workers) # 0
  BY WorkerAssumption, FS_CardinalityType, FS_EmptySet
<1> QED  BY <1>1, WorkerAssumption DEF Threads, NoClient, Clients, M!NoClient, M!Clients

\* What the modules of the manager and of the operations assume.
LEMMA Assumptions ==
  /\ MP!SocketAssumption /\ MP!ClientAssumption
  /\ OP!ThreadAssumption /\ OP!ClientSetAssumption /\ OP!OperAssumption
<1>1. MP!SocketAssumption /\ MP!ClientAssumption
  BY ServerAssumption DEF M!SocketAssumption, MP!SocketAssumption, M!ClientAssumption, MP!ClientAssumption
<1>2. OP!ThreadAssumption /\ OP!ClientSetAssumption
  BY WorkerAssumption, Constants0 DEF IsFiniteSet, OP!IsFiniteSet, OP!ThreadAssumption, OP!ClientSetAssumption
<1>3. OP!OperAssumption
  BY ServerAssumption DEF O!OperAssumption, OP!OperAssumption
<1> QED  BY <1>1, <1>2, <1>3

LEMMA Untouched ==
  /\ UNCHANGED mgrVars => UNCHANGED M!vars
  /\ UNCHANGED operVars => UNCHANGED O!vars
BY DEF mgrVars, operVars, M!vars, O!vars

\* The modules of the library are the same whoever uses them.
LEMMA SameCardinality ==
  ASSUME NEW S
  PROVE  /\ M!Cardinality(S) = Cardinality(S) /\ MP!Cardinality(S) = Cardinality(S)
         /\ O!Cardinality(S) = Cardinality(S) /\ OP!Cardinality(S) = Cardinality(S)
BY DEF Cardinality, M!Cardinality, MP!Cardinality, O!Cardinality, OP!Cardinality

\* So are the server's manager and operations and those of the proofs.
LEMMA SameManager ==
  /\ M!Init <=> MP!Init
  /\ [M!Next]_(M!vars) <=> [MP!Next]_(MP!vars)
  /\ M!TypeOK <=> MP!TypeOK
  /\ M!StubOwnership <=> MP!StubOwnership
  /\ M!SocketOwnership <=> MP!SocketOwnership
<1> USE DEF M!Idle, MP!Idle, M!NoClient, MP!NoClient, M!Clients, MP!Clients, M!Handles, MP!Handles
<1>1. M!Init <=> MP!Init  BY DEF M!Init, MP!Init
<1>0. M!CloseAllClient <=> MP!CloseAllClient
  <2>1. M!SetToSeqs(realClients) = MP!SetToSeqs(realClients)
    BY SameCardinality DEF M!SetToSeqs, MP!SetToSeqs, M!IsInjective, MP!IsInjective
  <2> QED  BY <2>1 DEF M!CloseAllClient, MP!CloseAllClient, M!PushAll, MP!PushAll, M!Invalidate, MP!Invalidate
<1>2. M!Next <=> MP!Next
  BY <1>0 DEF M!Next, MP!Next, M!AcceptClient, MP!AcceptClient, M!GetFreeClient, MP!GetFreeClient,
    M!NewClients, MP!NewClients, M!InitClient, MP!InitClient, M!GoTo, MP!GoTo,
    M!AddRealClient, MP!AddRealClient, M!RemoveRealClient, MP!RemoveRealClient, M!Erased, MP!Erased,
    M!CloseSocket, MP!CloseSocket, M!Invalidate, MP!Invalidate, M!ResetStatus, MP!ResetStatus,
    M!PushFreeClient, MP!PushFreeClient
<1>3. M!vars = MP!vars /\ M!vars' = MP!vars'  BY DEF M!vars, MP!vars
<1>4. M!TypeOK <=> MP!TypeOK  BY DEF M!TypeOK, MP!TypeOK
<1>5. M!StubOwnership <=> MP!StubOwnership
  BY DEF M!StubOwnership, MP!StubOwnership, M!Exclusive, MP!Exclusive, M!NoneLost, MP!NoneLost,
    M!InHand, MP!InHand, M!Busy, MP!Busy, M!ToSet, MP!ToSet, M!IsInjective, MP!IsInjective
<1>6. M!SocketOwnership <=> MP!SocketOwnership
  BY DEF M!SocketOwnership, MP!SocketOwnership, M!Holds, MP!Holds, M!InHand, MP!InHand, M!Busy, MP!Busy
<1> QED  BY <1>1, <1>2, <1>3, <1>4, <1>5, <1>6

LEMMA SameBags ==
  /\ \A b, c : O!(+)(b, c) = OP!(+)(b, c) /\ O!(-)(b, c) = OP!(-)(b, c)
  /\ \A b : O!BagCardinality(b) = OP!BagCardinality(b)
  /\ \A S : O!SetToBag(S) = OP!SetToBag(S)
  /\ \A e, b : O!BagIn(e, b) <=> OP!BagIn(e, b)
  /\ O!EmptyBag = OP!EmptyBag
<1>1. \A b, c : O!(+)(b, c) = OP!(+)(b, c)  BY DEF O!(+), OP!(+)
<1>2. \A b, c : O!(-)(b, c) = OP!(-)(b, c)  BY DEF O!(-), OP!(-)
<1>3. \A b : O!BagCardinality(b) = OP!BagCardinality(b)  BY DEF O!BagCardinality, OP!BagCardinality
<1>4. \A S : O!SetToBag(S) = OP!SetToBag(S)  BY DEF O!SetToBag, OP!SetToBag
<1>5. \A e, b : O!BagIn(e, b) <=> OP!BagIn(e, b)
  BY DEF O!BagIn, OP!BagIn, O!BagToSet, OP!BagToSet
<1>6. O!EmptyBag = OP!EmptyBag  BY <1>4 DEF O!EmptyBag, OP!EmptyBag
<1> QED  BY <1>1, <1>2, <1>3, <1>4, <1>5, <1>6

\* The steps of the operations are the same whoever takes them.
LEMMA SameSteps ==
  /\ \A t, c, k : O!FillOper(t, c, k) <=> OP!FillOper(t, c, k)
  /\ \A t, c : O!PostPends(t, c) <=> OP!PostPends(t, c)
  /\ \A t : /\ O!PostFails(t) <=> OP!PostFails(t)
            /\ O!InsertPending(t) <=> OP!InsertPending(t)
            /\ O!ReleaseOperData(t) <=> OP!ReleaseOperData(t)
  /\ \A t, p : O!TakeKillThread(t, p) <=> OP!TakeKillThread(t, p)
  /\ \A t, p, r : O!Dequeue(t, p, r) <=> OP!Dequeue(t, p, r)
  /\ O!PostKillThread <=> OP!PostKillThread
  /\ O!Kinds = OP!Kinds /\ \A k : O!Results(k) = OP!Results(k)
<1> USE DEF O!Idle, OP!Idle, O!NoOper, OP!NoOper, O!Opers, OP!Opers, O!READ, OP!READ, O!WRITE, OP!WRITE,
    O!KILLTHREAD, OP!KILLTHREAD, O!RELEASED, OP!RELEASED, O!Kinds, OP!Kinds,
    O!GetIOOperData, OP!GetIOOperData, O!NewOpers, OP!NewOpers, O!Found, OP!Found, O!Unlist, OP!Unlist,
    O!Erasing, OP!Erasing, O!Finding, OP!Finding
<1>1. \A t, c, k : O!FillOper(t, c, k) <=> OP!FillOper(t, c, k)  BY DEF O!FillOper, OP!FillOper
<1>2. \A t, c : O!PostPends(t, c) <=> OP!PostPends(t, c)
  BY SameBags DEF O!PostPends, OP!PostPends
<1>3. \A t : /\ O!PostFails(t) <=> OP!PostFails(t)
             /\ O!InsertPending(t) <=> OP!InsertPending(t)
             /\ O!MarkOper(t) <=> OP!MarkOper(t)
  BY DEF O!PostFails, OP!PostFails, O!InsertPending, OP!InsertPending, O!MarkOper, OP!MarkOper
<1>4. \A t, k : O!EraseOper(t, k) <=> OP!EraseOper(t, k)
  BY DEF O!EraseOper, OP!EraseOper
<1>5. \A t, k : O!FindOper(t, k) <=> OP!FindOper(t, k)
  BY DEF O!FindOper, OP!FindOper
<1>6. \A t : O!ReleaseOperData(t) <=> OP!ReleaseOperData(t)
  BY <1>3, <1>4, <1>5 DEF O!ReleaseOperData, OP!ReleaseOperData
<1>7. \A t, p : O!TakeKillThread(t, p) <=> OP!TakeKillThread(t, p)
  BY SameBags DEF O!TakeKillThread, OP!TakeKillThread
<1>8. \A t, p, r : O!Dequeue(t, p, r) <=> OP!Dequeue(t, p, r)
  BY SameBags DEF O!Dequeue, OP!Dequeue
<1>9. O!PostKillThread <=> OP!PostKillThread
  BY SameBags DEF O!PostKillThread, OP!PostKillThread
<1>10. O!Kinds = OP!Kinds /\ \A k : O!Results(k) = OP!Results(k)  BY DEF O!Results, OP!Results
<1> HIDE DEF O!Kinds, OP!Kinds, O!Found, OP!Found
<1> QED  BY <1>1, <1>2, <1>3, <1>6, <1>7, <1>8, <1>9, <1>10

LEMMA SameOperations ==
  /\ O!Init <=> OP!Init
  /\ [O!Next]_(O!vars) <=> [OP!Next]_(OP!vars)
  /\ O!TypeOK <=> OP!TypeOK
<1> USE DEF O!Idle, OP!Idle, O!NoOper, OP!NoOper, O!Opers, OP!Opers, O!READ, OP!READ, O!WRITE, OP!WRITE,
    O!KILLTHREAD, OP!KILLTHREAD, O!RELEASED, OP!RELEASED, O!Kinds, OP!Kinds, O!OperTypes, OP!OperTypes,
    O!Packet, OP!Packet, O!Releasing, OP!Releasing
<1>1. O!Init <=> OP!Init  BY SameBags DEF O!Init, OP!Init
<1>a. \A S : O!SetToSeqs(S) = OP!SetToSeqs(S)
  BY SameCardinality DEF O!SetToSeqs, OP!SetToSeqs, O!IsInjective, OP!IsInjective
<1>b. \A t, c, k : O!ReleasePending(t, c, k) <=> OP!ReleasePending(t, c, k)
  BY <1>a DEF O!ReleasePending, OP!ReleasePending
<1>c. \A S : O!ReleaseAllPending(S) <=> OP!ReleaseAllPending(S)
  BY <1>a DEF O!ReleaseAllPending, OP!ReleaseAllPending
<1>d. O!ClosePort <=> OP!ClosePort  BY SameBags DEF O!ClosePort, OP!ClosePort
<1>e. O!Quiet <=> OP!Quiet  BY SameCardinality DEF O!Quiet, OP!Quiet
<1>f. O!Cardinality(Workers) = OP!Cardinality(Workers)  BY SameCardinality
<1>2. O!Next <=> OP!Next
  BY <1>b, <1>c, <1>d, <1>e, <1>f, SameSteps, Zenon DEF O!Next, OP!Next
<1>3. O!vars = OP!vars /\ O!vars' = OP!vars'  BY DEF O!vars, OP!vars
<1>4. O!TypeOK <=> OP!TypeOK  BY SameCardinality DEF O!TypeOK, OP!TypeOK
<1> QED  BY <1>1, <1>2, <1>3, <1>4

----------------------------------------------------------------------------
(* The steps of one thread                                                 *)

\* A thread that goes from one step to another keeps what is said of the threads,
\* if it leaves the calls of the others alone and is within a call only where the
\* new step says so.
LEMMA ThreadStep ==
  ASSUME Inv, NEW t \in Threads, pc[t] # "exited",
         NEW s \in Steps, NEW next, NEW c \in Clients \cup {NoClient},
         pc' = [pc EXCEPT ![t] = s], ret' = [ret EXCEPT ![t] = next],
         client' = [client EXCEPT ![t] = c],
         LegalStack(s, next), s \in {"loop", "poll", "exited"} \/ c \in Clients,
         sock' \in [Threads -> M!Handles], UNCHANGED uiVars, exits' = exits,
         accepts' \in 0 .. MaxAccepts, receives' \in 0 .. MaxReceives,
         \A u \in Threads \ {t} : mgr'[u] = mgr[u] /\ call'[u] = call[u],
         mgr'[t] = M!Idle \/ s \in ManagerSteps,
         call'[t].at \in {"idle", "exited"} \/ s \in OperationSteps
  PROVE  Own'
<1>0. next \in Bases \cup Closing \cup {<<>>}  BY DEF LegalStack, Steps, Bases
<1>1. Types'  BY <1>0 DEF Inv, Own, Types, uiVars
<1>2. Calling'
  <2> SUFFICES ASSUME NEW u \in Threads
               PROVE  /\ LegalStack(pc'[u], ret'[u])
                      /\ pc'[u] \in {"loop", "poll", "exited"} \/ client'[u] \in Clients
                      /\ mgr'[u] = M!Idle \/ pc'[u] \in ManagerSteps
                      /\ call'[u].at \in {"idle", "exited"} \/ pc'[u] \in OperationSteps
    BY DEF Calling, M!Idle, M!NoClient, LegalStack
  <2>1. CASE u = t
    BY <2>1 DEF Inv, Own, Types
  <2>2. CASE u # t
    <3>1. pc'[u] = pc[u] /\ ret'[u] = ret[u] /\ client'[u] = client[u]
      BY <2>2 DEF Inv, Own, Types
    <3> QED  BY <2>2, <3>1 DEF Inv, Own, Calling
  <2> QED  BY <2>1, <2>2
<1>3. Stopping'
  <2>1. \A u \in Threads : pc[u] = "exited" => pc'[u] = "exited"
    BY DEF Inv, Own, Types
  <2>2. ui \notin {"closeall", "closeport", "stopped"}
    BY Constants0 DEF Inv, Own, Stopping
  <2>3. ui' = ui  BY DEF uiVars
  <2> QED  BY <2>1, <2>2, <2>3, Constants0 DEF Inv, Own, Stopping, Cardinality
<1> QED  BY <1>1, <1>2, <1>3 DEF Own

\* The same for a step that goes on with Enter.
LEMMA EnterStep ==
  ASSUME Inv, NEW t \in Threads, pc[t] # "exited",
         NEW s \in Steps, NEW next, NEW c, Enter(t, s, next, c),
         LegalStack(s, next), c \in Clients \/ s \in {"loop", "exited"} \/ (s = "poll" /\ c = NoClient),
         sock' \in [Threads -> M!Handles], UNCHANGED uiVars, exits' = exits,
         accepts' \in 0 .. MaxAccepts, receives' \in 0 .. MaxReceives,
         \A u \in Threads \ {t} : mgr'[u] = mgr[u] /\ call'[u] = call[u],
         mgr'[t] = M!Idle \/ s \in ManagerSteps,
         call'[t].at \in {"idle", "exited"} \/ s \in OperationSteps
  PROVE  Own'
<1> DEFINE d == IF s \in {"loop", "exited"} THEN NoClient ELSE c
<1>1. d \in Clients \cup {NoClient} /\ (s \in {"loop", "poll", "exited"} \/ d \in Clients)
  OBVIOUS
<1>2. /\ pc' = [pc EXCEPT ![t] = s] /\ ret' = [ret EXCEPT ![t] = next]
      /\ client' = [client EXCEPT ![t] = d]
  BY DEF Enter
<1> HIDE DEF d
<1> QED  BY <1>1, <1>2, ThreadStep

\* What a step needs to know of the thread that takes it, from the invariant.
LEMMA Facts ==
  ASSUME Inv, NEW t \in Threads
  PROVE  /\ client[t] \in Clients \/ client[t] = NoClient
         /\ pc[t] \notin {"loop", "poll", "exited"} => client[t] \in Clients
         /\ LegalStack(pc[t], ret[t])
         /\ mgr[t] = M!Idle \/ pc[t] \in ManagerSteps
         /\ call[t].at \in {"idle", "exited"} \/ pc[t] \in OperationSteps
         /\ sock \in [Threads -> M!Handles] /\ socket \in [Clients -> M!Handles]
         /\ accepts \in 0 .. MaxAccepts /\ receives \in 0 .. MaxReceives
         /\ DOMAIN mgr = Threads /\ DOMAIN call = Threads
BY Constants0 DEF Inv, Own, Types, Calling, M!TypeOK, O!TypeOK

\* Steps that call neither the manager nor the operations.
LEMMA QuietStep ==
  ASSUME Inv, NEW t \in Threads, pc[t] # "exited",
         NEW s \in Steps, NEW next, GoTo(t, s, next), LegalStack(s, next),
         pc[t] = "loop" => s \in {"poll", "exited"},
         mgr[t] = M!Idle \/ s \in ManagerSteps, call[t].at \in {"idle", "exited"} \/ s \in OperationSteps,
         sock' \in [Threads -> M!Handles],
         UNCHANGED <<mgrVars, operVars, uiVars, accepts, receives>>,
         client[t] \in Clients \/ s \in {"loop", "poll", "exited"}
  PROVE  Kept
<1>1. UNCHANGED M!vars /\ UNCHANGED O!vars  BY Untouched
<1>2. mgr' = mgr /\ call' = call /\ exits' = exits /\ UNCHANGED uiVars
      /\ accepts' = accepts /\ receives' = receives
  BY DEF mgrVars, operVars
<1>3. Enter(t, s, next, client[t])  BY DEF GoTo
<1>4. client[t] \in Clients \/ s \in {"loop", "exited"} \/ (s = "poll" /\ client[t] = NoClient)
  BY Facts
<1>5. accepts' \in 0 .. MaxAccepts /\ receives' \in 0 .. MaxReceives  BY <1>2, Facts
<1>6. Own'  BY <1>2, <1>3, <1>4, <1>5, EnterStep
<1> QED  BY <1>1, <1>6 DEF Kept

\* The accept thread outside the manager.
LEMMA AcceptSteps ==
  ASSUME Inv, AcceptLoop \/ AcceptTimeout \/ AcceptFails \/ Associate \/ Update
  PROVE  Kept
<1> USE Constants0 DEF LegalStack, ManagerSteps, OperationSteps, Steps
<1>0. /\ mgr[Acceptor] = M!Idle \/ pc[Acceptor] \in ManagerSteps
      /\ call[Acceptor].at \in {"idle", "exited"} \/ pc[Acceptor] \in OperationSteps
      /\ pc[Acceptor] \notin {"loop", "poll", "exited"} => client[Acceptor] \in Clients
      /\ sock \in [Threads -> M!Handles] /\ NoSocket \in M!Handles
  BY Facts DEF M!Handles
<1>1. CASE AcceptLoop
  <2>1. PICK s \in {"poll", "exited"} : GoTo(Acceptor, s, <<>>)  BY <1>1 DEF AcceptLoop
  <2>2. sock' = sock  BY <1>1 DEF AcceptLoop
  <2> QED  BY <1>0, <1>1, <2>1, <2>2, QuietStep DEF AcceptLoop
<1>2. CASE AcceptTimeout \/ AcceptFails
  <2>1. PICK s \in {"loop", "exited"} : GoTo(Acceptor, s, <<>>)  BY <1>2 DEF AcceptTimeout, AcceptFails
  <2>2. sock' = sock  BY <1>2 DEF AcceptTimeout, AcceptFails
  <2> QED  BY <1>0, <1>2, <2>1, <2>2, QuietStep DEF AcceptTimeout, AcceptFails
<1>3. CASE Associate
  <2>1. sock' \in [Threads -> M!Handles]  BY <1>0, <1>3 DEF Associate
  <2>2. CASE GoTo(Acceptor, "recv", <<"update">>)
    BY <1>0, <1>3, <2>1, <2>2, QuietStep DEF Associate
  <2>3. CASE GoTo(Acceptor, "remove", <<"exited">>)
    BY <1>0, <1>3, <2>1, <2>3, QuietStep DEF Associate, Closing
  <2> QED  BY <1>3, <2>2, <2>3 DEF Associate
<1>4. CASE Update
  BY <1>0, <1>4, QuietStep DEF Update
<1> QED  BY <1>1, <1>2, <1>3, <1>4

LEMMA AcceptClientStep ==
  ASSUME Inv, NEW s \in M!Handles, AcceptClient(s)
  PROVE  Kept
<1>1. Acceptor \in Threads /\ pc[Acceptor] = "poll" /\ M!AcceptClient(Acceptor, s)
  BY Constants0 DEF AcceptClient
<1>2. M!Next  BY <1>1 DEF M!Next
<1>3. UNCHANGED O!vars /\ call' = call /\ exits' = exits  BY Untouched DEF AcceptClient, operVars
<1>4. PICK c \in Clients : mgr' = [mgr EXCEPT ![Acceptor] = [at |-> "got", client |-> c, sock |-> s]]
  BY <1>1, Constants0 DEF M!AcceptClient
<1>5. mgr'[Acceptor].client = c /\ \A u \in Threads \ {Acceptor} : mgr'[u] = mgr[u]
  BY <1>1, <1>4, Facts
<1>6. sock' \in [Threads -> M!Handles]  BY <1>1, Facts DEF AcceptClient
<1>7. accepts' \in 0 .. MaxAccepts /\ receives' \in 0 .. MaxReceives /\ UNCHANGED uiVars
  BY Facts, BoundAssumption, <1>1 DEF AcceptClient
<1>8. Enter(Acceptor, "init", <<>>, c)  BY <1>5 DEF AcceptClient
<1>9. call[Acceptor].at \in {"idle", "exited"}  BY <1>1, Facts DEF OperationSteps
<1>10. "init" \in Steps /\ "init" \in ManagerSteps /\ LegalStack("init", <<>>)
  BY DEF LegalStack, ManagerSteps, Steps
<1>11. pc[Acceptor] # "exited" /\ call'[Acceptor].at \in {"idle", "exited"}
      /\ \A u \in Threads \ {Acceptor} : call'[u] = call[u]
  BY <1>1, <1>3, <1>9
<1>12. Own'
  BY <1>1, <1>3, <1>5, <1>6, <1>7, <1>8, <1>10, <1>11, EnterStep
<1> QED  BY <1>2, <1>3, <1>12 DEF Kept

\* A step that calls the manager and goes on.
LEMMA ManagerStep ==
  ASSUME Inv, NEW t \in Threads, pc[t] \notin {"loop", "poll", "exited"},
         NEW s \in Steps, NEW next, GoTo(t, s, next), LegalStack(s, next),
         [M!Next]_(M!vars), [O!Next]_(O!vars),
         \A u \in Threads \ {t} : mgr'[u] = mgr[u],
         mgr'[t] = M!Idle \/ s \in ManagerSteps,
         call' = call, call[t].at \in {"idle", "exited"}, exits' = exits,
         UNCHANGED <<sock, uiVars, accepts, receives>>
  PROVE  Kept
<1>1. Enter(t, s, next, client[t]) /\ client[t] \in Clients  BY Facts DEF GoTo
<1>2. /\ accepts' \in 0 .. MaxAccepts /\ receives' \in 0 .. MaxReceives
      /\ sock' \in [Threads -> M!Handles]
  BY Facts
<1>3. UNCHANGED uiVars /\ pc[t] # "exited" /\ call'[t].at \in {"idle", "exited"}
      /\ \A u \in Threads \ {t} : mgr'[u] = mgr[u] /\ call'[u] = call[u]
  OBVIOUS
<1>4. Own'  BY <1>1, <1>2, <1>3, EnterStep
<1> QED  BY <1>4 DEF Kept

LEMMA AcceptCallSteps ==
  ASSUME Inv, InitClient \/ AddRealClient
  PROVE  Kept
<1> USE Constants0
<1>0. DOMAIN mgr = Threads /\ UNCHANGED O!vars /\ call' = call /\ exits' = exits
      /\ UNCHANGED <<sock, uiVars, accepts, receives>>
  BY Facts, Untouched DEF InitClient, AddRealClient, operVars
<1>1. pc[Acceptor] \in {"init", "add"} /\ call[Acceptor].at \in {"idle", "exited"}
  BY Facts DEF OperationSteps, InitClient, AddRealClient
<1>2. CASE InitClient
  <2>1. M!InitClient(Acceptor) /\ M!Next  BY <1>2 DEF InitClient, M!Next
  <2>2. \A u \in Threads \ {Acceptor} : mgr'[u] = mgr[u]
    BY <2>1, <1>0 DEF M!InitClient, M!GoTo
  <2>3. GoTo(Acceptor, "add", <<>>)  BY <1>2 DEF InitClient
  <2> QED  BY <1>0, <1>1, <2>1, <2>2, <2>3, ManagerStep DEF LegalStack, ManagerSteps, Steps
<1>3. CASE AddRealClient
  <2>1. M!AddRealClient(Acceptor) /\ M!Next  BY <1>3 DEF AddRealClient, M!Next
  <2>2. (\A u \in Threads \ {Acceptor} : mgr'[u] = mgr[u]) /\ mgr'[Acceptor] = M!Idle
    BY <2>1, <1>0 DEF M!AddRealClient
  <2>3. GoTo(Acceptor, "associate", <<>>)  BY <1>3 DEF AddRealClient
  <2> QED  BY <1>0, <1>1, <2>1, <2>2, <2>3, ManagerStep DEF LegalStack, Steps
<1> QED  BY <1>2, <1>3

----------------------------------------------------------------------------
(* The steps of the handlers                                               *)

\* A step on top of a stack.
LEMMA Pushed ==
  ASSUME NEW S, NEW a \in S, NEW b \in S, NEW c \in S
  PROVE  <<a>> \o <<b>> = <<a, b>> /\ <<a>> \o <<b, c>> = <<a, b, c>>
<1>1. <<a>> \o <<b>> = <<a, b>>
  <2> DEFINE x == <<a>> \o <<b>>
             y == <<a, b>>
  <2>1. x \in Seq(S) /\ y \in Seq(S) /\ Len(y) = 2  OBVIOUS
  <2>2. Len(x) = 2 /\ \A i \in 1 .. 2 : x[i] = y[i]  OBVIOUS
  <2>3. Len(x) = Len(y) /\ \A i \in 1 .. Len(x) : x[i] = y[i]  BY <2>1, <2>2
  <2> HIDE DEF x, y
  <2>4. x = y  BY <2>1, <2>3, SeqEqual
  <2> QED  BY <2>4 DEF x, y
<1>2. <<a>> \o <<b, c>> = <<a, b, c>>
  <2> DEFINE x == <<a>> \o <<b, c>>
             y == <<a, b, c>>
  <2>1. x \in Seq(S) /\ y \in Seq(S) /\ Len(y) = 3  OBVIOUS
  <2>2. Len(x) = 3 /\ \A i \in 1 .. 3 : x[i] = y[i]  OBVIOUS
  <2>3. Len(x) = Len(y) /\ \A i \in 1 .. Len(x) : x[i] = y[i]  BY <2>1, <2>2
  <2> HIDE DEF x, y
  <2>4. x = y  BY <2>1, <2>3, SeqEqual
  <2> QED  BY <2>4 DEF x, y
<1> QED  BY <1>1, <1>2

\* What a call returns to may follow it, and so may the closing of its client.
LEMMA Stacks ==
  /\ \A r \in Bases : /\ <<"notify">> \o r \in Closing
                       /\ Head(r) \in {"loop", "update", "recv"} /\ LegalStack(Head(r), Tail(r))
  /\ \A r \in Closing : Head(r) \in {"notify", "exited"} /\ LegalStack(Head(r), Tail(r))
  /\ AfterSend \o <<"loop">> \in Bases
<1>1. /\ <<"notify">> \o <<"loop">> = <<"notify", "loop">>
      /\ <<"notify">> \o <<"update">> = <<"notify", "update">>
      /\ <<"notify">> \o <<"recv", "loop">> = <<"notify", "recv", "loop">>
      /\ <<"recv">> \o <<"loop">> = <<"recv", "loop">>
  <2>1. "notify" \in Steps /\ "loop" \in Steps /\ "update" \in Steps /\ "recv" \in Steps  BY DEF Steps
  <2> QED  BY <2>1, Pushed
<1>2. /\ Head(<<"loop">>) = "loop" /\ Tail(<<"loop">>) = <<>>
      /\ Head(<<"update">>) = "update" /\ Tail(<<"update">>) = <<>>
      /\ Head(<<"exited">>) = "exited" /\ Tail(<<"exited">>) = <<>>
      /\ Head(<<"recv", "loop">>) = "recv" /\ Tail(<<"recv", "loop">>) = <<"loop">>
  OBVIOUS
<1>3. /\ Head(<<"notify", "loop">>) = "notify" /\ Tail(<<"notify", "loop">>) = <<"loop">>
      /\ Head(<<"notify", "update">>) = "notify" /\ Tail(<<"notify", "update">>) = <<"update">>
      /\ Head(<<"notify", "recv", "loop">>) = "notify"
      /\ Tail(<<"notify", "recv", "loop">>) = <<"recv", "loop">>
  OBVIOUS
<1> QED  BY <1>1, <1>2, <1>3, Zenon DEF Bases, Closing, LegalStack, AfterSend

\* A step that calls the operations and goes on.
LEMMA CallStep ==
  ASSUME Inv, NEW t \in Threads, pc[t] \notin {"loop", "poll", "exited"}, pc[t] \notin ManagerSteps,
         NEW s \in Steps, NEW next, GoTo(t, s, next), LegalStack(s, next),
         UNCHANGED mgrVars, O!Next,
         \A u \in Threads \ {t} : call'[u] = call[u],
         call'[t].at \in {"idle", "exited"} \/ s \in OperationSteps,
         exits' = exits, sock' \in [Threads -> M!Handles],
         UNCHANGED <<uiVars, accepts, receives>>
  PROVE  Kept
<1>1. Enter(t, s, next, client[t]) /\ client[t] \in Clients  BY Facts DEF GoTo
<1>2. accepts' \in 0 .. MaxAccepts /\ receives' \in 0 .. MaxReceives  BY Facts
<1>3. /\ UNCHANGED uiVars /\ pc[t] # "exited" /\ mgr'[t] = M!Idle
      /\ \A u \in Threads \ {t} : mgr'[u] = mgr[u] /\ call'[u] = call[u]
  BY Facts DEF mgrVars
<1>4. Own'  BY <1>1, <1>2, <1>3, EnterStep
<1> QED  BY <1>4, Untouched DEF Kept

LEMMA FillStep ==
  ASSUME Inv, NEW t \in Threads, FillRecv(t) \/ FillSend(t)
  PROVE  Kept
<1>1. PICK k \in O!Kinds : Fill(t, k)
  BY DEF FillRecv, FillSend, O!Kinds
<1>2. pc[t] \in {"recv", "send"} /\ client[t] \in Clients
  BY Facts DEF FillRecv, FillSend
<1>3. O!FillOper(t, client[t], k) /\ O!Next  BY <1>1, <1>2 DEF Fill, O!Next
<1>4. exits' = exits /\ \A u \in Threads \ {t} : call'[u] = call[u]
  BY <1>3, Facts DEF O!FillOper
<1>5. /\ sock' \in [Threads -> M!Handles] /\ UNCHANGED mgrVars
      /\ UNCHANGED <<uiVars, accepts, receives>>
  BY <1>1, <1>2, Facts DEF Fill
<1>6. PICK r \in Bases : GoTo(t, "post", r)
  <2>1. CASE FillRecv(t)  BY <2>1, Facts DEF FillRecv, LegalStack, Bases
  <2>2. CASE FillSend(t)  BY <2>2, Facts, Stacks DEF FillSend, LegalStack
  <2> QED  BY <2>1, <2>2
<1>7. /\ "post" \in Steps /\ "post" \in OperationSteps /\ LegalStack("post", r)
      /\ pc[t] \notin {"loop", "poll", "exited"} /\ pc[t] \notin ManagerSteps
  BY <1>2 DEF Steps, OperationSteps, ManagerSteps, LegalStack
<1> QED  BY <1>3, <1>4, <1>5, <1>6, <1>7, CallStep

LEMMA PostStep ==
  ASSUME Inv, NEW t \in Threads, PostPends(t) \/ PostFails(t) \/ InsertPending(t)
  PROVE  Kept
<1>1. /\ pc[t] \notin {"loop", "poll", "exited"} /\ pc[t] \notin ManagerSteps
      /\ pc[t] \in {"post", "insert"} /\ ret[t] \in Bases
  BY Facts DEF PostPends, PostFails, InsertPending, ManagerSteps, LegalStack
<1>2. /\ sock' \in [Threads -> M!Handles] /\ UNCHANGED mgrVars
      /\ UNCHANGED <<uiVars, accepts, receives>>
  BY Facts DEF PostPends, PostFails, InsertPending, M!Handles
<1>3. CASE PostPends(t)
  <2>1. PICK c \in Clients : O!PostPends(t, c)  BY <1>3 DEF PostPends
  <2>2. O!Next  BY <2>1 DEF O!Next
  <2>3. exits' = exits /\ \A u \in Threads \ {t} : call'[u] = call[u]
    BY <2>1, Facts DEF O!PostPends
  <2>4. "insert" \in Steps /\ "insert" \in OperationSteps /\ LegalStack("insert", ret[t])
    BY <1>1 DEF Steps, OperationSteps, LegalStack
  <2>5. GoTo(t, "insert", ret[t])  BY <1>3 DEF PostPends
  <2> QED  BY <1>1, <1>2, <2>2, <2>3, <2>4, <2>5, CallStep
<1>4. CASE PostFails(t)
  <2>1. O!PostFails(t) /\ O!Next  BY <1>4 DEF PostFails, O!Next
  <2>2. exits' = exits /\ call'[t].at = "idle" /\ \A u \in Threads \ {t} : call'[u] = call[u]
    BY <2>1, Facts DEF O!PostFails, O!Idle
  <2>3. "remove" \in Steps /\ LegalStack("remove", <<"notify">> \o ret[t])
    BY <1>1, Stacks DEF Steps, LegalStack
  <2>4. GoTo(t, "remove", <<"notify">> \o ret[t])  BY <1>4 DEF PostFails, CallCloseClient
  <2> QED  BY <1>1, <1>2, <2>1, <2>2, <2>3, <2>4, CallStep
<1>5. CASE InsertPending(t)
  <2>1. O!InsertPending(t) /\ O!Next  BY <1>5 DEF InsertPending, O!Next
  <2>2. exits' = exits /\ call'[t].at = "idle" /\ \A u \in Threads \ {t} : call'[u] = call[u]
    BY <2>1, Facts DEF O!InsertPending, O!Idle
  <2>3. Head(ret[t]) \in Steps /\ LegalStack(Head(ret[t]), Tail(ret[t]))
    BY <1>1, Stacks DEF Steps
  <2>4. GoTo(t, Head(ret[t]), Tail(ret[t]))  BY <1>5 DEF InsertPending, Return
  <2> QED  BY <1>1, <1>2, <2>1, <2>2, <2>3, <2>4, CallStep
<1> QED  BY <1>3, <1>4, <1>5

LEMMA NotifyStep ==
  ASSUME Inv, NEW t \in Threads, Notify(t)
  PROVE  Kept
<1>1. pc[t] = "notify" /\ GoTo(t, Head(ret[t]), Tail(ret[t]))  BY DEF Notify, Return
<1>2. Head(ret[t]) \in Steps /\ LegalStack(Head(ret[t]), Tail(ret[t]))
  BY <1>1, Facts, Stacks DEF LegalStack, Steps
<1>3. /\ client[t] \in Clients /\ mgr[t] = M!Idle /\ call[t].at \in {"idle", "exited"}
      /\ sock' \in [Threads -> M!Handles]
  BY <1>1, Facts DEF ManagerSteps, OperationSteps, Notify
<1>4. UNCHANGED <<mgrVars, operVars, uiVars, accepts, receives>>  BY DEF Notify
<1> QED  BY <1>1, <1>2, <1>3, <1>4, QuietStep

\* A client that another thread has taken out of the map is left alone: then
\* nothing of the manager changes.
LEMMA RemoveStep ==
  ASSUME Inv, NEW t \in Threads, RemoveRealClient(t)
  PROVE  Kept
<1>1. pc[t] = "remove" /\ M!RemoveRealClient(t, client[t]) /\ mgr[t] = M!Idle
  BY DEF RemoveRealClient, M!RemoveRealClient
<1>2. /\ UNCHANGED O!vars /\ call' = call /\ exits' = exits
      /\ UNCHANGED <<sock, uiVars, accepts, receives>>
  BY Untouched DEF RemoveRealClient, operVars
<1>3. pc[t] \notin {"loop", "poll", "exited"} /\ call[t].at \in {"idle", "exited"} /\ ret[t] \in Closing
  BY <1>1, Facts DEF OperationSteps, LegalStack
<1>4. CASE client[t] \in realClients
  <2>1. client[t] \in 1 .. clientCount  BY <1>4 DEF Inv, M!StubOwnership, M!NoneLost
  <2>2. M!Next  BY <1>1, <2>1 DEF M!Next
  <2>3. \A u \in Threads \ {t} : mgr'[u] = mgr[u]
    BY <1>1, <1>4, Facts DEF M!RemoveRealClient, M!Erased
  <2>4. GoTo(t, "close", ret[t])  BY <1>4 DEF RemoveRealClient
  <2>5. "close" \in Steps /\ "close" \in ManagerSteps /\ LegalStack("close", ret[t])
    BY <1>3 DEF Steps, ManagerSteps, LegalStack
  <2> QED  BY <1>2, <1>3, <2>2, <2>3, <2>4, <2>5, ManagerStep
<1>5. CASE client[t] \notin realClients
  <2>1. UNCHANGED M!vars /\ mgr' = mgr
    BY <1>1, <1>5 DEF M!RemoveRealClient, M!Erased, M!vars
  <2>2. GoTo(t, Head(ret[t]), Tail(ret[t]))  BY <1>5 DEF RemoveRealClient, Return
  <2>3. Head(ret[t]) \in Steps /\ LegalStack(Head(ret[t]), Tail(ret[t]))
    BY <1>3, Stacks DEF Steps
  <2> QED  BY <1>1, <1>2, <1>3, <2>1, <2>2, <2>3, ManagerStep
<1> QED  BY <1>4, <1>5

LEMMA CloseStep ==
  ASSUME Inv, NEW t \in Threads, CloseSocket(t) \/ ReleaseRecv(t) \/ ReleaseSend(t) \/ PushFreeClient(t)
  PROVE  Kept
<1>1. /\ pc[t] \notin {"loop", "poll", "exited"} /\ call[t].at \in {"idle", "exited"}
      /\ ret[t] \in Closing /\ client[t] \in Clients
  BY Facts DEF OperationSteps, LegalStack, CloseSocket, ReleaseRecv, ReleaseSend, PushFreeClient
<1>2. UNCHANGED <<sock, uiVars, accepts, receives>>
  BY DEF CloseSocket, ReleaseRecv, ReleaseSend, PushFreeClient
<1>3. \A s \in {"releaserecv", "releasesend", "push"} :
        s \in Steps /\ s \in ManagerSteps /\ LegalStack(s, ret[t])
  BY <1>1 DEF Steps, ManagerSteps, LegalStack
<1>4. CASE CloseSocket(t)
  <2>1. M!CloseSocket(t) /\ M!Next  BY <1>4 DEF CloseSocket, M!Next
  <2>2. \A u \in Threads \ {t} : mgr'[u] = mgr[u]  BY <2>1, Facts DEF M!CloseSocket, M!GoTo
  <2>3. UNCHANGED O!vars /\ call' = call /\ exits' = exits  BY <1>4, Untouched DEF CloseSocket, operVars
  <2>4. GoTo(t, "releaserecv", ret[t])  BY <1>4 DEF CloseSocket
  <2> QED  BY <1>1, <1>2, <1>3, <2>1, <2>2, <2>3, <2>4, ManagerStep
<1>5. CASE ReleaseRecv(t)
  <2>1. O!ReleasePending(t, client[t], O!READ)  BY <1>5 DEF ReleaseRecv
  <2>2. O!Next  BY <1>1, <2>1 DEF O!Next, O!Kinds
  <2>3. call' = call /\ exits' = exits  BY <2>1 DEF O!ReleasePending
  <2>4. UNCHANGED M!vars /\ mgr' = mgr  BY <1>5, Untouched DEF ReleaseRecv, mgrVars
  <2>5. GoTo(t, "releasesend", ret[t])  BY <1>5 DEF ReleaseRecv
  <2> QED  BY <1>1, <1>2, <1>3, <2>2, <2>3, <2>4, <2>5, ManagerStep
<1>6. CASE ReleaseSend(t)
  <2>1. O!ReleasePending(t, client[t], O!WRITE) /\ M!ResetStatus(t)  BY <1>6 DEF ReleaseSend
  <2>2. O!Next /\ M!Next  BY <1>1, <2>1 DEF O!Next, O!Kinds, M!Next
  <2>3. call' = call /\ exits' = exits  BY <2>1 DEF O!ReleasePending
  <2>4. \A u \in Threads \ {t} : mgr'[u] = mgr[u]  BY <2>1, Facts DEF M!ResetStatus, M!GoTo
  <2>5. GoTo(t, "push", ret[t])  BY <1>6 DEF ReleaseSend
  <2> QED  BY <1>1, <1>2, <1>3, <2>2, <2>3, <2>4, <2>5, ManagerStep
<1>7. CASE PushFreeClient(t)
  <2>1. M!PushFreeClient(t) /\ M!Next  BY <1>7 DEF PushFreeClient, M!Next
  <2>2. mgr'[t] = M!Idle /\ \A u \in Threads \ {t} : mgr'[u] = mgr[u]
    BY <2>1, Facts DEF M!PushFreeClient
  <2>3. UNCHANGED O!vars /\ call' = call /\ exits' = exits  BY <1>7, Untouched DEF PushFreeClient, operVars
  <2>4. GoTo(t, Head(ret[t]), Tail(ret[t]))  BY <1>7 DEF PushFreeClient, Return
  <2>5. Head(ret[t]) \in Steps /\ LegalStack(Head(ret[t]), Tail(ret[t]))
    BY <1>1, Stacks DEF Steps
  <2> QED  BY <1>1, <1>2, <2>1, <2>2, <2>3, <2>4, <2>5, ManagerStep
<1> QED  BY <1>4, <1>5, <1>6, <1>7

----------------------------------------------------------------------------
(* The steps of the worker threads                                         *)

\* A worker that dequeues a packet is at the top of its loop, in no call.
LEMMA DequeueStep ==
  ASSUME Inv, NEW w \in Workers, NEW p \in DOMAIN io, NEW r \in O!Results(p.kind), Dequeue(w, p, r)
  PROVE  Kept
<1>0. w \in Threads  BY Constants0
<1>1. O!Dequeue(w, p, r) /\ pc[w] = "loop" /\ call[w] = O!Idle  BY DEF Dequeue, O!Dequeue
<1>2. O!Next  BY <1>1 DEF O!Next
<1>3. UNCHANGED <<mgrVars, sock, uiVars, accepts>>  BY DEF Dequeue
<1>4. mgr' = mgr /\ mgr[w] = M!Idle /\ UNCHANGED uiVars  BY <1>0, <1>1, <1>3, Facts DEF mgrVars, ManagerSteps
<1>5. /\ exits' = exits /\ call'[w].at \in {"done", "exited", "idle"}
      /\ \A u \in Threads \ {w} : call'[u] = call[u]
  <2>1. exits' = exits  BY <1>1 DEF O!Dequeue
  <2>2. CASE call' = call  BY <1>1, <2>1, <2>2 DEF O!Idle
  <2>3. CASE call' = [call EXCEPT ![w].at = "exited"]
    BY <1>0, <1>1, <2>1, <2>3, Facts DEF O!Idle
  <2>4. CASE \E x : call' = [call EXCEPT ![w] = x] /\ x.at = "done"
    BY <1>0, <2>1, <2>4, Facts
  <2>5. \A type, client0 : [at |-> "done", oper |-> p.oper, client |-> client0, type |-> type,
                            ok |-> r.ok, data |-> r.data].at = "done"
    OBVIOUS
  <2> QED  BY <1>1, <2>2, <2>3, <2>4, <2>5 DEF O!Dequeue
<1>6. PICK s \in {"release", "exited", "loop"} :
        /\ Enter(w, s, <<>>, p.key)
        /\ call'[w].at \in {"idle", "exited"} \/ s = "release"
  BY <1>5 DEF Dequeue
<1>7. p.key \in Clients
  BY <1>1 DEF Inv, O!TypeOK, O!Packet, O!Dequeue
<1>8. accepts' \in 0 .. MaxAccepts /\ receives' \in 0 .. MaxReceives
  BY <1>0, <1>3, Facts, BoundAssumption DEF Dequeue
<1>9. s \in Steps /\ LegalStack(s, <<>>) /\ (s = "release" => s \in OperationSteps)
  BY DEF Steps, LegalStack, OperationSteps
<1>10. sock' \in [Threads -> M!Handles] /\ pc[w] # "exited"  BY <1>0, <1>1, <1>3, Facts
<1>11. Own'
  BY <1>0, <1>4, <1>5, <1>6, <1>7, <1>8, <1>9, <1>10, EnterStep
<1> QED  BY <1>2, <1>3, <1>11, Untouched DEF Kept

LEMMA TakeKillStep ==
  ASSUME Inv, NEW w \in Workers, NEW p \in DOMAIN io, TakeKillThread(w, p)
  PROVE  Kept
<1>0. w \in Threads  BY Constants0
<1>1. O!TakeKillThread(w, p) /\ pc[w] = "loop" /\ call[w] = O!Idle
  BY DEF TakeKillThread, O!TakeKillThread
<1>2. O!Next  BY <1>1 DEF O!Next
<1>3. UNCHANGED <<mgrVars, sock, uiVars, accepts, receives>>  BY DEF TakeKillThread
<1>4. mgr' = mgr /\ mgr[w] = M!Idle /\ UNCHANGED uiVars  BY <1>0, <1>1, <1>3, Facts DEF mgrVars, ManagerSteps
<1>5. /\ exits' = exits /\ call'[w].at \in {"exited", "idle"}
      /\ \A u \in Threads \ {w} : call'[u] = call[u]
  <2>1. exits' = exits  BY <1>1 DEF O!TakeKillThread
  <2>2. CASE call' = call  BY <1>1, <2>1, <2>2 DEF O!Idle
  <2>3. CASE call' = [call EXCEPT ![w].at = "exited"]
    BY <1>0, <1>1, <2>1, <2>3, Facts DEF O!Idle
  <2> QED  BY <1>1, <2>2, <2>3 DEF O!TakeKillThread
<1>6. PICK s \in {"exited", "loop"} : Enter(w, s, <<>>, client[w])
  BY DEF TakeKillThread, GoTo
<1>7. accepts' \in 0 .. MaxAccepts /\ receives' \in 0 .. MaxReceives
      /\ sock' \in [Threads -> M!Handles] /\ pc[w] # "exited"
  BY <1>0, <1>1, <1>3, Facts
<1>8. s \in Steps /\ LegalStack(s, <<>>)
  BY DEF Steps, LegalStack
<1>9. Own'
  BY <1>0, <1>4, <1>5, <1>6, <1>7, <1>8, EnterStep
<1> QED  BY <1>2, <1>3, <1>9, Untouched DEF Kept

\* A step of ReleaseOperData leaves the worker in it, or ends it: then the handler begins.
LEMMA ReleaseStep ==
  ASSUME Inv, NEW w \in Workers, ReleaseOperData(w)
  PROVE  Kept
<1>0. w \in Threads  BY Constants0
<1>1. O!ReleaseOperData(w) /\ pc[w] = "release" /\ ret[w] = <<>> /\ client[w] \in Clients
  BY <1>0, Facts DEF ReleaseOperData, LegalStack
<1>2. O!Next  BY <1>1 DEF O!Next
<1>3. UNCHANGED mgrVars /\ UNCHANGED <<uiVars, accepts, receives>> /\ sock' \in [Threads -> M!Handles]
  BY <1>0, Facts DEF ReleaseOperData
<1>4. exits' = exits /\ \A u \in Threads \ {w} : call'[u] = call[u]
  <2>1. CASE O!MarkOper(w)  BY <1>0, <2>1, Facts DEF O!MarkOper
  <2>2. CASE \E k \in O!Kinds : O!EraseOper(w, k)  BY <1>0, <2>2, Facts DEF O!EraseOper
  <2>3. CASE \E k \in O!Kinds : O!FindOper(w, k)  BY <1>0, <2>3, Facts DEF O!FindOper
  <2> QED  BY <1>1, <2>1, <2>2, <2>3 DEF O!ReleaseOperData
<1>5. PICK s \in Steps : \E next :
        /\ GoTo(w, s, next) /\ LegalStack(s, next)
        /\ call'[w].at \in {"idle", "exited"} \/ s \in OperationSteps
  <2>1. CASE call'[w].at = "idle"
    <3>1. OperateNotify(w)  BY <2>1 DEF ReleaseOperData
    <3>2. \/ GoTo(w, "remove", <<"notify">> \o <<"loop">>)
          \/ GoTo(w, "send", <<"loop">>) \/ GoTo(w, "loop", <<>>)
      BY <3>1 DEF OperateNotify, CallCloseClient
    <3>3. <<"notify">> \o <<"loop">> \in Closing  BY Stacks DEF Bases
    <3> QED  BY <2>1, <3>2, <3>3 DEF Steps, LegalStack
  <2>2. CASE call'[w].at # "idle"
    <3>1. UNCHANGED <<pc, ret, client>>  BY <2>2 DEF ReleaseOperData
    <3>2. GoTo(w, "release", <<>>)  BY <1>0, <1>1, <3>1 DEF GoTo, Enter, Inv, Own, Types
    <3> QED  BY <3>2 DEF Steps, OperationSteps, LegalStack
  <2> QED  BY <2>1, <2>2
<1>6. pc[w] \notin {"loop", "poll", "exited"} /\ pc[w] \notin ManagerSteps  BY <1>1 DEF ManagerSteps
<1> QED  BY <1>0, <1>2, <1>3, <1>4, <1>5, <1>6, CallStep

----------------------------------------------------------------------------
(* The steps of StopService                                                *)

\* The dialog's thread leaves the others where they are.
LEMMA UiStep ==
  ASSUME Inv, UNCHANGED <<mgr, call, pc, ret, client, sock, accepts, receives>>,
         acceptRunning' \in BOOLEAN,
         ui' \in {"loop", "joinaccept", "post", "joinworkers", "closeall", "closeport", "stopped"},
         Stopping'
  PROVE  Own'
<1>1. Types'  BY DEF Inv, Own, Types
<1>2. Calling'  BY DEF Inv, Own, Calling, M!Idle, M!NoClient, LegalStack
<1> QED  BY <1>1, <1>2 DEF Own

\* When the threads have ended none is in a call: the clients and the port may be closed.
LEMMA AllEnded ==
  ASSUME Inv, ui \in {"closeall", "closeport"}
  PROVE  (\A t \in Threads : mgr[t] = M!Idle) /\ O!Quiet
<1>1. \A t \in Threads : pc[t] = "exited"  BY Constants0 DEF Inv, Own, Stopping
<1>2. \A t \in Threads : mgr[t] = M!Idle /\ call[t].at \in {"idle", "exited"}
  BY <1>1, Facts DEF ManagerSteps, OperationSteps
<1>3. exits = O!Cardinality(Workers)  BY SameCardinality DEF Inv, Own, Stopping
<1> QED  BY <1>2, <1>3 DEF O!Quiet

LEMMA StopStep ==
  ASSUME Inv, StopClick \/ StopService
  PROVE  Kept
<1>1. acceptRunning \in BOOLEAN /\ Stopping  BY DEF Inv, Own, Types
<1>2. CASE StopClick
  <2>1. Stopping' /\ acceptRunning' \in BOOLEAN
    BY <1>1, <1>2 DEF StopClick, Stopping, operVars, mgrVars
  <2> QED  BY <1>2, <2>1, UiStep, Untouched DEF StopClick, Kept, operVars, mgrVars
<1>3. CASE JoinAccept
  <2>1. Stopping'  BY <1>1, <1>3, Constants0 DEF JoinAccept, Stopping, operVars, mgrVars
  <2> QED  BY <1>1, <1>3, <2>1, UiStep, Untouched DEF JoinAccept, Kept, operVars, mgrVars
<1>4. CASE JoinWorkers
  <2>1. Stopping'  BY <1>1, <1>4, Constants0 DEF JoinWorkers, Joined, Stopping, operVars, mgrVars
  <2> QED  BY <1>1, <1>4, <2>1, UiStep, Untouched DEF JoinWorkers, Kept, operVars, mgrVars
<1>5. CASE PostKillThread
  <2>1. O!PostKillThread /\ exits < O!Cardinality(Workers)
    BY <1>1, <1>5, SameCardinality DEF PostKillThread, Stopping
  <2>2. O!Next  BY <2>1 DEF O!Next
  <2>3. exits' = exits + 1 /\ call' = call  BY <2>1 DEF O!PostKillThread
  <2>4. exits \in Nat  BY SameCardinality, Constants0 DEF Inv, O!TypeOK
  <2>5. /\ ui' \in {"post", "joinworkers"} /\ (ui' = "joinworkers" <=> exits' = Cardinality(Workers))
        /\ mgr' = mgr /\ pc' = pc /\ pc[Acceptor] = "exited"
    BY <1>1, <1>5 DEF PostKillThread, Enough, mgrVars, Stopping
  <2>6. exits < Cardinality(Workers)  BY <2>1, SameCardinality
  <2>7. Stopping'  BY <2>3, <2>4, <2>5, <2>6, Constants0 DEF Stopping
  <2> QED  BY <1>1, <1>5, <2>2, <2>3, <2>5, <2>7, UiStep, Untouched DEF PostKillThread, Kept
<1>6. CASE CloseAllClient
  <2>1. (\A t \in Threads : mgr[t] = M!Idle) /\ O!Quiet  BY <1>6, AllEnded DEF CloseAllClient
  <2>2. M!CloseAllClient /\ O!ReleaseAllPending(realClients) /\ realClients \in SUBSET Clients
    BY <1>6, Constants0 DEF CloseAllClient, Inv, M!TypeOK
  <2>3. M!Next /\ O!Next  BY <2>1, <2>2 DEF M!Next, O!Next
  <2>4. mgr' = mgr /\ realClients' = {} /\ call' = call /\ exits' = exits
    BY <2>2 DEF M!CloseAllClient, O!ReleaseAllPending
  <2>5. Stopping'  BY <1>1, <1>6, <2>4 DEF CloseAllClient, Stopping
  <2> QED  BY <1>1, <1>6, <2>3, <2>4, <2>5, UiStep DEF CloseAllClient, Kept
<1>7. CASE ClosePort
  <2>1. O!Quiet  BY <1>7, AllEnded DEF ClosePort
  <2>2. O!ClosePort /\ O!Next  BY <1>7, <2>1 DEF ClosePort, O!Next
  <2>3. call' = call /\ exits' = exits /\ mgr' = mgr /\ realClients' = realClients
    BY <1>7, <2>2 DEF O!ClosePort, ClosePort, mgrVars
  <2>4. Stopping'  BY <1>1, <1>7, <2>3 DEF ClosePort, Stopping
  <2> QED  BY <1>1, <1>7, <2>2, <2>3, <2>4, UiStep, Untouched DEF ClosePort, Kept
<1> QED  BY <1>2, <1>3, <1>4, <1>5, <1>6, <1>7 DEF StopService

----------------------------------------------------------------------------
(* The invariant, and the two contracts                                    *)

LEMMA InvInit == Init => Inv
<1> SUFFICES ASSUME Init PROVE Inv
  OBVIOUS
<1>1. M!Init /\ O!Init  BY DEF Init
<1>2. M!TypeOK /\ M!StubOwnership
  BY <1>1, SameManager, Assumptions, MP!TypeInit, MP!StubOwnershipInit
<1>3. O!TypeOK /\ OP!Locals
  BY <1>1, SameOperations, Assumptions, OP!TypeInit
<1>4. Types
  BY Constants0, BoundAssumption DEF Init, Types, Steps, M!Handles
<1>5. Calling
  BY <1>1 DEF Init, Calling, LegalStack, M!Init, O!Init, O!Idle
<1>6. Stopping
  BY <1>1 DEF Init, Stopping, O!Init
<1> QED  BY <1>2, <1>3, <1>4, <1>5, <1>6 DEF Inv, Own

LEMMA EveryStep ==
  ASSUME Inv, [Next]_vars
  PROVE  Kept
<1>1. CASE AcceptThread
  BY <1>1, AcceptSteps, AcceptClientStep, AcceptCallSteps DEF AcceptThread
<1>2. CASE \E t \in Threads : Handler(t)
  BY <1>2, FillStep, PostStep, NotifyStep, RemoveStep, CloseStep DEF Handler
<1>3. CASE \E w \in Workers : WorkThread(w)
  BY <1>3, DequeueStep, TakeKillStep, ReleaseStep DEF WorkThread
<1>4. CASE StopClick \/ StopService
  BY <1>4, StopStep
<1>5. CASE UNCHANGED vars
  <2>1. UNCHANGED <<pc, ret, client, sock, accepts, receives>> /\ UNCHANGED uiVars
        /\ UNCHANGED mgrVars /\ UNCHANGED operVars
    BY <1>5 DEF vars
  <2>2. UNCHANGED <<mgr, call, exits, realClients, acceptRunning, ui>>
    BY <2>1 DEF mgrVars, operVars, uiVars
  <2>3. Stopping'  BY <2>1, <2>2 DEF Inv, Own, Stopping
  <2>4. acceptRunning' \in BOOLEAN /\
        ui' \in {"loop", "joinaccept", "post", "joinworkers", "closeall", "closeport", "stopped"}
    BY <2>2 DEF Inv, Own, Types
  <2> QED  BY <2>1, <2>2, <2>3, <2>4, UiStep, Untouched DEF Kept
<1> QED  BY <1>1, <1>2, <1>3, <1>4, <1>5 DEF Next

LEMMA InvStep ==
  ASSUME Inv, [Next]_vars
  PROVE  Inv'
<1>1. [M!Next]_(M!vars) /\ [O!Next]_(O!vars) /\ Own'  BY EveryStep DEF Kept
<1>2. MP!TypeOK /\ MP!StubOwnership /\ [MP!Next]_(MP!vars)  BY <1>1, SameManager DEF Inv
<1>3. MP!TypeOK' /\ MP!StubOwnership'  BY <1>2, Assumptions, MP!TypeStep, MP!StubOwnershipStep
<1>4. OP!TypeOK /\ OP!Locals /\ [OP!Next]_(OP!vars)  BY <1>1, SameOperations DEF Inv
<1>5. OP!TypeOK' /\ OP!Locals'  BY <1>4, Assumptions, OP!TypeStep
<1>6. (M!TypeOK <=> MP!TypeOK)' /\ (M!StubOwnership <=> MP!StubOwnership)'
  BY SameManager, PTL
<1>7. (O!TypeOK <=> OP!TypeOK)'  BY SameOperations, PTL
<1> QED  BY <1>1, <1>3, <1>5, <1>6, <1>7 DEF Inv

LEMMA Invariant == Spec => []Inv
<1>1. Inv /\ [Next]_vars => Inv'  BY InvStep
<1> QED  BY InvInit, <1>1, PTL DEF Spec

\* The threads of the server call the manager as ClientManager asks: what is proved of
\* the stubs and the sockets there holds of the server (TcpIOCPServerImp.cpp:139-372).
THEOREM ManagerKept == Spec => ManagerContract
<1>1. Init => M!Init  BY DEF Init
<1>2. Inv /\ [Next]_vars => [M!Next]_(M!vars)  BY EveryStep DEF Kept
<1> QED  BY Invariant, <1>1, <1>2, PTL DEF Spec, ManagerContract, M!Spec

\* They use the nodes, the lists and the completion port as ClientOperations asks: one
\* exit message for each worker, and the clients and the port closed when none is left.
THEOREM OperationsKept == Spec => OperationsContract
<1>1. Init => O!Init  BY DEF Init
<1>2. Inv /\ [Next]_vars => [O!Next]_(O!vars)  BY EveryStep DEF Kept
<1> QED  BY Invariant, <1>1, <1>2, PTL DEF Spec, OperationsContract, O!Spec

\* Every variable keeps its type, the stacks of the threads three steps at most.
THEOREM TypeCorrect == Spec => []TypeOK
<1>1. Inv => TypeOK
  <2> SUFFICES ASSUME Inv PROVE TypeOK
    OBVIOUS
  <2> DEFINE S == {"notify", "update", "exited", "recv", "loop"}
  <2>1. ASSUME NEW r \in Bases \cup Closing \cup {<<>>}
        PROVE  r \in BoundedSeq(S, 3)
    <3> HIDE DEF S
    <3>0. "notify" \in S /\ "update" \in S /\ "exited" \in S /\ "recv" \in S /\ "loop" \in S
      BY DEF S
    <3> DEFINE Short(x) == x \in Seq(S) /\ Len(x) \in 0 .. 3
    <3>a. Short(<<>>) /\ \A a, b, c \in S : Short(<<a>>) /\ Short(<<a, b>>) /\ Short(<<a, b, c>>)
      OBVIOUS
    <3> HIDE DEF Short
    <3>b. Short(r)  BY <3>0, <3>a, Zenon DEF Bases, Closing
    <3>1. r \in Seq(S) /\ Len(r) \in 0 .. 3  BY <3>b DEF Short
    <3>2. r \in [1 .. Len(r) -> S]
      BY <3>1, LenProperties
    <3> QED  BY <3>1, <3>2, Zenon DEF BoundedSeq, SeqOf
  <2>2. \A t \in Threads : ret[t] \in BoundedSeq(S, 3)
    BY <2>1 DEF Inv, Own, Types
  <2>3. Types /\ M!TypeOK /\ O!TypeOK  BY DEF Inv, Own
  <2> QED  BY <2>2, <2>3 DEF TypeOK, Types, Steps
<1> QED  BY Invariant, <1>1, PTL

\* When StopService has returned every socket is closed and every stub is free, once,
\* whatever the threads were doing when the button was clicked (TcpIOCPServerImp.cpp:72-101).
THEOREM StopClean == Spec => []StopIsClean
<1>1. Init => MP!Init  BY SameManager DEF Init
<1>2. Inv /\ [Next]_vars => [MP!Next]_(MP!vars)  BY EveryStep, SameManager DEF Kept
<1>3. Spec => MP!Spec  BY Invariant, <1>1, <1>2, PTL DEF Spec, MP!Spec
<1>4. MP!Spec => []MP!SocketOwnership  BY Assumptions, MP!SocketsOwned
<1>5. Inv /\ MP!SocketOwnership => StopIsClean
  <2> SUFFICES ASSUME Inv, MP!SocketOwnership, ui = "stopped"
               PROVE  /\ opened = {} /\ realClients = {} /\ IsInjective(freeClients)
                      /\ ToSet(freeClients) = 1 .. clientCount
    BY DEF StopIsClean
  <2>1. realClients = {} /\ \A t \in Threads : pc[t] = "exited"
    BY Constants0 DEF Inv, Own, Stopping
  <2>2. \A t \in Threads : mgr[t] = M!Idle  BY <2>1, Facts DEF ManagerSteps
  <2>3. M!InHand = {}  BY <2>2 DEF M!InHand, M!Busy, M!Idle
  <2>4. opened = {}
    <3>1. M!SocketOwnership  BY SameManager
    <3> QED  BY <2>1, <2>3, <3>1 DEF M!SocketOwnership
  <2>5. IsInjective(freeClients) /\ ToSet(freeClients) = 1 .. clientCount
    BY <2>1, <2>3 DEF Inv, M!StubOwnership, M!Exclusive, M!NoneLost, M!IsInjective, M!ToSet, IsInjective, ToSet
  <2> QED  BY <2>1, <2>4, <2>5
<1> QED  BY Invariant, <1>3, <1>4, <1>5, PTL
----------------------------------------------------------------------------
(* No connection goes deaf                                                 *)

\* What is shown here holds until a client is closed, by a thread or by StopService.
Coming  == IF pc[Acceptor] \in {"init", "add"} THEN 1 ELSE 0
Counted == Cardinality(realClients) + Coming <= accepts
Open    == NoneClosed /\ ui \notin {"closeport", "stopped"}

\* Until then no thread is in CloseClient; one that serves a client has it from the
\* map, and posts on its socket.
Serving == {"associate", "recv", "send", "post", "insert", "release", "remove", "update"}

Place(t) ==
  /\ pc[t] \in Serving \cup {"loop", "poll", "exited", "init", "add"}
  /\ pc[t] \in Serving => client[t] \in realClients
  /\ pc[t] = "post" => sock[t] = socket[client[t]]
  /\ pc[t] \in {"init", "add"} => mgr[t].client = client[t]

\* A read of client c is outstanding; thread t is about to post one.
Awaited(c)   == \E p \in DOMAIN io : p.key = c /\ p.kind = O!READ
Served(t, c) ==
  /\ client[t] = c
  /\ \/ pc[t] \in {"associate", "recv", "send", "remove"} \/ "recv" \in ToSet(ret[t])
     \/ pc[t] \in {"post", "release"} /\ call[t].type = O!READ

Placed == \A t \in Threads : Place(t)
Keyed  == \A p \in DOMAIN io : p.key \in realClients \cup {NoClient}
Heard  == \A c \in realClients : Awaited(c) \/ \E t \in Threads : Served(t, c)
Hears  == OP!Fresh /\ Placed /\ Keyed /\ Heard

\* What a step does to the thread that takes it, and to the others.
LEMMA Entered ==
  ASSUME Inv, NEW t \in Threads, NEW s, NEW next, NEW c, Enter(t, s, next, c)
  PROVE  /\ pc'[t] = s /\ ret'[t] = next
         /\ s \notin {"loop", "exited"} => client'[t] = c
         /\ \A u \in Threads \ {t} : pc'[u] = pc[u] /\ ret'[u] = ret[u] /\ client'[u] = client[u]
BY DEF Enter, Inv, Own, Types

\* Where a read waits in a stack.
LEMMA InStack ==
  /\ "recv" \notin ToSet(<<>>) /\ "recv" \notin ToSet(<<"loop">>) /\ "recv" \notin ToSet(<<"update">>)
  /\ "recv" \in ToSet(<<"recv", "loop">>)
<1>1. DOMAIN <<>> = {} /\ DOMAIN <<"loop">> = {1} /\ DOMAIN <<"update">> = {1}
      /\ DOMAIN <<"recv", "loop">> = {1, 2}
  OBVIOUS
<1>2. <<"loop">>[1] = "loop" /\ <<"update">>[1] = "update" /\ <<"recv", "loop">>[1] = "recv"
  OBVIOUS
<1> QED  BY <1>1, <1>2 DEF ToSet

LEMMA RealFinite ==
  ASSUME Inv
  PROVE  /\ IsFiniteSet(realClients) /\ Cardinality(realClients) \in Nat /\ realClients \subseteq Clients
         /\ accepts \in Nat /\ Coming \in {0, 1} /\ NoClient \notin realClients
<1>1. realClients \subseteq Clients /\ NoClient \notin Clients
  BY Constants0 DEF Inv, M!TypeOK
<1>2. IsFiniteSet(Clients)
  BY ServerAssumption, FS_Interval DEF M!ClientAssumption, Clients
<1> QED  BY <1>1, <1>2, FS_Subset, FS_CardinalityType, BoundAssumption DEF Inv, Own, Types, Coming

\* A client that was closed stays counted: a step that brings none to the map and none
\* on its way to it keeps what is left of the count, and closes one or leaves the map alone.
LEMMA CountLess ==
  ASSUME Inv, Inv', Counted, realClients' \subseteq realClients, accepts' = accepts,
         pc'[Acceptor] \in {"init", "add"} => pc[Acceptor] \in {"init", "add"},
         ui \in {"closeport", "stopped"} => ui' \in {"closeport", "stopped"}
  PROVE  Counted' /\ (Open' => Open /\ realClients' = realClients)
<1>1. /\ IsFiniteSet(realClients) /\ Cardinality(realClients) \in Nat /\ accepts \in Nat
      /\ Coming \in {0, 1}
  BY RealFinite
<1>2. /\ Cardinality(realClients') <= Cardinality(realClients) /\ Cardinality(realClients') \in Nat
      /\ Cardinality(realClients') = Cardinality(realClients) => realClients' = realClients
  BY <1>1, FS_Subset, FS_CardinalityType
<1>3. Coming' <= Coming /\ Coming' \in {0, 1}
  BY DEF Coming
<1>4. Cardinality(realClients') + Coming' <= accepts
  BY <1>1, <1>2, <1>3 DEF Counted
<1>5. ASSUME Open' PROVE Open /\ realClients' = realClients
  <2>1. Cardinality(realClients') + Coming' = accepts
    BY <1>5 DEF Open, NoneClosed, Coming
  <2>2. Cardinality(realClients') = Cardinality(realClients) /\ Coming' = Coming
    BY <1>1, <1>2, <1>3, <2>1 DEF Counted
  <2> QED  BY <1>2, <1>5, <2>1, <2>2 DEF Open, NoneClosed, Coming
<1> QED  BY <1>4, <1>5 DEF Counted

\* The same for a thread that goes from one step to another.
LEMMA CountEnter ==
  ASSUME Inv, Inv', Counted, NEW t \in Threads, NEW s, NEW next, NEW c, Enter(t, s, next, c),
         s \notin {"init", "add"}, realClients' \subseteq realClients, accepts' = accepts, ui' = ui
  PROVE  Counted' /\ (Open' => Open /\ realClients' = realClients)
<1>1. pc'[Acceptor] \in {"init", "add"} => pc[Acceptor] \in {"init", "add"}
  BY Entered, Constants0
<1> QED  BY <1>1, CountLess

\* Where the handlers and the workers go, and what they leave alone.
LEMMA HandlerEnters ==
  ASSUME Inv, NEW t \in Threads, Handler(t)
  PROVE  /\ \E s, next : Enter(t, s, next, client[t]) /\ s \notin {"init", "add"}
         /\ realClients' \subseteq realClients /\ accepts' = accepts /\ ui' = ui
<1> USE DEF uiVars, mgrVars, GoTo
<1>1. LegalStack(pc[t], ret[t])  BY Facts
<1>2. CASE FillRecv(t) \/ FillSend(t)
  BY <1>2 DEF FillRecv, FillSend, Fill
<1>3. CASE PostPends(t) \/ PostFails(t)
  BY <1>3 DEF PostPends, PostFails, CallCloseClient
<1>4. CASE InsertPending(t) \/ Notify(t)
  <2>1. Head(ret[t]) \notin {"init", "add"}
    BY <1>1, <1>4, Stacks DEF InsertPending, Notify, LegalStack
  <2> QED  BY <1>4, <2>1 DEF InsertPending, Notify, Return
<1>5. CASE RemoveRealClient(t)
  <2>1. Head(ret[t]) \notin {"init", "add"}
    BY <1>1, <1>5, Stacks DEF RemoveRealClient, LegalStack
  <2>2. realClients' \subseteq realClients
    BY <1>5 DEF RemoveRealClient, M!RemoveRealClient
  <2> QED  BY <1>5, <2>1, <2>2 DEF RemoveRealClient, Return
<1>6. CASE CloseSocket(t) \/ ReleaseRecv(t) \/ ReleaseSend(t)
  BY <1>6 DEF CloseSocket, ReleaseRecv, ReleaseSend, M!CloseSocket, M!ResetStatus
<1>7. CASE PushFreeClient(t)
  <2>1. Head(ret[t]) \notin {"init", "add"}
    BY <1>1, <1>7, Stacks DEF PushFreeClient, LegalStack
  <2> QED  BY <1>7, <2>1 DEF PushFreeClient, Return, M!PushFreeClient
<1> QED  BY <1>2, <1>3, <1>4, <1>5, <1>6, <1>7 DEF Handler

LEMMA WorkerEnters ==
  ASSUME Inv, NEW w \in Workers, WorkThread(w)
  PROVE  /\ \/ \E s, next, c : Enter(w, s, next, c) /\ s \notin {"init", "add"}
            \/ pc' = pc
         /\ realClients' = realClients /\ accepts' = accepts /\ ui' = ui
<1> USE DEF uiVars, mgrVars, GoTo
<1>1. ASSUME NEW p \in DOMAIN io, NEW r \in O!Results(p.kind), Dequeue(w, p, r)
      PROVE  \E s, next, c : Enter(w, s, next, c) /\ s \notin {"init", "add"}
  BY <1>1 DEF Dequeue
<1>2. ASSUME NEW p \in DOMAIN io, TakeKillThread(w, p)
      PROVE  \E s, next, c : Enter(w, s, next, c) /\ s \notin {"init", "add"}
  BY <1>2 DEF TakeKillThread
<1>3. CASE ReleaseOperData(w)
  <2>1. OperateNotify(w) => \E s, next, c : Enter(w, s, next, c) /\ s \notin {"init", "add"}
    BY DEF OperateNotify, CallCloseClient
  <2> QED  BY <1>3, <2>1 DEF ReleaseOperData
<1> QED  BY <1>1, <1>2, <1>3 DEF WorkThread, Dequeue, TakeKillThread, ReleaseOperData

\* As many connections were accepted as the map has or is about to have, or a client was
\* closed and some are missing for ever.
LEMMA CountStep ==
  ASSUME Inv, Inv', Counted, [Next]_vars
  PROVE  Counted' /\ (Open' => Open /\ realClients \subseteq realClients')
<1> USE DEF uiVars, mgrVars
<1>0. /\ IsFiniteSet(realClients) /\ Cardinality(realClients) \in Nat /\ accepts \in Nat
      /\ Coming \in {0, 1} /\ Acceptor \in Threads /\ Workers \subseteq Threads
  BY RealFinite, Constants0
<1>1. CASE AcceptLoop \/ AcceptTimeout \/ AcceptFails \/ Associate \/ Update
  <2>1. PICK s, next : Enter(Acceptor, s, next, client[Acceptor]) /\ s \notin {"init", "add"}
    BY <1>1 DEF AcceptLoop, AcceptTimeout, AcceptFails, Associate, Update, GoTo
  <2>2. realClients' = realClients /\ accepts' = accepts /\ ui' = ui
    BY <1>1 DEF AcceptLoop, AcceptTimeout, AcceptFails, Associate, Update
  <2> QED  BY <1>0, <2>1, <2>2, CountEnter
<1>2. ASSUME NEW s \in M!Handles, AcceptClient(s)
      PROVE  Counted' /\ (Open' => Open /\ realClients \subseteq realClients')
  <2>1. /\ pc[Acceptor] = "poll" /\ accepts' = accepts + 1 /\ ui' = ui /\ realClients' = realClients
        /\ Enter(Acceptor, "init", <<>>, mgr'[Acceptor].client)
    BY <1>2 DEF AcceptClient, M!AcceptClient
  <2>2. pc'[Acceptor] = "init"  BY <1>0, <2>1, Entered
  <2>3. Coming = 0 /\ Coming' = 1  BY <2>1, <2>2 DEF Coming
  <2> QED  BY <1>0, <2>1, <2>3 DEF Counted, Open, NoneClosed, Coming
<1>3. CASE InitClient
  <2>1. /\ pc[Acceptor] = "init" /\ accepts' = accepts /\ ui' = ui /\ realClients' = realClients
        /\ Enter(Acceptor, "add", <<>>, client[Acceptor])
    BY <1>3 DEF InitClient, M!InitClient, GoTo
  <2> QED  BY <2>1, CountLess
<1>4. CASE AddRealClient
  <2>1. /\ pc[Acceptor] = "add" /\ accepts' = accepts /\ ui' = ui /\ M!AddRealClient(Acceptor)
        /\ Enter(Acceptor, "associate", <<>>, client[Acceptor])
    BY <1>4 DEF AddRealClient, GoTo
  <2>2. pc'[Acceptor] = "associate"  BY <1>0, <2>1, Entered
  <2>3. PICK c : c = mgr[Acceptor].client /\ c \notin realClients /\ realClients' = realClients \cup {c}
    BY <1>0, <2>1 DEF Inv, M!StubOwnership, M!Exclusive, M!InHand, M!Busy, M!AddRealClient
  <2>4. Cardinality(realClients') = Cardinality(realClients) + 1
    BY <1>0, <2>3, FS_AddElement
  <2>5. Coming = 1 /\ Coming' = 0  BY <2>1, <2>2 DEF Coming
  <2> QED  BY <1>0, <2>1, <2>3, <2>4, <2>5 DEF Counted, Open, NoneClosed, Coming
<1>5. ASSUME NEW t \in Threads, Handler(t)
      PROVE  Counted' /\ (Open' => Open /\ realClients \subseteq realClients')
  BY <1>5, HandlerEnters, CountEnter
<1>6. ASSUME NEW w \in Workers, WorkThread(w)
      PROVE  Counted' /\ (Open' => Open /\ realClients \subseteq realClients')
  <2>1. w \in Threads /\ realClients' = realClients /\ accepts' = accepts /\ ui' = ui
    BY <1>0, <1>6, WorkerEnters
  <2>2. CASE pc' = pc  BY <2>1, <2>2, CountLess
  <2>3. CASE \E s, next, c : Enter(w, s, next, c) /\ s \notin {"init", "add"}
    BY <2>1, <2>3, CountEnter
  <2> QED  BY <1>6, <2>2, <2>3, WorkerEnters
<1>7. CASE StopClick \/ StopService \/ UNCHANGED vars
  <2>1. /\ realClients' \subseteq realClients /\ accepts' = accepts /\ pc' = pc
        /\ ui \in {"closeport", "stopped"} => ui' \in {"closeport", "stopped"}
    BY <1>7 DEF StopClick, StopService, JoinAccept, PostKillThread, JoinWorkers, CloseAllClient, ClosePort,
      M!CloseAllClient, vars
  <2> QED  BY <2>1, CountLess
<1> QED  BY <1>1, <1>2, <1>3, <1>4, <1>5, <1>6, <1>7 DEF Next, AcceptThread


\* The steps of the operations that close no client; those of the server are among them
\* as long as none is closed.
Operating ==
  \/ \E t \in Threads, c \in Clients, k \in O!Kinds : O!FillOper(t, c, k)
  \/ \E t \in Threads, c \in Clients : O!PostPends(t, c)
  \/ \E t \in Threads : O!PostFails(t) \/ O!InsertPending(t) \/ O!ReleaseOperData(t)
  \/ \E t \in Threads, p \in DOMAIN io :
       O!TakeKillThread(t, p) \/ \E r \in O!Results(p.kind) : O!Dequeue(t, p, r)
  \/ O!PostKillThread
  \/ UNCHANGED operVars

LEMMA FreshKept ==
  ASSUME Inv, OP!Fresh, Operating
  PROVE  OP!Fresh'
<1>1. OP!TypeOK /\ OP!Locals
  BY SameOperations DEF Inv
<1>2. UNCHANGED operVars => UNCHANGED OP!vars
  BY DEF operVars, OP!vars
<1>3. OP!NoneClosing
  BY <1>2, SameSteps, Zenon DEF Operating, OP!NoneClosing
<1> QED  BY <1>1, <1>3, Assumptions, OP!FreshStep

LEMMA OperatingStep ==
  ASSUME Inv, Placed, [Next]_vars, Open, Open'
  PROVE  Operating
<1>0. Acceptor \in Threads /\ Workers \subseteq Threads  BY Constants0
<1>1. CASE AcceptThread
  BY <1>1, Zenon DEF AcceptThread, AcceptLoop, AcceptTimeout, AcceptFails, AcceptClient, InitClient, AddRealClient,
    Associate, Update, Operating
<1>2. ASSUME NEW t \in Threads, Handler(t) PROVE Operating
  <2>1. CASE FillRecv(t) \/ FillSend(t)
    <3>1. pc[t] \in {"recv", "send"}  BY <2>1 DEF FillRecv, FillSend
    <3>2. client[t] \in Clients  BY <3>1, Facts
    <3>3. PICK k \in O!Kinds : O!FillOper(t, client[t], k)  BY <2>1 DEF FillRecv, FillSend, Fill, O!Kinds
    <3> QED  BY <3>2, <3>3, Zenon DEF Operating
  <2>2. CASE PostPends(t)  BY <2>2, Zenon DEF PostPends, Operating
  <2>3. CASE PostFails(t) \/ InsertPending(t)  BY <2>3, Zenon DEF PostFails, InsertPending, Operating
  <2>4. CASE RemoveRealClient(t) \/ Notify(t)  BY <2>4, Zenon DEF RemoveRealClient, Notify, Operating
  <2>5. pc[t] \notin {"close", "releaserecv", "releasesend", "push"}
    BY DEF Placed, Place, Serving
  <2> QED  BY <1>2, <2>1, <2>2, <2>3, <2>4, <2>5
    DEF Handler, CloseSocket, ReleaseRecv, ReleaseSend, PushFreeClient
<1>3. ASSUME NEW w \in Workers, WorkThread(w) PROVE Operating
  <2>1. w \in Threads  BY <1>0
  <2>2. \/ \E p \in DOMAIN io : \E r \in O!Results(p.kind) : O!Dequeue(w, p, r)
        \/ \E p \in DOMAIN io : O!TakeKillThread(w, p)
        \/ O!ReleaseOperData(w)
    BY <1>3, Zenon DEF WorkThread, Dequeue, TakeKillThread, ReleaseOperData
  <2> QED  BY <2>1, <2>2, Zenon DEF Operating
<1>4. CASE StopClick \/ StopService
  <2>1. ~CloseAllClient /\ ~ClosePort  BY DEF Open, CloseAllClient, ClosePort
  <2> QED  BY <1>4, <2>1, Zenon DEF StopClick, StopService, JoinAccept, PostKillThread, JoinWorkers, Operating
<1>5. CASE UNCHANGED vars
  BY <1>5 DEF vars, Operating
<1> QED  BY <1>1, <1>2, <1>3, <1>4, <1>5 DEF Next

\* What a step of thread t must keep: its own place, the clients of the map with their
\* sockets, and a read, outstanding or about to be posted, of each client.
LEMMA HearsOn ==
  ASSUME Inv, Hears, OP!Fresh', NEW t \in Threads, Place(t)',
         \A u \in Threads \ {t} :
           /\ pc'[u] = pc[u] /\ ret'[u] = ret[u] /\ client'[u] = client[u]
           /\ sock'[u] = sock[u] /\ mgr'[u] = mgr[u] /\ call'[u] = call[u],
         realClients \subseteq realClients',
         \A c \in realClients : socket'[c] = socket[c],
         \A p \in DOMAIN io' : p \in DOMAIN io \/ p.key \in realClients' \cup {NoClient},
         \A c \in realClients : Awaited(c) => (Awaited(c)' \/ Served(t, c)'),
         \A c \in realClients : Served(t, c) => (Served(t, c)' \/ Awaited(c)'),
         \A c \in realClients' \ realClients : Served(t, c)'
  PROVE  Hears'
<1>1. Placed'
  <2> SUFFICES ASSUME NEW u \in Threads PROVE Place(u)'
    BY DEF Placed
  <2>1. CASE u = t  BY <2>1
  <2>2. CASE u # t
    <3>1. /\ pc'[u] = pc[u] /\ client'[u] = client[u] /\ sock'[u] = sock[u] /\ mgr'[u] = mgr[u]
          /\ Place(u)
      BY <2>2 DEF Hears, Placed
    <3> QED  BY <3>1 DEF Place, Serving
  <2> QED  BY <2>1, <2>2
<1>2. Keyed'
  BY DEF Hears, Keyed
<1>3. Heard'
  <2> SUFFICES ASSUME NEW c \in realClients' PROVE Awaited(c)' \/ \E u \in Threads : Served(u, c)'
    BY DEF Heard
  <2>1. CASE c \notin realClients  BY <2>1
  <2>2. CASE c \in realClients
    <3>1. CASE Awaited(c)  BY <2>2, <3>1
    <3>2. ASSUME NEW u \in Threads, Served(u, c)
          PROVE  Awaited(c)' \/ \E v \in Threads : Served(v, c)'
      <4>1. CASE u = t  BY <2>2, <3>2, <4>1
      <4>2. CASE u # t
        <5>1. pc'[u] = pc[u] /\ ret'[u] = ret[u] /\ client'[u] = client[u] /\ call'[u] = call[u]
          BY <4>2
        <5>2. Served(u, c)'  BY <3>2, <5>1 DEF Served
        <5> QED  BY <5>2
      <4> QED  BY <4>1, <4>2
    <3> QED  BY <2>2, <3>1, <3>2 DEF Hears, Heard
  <2> QED  BY <2>1, <2>2
<1> QED  BY <1>1, <1>2, <1>3 DEF Hears

\* A thread that is about to post no read may go anywhere where it serves no client.
LEMMA Unserved ==
  ASSUME Inv, NEW t \in Threads, pc[t] \in {"loop", "poll", "init", "add", "update"}
  PROVE  \A c : ~Served(t, c)
<1>1. ret[t] = <<>>  BY Facts DEF LegalStack
<1> QED  BY <1>1, InStack DEF Served

LEMMA AcceptHears ==
  ASSUME Inv, Hears, OP!Fresh', AcceptThread
  PROVE  Hears'
<1> DEFINE t == Acceptor
<1>0. t \in Threads /\ DOMAIN mgr = Threads /\ DOMAIN sock = Threads /\ socket \in [Clients -> M!Handles]
      /\ realClients \subseteq Clients
  BY Facts, Constants0, RealFinite
<1>1. io' = io /\ call' = call
  BY DEF AcceptThread, AcceptLoop, AcceptTimeout, AcceptFails, AcceptClient, InitClient, AddRealClient,
    Associate, Update, operVars
<1>2. \A c : Awaited(c)' <=> Awaited(c)
  BY <1>1 DEF Awaited
<1>3. PICK s, next, c : Enter(t, s, next, c)
  BY DEF AcceptThread, AcceptLoop, AcceptTimeout, AcceptFails, AcceptClient, InitClient, AddRealClient,
    Associate, Update, GoTo
<1>4. \A u \in Threads \ {t} : pc'[u] = pc[u] /\ ret'[u] = ret[u] /\ client'[u] = client[u]
  BY <1>0, <1>3, Entered
<1>5. \A u \in Threads \ {t} : sock'[u] = sock[u] /\ mgr'[u] = mgr[u]
  BY <1>0 DEF AcceptThread, AcceptLoop, AcceptTimeout, AcceptFails, AcceptClient, InitClient, AddRealClient,
    Associate, Update, mgrVars, M!AcceptClient, M!InitClient, M!GoTo, M!AddRealClient
<1> HIDE DEF t
<1>6. CASE AcceptLoop \/ AcceptTimeout \/ AcceptFails \/ Update
  <2>1. /\ pc[t] \in {"loop", "poll", "update"} /\ realClients' = realClients /\ socket' = socket
        /\ pc'[t] \in {"loop", "poll", "exited"}
    <3>1. PICK s1 \in {"loop", "poll", "exited"} : Enter(t, s1, <<>>, client[t])
      BY <1>6 DEF AcceptLoop, AcceptTimeout, AcceptFails, Update, GoTo, t
    <3> QED  BY <1>0, <1>6, <3>1, Entered DEF AcceptLoop, AcceptTimeout, AcceptFails, Update, mgrVars, t
  <2>2. Place(t)'  BY <2>1 DEF Place, Serving
  <2>3. \A d : ~Served(t, d)  BY <1>0, <2>1, Unserved
  <2> QED  BY <1>0, <1>1, <1>2, <1>4, <1>5, <2>1, <2>2, <2>3, HearsOn
<1>7. ASSUME NEW x \in M!Handles, AcceptClient(x) PROVE Hears'
  <2>1. /\ pc[t] = "poll" /\ realClients' = realClients /\ socket' = socket
        /\ pc'[t] = "init" /\ client'[t] = mgr'[t].client
    <3>1. Enter(t, "init", <<>>, mgr'[t].client)  BY <1>7 DEF AcceptClient, t
    <3>2. pc'[t] = "init" /\ client'[t] = mgr'[t].client
      BY <1>0, <3>1 DEF Enter, Inv, Own, Types
    <3> QED  BY <1>7, <3>2 DEF AcceptClient, M!AcceptClient, t
  <2>2. Place(t)'  BY <2>1 DEF Place, Serving
  <2>3. \A d : ~Served(t, d)  BY <1>0, <2>1, Unserved
  <2> QED  BY <1>0, <1>1, <1>2, <1>4, <1>5, <2>1, <2>2, <2>3, HearsOn
<1>8. CASE InitClient
  <2>1. /\ pc[t] = "init" /\ realClients' = realClients /\ M!InitClient(t)
        /\ pc'[t] = "add" /\ client'[t] = client[t]
    <3>1. Enter(t, "add", <<>>, client[t])  BY <1>8 DEF InitClient, GoTo, t
    <3> QED  BY <1>0, <1>8, <3>1, Entered DEF InitClient, M!InitClient, t
  <2>2. mgr[t].client = client[t] /\ mgr'[t].client = mgr[t].client
    <3>1. Place(t)  BY <1>0 DEF Hears, Placed
    <3>2. mgr'[t].client = mgr[t].client
      BY <1>0, <2>1 DEF M!InitClient, M!GoTo, Inv, M!TypeOK, M!Idle
    <3> QED  BY <2>1, <3>1, <3>2 DEF Place
  <2>3. Place(t)'  BY <2>1, <2>2 DEF Place, Serving
  <2>4. \A d : ~Served(t, d)  BY <1>0, <2>1, Unserved
  <2>5. \A d \in realClients : socket'[d] = socket[d]
    <3>1. mgr[t].client \notin realClients
      BY <1>0, <2>1 DEF M!InitClient, Inv, M!StubOwnership, M!Exclusive, M!InHand, M!Busy
    <3> QED  BY <1>0, <2>1, <3>1 DEF M!InitClient
  <2> QED  BY <1>0, <1>1, <1>2, <1>4, <1>5, <2>1, <2>3, <2>4, <2>5, HearsOn
<1>9. CASE AddRealClient
  <2>1. /\ pc[t] = "add" /\ realClients' = realClients \cup {mgr[t].client} /\ socket' = socket
        /\ pc'[t] = "associate" /\ client'[t] = client[t]
    <3>1. Enter(t, "associate", <<>>, client[t])  BY <1>9 DEF AddRealClient, GoTo, t
    <3> QED  BY <1>0, <1>9, <3>1, Entered DEF AddRealClient, M!AddRealClient, t
  <2>2. mgr[t].client = client[t]
    <3>1. Place(t)  BY <1>0 DEF Hears, Placed
    <3> QED  BY <2>1, <3>1 DEF Place
  <2>3. Place(t)'  BY <2>1, <2>2 DEF Place, Serving
  <2>4. \A d : ~Served(t, d)  BY <1>0, <2>1, Unserved
  <2>5. \A d \in realClients' \ realClients : Served(t, d)'  BY <2>1, <2>2 DEF Served
  <2> QED  BY <1>0, <1>1, <1>2, <1>4, <1>5, <2>1, <2>3, <2>4, <2>5, HearsOn
<1>10. CASE Associate
  <2>1. /\ pc[t] = "associate" /\ realClients' = realClients /\ socket' = socket
        /\ pc'[t] \in {"recv", "remove"} /\ client'[t] = client[t]
    <3>1. PICK s1, n1 : s1 \in {"recv", "remove"} /\ Enter(t, s1, n1, client[t])
      BY <1>10 DEF Associate, GoTo, t
    <3> QED  BY <1>0, <1>10, <3>1, Entered DEF Associate, mgrVars, t
  <2>2. Place(t)'
    <3>1. Place(t)  BY <1>0 DEF Hears, Placed
    <3> QED  BY <2>1, <3>1 DEF Place, Serving
  <2>3. \A d : Served(t, d) => Served(t, d)'  BY <2>1 DEF Served
  <2> QED  BY <1>0, <1>1, <1>2, <1>4, <1>5, <2>1, <2>2, <2>3, HearsOn
<1> QED  BY <1>6, <1>7, <1>8, <1>9, <1>10 DEF AcceptThread

\* The packets after one is added and after one is taken away.
LEMMA PacketAdded ==
  ASSUME NEW p, io' = O!(+)(io, O!SetToBag({p}))
  PROVE  DOMAIN io' = DOMAIN io \cup {p}
BY DEF O!(+), O!SetToBag

LEMMA PacketTaken ==
  ASSUME OP!Fresh, NEW p \in DOMAIN io, io' = O!(-)(io, O!SetToBag({p}))
  PROVE  DOMAIN io' = DOMAIN io \ {p}
<1>1. \A q \in DOMAIN io : io[q] = 1  BY DEF OP!Fresh, OP!PacketsTrue
<1>2. io' = OP!(-)(io, OP!SetToBag({p}))  BY SameBags
<1> QED  BY <1>1, <1>2, Assumptions, OP!PacketGone, Zenon

\* A handler goes on with its client, and a read it has not posted yet is still ahead of it.
LEMMA HandlerHears ==
  ASSUME Inv, Hears, OP!Fresh', M!SocketOwnership, NEW t \in Threads, Handler(t),
         realClients \subseteq realClients'
  PROVE  Hears'
<1>0. /\ DOMAIN call = Threads /\ DOMAIN sock = Threads /\ realClients \subseteq Clients
      /\ NoClient \notin realClients /\ Place(t) /\ Types
  BY Facts, RealFinite DEF Hears, Placed, Inv, Own, Types
<1>1. pc[t] \in Serving => client[t] \in realClients
  BY <1>0 DEF Place
<1>2. CASE FillRecv(t) \/ FillSend(t)
  <2>1. PICK k, next :
          /\ k \in O!Kinds /\ Fill(t, k) /\ GoTo(t, "post", next)
          /\ \/ pc[t] = "recv" /\ k = O!READ
             \/ pc[t] = "send" /\ next = AfterSend \o ret[t]
    BY <1>2, Zenon DEF FillRecv, FillSend, O!Kinds
  <2>2. /\ pc'[t] = "post" /\ ret'[t] = next /\ client'[t] = client[t]
        /\ \A u \in Threads \ {t} : pc'[u] = pc[u] /\ ret'[u] = ret[u] /\ client'[u] = client[u]
    <3>1. Enter(t, "post", next, client[t])  BY <2>1 DEF GoTo
    <3> QED  BY <3>1, Entered
  <2>3. PICK o \in O!Opers :
          call' = [call EXCEPT ![t] = [O!Idle EXCEPT !.at = "filled", !.oper = o,
                                                     !.client = client[t], !.type = k]]
    <3>1. O!FillOper(t, client[t], k)  BY <2>1 DEF Fill
    <3> QED  BY <3>1, Zenon DEF O!FillOper
  <2>4. call'[t].type = k /\ \A u \in Threads \ {t} : call'[u] = call[u]
    BY <1>0, <2>3 DEF O!Idle
  <2>5. /\ io' = io /\ realClients' = realClients /\ socket' = socket /\ mgr' = mgr
        /\ sock'[t] = socket[client[t]] /\ \A u \in Threads \ {t} : sock'[u] = sock[u]
    <3>1. io' = io /\ UNCHANGED mgrVars  BY <2>1 DEF Fill, O!FillOper
    <3>2. sock' = [sock EXCEPT ![t] = socket[client[t]]]  BY <2>1 DEF Fill
    <3> QED  BY <1>0, <3>1, <3>2 DEF mgrVars
  <2>6. pc[t] \in Serving  BY <2>1 DEF Serving
  <2>7. Place(t)'  BY <1>1, <2>2, <2>5, <2>6 DEF Place, Serving
  <2>8. "recv" \in ToSet(ret'[t]) \/ k = O!READ
    <3>1. CASE pc[t] = "send" /\ next = AfterSend \o ret[t]
      <4>1. ret[t] = <<"loop">>  BY <3>1, Facts DEF LegalStack
      <4>2. <<"recv">> \o <<"loop">> = <<"recv", "loop">>
        <5>1. "recv" \in Steps /\ "loop" \in Steps  BY DEF Steps
        <5> QED  BY <5>1, Pushed
      <4> QED  BY <2>2, <3>1, <4>1, <4>2, InStack DEF AfterSend
    <3> QED  BY <2>1, <3>1
  <2>9. \A d : Served(t, d) => Served(t, d)'
    BY <2>2, <2>4, <2>8 DEF Served
  <2>10. \A d : Awaited(d) => Awaited(d)'
    BY <2>5 DEF Awaited
  <2> QED  BY <2>2, <2>4, <2>5, <2>7, <2>9, <2>10, HearsOn
<1>3. CASE PostPends(t)
  <2>1. PICK c \in Clients : M!Holds(c, sock[t]) /\ O!PostPends(t, c)
    BY <1>3 DEF PostPends
  <2>2. PICK p : p = [oper |-> call[t].oper, key |-> c, kind |-> call[t].type]
    OBVIOUS
  <2>3. p.key = c /\ p.kind = call[t].type /\ io' = O!(+)(io, O!SetToBag({p}))
    BY <2>1, <2>2 DEF O!PostPends
  <2>4. DOMAIN io' = DOMAIN io \cup {p}  BY <2>3, PacketAdded
  <2>5. /\ pc[t] = "post" /\ pc'[t] = "insert" /\ ret'[t] = ret[t] /\ client'[t] = client[t]
        /\ \A u \in Threads \ {t} : pc'[u] = pc[u] /\ ret'[u] = ret[u] /\ client'[u] = client[u]
    <3>1. Enter(t, "insert", ret[t], client[t])  BY <1>3 DEF PostPends, GoTo
    <3> QED  BY <1>3, <3>1, Entered DEF PostPends
  <2>6. /\ realClients' = realClients /\ socket' = socket /\ mgr' = mgr
        /\ \A u \in Threads \ {t} : sock'[u] = sock[u] /\ call'[u] = call[u]
    BY <1>0, <1>3, <2>1 DEF PostPends, O!PostPends, mgrVars
  <2>7. client[t] \in realClients /\ sock[t] = socket[client[t]]
    BY <1>0, <2>5 DEF Place, Serving
  <2>8. c = client[t]
    <3>1. sock[t] \in Sockets  BY <1>3 DEF PostPends, Inv, M!TypeOK
    <3>2. M!Holds(client[t], sock[t]) /\ client[t] \in M!Clients /\ c \in M!Clients
      BY <1>0, <2>7, Constants0 DEF M!Holds
    <3> QED  BY <2>1, <3>1, <3>2 DEF M!SocketOwnership
  <2>9. Place(t)'  BY <2>5, <2>6, <2>7 DEF Place, Serving
  <2>10. \A d \in realClients : Awaited(d) => Awaited(d)'
    BY <2>4 DEF Awaited
  <2>11. \A d \in realClients : Served(t, d) => (Served(t, d)' \/ Awaited(d)')
    <3> SUFFICES ASSUME NEW d \in realClients, Served(t, d) PROVE Served(t, d)' \/ Awaited(d)'
      OBVIOUS
    <3>1. d = client[t] /\ ("recv" \in ToSet(ret[t]) \/ call[t].type = O!READ)
      BY <2>5 DEF Served
    <3>2. CASE "recv" \in ToSet(ret[t])  BY <2>5, <3>1, <3>2 DEF Served
    <3>3. CASE call[t].type = O!READ
      <4>1. p \in DOMAIN io' /\ p.key = d /\ p.kind = O!READ
        BY <2>3, <2>4, <2>8, <3>1, <3>3
      <4> QED  BY <4>1 DEF Awaited
    <3> QED  BY <3>1, <3>2, <3>3
  <2>12. \A q \in DOMAIN io' : q \in DOMAIN io \/ q.key \in realClients' \cup {NoClient}
    BY <2>3, <2>4, <2>6, <2>7, <2>8
  <2> QED  BY <2>5, <2>6, <2>9, <2>10, <2>11, <2>12, HearsOn
<1>4. CASE PostFails(t)
  <2>1. /\ pc[t] = "post" /\ pc'[t] = "remove" /\ client'[t] = client[t]
        /\ \A u \in Threads \ {t} : pc'[u] = pc[u] /\ ret'[u] = ret[u] /\ client'[u] = client[u]
    <3>1. Enter(t, "remove", <<"notify">> \o ret[t], client[t])
      BY <1>4 DEF PostFails, CallCloseClient, GoTo
    <3> QED  BY <1>4, <3>1, Entered DEF PostFails
  <2>2. /\ realClients' = realClients /\ socket' = socket /\ mgr' = mgr /\ io' = io
        /\ \A u \in Threads \ {t} : sock'[u] = sock[u] /\ call'[u] = call[u]
    BY <1>0, <1>4 DEF PostFails, O!PostFails, mgrVars
  <2>3. Place(t)'  BY <1>1, <2>1, <2>2 DEF Place, Serving
  <2>4. \A d \in realClients : /\ Awaited(d) => Awaited(d)'
                               /\ Served(t, d) => Served(t, d)'
    BY <2>1, <2>2 DEF Served, Awaited
  <2> QED  BY <2>1, <2>2, <2>3, <2>4, HearsOn
<1>5. CASE InsertPending(t)
  <2>1. pc[t] = "insert" /\ ret[t] \in Bases /\ client[t] \in realClients
    BY <1>1, <1>5, Facts DEF InsertPending, LegalStack, Serving
  <2>2. PICK s, next : s = Head(ret[t]) /\ next = Tail(ret[t])
    OBVIOUS
  <2>3. s \in {"loop", "update", "recv"} /\ (s # "recv" => "recv" \notin ToSet(ret[t]))
    <3>1. /\ Head(<<"loop">>) = "loop" /\ Head(<<"update">>) = "update"
          /\ Head(<<"recv", "loop">>) = "recv"
      OBVIOUS
    <3> QED  BY <2>1, <2>2, <3>1, InStack, Zenon DEF Bases
  <2>4. /\ pc'[t] = s /\ (s # "loop" => client'[t] = client[t])
        /\ \A u \in Threads \ {t} : pc'[u] = pc[u] /\ ret'[u] = ret[u] /\ client'[u] = client[u]
    <3>1. Enter(t, s, next, client[t])
      BY <1>5, <2>2 DEF InsertPending, Return, GoTo
    <3> QED  BY <2>3, <3>1, Entered
  <2>5. /\ realClients' = realClients /\ socket' = socket /\ mgr' = mgr /\ io' = io /\ sock' = sock
        /\ \A u \in Threads \ {t} : call'[u] = call[u]
    BY <1>0, <1>5 DEF InsertPending, O!InsertPending, mgrVars
  <2>6. Place(t)'  BY <2>1, <2>3, <2>4, <2>5 DEF Place, Serving
  <2>7. \A d \in realClients : /\ Awaited(d) => Awaited(d)'
                               /\ Served(t, d) => Served(t, d)'
    BY <2>1, <2>3, <2>4, <2>5 DEF Served, Awaited
  <2> QED  BY <2>4, <2>5, <2>6, <2>7, HearsOn
<1>6. CASE RemoveRealClient(t)
  <2>1. pc[t] = "remove" /\ (client[t] \in realClients => realClients' = realClients \ {client[t]})
    BY <1>6 DEF RemoveRealClient, M!RemoveRealClient, M!Erased
  <2> QED  BY <1>1, <2>1 DEF Serving
<1>7. CASE CloseSocket(t) \/ ReleaseRecv(t) \/ ReleaseSend(t) \/ PushFreeClient(t) \/ Notify(t)
  BY <1>0, <1>7 DEF CloseSocket, ReleaseRecv, ReleaseSend, PushFreeClient, Notify, Place, Serving
<1> QED  BY <1>2, <1>3, <1>4, <1>5, <1>6, <1>7 DEF Handler

\* A worker that takes the packet of a read knows it for one, and so serves its client
\* until it has posted the next read.
LEMMA DequeueHears ==
  ASSUME Inv, Hears, OP!Fresh', NEW w \in Workers, NEW p \in DOMAIN io, NEW r \in O!Results(p.kind),
         Dequeue(w, p, r)
  PROVE  Hears'
<1>0. w \in Threads /\ DOMAIN call = Threads /\ NoClient \notin realClients /\ pc[w] = "loop"
  BY Facts, RealFinite, Constants0 DEF Dequeue
<1>1. O!Dequeue(w, p, r) /\ p.key # NoClient  BY DEF Dequeue, O!Dequeue
<1>2. p.key \in realClients  BY <1>1 DEF Hears, Keyed
<1>3. operType[p.oper] = p.kind /\ p.kind \in O!Kinds /\ p.kind # O!KILLTHREAD /\ p.kind # O!RELEASED
  <2>1. operType[p.oper] = p.kind /\ p.kind \in OP!Kinds
    BY <1>1 DEF Hears, OP!Fresh, OP!PacketsTrue
  <2> QED  BY <2>1, SameSteps DEF O!Kinds, O!READ, O!WRITE, O!KILLTHREAD, O!RELEASED
<1>4. PICK x : /\ x = [at |-> "done", oper |-> p.oper, client |-> p.key, type |-> p.kind,
                        ok |-> r.ok, data |-> r.data]
               /\ call' = [call EXCEPT ![w] = x]
  BY <1>1, <1>3 DEF O!Dequeue
<1>5. /\ call'[w].at = "done" /\ call'[w].type = p.kind
      /\ \A u \in Threads \ {w} : call'[u] = call[u]
  BY <1>0, <1>4
<1>6. /\ pc'[w] = "release" /\ client'[w] = p.key
      /\ \A u \in Threads \ {w} : pc'[u] = pc[u] /\ ret'[u] = ret[u] /\ client'[u] = client[u]
  <2>1. Enter(w, "release", <<>>, p.key)  BY <1>5 DEF Dequeue
  <2> QED  BY <1>0, <2>1, Entered
<1>7. /\ realClients' = realClients /\ socket' = socket /\ mgr' = mgr /\ sock' = sock
      /\ io' = O!(-)(io, O!SetToBag({p}))
  BY <1>1 DEF Dequeue, O!Dequeue, mgrVars
<1>8. DOMAIN io' = DOMAIN io \ {p}  BY <1>7, PacketTaken DEF Hears
<1>9. Place(w)'  BY <1>2, <1>6, <1>7 DEF Place, Serving
<1>10. \A d : ~Served(w, d)  BY <1>0, Unserved
<1>11. \A d \in realClients : Awaited(d) => (Awaited(d)' \/ Served(w, d)')
  <2> SUFFICES ASSUME NEW d \in realClients, NEW q \in DOMAIN io, q.key = d, q.kind = O!READ
               PROVE  Awaited(d)' \/ Served(w, d)'
    BY DEF Awaited
  <2>1. CASE q = p  BY <1>5, <1>6, <2>1 DEF Served
  <2>2. CASE q # p  BY <1>8, <2>2 DEF Awaited
  <2> QED  BY <2>1, <2>2
<1> QED  BY <1>0, <1>5, <1>6, <1>7, <1>8, <1>9, <1>10, <1>11, HearsOn

LEMMA TakeKillHears ==
  ASSUME Inv, Hears, OP!Fresh', NEW w \in Workers, NEW p \in DOMAIN io, TakeKillThread(w, p)
  PROVE  Hears'
<1>0. w \in Threads /\ DOMAIN call = Threads /\ NoClient \notin realClients /\ pc[w] = "loop"
  BY Facts, RealFinite, Constants0 DEF TakeKillThread
<1>1. O!TakeKillThread(w, p) /\ p.key = NoClient  BY DEF TakeKillThread, O!TakeKillThread
<1>2. /\ pc'[w] \in {"loop", "exited"}
      /\ \A u \in Threads \ {w} : pc'[u] = pc[u] /\ ret'[u] = ret[u] /\ client'[u] = client[u]
  <2>1. PICK s \in {"loop", "exited"} : Enter(w, s, <<>>, client[w])  BY DEF TakeKillThread, GoTo
  <2> QED  BY <1>0, <2>1, Entered
<1>3. \A u \in Threads \ {w} : call'[u] = call[u]
  BY <1>0, <1>1 DEF O!TakeKillThread
<1>4. /\ realClients' = realClients /\ socket' = socket /\ mgr' = mgr /\ sock' = sock
      /\ io' = O!(-)(io, O!SetToBag({p}))
  BY <1>1 DEF TakeKillThread, O!TakeKillThread, mgrVars
<1>5. DOMAIN io' = DOMAIN io \ {p}  BY <1>4, PacketTaken DEF Hears
<1>6. Place(w)'  BY <1>2 DEF Place, Serving
<1>7. \A d : ~Served(w, d)  BY <1>0, Unserved
<1>8. \A d \in realClients : Awaited(d) => Awaited(d)'
  BY <1>0, <1>1, <1>5 DEF Awaited
<1> QED  BY <1>0, <1>2, <1>3, <1>4, <1>5, <1>6, <1>7, <1>8, HearsOn

\* The end of ReleaseOperData is the beginning of OperateNotify: a read is answered with a
\* send, which is followed by a read, or its client is closed.
LEMMA ReleaseHears ==
  ASSUME Inv, Hears, OP!Fresh', NEW w \in Workers, ReleaseOperData(w)
  PROVE  Hears'
<1>0. w \in Threads /\ DOMAIN call = Threads /\ pc[w] = "release" /\ ret[w] = <<>> /\ Types
  BY Facts, Constants0 DEF ReleaseOperData, LegalStack, Inv, Own
<1>1. client[w] \in realClients  BY <1>0 DEF Hears, Placed, Place, Serving
<1>2. /\ realClients' = realClients /\ socket' = socket /\ mgr' = mgr /\ sock' = sock
  BY DEF ReleaseOperData, mgrVars
<1>3. /\ io' = io /\ \A u \in Threads \ {w} : call'[u] = call[u]
      /\ call'[w].at # "idle" => call'[w].type = call[w].type
  <2>0. \A x : [call[w] EXCEPT !.at = x].type = call[w].type
    BY <1>0 DEF Inv, O!TypeOK
  <2>1. CASE \E x : call' = [call EXCEPT ![w].at = x] /\ io' = io
    BY <1>0, <2>0, <2>1
  <2>2. CASE call' = [call EXCEPT ![w] = O!Idle] /\ io' = io
    BY <1>0, <2>2 DEF O!Idle
  <2>3. \/ \E x : call' = [call EXCEPT ![w].at = x] /\ io' = io
        \/ call' = [call EXCEPT ![w] = O!Idle] /\ io' = io
    BY Zenon DEF ReleaseOperData, O!ReleaseOperData, O!MarkOper, O!EraseOper, O!FindOper
  <2> QED  BY <2>1, <2>2, <2>3
<1>4. \A d : Served(w, d) => (d = client[w] /\ call[w].type = O!READ)
  BY <1>0, InStack DEF Served
<1>5. \A d \in realClients : Awaited(d) => Awaited(d)'
  BY <1>3 DEF Awaited
<1>6. CASE call'[w].at = "idle"
  <2>1. OperateNotify(w)  BY <1>6 DEF ReleaseOperData
  <2>2. PICK s, next :
          s \in {"remove", "send", "loop"} /\ Enter(w, s, next, client[w]) /\ (call[w].type = O!READ => s # "loop")
    <3>1. CASE CallCloseClient(w, <<"loop">>)
      BY <3>1 DEF CallCloseClient, GoTo
    <3>2. CASE GoTo(w, "send", <<"loop">>)
      BY <3>2 DEF GoTo
    <3>3. CASE GoTo(w, "loop", <<>>) /\ ~CallCloseClient(w, <<"loop">>) /\ ~GoTo(w, "send", <<"loop">>)
      <4>1. call[w].type # O!READ
        BY <2>1, <3>3 DEF OperateNotify, O!Kinds
      <4> QED  BY <3>3, <4>1 DEF GoTo
    <3> QED  BY <2>1, <3>1, <3>2, <3>3 DEF OperateNotify
  <2>3. /\ pc'[w] = s /\ (s # "loop" => client'[w] = client[w])
        /\ \A u \in Threads \ {w} : pc'[u] = pc[u] /\ ret'[u] = ret[u] /\ client'[u] = client[u]
    BY <1>0, <2>2, Entered
  <2>4. Place(w)'  BY <1>1, <1>2, <2>2, <2>3 DEF Place, Serving
  <2>5. \A d : Served(w, d) => Served(w, d)'
    BY <1>4, <2>2, <2>3 DEF Served
  <2> QED  BY <1>0, <1>2, <1>3, <1>5, <2>3, <2>4, <2>5, HearsOn
<1>7. CASE call'[w].at # "idle"
  <2>1. UNCHANGED <<pc, ret, client>>  BY <1>7 DEF ReleaseOperData
  <2>2. Place(w)'  BY <1>0, <1>1, <1>2, <2>1 DEF Place, Serving
  <2>3. \A d : Served(w, d) => Served(w, d)'
    BY <1>0, <1>3, <1>4, <1>7, <2>1 DEF Served
  <2> QED  BY <1>0, <1>2, <1>3, <1>5, <2>1, <2>2, <2>3, HearsOn
<1> QED  BY <1>6, <1>7

\* The dialog's thread adds exit messages, which are no client's.
LEMMA StopHears ==
  ASSUME Inv, Hears, OP!Fresh', Open, Open', StopClick \/ StopService \/ UNCHANGED vars
  PROVE  Hears'
<1>0. Acceptor \in Threads /\ Place(Acceptor)  BY Constants0 DEF Hears, Placed
<1>1. ~CloseAllClient /\ ~ClosePort  BY DEF Open, CloseAllClient, ClosePort
<1>2. UNCHANGED <<realClients, socket, mgr, pc, ret, client, sock, call>>
  BY <1>1 DEF StopClick, StopService, JoinAccept, JoinWorkers, PostKillThread, O!PostKillThread,
    mgrVars, operVars, vars
<1>3. io' = io \/ \E p : p.key = NoClient /\ io' = O!(+)(io, O!SetToBag({p}))
  <2>1. CASE PostKillThread
    <3>1. PICK o : io' = O!(+)(io, O!SetToBag({[oper |-> o, key |-> NoClient, kind |-> O!KILLTHREAD]}))
      BY <2>1 DEF PostKillThread, O!PostKillThread
    <3>2. [oper |-> o, key |-> NoClient, kind |-> O!KILLTHREAD].key = NoClient
      OBVIOUS
    <3> QED  BY <3>1, <3>2
  <2> QED  BY <1>1, <2>1 DEF StopClick, StopService, JoinAccept, JoinWorkers, operVars, vars
<1>4. DOMAIN io \subseteq DOMAIN io' /\ \A q \in DOMAIN io' : q \in DOMAIN io \/ q.key = NoClient
  BY <1>3, PacketAdded
<1>5. Place(Acceptor)'  BY <1>0, <1>2 DEF Place, Serving
<1>6. \A d \in realClients : /\ Awaited(d) => Awaited(d)'
                             /\ Served(Acceptor, d) => Served(Acceptor, d)'
  BY <1>2, <1>4 DEF Awaited, Served
<1> QED  BY <1>0, <1>2, <1>4, <1>5, <1>6, HearsOn

LEMMA HearsStep ==
  ASSUME Inv, Hears, M!SocketOwnership, [Next]_vars, Open, Open', realClients \subseteq realClients'
  PROVE  Hears'
<1>1. OP!Fresh'
  BY OperatingStep, FreshKept DEF Hears
<1>2. CASE \E w \in Workers : WorkThread(w)
  BY <1>1, <1>2, DequeueHears, TakeKillHears, ReleaseHears DEF WorkThread
<1> QED  BY <1>1, <1>2, AcceptHears, HandlerHears, StopHears DEF Next

LEMMA HearsInit == Init => Counted /\ Hears
<1> SUFFICES ASSUME Init PROVE Counted /\ Hears
  OBVIOUS
<1>0. Acceptor \in Threads  BY Constants0
<1>1. M!Init /\ O!Init  BY DEF Init
<1>2. realClients = {} /\ accepts = 0 /\ \A t \in Threads : pc[t] = "loop"
  BY <1>1 DEF Init, M!Init
<1>3. Counted  BY <1>0, <1>2, FS_EmptySet DEF Counted, Coming
<1>4. OP!Fresh  BY <1>1, SameOperations, Assumptions, OP!FreshInit
<1>5. DOMAIN io = {}  BY <1>1 DEF O!Init, O!EmptyBag, O!SetToBag
<1>6. Placed /\ Keyed /\ Heard  BY <1>2, <1>5 DEF Placed, Place, Serving, Keyed, Heard
<1> QED  BY <1>3, <1>4, <1>6 DEF Hears

\* Until the first client is closed every connection has a read outstanding that a worker
\* will recognise, or a thread that is about to post one (TestIOCPServerDlg.cpp's handlers
\* and TcpIOCPServerImp.cpp's worker threads).
THEOREM NeverDeaf == Spec => []NoneDeaf
<1>1. Init => MP!Init  BY SameManager DEF Init
<1>2. Inv /\ [Next]_vars => [MP!Next]_(MP!vars)  BY EveryStep, SameManager DEF Kept
<1>3. Spec => MP!Spec  BY Invariant, <1>1, <1>2, PTL DEF Spec, MP!Spec
<1>4. MP!Spec => []MP!SocketOwnership  BY Assumptions, MP!SocketsOwned
<1>5. Init => Counted /\ (Open => Hears)  BY HearsInit
<1>6. ASSUME Inv, Inv', MP!SocketOwnership, Counted, Open => Hears, [Next]_vars
      PROVE  Counted' /\ (Open => Hears)'
  <2>1. Counted' /\ (Open' => Open /\ realClients \subseteq realClients')
    BY <1>6, CountStep
  <2>2. M!SocketOwnership  BY <1>6, SameManager
  <2>3. Open' => Hears'
    BY <1>6, <2>1, <2>2, HearsStep
  <2> QED  BY <2>1, <2>3
<1>7. ASSUME Inv, Open => Hears PROVE NoneDeaf
  <2> SUFFICES ASSUME NoneClosed, NEW c \in realClients
               PROVE  \/ \E p \in DOMAIN io : p.key = c /\ p.kind = O!READ /\ operType[p.oper] = O!READ
                      \/ \E t \in Threads : Served(t, c)
    BY DEF NoneDeaf, Served
  <2>1. ui \notin {"closeport", "stopped"}  BY <1>7 DEF Inv, Own, Stopping
  <2>2. Hears  BY <1>7, <2>1 DEF Open
  <2>3. \A p \in DOMAIN io : operType[p.oper] = p.kind
    BY <2>2 DEF Hears, OP!Fresh, OP!PacketsTrue
  <2> QED  BY <2>2, <2>3 DEF Hears, Heard, Awaited
<1>8. Inv /\ Inv' /\ MP!SocketOwnership /\ Counted /\ (Open => Hears) /\ [Next]_vars
        => Counted' /\ (Open => Hears)'
  BY <1>6
<1>9. Inv /\ (Open => Hears) => NoneDeaf
  BY <1>7
<1> QED  BY Invariant, <1>3, <1>4, <1>5, <1>8, <1>9, PTL DEF Spec
=============================================================================
