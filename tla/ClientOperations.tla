------------------------- MODULE ClientOperations --------------------------
(***************************************************************************)
(* The asynchronous operations of TestIOCPServer: the pool of IO_OPER_DATA *)
(* nodes (CTcpIOCPTool, CommParam.cpp), the two lists of operations that   *)
(* every client stub keeps (RecvData, SendData, ReleaseOperData and        *)
(* CloseClient of TcpIOCPClientStub.cpp), the completion port that gives   *)
(* the nodes back to the worker threads, and the worker's treatment of the *)
(* packet it dequeues (TcpIOCPServerImp.cpp).                              *)
(*                                                                         *)
(* A node is posted BEFORE it is entered in its stub's list, and           *)
(* CloseClient returns the nodes of the lists to the pool although the     *)
(* system still owns them; so packets complete late, for stubs and nodes   *)
(* that serve another purpose by then.  One action is one critical section *)
(* or one system call; call[t] says between which two of them thread t is. *)
(***************************************************************************)
EXTENDS Integers, Sequences, FiniteSets, SequencesExt

CONSTANTS
  Threads,    (* the threads that post operations and dequeue packets      *)
  Workers,    (* those that StopService ends, m_nThreadNums of them        *)
  Clients,    (* the client stubs                                          *)
  NoClient,   (* the NULL completion key                                   *)
  MaxOpers,   (* BOUND on the nodes ever allocated                         *)
  InitOpers,  (* the argument of InitObj: 1000 in the code                 *)
  OperBlock,  (* nodes allocated at once when none is free: 1000           *)
  MaxPackets  (* BOUND on the operations outstanding in the system         *)

ASSUME ThreadAssumption == Workers \subseteq Threads /\ IsFiniteSet(Workers)

ASSUME ClientSetAssumption == NoClient \notin Clients

ASSUME OperAssumption ==
  /\ InitOpers \in Nat
  /\ OperBlock \in Nat \ {0}
  /\ MaxOpers \in Nat
  /\ MaxPackets \in Nat
  /\ InitOpers <= MaxOpers

\* The values of oper_type, and the two lists of a stub.
READ       == 0
WRITE      == 1
KILLTHREAD == 100
RELEASED   == -1
Kinds      == {READ, WRITE}
OperTypes  == {READ, WRITE, KILLTHREAD, RELEASED}

Opers  == 1 .. MaxOpers
NoOper == 0

VARIABLES
  freeOpers,  (* m_FreeList of CTcpIOCPTool, a FIFO list                   *)
  operCount,  (* nodes allocated so far, in the blocks of m_BigList        *)
  operType,   (* oper_type of every node                                   *)
  pending,    (* pending[<<c, READ>>] is m_RecvList of stub c, pending[<<c, WRITE>>]
                 its m_SendList                                            *)
  io,         (* the bag of operations the system has not delivered yet    *)
  call,       (* where each thread is in a call, and its local variables   *)
  exits       (* the exit messages that StopService has posted             *)

vars == <<freeOpers, operCount, operType, pending, io, call, exits>>

\* An operation outstanding in the system: its node, the stub its socket was
\* associated with (NULL for a posted exit message), and what it does.
Packet == [oper : Opers, key : Clients \cup {NoClient}, kind : Kinds \cup {KILLTHREAD}]

\* What GetQueuedCompletionStatus can say of it: ok is its result, data
\* whether the number of bytes transferred is positive.  A read that
\* transfers nothing is the peer's end of stream; a write that fails may have
\* sent a part of its data.
Results(kind) ==
  IF kind = READ THEN [ok : {TRUE}, data : BOOLEAN] \cup [ok : {FALSE}, data : {FALSE}]
                 ELSE [ok : {TRUE}, data : {TRUE}] \cup [ok : {FALSE}, data : BOOLEAN]

\* The steps of ReleaseOperData that search the list k of a stub.
Erasing(k) == IF k = READ THEN "eraserecv" ELSE "erasesend"
Finding(k) == IF k = READ THEN "findrecv" ELSE "findsend"
Releasing  == {"done", "eraserecv", "erasesend", "findrecv", "findsend"}

Idle == [at |-> "idle", oper |-> NoOper, client |-> NoClient, type |-> RELEASED,
         ok |-> FALSE, data |-> FALSE]

----------------------------------------------------------------------------

\* The nodes of a new block, the first one aside, when n nodes exist already.
NewOpers(n)       == [i \in 1 .. OperBlock - 1 |-> n + 1 + i]

\* GetIOOperData: the first free node, or the first of a new block whose other
\* nodes become free.
GetIOOperData(o) ==
  \/ /\ freeOpers # <<>>
     /\ o = Head(freeOpers)
     /\ freeOpers' = Tail(freeOpers)
     /\ UNCHANGED operCount
  \/ /\ freeOpers = <<>>
     /\ operCount + OperBlock <= MaxOpers
     /\ o = operCount + 1
     /\ freeOpers' = NewOpers(operCount)
     /\ operCount' = operCount + OperBlock

\* RecvData and SendData up to the system call: a node is taken from the pool,
\* cleared, and typed.
FillOper(t, c, kind) ==
  /\ call[t] = Idle
  /\ \E o \in Opers :
       /\ GetIOOperData(o)
       /\ operType' = [operType EXCEPT ![o] = kind]
       /\ call' = [call EXCEPT ![t] = [Idle EXCEPT !.at = "filled", !.oper = o,
                                                   !.client = c, !.type = kind]]
  /\ UNCHANGED <<pending, io, exits>>

\* WSARecv or WSASend fails at once: the node goes back to the pool.
PostFails(t) ==
  /\ call[t].at = "filled"
  /\ freeOpers' = Append(freeOpers, call[t].oper)
  /\ call' = [call EXCEPT ![t] = Idle]
  /\ UNCHANGED <<operCount, operType, pending, io, exits>>

\* WSARecv or WSASend accepts the operation: from now on it can complete. key
\* is the stub that the socket was associated with.
PostPends(t, key) ==
  /\ call[t].at = "filled"
  /\ BagCardinality(io) < MaxPackets
  /\ io' = io (+) SetToBag({[oper |-> call[t].oper, key |-> key, kind |-> call[t].type]})
  /\ call' = [call EXCEPT ![t].at = "posted"]
  /\ UNCHANGED <<freeOpers, operCount, operType, pending, exits>>

\* The critical section at the end of RecvData and SendData.
InsertPending(t) ==
  /\ call[t].at = "posted"
  /\ pending' = [pending EXCEPT ![<<call[t].client, call[t].type>>] = @ \cup {call[t].oper}]
  /\ call' = [call EXCEPT ![t] = Idle]
  /\ UNCHANGED <<freeOpers, operCount, operType, io, exits>>

\* A worker dequeues packet p of a stub, with result r. It reads oper_type from
\* the node, as it is now. A success of a type that is not 0, 1 or 100 is
\* dropped; a success of type 100 ends the thread.
Dequeue(t, p, r) ==
  /\ call[t] = Idle
  /\ BagIn(p, io)
  /\ p.key # NoClient
  /\ io' = io (-) SetToBag({p})
  /\ LET type == operType[p.oper] IN
     \/ /\ ~r.ok \/ type \in Kinds
        /\ call' = [call EXCEPT ![t] = [at |-> "done", oper |-> p.oper, client |-> p.key,
                                        type |-> type, ok |-> r.ok, data |-> r.data]]
        /\ UNCHANGED freeOpers
     \/ /\ r.ok /\ type = KILLTHREAD
        /\ freeOpers' = Append(freeOpers, p.oper)
        /\ call' = [call EXCEPT ![t].at = "exited"]
     \/ /\ r.ok /\ type = RELEASED
        /\ UNCHANGED <<freeOpers, call>>
  /\ UNCHANGED <<operCount, operType, pending, exits>>

\* ReleaseOperData, outside the critical sections: it reads the type again, and
\* marks a node that is typed as a read or a write.
MarkOper(t) ==
  /\ call[t].at = "done"
  /\ LET o == call[t].oper IN
     \/ \E k \in Kinds :
          /\ operType[o] = k
          /\ operType' = [operType EXCEPT ![o] = RELEASED]
          /\ call' = [call EXCEPT ![t].at = Erasing(k)]
     \/ /\ operType[o] \notin Kinds
        /\ call' = [call EXCEPT ![t].at = Finding(READ)]
        /\ UNCHANGED operType
  /\ UNCHANGED <<freeOpers, operCount, pending, io, exits>>

\* Whether node o is in a list of stub c. (Faulty: the result of map::erase is
\* not looked at.)
FoundFaulty(o, c, k) == TRUE
Found(o, c, k)       == o \in pending[<<c, k>>]

\* The node of thread t leaves the list k of its stub and goes back to the pool.
Unlist(t, k) ==
  /\ pending' = [pending EXCEPT ![<<call[t].client, k>>] = @ \ {call[t].oper}]
  /\ freeOpers' = Append(freeOpers, call[t].oper)

\* A node that was typed is looked for in the list of its type only, and goes
\* back to the pool if it was there.
EraseOper(t, k) ==
  /\ call[t].at = Erasing(k)
  /\ IF Found(call[t].oper, call[t].client, k) THEN Unlist(t, k)
                                               ELSE UNCHANGED <<pending, freeOpers>>
  /\ call' = [call EXCEPT ![t] = Idle]
  /\ UNCHANGED <<operCount, operType, io, exits>>

\* Another node is looked for among the reads, then among the writes, and marked
\* when it is found.
FindOper(t, k) ==
  /\ call[t].at = Finding(k)
  /\ \/ /\ Found(call[t].oper, call[t].client, k)
        /\ Unlist(t, k)
        /\ operType' = [operType EXCEPT ![call[t].oper] = RELEASED]
        /\ call' = [call EXCEPT ![t] = Idle]
     \/ /\ ~Found(call[t].oper, call[t].client, k)
        /\ call' = IF k = READ THEN [call EXCEPT ![t].at = Finding(WRITE)]
                               ELSE [call EXCEPT ![t] = Idle]
        /\ UNCHANGED <<pending, freeOpers, operType>>
  /\ UNCHANGED <<operCount, io, exits>>

ReleaseOperData(t) == MarkOper(t) \/ \E k \in Kinds : EraseOper(t, k) \/ FindOper(t, k)

\* The part of CloseClient that empties one list of stub c: its nodes are
\* marked and go back to the pool, in the order of their addresses.
ReleasePending(t, c, kind) ==
  /\ call[t] = Idle
  /\ operType' = [o \in Opers |-> IF o \in pending[<<c, kind>>] THEN RELEASED ELSE operType[o]]
  /\ \E order \in SetToSeqs(pending[<<c, kind>>]) : freeOpers' = freeOpers \o order
  /\ pending' = [pending EXCEPT ![<<c, kind>>] = {}]
  /\ UNCHANGED <<operCount, io, call, exits>>

\* StopService posts one exit message, in a node from the pool.
PostKillThread ==
  /\ \E o \in Opers :
       /\ GetIOOperData(o)
       /\ operType' = [operType EXCEPT ![o] = KILLTHREAD]
       /\ io' = io (+) SetToBag({[oper |-> o, key |-> NoClient, kind |-> KILLTHREAD]})
  /\ BagCardinality(io) < MaxPackets
  /\ exits' = exits + 1
  /\ UNCHANGED <<pending, call>>

\* A worker dequeues a packet whose key is NULL: it releases the node, and ends
\* if the node still says so.
TakeKillThread(t, p) ==
  /\ call[t] = Idle
  /\ BagIn(p, io)
  /\ p.key = NoClient
  /\ io' = io (-) SetToBag({p})
  /\ freeOpers' = Append(freeOpers, p.oper)
  /\ call' = IF operType[p.oper] = KILLTHREAD THEN [call EXCEPT ![t].at = "exited"] ELSE call
  /\ UNCHANGED <<operCount, operType, pending, exits>>

\* CloseAllClient empties the lists of the stubs S that are still connected.
ReleaseAllPending(S) ==
  LET nodes == UNION {pending[x] : x \in S \X Kinds} IN
  /\ operType' = [o \in Opers |-> IF o \in nodes THEN RELEASED ELSE operType[o]]
  /\ \E order \in SetToSeqs(nodes) : freeOpers' = freeOpers \o order
  /\ pending' = [x \in Clients \X Kinds |-> IF x[1] \in S THEN {} ELSE pending[x]]
  /\ UNCHANGED <<operCount, io, call, exits>>

\* StopService closes the completion port: nothing is delivered any more.
ClosePort ==
  /\ io' = EmptyBag
  /\ UNCHANGED <<freeOpers, operCount, operType, pending, call, exits>>

\* InitObj, on the first server of the program. A new node's type is whatever
\* was in memory; it is never read before FillOper or PostKillThread sets it.
Init ==
  /\ freeOpers = [i \in 1 .. InitOpers |-> i]
  /\ operCount = InitOpers
  /\ operType = [o \in Opers |-> RELEASED]
  /\ pending = [x \in Clients \X Kinds |-> {}]
  /\ io = EmptyBag
  /\ call = [t \in Threads |-> Idle]
  /\ exits = 0

\* No thread is in a call, and none will be: the service is being stopped.
Quiet == /\ exits = Cardinality(Workers)
         /\ \A t \in Threads : call[t].at \in {"idle", "exited"}

\* What is asked of StopService is one exit message for each worker, and that
\* it closes the clients and the port when its threads have ended.
Next ==
  \/ \E t \in Threads, c \in Clients, k \in Kinds : FillOper(t, c, k) \/ ReleasePending(t, c, k)
  \/ \E t \in Threads, c \in Clients : PostPends(t, c)
  \/ \E t \in Threads : PostFails(t) \/ InsertPending(t)
  \/ \E t \in Workers : ReleaseOperData(t)
  \/ \E t \in Workers, p \in DOMAIN io : TakeKillThread(t, p)
  \/ \E t \in Workers, p \in DOMAIN io : \E r \in Results(p.kind) : Dequeue(t, p, r)
  \/ exits < Cardinality(Workers) /\ PostKillThread
  \/ Quiet /\ \E S \in SUBSET Clients : ReleaseAllPending(S)
  \/ Quiet /\ ClosePort

Spec == Init /\ [][Next]_vars

----------------------------------------------------------------------------

\* The type of every variable.
TypeOK ==
  /\ freeOpers \in Seq(Opers)
  /\ operCount \in 0 .. MaxOpers
  /\ operType \in [Opers -> OperTypes]
  /\ pending \in [Clients \X Kinds -> SUBSET Opers]
  /\ DOMAIN io \subseteq Packet
  /\ call \in [Threads -> [at : {"idle", "filled", "posted", "exited"} \cup Releasing,
                           oper : Opers \cup {NoOper}, client : Clients \cup {NoClient},
                           type : OperTypes, ok : BOOLEAN, data : BOOLEAN]]
  /\ exits \in 0 .. Cardinality(Workers)

\* The threads that have taken a node from the pool and not yet entered it in a
\* list, the nodes in their hands, and the nodes in the lists.
Posting == {t \in Threads : call[t].at \in {"filled", "posted"}}
InHand  == {call[t].oper : t \in Posting}
Listed  == UNION {pending[x] : x \in Clients \X Kinds}

\* No node is twice in the pool, in two lists, in the hands of two threads, or
\* in two of the three places.
Exclusive ==
  /\ IsInjective(freeOpers)
  /\ \A x, y \in Clients \X Kinds : x # y => pending[x] \cap pending[y] = {}
  /\ \A t, u \in Posting : call[t].oper = call[u].oper => t = u
  /\ ToSet(freeOpers) \cap Listed = {}
  /\ ToSet(freeOpers) \cap InHand = {}
  /\ Listed \cap InHand = {}

\* No node is lost.
NoneLost == ToSet(freeOpers) \cup Listed \cup InHand = 1 .. operCount

\* Until StopService posts its first exit message, every node has one owner: it
\* is not given to two operations at a time, not released twice and not leaked,
\* although a packet may complete before its node is in a list, after CloseClient
\* has given the node away, or with the stub and the node of another connection.
OperOwnership == exits = 0 => Exclusive /\ NoneLost
============================================================================
