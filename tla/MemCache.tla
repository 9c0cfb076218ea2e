------------------------------ MODULE MemCache ------------------------------
(***************************************************************************)
(* The memory blocks of the TestIOCPServer program: CMemCache              *)
(* (MemCache.cpp), the handlers of the dialog that take a block for each   *)
(* operation and give it back (TestIOCPServerDlg.cpp), and the worker that *)
(* finds the block of a packet in the packet's node (TcpIOCPServerImp.cpp).*)
(* A node may have been given away and used again by then, so that a       *)
(* handler releases another's block, and its own packet's is forgotten.    *)
(* Every handler asks for blocks of one size.  Of the operations' nodes    *)
(* only what leads to a block is kept: which stub's list a node is in is   *)
(* left open, and a stub that is closed may give away any of those listed. *)
(***************************************************************************)
EXTENDS Integers, Sequences, SequencesExt, FiniteSetsExt

CONSTANTS
  Threads,     (* the worker threads and the accept thread                 *)
  Nodes,       (* BOUND: the IO_OPER_DATA                                  *)
  NoNode,
  MaxPackets,  (* BOUND on the operations that are outstanding             *)
  NoBlock,
  BlockSize,   (* what the handlers ask for                                *)
  Num,         (* the number of blocks that are allocated together         *)
  MaxBlocks,   (* BOUND on the blocks that are allocated                   *)
  MaxRounds    (* BOUND on the times that the server is started            *)

Blocks  == 1 .. MaxBlocks
Classes == 0 .. 31
Packets == 1 .. MaxPackets

\* oper_type: 0, 1, 100 and -1.
Kinds == {"read", "write"}
Types == Kinds \cup {"kill", "released"}

\* Whether the blocks of a class are large enough.
Fits(size, i) == size <= 2 * 2 ^ i

MemCacheAssumption ==
  /\ NoBlock \notin Blocks /\ NoNode \notin Nodes /\ BlockSize \in Nat /\ Num \in Nat \ {0}
  /\ MaxBlocks \in Nat /\ MaxRounds \in Nat /\ MaxPackets \in Nat
  /\ \E i \in Classes : i < 30 /\ Fits(BlockSize, i)

VARIABLES
  freeList,   \* m_FreeList
  areas,      \* the blocks in the areas of m_BigList, numbered in order
  pool,       \* the free nodes
  type, buf,  \* of each node: oper_type, dataBuf.buf
  listed,     \* the nodes in the lists of the stubs
  io,         \* the outstanding operations: node, kind and, auxiliary, the block posted
  pc, hand,   \* of each thread: the step of its handler, the block it holds,
  node, kind, \* the operation it posts or released, and whether that is a read
  server, rounds,
  lost,       \* auxiliary: blocks of operations whose packets nobody will take
  stale,      \* auxiliary: a node was given away before its packet was done with
  spoiled     \* auxiliary: blocks that a packet forgot or was mistaken for

cacheVars  == <<freeList, areas>>
nodeVars   == <<pool, type, buf, listed>>
threadVars == <<pc, hand, node, kind>>
serverVars == <<server, rounds>>
auxVars    == <<lost, stale, spoiled>>
vars == <<cacheVars, nodeVars, io, threadVars, serverVars, auxVars>>

NoPacket == [node |-> NoNode, kind |-> "released", block |-> NoBlock]

----------------------------------------------------------------------------
(* CMemCache; the critical section makes each a step                       *)

\* The first class whose blocks are large enough.
Class(size)         == CHOOSE i \in Classes : /\ i < 30 /\ Fits(size, i)
                                              /\ \A j \in 0 .. i - 1 : ~Fits(size, j)

\* (Faulty: the block stays in the list.)
PopFaulty(s) == s
Pop(s)       == Tail(s)

\* The blocks of a new area but the first, which is given out.
Rest == [j \in 1 .. Num - 1 |-> areas + 1 + j]

GetMemBlock(t) ==
  LET i == Class(BlockSize) IN
  IF freeList[i] # <<>>
    THEN /\ hand' = [hand EXCEPT ![t] = Head(freeList[i])]
         /\ freeList' = [freeList EXCEPT ![i] = Pop(@)]
         /\ UNCHANGED areas
    ELSE /\ areas + Num <= MaxBlocks
         /\ areas' = areas + Num
         /\ hand' = [hand EXCEPT ![t] = areas + 1]
         /\ freeList' = [freeList EXCEPT ![i] = Rest]

ReleaseMemBlock(t) ==
  /\ freeList' = [freeList EXCEPT ![Class(BlockSize)] = Append(@, hand[t])]
  /\ hand' = [hand EXCEPT ![t] = NoBlock]
  /\ UNCHANGED areas

GoTo(t, s) == pc' = [pc EXCEPT ![t] = s]

----------------------------------------------------------------------------
(* The handlers post                                                       *)

\* ClientStatusNotify of a new connection, and the second half of OperateNotify.
Get(t) ==
  /\ pc[t] = "get" \/ (pc[t] = "idle" /\ server = "running")
  /\ GetMemBlock(t)
  /\ GoTo(t, "fill")
  /\ UNCHANGED <<nodeVars, io, node, kind, serverVars, auxVars>>

\* RecvData and SendData: a node is taken and names the block. (Faulty: it keeps what it
\* named before.)
NamedFaulty(b, old) == IF old = NoBlock THEN b ELSE old
Named(b, old)       == b
FillOper(t) ==
  /\ pc[t] = "fill"
  /\ \E n \in pool : /\ pool' = pool \ {n} /\ node' = [node EXCEPT ![t] = n]
                     /\ type' = [type EXCEPT ![n] = kind[t]]
                     /\ buf' = [buf EXCEPT ![n] = Named(hand[t], @)]
  /\ GoTo(t, "filled")
  /\ UNCHANGED <<cacheVars, listed, io, hand, kind, serverVars, auxVars>>

\* The first free place.
IsNextPlace(s) == io[s] = NoPacket /\ \A r \in 1 .. s - 1 : io[r] # NoPacket

\* The system takes the operation. The sockets of a server that was stopped are closed.
Post(t) ==
  /\ pc[t] = "filled" /\ server \in {"running", "stopping"}
  /\ \E s \in Packets :
       /\ IsNextPlace(s)
       /\ io' = [io EXCEPT ![s] = [node |-> node[t], kind |-> kind[t], block |-> hand[t]]]
  /\ hand' = [hand EXCEPT ![t] = NoBlock]
  /\ GoTo(t, "posted")
  /\ UNCHANGED <<cacheVars, nodeVars, node, kind, serverVars, auxVars>>

\* RecvData or SendData returns: after an answer follows the next read.
Returns(t) ==
  /\ GoTo(t, IF kind[t] = "write" THEN "get" ELSE "idle")
  /\ node' = [node EXCEPT ![t] = NoNode] /\ kind' = [kind EXCEPT ![t] = "read"]

Insert(t) ==
  /\ pc[t] = "posted"
  /\ listed' = listed \cup {node[t]}
  /\ Returns(t)
  /\ UNCHANGED <<cacheVars, pool, type, buf, io, hand, serverVars, auxVars>>

\* It does not: the node and the block are given back, the client is closed.
PostFails(t) ==
  /\ pc[t] = "filled"
  /\ pool' = pool \cup {node[t]}
  /\ ReleaseMemBlock(t)
  /\ Returns(t)
  /\ UNCHANGED <<type, buf, listed, io, serverVars, auxVars>>

----------------------------------------------------------------------------
(* A packet                                                                *)

\* What OperateNotify does with the block that it is given, by the type, the result and
\* whether there is data: a read that brought data is answered in its block; for a type
\* that is none it does nothing.
Handling(k, ok, data) ==
  CASE ~data              -> "release"
    [] k = "read" /\ ok   -> "answer"
    [] k \in Kinds /\ (k = "write" \/ ~ok) -> "release"
    [] OTHER              -> "forget"

\* WorkThread takes a packet: the type and the block are what the node says now. A success
\* of a type that is none is dropped. A read that failed brought nothing, a write that
\* failed may have sent a part, and what is sent is not empty.
Dequeue(t) ==
  /\ pc[t] = "idle" /\ server \in {"running", "stopping"}
  /\ \E s \in Packets, ok, data \in BOOLEAN :
       LET p == io[s]  k == type[p.node]  b == buf[p.node] IN
       /\ p.kind \in Kinds
       /\ ok /\ p.kind = "write" => data
       /\ ~ok /\ p.kind = "read" => ~data
       /\ io' = [io EXCEPT ![s] = NoPacket]
       /\ IF ok /\ k \notin Kinds
            THEN /\ spoiled' = spoiled \cup {p.block}
                 /\ UNCHANGED threadVars
            ELSE /\ hand' = [hand EXCEPT ![t] = b]
                 /\ node' = [node EXCEPT ![t] = p.node]
                 /\ GoTo(t, Handling(k, ok, data))
                 /\ spoiled' = IF b = p.block THEN spoiled ELSE spoiled \cup {b, p.block}
                 /\ UNCHANGED kind
  /\ UNCHANGED <<cacheVars, nodeVars, serverVars, lost, stale>>

\* A thread between the packet and the end of ReleaseOperData.
Taking(t) == pc[t] \in {"answer", "release", "forget"}

\* ReleaseOperData marks the node and gives it away if it is in the stub's list.
ReleaseOperData(t) ==
  /\ Taking(t)
  /\ LET n == node[t] IN
     \/ /\ n \in listed
        /\ listed' = listed \ {n} /\ pool' = pool \cup {n}
        /\ type' = [type EXCEPT ![n] = "released"]
     \/ /\ type' = [type EXCEPT ![n] = IF @ \in Kinds THEN "released" ELSE @]
        /\ UNCHANGED <<listed, pool>>
  /\ CASE pc[t] = "answer"  -> /\ GoTo(t, "fill") /\ kind' = [kind EXCEPT ![t] = "write"]
                               /\ UNCHANGED <<hand, spoiled>>
       [] pc[t] = "release" -> /\ GoTo(t, "done") /\ UNCHANGED <<hand, kind, spoiled>>
       [] pc[t] = "forget"  -> /\ GoTo(t, "idle") /\ hand' = [hand EXCEPT ![t] = NoBlock]
                               /\ spoiled' = spoiled \cup {hand[t]} /\ UNCHANGED kind
  /\ node' = [node EXCEPT ![t] = NoNode]
  /\ UNCHANGED <<cacheVars, buf, io, serverVars, lost, stale>>

Release(t) ==
  /\ pc[t] = "done"
  /\ ReleaseMemBlock(t)
  /\ GoTo(t, "idle")
  /\ UNCHANGED <<nodeVars, io, node, kind, serverVars, auxVars>>

----------------------------------------------------------------------------
(* Closing, and the dialog                                                 *)

\* Whether a packet of node n may still be taken, or one is being handled.
InUse(n) == \/ \E s \in Packets : io[s].node = n
            \/ \E t \in Threads : Taking(t) /\ node[t] = n

\* The nodes S of the lists are given away.
GiveAway(S) ==
  /\ listed' = listed \ S /\ pool' = pool \cup S
  /\ type' = [n \in Nodes |-> IF n \in S THEN "released" ELSE type[n]]
  /\ UNCHANGED buf

\* CloseClient of a stub.
CloseClient(S) ==
  /\ server \in {"running", "stopping"}
  /\ GiveAway(S)
  /\ stale' = (stale \/ \E n \in S : InUse(n))
  /\ UNCHANGED <<cacheVars, io, threadVars, serverVars, lost, spoiled>>

StartServer ==
  /\ server = "stopped" /\ rounds < MaxRounds
  /\ \A t \in Threads : pc[t] = "idle"     \* else not followed
  /\ server' = "running" /\ rounds' = rounds + 1
  /\ UNCHANGED <<cacheVars, nodeVars, io, threadVars, auxVars>>

StopServer ==
  /\ server = "running"
  /\ server' = "stopping"
  /\ UNCHANGED <<cacheVars, nodeVars, io, threadVars, rounds, auxVars>>

\* An exit message of the stop: its node keeps the block it named.
PostKillThread ==
  /\ server = "stopping"
  /\ \E n \in pool, s \in Packets :
       /\ IsNextPlace(s)
       /\ pool' = pool \ {n} /\ type' = [type EXCEPT ![n] = "kill"]
       /\ io' = [io EXCEPT ![s] = [node |-> n, kind |-> "kill", block |-> NoBlock]]
  /\ UNCHANGED <<cacheVars, buf, listed, threadVars, serverVars, auxVars>>

TakeKillThread(t) ==
  /\ pc[t] = "idle" /\ server = "stopping"
  /\ \E s \in Packets : /\ io[s].kind = "kill" /\ io' = [io EXCEPT ![s] = NoPacket]
                        /\ pool' = pool \cup {io[s].node}
  /\ UNCHANGED <<cacheVars, type, buf, listed, threadVars, serverVars, auxVars>>

\* The threads were joined, or the wait for them failed at once (ServiceStart) and they are
\* anywhere. Every client is closed, and the port, whose packets nobody will take.
Stopped ==
  /\ server = "stopping"
  /\ server' = "stopped"
  /\ GiveAway(listed)
  /\ stale' = (stale \/ \E t \in Threads : Taking(t) /\ node[t] \in listed)
  /\ lost' = lost \cup ({io[s].block : s \in Packets} \ {NoBlock})
  /\ io' = [s \in Packets |-> NoPacket]
  /\ UNCHANGED <<cacheVars, threadVars, rounds, spoiled>>

\* OnClose, which has stopped the server: UninitObj deletes the areas; it does not
\* clear the free lists. What a thread that was not joined does then is not followed.
Close ==
  /\ server = "stopped"
  /\ server' = "closed"
  /\ areas' = 0
  /\ UNCHANGED <<freeList, nodeVars, io, threadVars, rounds, auxVars>>

----------------------------------------------------------------------------

Init ==
  /\ freeList = [i \in Classes |-> <<>>] /\ areas = 0
  /\ pool = Nodes /\ listed = {}
  /\ type = [n \in Nodes |-> "released"] /\ buf = [n \in Nodes |-> NoBlock]
  /\ io = [s \in Packets |-> NoPacket]
  /\ pc = [t \in Threads |-> "idle"] /\ hand = [t \in Threads |-> NoBlock]
  /\ node = [t \in Threads |-> NoNode] /\ kind = [t \in Threads |-> "read"]
  /\ server = "stopped" /\ rounds = 0
  /\ lost = {} /\ stale = FALSE /\ spoiled = {}

Posting(t) == Get(t) \/ FillOper(t) \/ Post(t) \/ Insert(t) \/ PostFails(t)
Handler(t) == Dequeue(t) \/ ReleaseOperData(t) \/ Release(t) \/ TakeKillThread(t)

Next == \/ StartServer \/ StopServer \/ PostKillThread \/ Stopped \/ Close
        \/ \E S \in SUBSET listed : CloseClient(S)
        \/ server # "closed" /\ \E t \in Threads : Posting(t) \/ Handler(t)

Spec == Init /\ [][Next]_vars

----------------------------------------------------------------------------
(* Properties                                                              *)

\* The types; only blocks of the class that is large enough and no larger are used:
\* those of the class below would be too small (MemCache.cpp:34).
TypeOK ==
  /\ freeList \in [Classes -> Seq(Blocks)]
  /\ \A i \in Classes : freeList[i] # <<>> => Fits(BlockSize, i) /\ (i > 0 => ~Fits(BlockSize, i - 1))
  /\ areas \in 0 .. MaxBlocks
  /\ pool \subseteq Nodes /\ listed \subseteq Nodes
  /\ type \in [Nodes -> Types] /\ buf \in [Nodes -> Blocks \cup {NoBlock}]
  /\ io \in [Packets -> [node : Nodes \cup {NoNode}, kind : Types, block : Blocks \cup {NoBlock}]]
  /\ pc \in [Threads -> {"idle", "get", "fill", "filled", "posted",
                         "answer", "release", "forget", "done"}]
  /\ hand \in [Threads -> Blocks \cup {NoBlock}]
  /\ node \in [Threads -> Nodes \cup {NoNode}] /\ kind \in [Threads -> Kinds]
  /\ server \in {"stopped", "running", "stopping", "closed"} /\ rounds \in 0 .. MaxRounds
  /\ stale \in BOOLEAN
  /\ lost \subseteq Blocks /\ spoiled \subseteq Blocks

\* The places in which block b is: in the free list, under operations, in handlers' hands.
Entries(b)    == {i \in DOMAIN freeList[Class(BlockSize)] : freeList[Class(BlockSize)][i] = b}
Operations(b) == {s \in Packets : io[s].block = b}
Holders(b)    == {t \in Threads : hand[t] = b}

\* At most one of them.
Alone(b) ==
  /\ \A x, y \in Entries(b) : x = y
  /\ \A x, y \in Operations(b) : x = y
  /\ \A x, y \in Holders(b) : x = y
  /\ Entries(b) # {} => Operations(b) \cup Holders(b) = {} /\ b \notin lost
  /\ Operations(b) # {} => Holders(b) = {} /\ b \notin lost
  /\ Holders(b) # {} => b \notin lost

\* Every block is in one place: the free list, one operation, one handler, or lost to a
\* stop; but for those that a packet was mistaken for, or forgot, because its node was
\* used again (TestIOCPServerDlg.cpp:191-280; TcpIOCPServerImp.cpp:305-333, 346).
OnePlace ==
  \A b \in Blocks \ spoiled :
    /\ Alone(b)
    /\ server # "closed" => (b <= areas <=> Entries(b) \cup Operations(b) \cup Holders(b) # {} \/ b \in lost)

\* Which happens to none as long as no client is closed over an operation of its own:
\* then each packet finds its own block, whatever the handlers and the threads that post
\* do at the same time (TcpIOCPClientStub.cpp:37-93, 154-190).
OwnBlock == ~stale => spoiled = {}

============================================================================
