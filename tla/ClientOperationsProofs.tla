----------------------- MODULE ClientOperationsProofs -----------------------
(***************************************************************************)
(* The type of the operations' state, and the ownership of the nodes, hold *)
(* for any number of threads, stubs, nodes and outstanding packets.        *)
(***************************************************************************)
EXTENDS ClientOperations, FreeListLemmas

Calls == [at : {"idle", "filled", "posted", "exited"} \cup Releasing,
          oper : Opers \cup {NoOper}, client : Clients \cup {NoClient},
          type : OperTypes, ok : BOOLEAN, data : BOOLEAN]

\* The threads between two steps of RecvData or SendData have a node, a stub and
\* a kind; those that have dequeued a packet have its node and its stub.
Locals == \A t \in Threads :
  /\ call[t].at \in {"filled", "posted"} =>
       call[t].oper \in Opers /\ call[t].client \in Clients /\ call[t].type \in Kinds
  /\ call[t].at \in Releasing => call[t].oper \in Opers /\ call[t].client \in Clients

----------------------------------------------------------------------------
(* The type of every variable                                              *)

\* The names of the operation types, and the bounds on the nodes.
LEMMA Constants0 ==
  /\ Kinds = {0, 1} /\ OperTypes = {0, 1, 100, -1} /\ Kinds \subseteq OperTypes
  /\ READ \in Kinds /\ WRITE \in Kinds /\ KILLTHREAD \in OperTypes /\ RELEASED \in OperTypes
  /\ KILLTHREAD \notin Kinds /\ RELEASED \notin Kinds /\ RELEASED # KILLTHREAD
  /\ NoOper \notin Opers
  /\ \A k \in Kinds : {Erasing(k), Finding(k)} \subseteq Releasing \ {"done"}
  /\ Releasing \cap {"idle", "filled", "posted", "exited"} = {} /\ "done" \in Releasing
  /\ IsFiniteSet(Opers)
<1>1. IsFiniteSet(Opers)
  BY OperAssumption, FS_Interval DEF Opers
<1> QED
  BY <1>1 DEF Kinds, OperTypes, READ, WRITE, KILLTHREAD, RELEASED, NoOper, Opers,
     Erasing, Finding, Releasing

\* What GetIOOperData does to the pool, whichever branch it takes.
LEMMA GetIOOperDataType ==
  ASSUME TypeOK, NEW o \in Opers, GetIOOperData(o)
  PROVE  freeOpers' \in Seq(Opers) /\ operCount' \in 0 .. MaxOpers
<1>1. CASE /\ freeOpers # <<>>
           /\ freeOpers' = Tail(freeOpers)
           /\ UNCHANGED operCount
  BY <1>1 DEF TypeOK
<1>2. CASE /\ operCount + OperBlock <= MaxOpers
           /\ freeOpers' = NewOpers(operCount)
           /\ operCount' = operCount + OperBlock
  <2>1. operCount \in Nat /\ operCount' \in 0 .. MaxOpers
    BY <1>2, OperAssumption DEF TypeOK
  <2>2. freeOpers' \in Seq(1 .. MaxOpers)
    BY <1>2, <2>1, OperAssumption, RestOfBlock DEF NewOpers
  <2> QED BY <2>1, <2>2 DEF Opers
<1> QED BY <1>1, <1>2 DEF GetIOOperData

\* What CloseClient and CloseAllClient do to the pool: the nodes of the lists
\* follow in some order, each once.
LEMMA ReleaseAllType ==
  ASSUME TypeOK, NEW nodes \in SUBSET Opers,
         NEW order \in SetToSeqs(nodes), freeOpers' = freeOpers \o order
  PROVE  /\ freeOpers' \in Seq(Opers)
         /\ ToSet(freeOpers') = ToSet(freeOpers) \cup nodes
         /\ IsInjective(freeOpers) /\ ToSet(freeOpers) \cap nodes = {}
              => IsInjective(freeOpers')
<1>1. IsFiniteSet(nodes)
  BY Constants0, FS_Subset
<1>2. order \in Seq(Opers) /\ ToSet(order) = nodes /\ IsInjective(order)
  BY <1>1, OrderOfSet
<1> QED BY <1>2, PushList DEF TypeOK

\* The packets in the system after one is added or taken away.
LEMMA PacketsAdded ==
  ASSUME NEW b, NEW p PROVE DOMAIN (b (+) SetToBag({p})) = DOMAIN b \cup {p}
BY DEF (+), SetToBag

LEMMA PacketsRemoved ==
  ASSUME NEW b, NEW p PROVE DOMAIN (b (-) SetToBag({p})) \subseteq DOMAIN b
BY DEF (-), SetToBag

\* Each variable keeps its type.
LEMMA TypeStep ==
  ASSUME TypeOK, Locals, [Next]_vars
  PROVE  TypeOK' /\ Locals'
<1> USE DEF Calls
<1>0. Idle \in Calls /\ Idle.at = "idle"
  BY Constants0 DEF Idle
<1>1. ASSUME NEW t \in Threads, NEW next \in Calls, call' = [call EXCEPT ![t] = next]
      PROVE  call' \in [Threads -> Calls]
  BY <1>1 DEF TypeOK
<1>2. ASSUME NEW t \in Threads, NEW step \in {"posted", "exited"} \cup Releasing,
             call' = [call EXCEPT ![t].at = step]
      PROVE  call' \in [Threads -> Calls]
  <2>1. [call[t] EXCEPT !.at = step] \in Calls
    BY DEF TypeOK
  <2>2. call' = [call EXCEPT ![t] = [call[t] EXCEPT !.at = step]]
    BY <1>2 DEF TypeOK
  <2> QED BY <2>1, <2>2, <1>1
<1>3. ASSUME NEW t \in Threads, NEW c \in Clients, NEW k \in Kinds, FillOper(t, c, k)
      PROVE  TypeOK' /\ Locals'
  <2>1. PICK o \in Opers :
          /\ GetIOOperData(o)
          /\ operType' = [operType EXCEPT ![o] = k]
          /\ call' = [call EXCEPT ![t] = [Idle EXCEPT !.at = "filled", !.oper = o,
                                                      !.client = c, !.type = k]]
    BY <1>3 DEF FillOper
  <2>2. freeOpers' \in Seq(Opers) /\ operCount' \in 0 .. MaxOpers
    BY <2>1, GetIOOperDataType
  <2> DEFINE next == [Idle EXCEPT !.at = "filled", !.oper = o, !.client = c, !.type = k]
  <2>3. /\ next \in Calls /\ next.at = "filled" /\ next.oper = o
        /\ next.client = c /\ next.type = k
    BY Constants0 DEF Idle
  <2>4. call' = [call EXCEPT ![t] = next]
    BY <2>1
  <2> HIDE DEF next
  <2>5. call' \in [Threads -> Calls]
    BY <2>3, <2>4, <1>1
  <2>6. Locals'
    BY <2>3, <2>4 DEF Locals, TypeOK
  <2>7. operType' \in [Opers -> OperTypes]
    BY <2>1, Constants0 DEF TypeOK
  <2> QED BY <1>3, <2>2, <2>5, <2>6, <2>7 DEF FillOper, TypeOK
<1>4. ASSUME NEW t \in Threads, PostFails(t) PROVE TypeOK' /\ Locals'
  <2>1. call[t].oper \in Opers
    BY <1>4 DEF PostFails, Locals
  <2>2. freeOpers' \in Seq(Opers)
    BY <1>4, <2>1, PushBack DEF PostFails, TypeOK
  <2>3. call' \in [Threads -> Calls]
    BY <1>4, <1>0, <1>1 DEF PostFails
  <2>4. Locals'
    BY <1>4, <1>0, Constants0 DEF PostFails, Locals, TypeOK
  <2> QED BY <1>4, <2>2, <2>3, <2>4 DEF PostFails, TypeOK
<1>5. ASSUME NEW t \in Threads, NEW c \in Clients, PostPends(t, c) PROVE TypeOK' /\ Locals'
  <2>1. PICK p \in Packet : io' = io (+) SetToBag({p})
    BY <1>5 DEF PostPends, Locals, Packet
  <2>2. DOMAIN io' \subseteq Packet
    <3>1. DOMAIN io' = DOMAIN io \cup {p}
      BY <2>1, PacketsAdded
    <3> QED BY <3>1 DEF TypeOK
  <2>3. call' \in [Threads -> Calls]
    BY <1>5, <1>2 DEF PostPends
  <2>4. Locals'
    BY <1>5 DEF PostPends, Locals, TypeOK
  <2> QED BY <1>5, <2>2, <2>3, <2>4 DEF PostPends, TypeOK
<1>6. ASSUME NEW t \in Threads, InsertPending(t) PROVE TypeOK' /\ Locals'
  <2>1. pending' \in [Clients \X Kinds -> SUBSET Opers]
    BY <1>6 DEF InsertPending, Locals, TypeOK
  <2>2. call' \in [Threads -> Calls]
    BY <1>6, <1>0, <1>1 DEF InsertPending
  <2>3. Locals'
    BY <1>6, <1>0, Constants0 DEF InsertPending, Locals, TypeOK
  <2> QED BY <1>6, <2>1, <2>2, <2>3 DEF InsertPending, TypeOK
<1>7. ASSUME NEW t \in Threads, NEW p \in DOMAIN io, NEW r \in Results(p.kind), Dequeue(t, p, r)
      PROVE  TypeOK' /\ Locals'
  <2>1. /\ p.oper \in Opers /\ p.key \in Clients
        /\ operType[p.oper] \in OperTypes
        /\ r.ok \in BOOLEAN /\ r.data \in BOOLEAN
    BY <1>7 DEF Dequeue, TypeOK, Packet, Results
  <2>2. DOMAIN io' \subseteq Packet
    BY <1>7, PacketsRemoved DEF Dequeue, TypeOK
  <2> DEFINE next == [at |-> "done", oper |-> p.oper, client |-> p.key,
                      type |-> operType[p.oper], ok |-> r.ok, data |-> r.data]
  <2>3. next \in Calls /\ next.at = "done" /\ next.oper = p.oper /\ next.client = p.key
    BY <2>1, Constants0
  <2>4. \/ call' = [call EXCEPT ![t] = next]
        \/ call' = [call EXCEPT ![t].at = "exited"]
        \/ call' = call
    BY <1>7 DEF Dequeue
  <2> HIDE DEF next
  <2>5. call' \in [Threads -> Calls]
    BY <2>3, <2>4, <1>1, <1>2 DEF TypeOK
  <2>6. Locals'
    <3>1. /\ \A u \in Threads : u # t => call'[u] = call[u]
          /\ call'[t] = next \/ call'[t].at = "exited" \/ call'[t] = call[t]
      BY <2>4 DEF TypeOK
    <3>2. "done" \notin {"filled", "posted"} /\ "exited" \notin {"filled", "posted"} \cup Releasing
      BY Constants0
    <3> QED BY <3>1, <3>2, <2>1, <2>3 DEF Locals
  <2>7. freeOpers' \in Seq(Opers)
    <3>1. freeOpers' = freeOpers \/ freeOpers' = Append(freeOpers, p.oper)
      BY <1>7 DEF Dequeue
    <3> QED BY SMTT(40), <3>1, <2>1, PushBack DEF TypeOK
  <2> QED BY <1>7, <2>2, <2>5, <2>6, <2>7 DEF Dequeue, TypeOK
<1>8. ASSUME NEW t \in Threads, ReleaseOperData(t) PROVE TypeOK' /\ Locals'
  <2>1. PICK o \in Opers, c \in Clients :
          call[t].oper = o /\ call[t].client = c /\ call[t].at \in Releasing
    BY <1>8, Constants0 DEF ReleaseOperData, MarkOper, EraseOper, FindOper, Locals
  <2>2. /\ UNCHANGED <<operCount, io, exits>>
        /\ operType' = operType \/ operType' = [operType EXCEPT ![o] = RELEASED]
        /\ freeOpers' = freeOpers \/ freeOpers' = Append(freeOpers, o)
        /\ pending' = pending \/ \E x : pending' = [pending EXCEPT ![x] = @ \ {o}]
    BY <1>8, <2>1 DEF ReleaseOperData, MarkOper, EraseOper, FindOper, Unlist
  <2>3. PICK step \in Releasing : \/ call' = [call EXCEPT ![t].at = step]
                                 \/ call' = [call EXCEPT ![t] = Idle]
    BY <1>8, Constants0 DEF ReleaseOperData, MarkOper, EraseOper, FindOper
  <2>4. operType' \in [Opers -> OperTypes]
    BY <2>2, Constants0 DEF TypeOK
  <2>5. freeOpers' \in Seq(Opers)
    BY SMTT(40), <2>2, PushBack DEF TypeOK
  <2>6. pending' \in [Clients \X Kinds -> SUBSET Opers]
    BY <2>2 DEF TypeOK
  <2>7. call' \in [Threads -> Calls]
    BY <2>3, <1>0, <1>1, <1>2
  <2>8. Locals'
    BY <2>1, <2>3, <1>0, Constants0 DEF Locals, TypeOK
  <2> QED BY <2>2, <2>4, <2>5, <2>6, <2>7, <2>8 DEF TypeOK
<1>9. ASSUME NEW t \in Threads, NEW c \in Clients, NEW k \in Kinds, ReleasePending(t, c, k)
      PROVE  TypeOK' /\ Locals'
  <2>1. pending[<<c, k>>] \in SUBSET Opers
    BY DEF TypeOK
  <2>2. freeOpers' \in Seq(Opers)
    <3>1. PICK order \in SetToSeqs(pending[<<c, k>>]) : freeOpers' = freeOpers \o order
      BY <1>9 DEF ReleasePending
    <3> QED BY <2>1, <3>1, ReleaseAllType
  <2>3. operType' \in [Opers -> OperTypes] /\ pending' \in [Clients \X Kinds -> SUBSET Opers]
    BY <1>9, Constants0 DEF ReleasePending, TypeOK
  <2> QED BY <1>9, <2>2, <2>3 DEF ReleasePending, TypeOK, Locals
<1>10. ASSUME exits < Cardinality(Workers), PostKillThread PROVE TypeOK' /\ Locals'
  <2>1. PICK o \in Opers :
          /\ GetIOOperData(o)
          /\ operType' = [operType EXCEPT ![o] = KILLTHREAD]
          /\ io' = io (+) SetToBag({[oper |-> o, key |-> NoClient, kind |-> KILLTHREAD]})
    BY <1>10 DEF PostKillThread
  <2>2. freeOpers' \in Seq(Opers) /\ operCount' \in 0 .. MaxOpers
    BY <2>1, GetIOOperDataType
  <2>3. PICK p \in Packet : io' = io (+) SetToBag({p})
    BY <2>1 DEF Packet
  <2>4. DOMAIN io' \subseteq Packet
    <3>1. DOMAIN io' = DOMAIN io \cup {p}
      BY <2>3, PacketsAdded
    <3> QED BY <3>1 DEF TypeOK
  <2>5. operType' \in [Opers -> OperTypes]
    BY <2>1, Constants0 DEF TypeOK
  <2>6. exits' \in 0 .. Cardinality(Workers)
    BY <1>10, ThreadAssumption, FS_CardinalityType DEF PostKillThread, TypeOK
  <2> QED BY <1>10, <2>2, <2>4, <2>5, <2>6 DEF PostKillThread, TypeOK, Locals
<1>11. ASSUME NEW t \in Threads, NEW p \in DOMAIN io, TakeKillThread(t, p)
       PROVE  TypeOK' /\ Locals'
  <2>1. p.oper \in Opers
    BY DEF TypeOK, Packet
  <2>2. DOMAIN io' \subseteq Packet
    BY <1>11, PacketsRemoved DEF TakeKillThread, TypeOK
  <2>3. freeOpers' \in Seq(Opers)
    BY <1>11, <2>1, PushBack DEF TakeKillThread, TypeOK
  <2>4. call' = [call EXCEPT ![t].at = "exited"] \/ call' = call
    BY <1>11 DEF TakeKillThread
  <2>5. call' \in [Threads -> Calls]
    BY <2>4, <1>2 DEF TypeOK
  <2>6. Locals'
    BY <2>4, Constants0 DEF Locals, TypeOK
  <2> QED BY <1>11, <2>2, <2>3, <2>5, <2>6 DEF TakeKillThread, TypeOK
<1>12. ASSUME NEW S \in SUBSET Clients, ReleaseAllPending(S) PROVE TypeOK' /\ Locals'
  <2> DEFINE nodes == UNION {pending[x] : x \in S \X Kinds}
  <2>1. nodes \in SUBSET Opers
    BY DEF TypeOK
  <2>2. freeOpers' \in Seq(Opers)
    <3>1. PICK order \in SetToSeqs(nodes) : freeOpers' = freeOpers \o order
      BY <1>12 DEF ReleaseAllPending
    <3> QED BY <2>1, <3>1, ReleaseAllType
  <2>3. operType' \in [Opers -> OperTypes] /\ pending' \in [Clients \X Kinds -> SUBSET Opers]
    BY <1>12, Constants0 DEF ReleaseAllPending, TypeOK
  <2> QED BY <1>12, <2>2, <2>3 DEF ReleaseAllPending, TypeOK, Locals
<1>13. CASE ClosePort
  BY <1>13 DEF ClosePort, TypeOK, Locals, EmptyBag, SetToBag
<1>14. CASE UNCHANGED vars
  BY <1>14 DEF vars, TypeOK, Locals
<1> QED
  BY <1>3, <1>4, <1>5, <1>6, <1>7, <1>8, <1>9, <1>10, <1>11, <1>12, <1>13, <1>14, ThreadAssumption
  DEF Next

\* Each variable has its type initially.
LEMMA TypeInit == Init => TypeOK /\ Locals
<1> SUFFICES ASSUME Init PROVE TypeOK /\ Locals
  OBVIOUS
<1>1. freeOpers \in Seq(Opers) /\ operCount \in 0 .. MaxOpers
  BY OperAssumption DEF Init, Opers
<1>2. call \in [Threads -> Calls] /\ \A t \in Threads : call[t].at = "idle"
  BY Constants0 DEF Init, Calls, Idle
<1>3. exits \in 0 .. Cardinality(Workers)
  BY ThreadAssumption, FS_CardinalityType DEF Init
<1> QED BY <1>1, <1>2, <1>3, Constants0 DEF Init, TypeOK, Locals, Calls, EmptyBag, SetToBag

\* Every variable keeps its type.
THEOREM TypeCorrect == Spec => []TypeOK
<1>1. TypeOK /\ Locals /\ [Next]_vars => TypeOK' /\ Locals'
  BY TypeStep
<1>2. QED
  BY TypeInit, <1>1, PTL DEF Spec

----------------------------------------------------------------------------
(* Who owns a node                                                         *)

Distinct == \A t, u \in Posting : call[t].oper = call[u].oper => t = u
Apart    == \A x, y \in Clients \X Kinds : x # y => pending[x] \cap pending[y] = {}

\* Before the stop there are no exit messages for a worker to take.
NoExits == /\ \A p \in DOMAIN io : p.key # NoClient
           /\ \A o \in Opers : operType[o] # KILLTHREAD

Owned == exits = 0 => Exclusive /\ NoneLost /\ NoExits

\* A thread takes a node that no thread has in hand.
LEMMA TakeInHand ==
  ASSUME TypeOK, NEW t \in Threads, call[t] = Idle,
         NEW next, next.at = "filled", call' = [call EXCEPT ![t] = next]
  PROVE  /\ InHand' = InHand \cup {next.oper}
         /\ Distinct /\ next.oper \notin InHand => Distinct'
<1>1. /\ call'[t] = next
      /\ \A u \in Threads : u # t => call'[u] = call[u]
      /\ Posting' = Posting \cup {t}
      /\ t \notin Posting
  BY DEF TypeOK, Posting, Idle
<1>2. InHand' = InHand \cup {next.oper}
  BY <1>1 DEF InHand, Posting
<1>3. ASSUME Distinct, next.oper \notin InHand PROVE Distinct'
  BY <1>1, <1>3 DEF InHand, Distinct, Posting
<1> QED BY <1>2, <1>3

\* A thread gives the node it has in hand away.
LEMMA DropFromHand ==
  ASSUME TypeOK, Distinct, NEW t \in Posting, call' = [call EXCEPT ![t] = Idle]
  PROVE  InHand' = InHand \ {call[t].oper} /\ Distinct'
<1>1. /\ t \in Threads
      /\ \A u \in Threads : u # t => call'[u] = call[u]
      /\ Posting' = Posting \ {t}
  BY DEF TypeOK, Posting, Idle
<1>2. InHand' = InHand \ {call[t].oper}
  <2>1. InHand' = {call[u].oper : u \in Posting \ {t}}
    BY <1>1 DEF InHand, Posting
  <2> QED BY <2>1, <1>1 DEF InHand, Distinct, Posting
<1>3. Distinct'
  BY <1>1 DEF Distinct, Posting
<1> QED BY <1>2, <1>3

\* The steps that leave the nodes in the threads' hands where they are.
LEMMA SameHands ==
  ASSUME Distinct,
         \A t \in Threads : call'[t].at \in {"filled", "posted"} <=> call[t].at \in {"filled", "posted"},
         \A t \in Posting : call'[t].oper = call[t].oper
  PROVE  InHand' = InHand /\ Distinct'
<1>1. Posting' = Posting
  BY DEF Posting
<1>2. InHand' = InHand
  BY <1>1 DEF InHand
<1>3. Distinct'
  BY <1>1 DEF Distinct
<1> QED BY <1>2, <1>3

\* GetIOOperData returns a node that has no owner, and makes owned only nodes
\* that did not exist.
LEMMA GetIOOperDataOwner ==
  ASSUME TypeOK, Exclusive, NoneLost, NEW o \in Opers, GetIOOperData(o)
  PROVE  /\ IsInjective(freeOpers')
         /\ o \notin ToSet(freeOpers')
         /\ o \notin Listed \cup InHand
         /\ ToSet(freeOpers') \cap (Listed \cup InHand) = {}
         /\ ToSet(freeOpers') \cup {o} \cup Listed \cup InHand = 1 .. operCount'
<1> USE DEF Exclusive, NoneLost
<1>1. CASE /\ freeOpers # <<>>
           /\ o = Head(freeOpers)
           /\ freeOpers' = Tail(freeOpers)
           /\ UNCHANGED operCount
  <2>1. /\ ToSet(freeOpers) = {o} \cup ToSet(freeOpers')
        /\ IsInjective(freeOpers')
        /\ o \notin ToSet(freeOpers')
    BY <1>1, PopFront DEF TypeOK
  <2> QED BY <1>1, <2>1
<1>2. CASE /\ freeOpers = <<>>
           /\ operCount + OperBlock <= MaxOpers
           /\ o = operCount + 1
           /\ freeOpers' = NewOpers(operCount)
           /\ operCount' = operCount + OperBlock
  <2>1. operCount \in Nat /\ OperBlock \in Nat \ {0} /\ MaxOpers \in Nat
    BY OperAssumption DEF TypeOK
  <2>2. /\ ToSet(freeOpers') = (operCount + 2) .. (operCount + OperBlock)
        /\ IsInjective(freeOpers')
    BY <1>2, <2>1, RestOfBlock DEF NewOpers
  <2>3. Listed \cup InHand = 1 .. operCount
    BY <1>2 DEF ToSet
  <2>4. (1 .. operCount) \cup {o} \cup ToSet(freeOpers') = 1 .. operCount'
    BY <1>2, <2>1, <2>2
  <2>5. ToSet(freeOpers') \cap (1 .. operCount) = {} /\ o \notin ToSet(freeOpers')
    BY <1>2, <2>1, <2>2
  <2>6. o \notin 1 .. operCount
    BY <1>2, <2>1
  <2> QED BY <2>2, <2>3, <2>4, <2>5, <2>6
<1> QED BY <1>1, <1>2 DEF GetIOOperData

\* What is in the lists after a node enters one of them, ...
LEMMA NodeListed ==
  ASSUME TypeOK, Apart, NEW x \in Clients \X Kinds, NEW o \in Opers, o \notin Listed,
         pending' = [pending EXCEPT ![x] = @ \cup {o}]
  PROVE  Listed' = Listed \cup {o} /\ Apart'
<1>1. /\ pending'[x] = pending[x] \cup {o}
      /\ \A y \in Clients \X Kinds : y # x => pending'[y] = pending[y]
  BY DEF TypeOK
<1>2. \A y \in Clients \X Kinds : o \notin pending[y]
  BY DEF Listed
<1>3. Listed' = Listed \cup {o}
  BY <1>1 DEF Listed
<1>4. Apart'
  BY <1>1, <1>2 DEF Apart
<1> QED BY <1>3, <1>4

\* ... and after a node leaves one.
LEMMA NodeUnlisted ==
  ASSUME TypeOK, Apart, NEW x \in Clients \X Kinds, NEW o \in pending[x],
         pending' = [pending EXCEPT ![x] = @ \ {o}]
  PROVE  o \in Listed /\ Listed' = Listed \ {o} /\ Apart'
<1>1. /\ pending'[x] = pending[x] \ {o}
      /\ \A y \in Clients \X Kinds : y # x => pending'[y] = pending[y]
  BY DEF TypeOK
<1>2. \A y \in Clients \X Kinds : y # x => o \notin pending[y]
  BY DEF Apart
<1>3. o \in Listed /\ Listed' = Listed \ {o}
  BY <1>1, <1>2 DEF Listed
<1>4. Apart'
  BY <1>1 DEF Apart
<1> QED BY <1>3, <1>4

\* No step of any thread gives a node a second owner or loses it, until the
\* first exit message is posted.
LEMMA OwnedStep ==
  ASSUME TypeOK, Locals, Owned, [Next]_vars
  PROVE  Owned'
<1> DEFINE Goal == /\ IsInjective(freeOpers') /\ Apart' /\ Distinct'
                   /\ ToSet(freeOpers') \cap Listed' = {}
                   /\ ToSet(freeOpers') \cap InHand' = {}
                   /\ Listed' \cap InHand' = {}
                   /\ ToSet(freeOpers') \cup Listed' \cup InHand' = 1 .. operCount'
                   /\ NoExits'
<1>1. SUFFICES ASSUME exits' = 0 PROVE Goal
  BY DEF Owned, Exclusive, NoneLost, Distinct, Apart
<1>2. exits = 0
  <2>1. CASE PostKillThread
    BY <2>1, <1>1 DEF PostKillThread, TypeOK
  <2>2. CASE UNCHANGED vars
    BY <2>2, <1>1 DEF vars
  <2>3. CASE ~PostKillThread /\ Next
    BY <2>3, <1>1 DEF Next, FillOper, ReleasePending, PostPends, PostFails, InsertPending,
       ReleaseOperData, MarkOper, EraseOper, FindOper, TakeKillThread, Dequeue, ReleaseAllPending, ClosePort
  <2> QED BY <2>1, <2>2, <2>3
<1>3. /\ IsInjective(freeOpers) /\ Apart /\ Distinct
      /\ ToSet(freeOpers) \cap Listed = {}
      /\ ToSet(freeOpers) \cap InHand = {}
      /\ Listed \cap InHand = {}
      /\ ToSet(freeOpers) \cup Listed \cup InHand = 1 .. operCount
      /\ NoExits /\ Exclusive /\ NoneLost
  BY <1>2 DEF Owned, Exclusive, NoneLost, Distinct, Apart
<1>4. ASSUME NEW t \in Threads, NEW c \in Clients, NEW k \in Kinds, FillOper(t, c, k) PROVE Goal
  <2> DEFINE Next0(o) == [Idle EXCEPT !.at = "filled", !.oper = o, !.client = c, !.type = k]
  <2>1. PICK o \in Opers :
          /\ GetIOOperData(o)
          /\ operType' = [operType EXCEPT ![o] = k]
          /\ call' = [call EXCEPT ![t] = Next0(o)]
    BY <1>4 DEF FillOper
  <2>2. Next0(o).at = "filled" /\ Next0(o).oper = o
    BY DEF Idle
  <2> HIDE DEF Next0
  <2>3. call[t] = Idle /\ UNCHANGED <<pending, io>>
    BY <1>4 DEF FillOper
  <2>4. /\ IsInjective(freeOpers')
        /\ o \notin ToSet(freeOpers')
        /\ o \notin Listed \cup InHand
        /\ ToSet(freeOpers') \cap (Listed \cup InHand) = {}
        /\ ToSet(freeOpers') \cup {o} \cup Listed \cup InHand = 1 .. operCount'
    BY <2>1, <1>3, GetIOOperDataOwner
  <2>5. InHand' = InHand \cup {o} /\ Distinct'
    BY <2>1, <2>2, <2>3, <2>4, <1>3, TakeInHand
  <2>6. Listed' = Listed /\ Apart'
    BY <2>3, <1>3 DEF Listed, Apart
  <2>7. NoExits'
    BY <2>1, <2>3, <1>3, Constants0 DEF NoExits, TypeOK
  <2> QED BY <2>4, <2>5, <2>6, <2>7, <1>3
<1>5. ASSUME UNCHANGED <<freeOpers, operCount, pending>>,
             InHand' = InHand, Distinct', NoExits'
      PROVE  Goal
  BY <1>5, <1>3 DEF Listed, Apart
<1>6. ASSUME NEW t \in Threads, PostFails(t) PROVE Goal
  <2>1. /\ t \in Posting /\ call[t].oper \in InHand /\ call[t].oper \in Opers
        /\ freeOpers' = Append(freeOpers, call[t].oper)
        /\ call' = [call EXCEPT ![t] = Idle]
        /\ UNCHANGED <<operCount, operType, pending, io>>
    BY <1>6 DEF PostFails, Posting, InHand, Locals
  <2>2. InHand' = InHand \ {call[t].oper} /\ Distinct'
    BY <2>1, <1>3, DropFromHand
  <2>3. /\ ToSet(freeOpers') = ToSet(freeOpers) \cup {call[t].oper}
        /\ IsInjective(freeOpers')
    BY <2>1, <1>3, PushBack DEF TypeOK
  <2>4. Listed' = Listed /\ Apart' /\ NoExits'
    BY <2>1, <1>3 DEF Listed, Apart, NoExits
  <2> QED BY <2>1, <2>2, <2>3, <2>4, <1>3
<1>7. ASSUME NEW t \in Threads, NEW c \in Clients, PostPends(t, c) PROVE Goal
  <2>1. /\ call[t].at = "filled" /\ call' = [call EXCEPT ![t].at = "posted"]
        /\ UNCHANGED <<freeOpers, operCount, operType, pending>>
    BY <1>7 DEF PostPends
  <2>2. InHand' = InHand /\ Distinct'
    BY <2>1, <1>3, SameHands DEF TypeOK, Posting
  <2>3. PICK p : p.key = c /\ io' = io (+) SetToBag({p})
    BY <1>7 DEF PostPends
  <2>4. DOMAIN io' = DOMAIN io \cup {p}
    BY <2>3, PacketsAdded
  <2>5. NoExits'
    BY <2>1, <2>3, <2>4, <1>3, ClientSetAssumption DEF NoExits
  <2> QED BY <2>1, <2>2, <2>5, <1>5
<1>8. ASSUME NEW t \in Threads, InsertPending(t) PROVE Goal
  <2> DEFINE x == <<call[t].client, call[t].type>>
  <2>1. /\ t \in Posting /\ call[t].oper \in InHand /\ call[t].oper \in Opers
        /\ x \in Clients \X Kinds
        /\ pending' = [pending EXCEPT ![x] = @ \cup {call[t].oper}]
        /\ call' = [call EXCEPT ![t] = Idle]
        /\ UNCHANGED <<freeOpers, operCount, operType, io>>
    BY <1>8 DEF InsertPending, Posting, InHand, Locals
  <2>2. InHand' = InHand \ {call[t].oper} /\ Distinct'
    BY <2>1, <1>3, DropFromHand
  <2>3. call[t].oper \notin Listed
    BY <2>1, <1>3
  <2> HIDE DEF x
  <2>4. Listed' = Listed \cup {call[t].oper} /\ Apart'
    BY <2>1, <2>3, <1>3, NodeListed
  <2>5. NoExits'
    BY <2>1, <1>3 DEF NoExits
  <2> QED BY <2>1, <2>2, <2>4, <2>5, <1>3
<1>9. ASSUME NEW t \in Threads, NEW p \in DOMAIN io, NEW r \in Results(p.kind), Dequeue(t, p, r)
      PROVE  Goal
  <2>1. operType[p.oper] # KILLTHREAD
    BY <1>3 DEF NoExits, TypeOK, Packet
  <2> DEFINE Next0 == [at |-> "done", oper |-> p.oper, client |-> p.key,
                       type |-> operType[p.oper], ok |-> r.ok, data |-> r.data]
  <2>2. /\ call[t] = Idle
        /\ call' = [call EXCEPT ![t] = Next0] \/ call' = call
        /\ UNCHANGED <<freeOpers, operCount, operType, pending>>
    BY <1>9, <2>1 DEF Dequeue
  <2>3. Next0.at = "done"
    OBVIOUS
  <2> HIDE DEF Next0
  <2>4. InHand' = InHand /\ Distinct'
    <3>1. /\ \A u \in Threads : u # t => call'[u] = call[u]
          /\ call'[t] = Next0 \/ call'[t] = call[t]
      BY <2>2 DEF TypeOK
    <3>2. call[t].at \notin {"filled", "posted"} /\ call'[t].at \notin {"filled", "posted"}
      BY <3>1, <2>2, <2>3 DEF Idle
    <3> QED BY <3>1, <3>2, <1>3, SameHands DEF Posting
  <2>5. DOMAIN io' \subseteq DOMAIN io
    BY <1>9, PacketsRemoved DEF Dequeue
  <2>6. NoExits'
    BY <2>2, <2>5, <1>3 DEF NoExits
  <2> QED BY <2>2, <2>4, <2>6, <1>5
<1>10. ASSUME NEW t \in Threads, ReleaseOperData(t) PROVE Goal
  <2>1. PICK o \in Opers, c \in Clients :
          call[t].oper = o /\ call[t].client = c /\ call[t].at \in Releasing
    BY <1>10, Constants0 DEF ReleaseOperData, MarkOper, EraseOper, FindOper, Locals
  <2>2. /\ UNCHANGED <<operCount, io>>
        /\ operType' = operType \/ operType' = [operType EXCEPT ![o] = RELEASED]
    BY <1>10, <2>1 DEF ReleaseOperData, MarkOper, EraseOper, FindOper
  <2>3. InHand' = InHand /\ Distinct'
    <3>1. PICK step \in Releasing : \/ call' = [call EXCEPT ![t].at = step]
                                   \/ call' = [call EXCEPT ![t] = Idle]
      BY <1>10, Constants0 DEF ReleaseOperData, MarkOper, EraseOper, FindOper
    <3>2. /\ call'[t].at \notin {"filled", "posted"} /\ call[t].at \notin {"filled", "posted"}
          /\ \A u \in Threads : u # t => call'[u] = call[u]
      BY <2>1, <3>1, Constants0 DEF TypeOK, Idle
    <3> QED BY <3>2, <1>3, SameHands DEF Posting
  <2>4. NoExits'
    BY <2>2, <1>3, Constants0 DEF NoExits, TypeOK
  <2>5. CASE UNCHANGED <<pending, freeOpers>>
    BY <2>2, <2>3, <2>4, <2>5, <1>5
  <2>6. CASE \E k \in Kinds : Found(o, c, k) /\ Unlist(t, k)
    <3>1. PICK x \in Clients \X Kinds :
            /\ o \in pending[x]
            /\ pending' = [pending EXCEPT ![x] = @ \ {o}]
            /\ freeOpers' = Append(freeOpers, o)
      BY <2>1, <2>6 DEF Found, Unlist
    <3>2. o \in Listed /\ Listed' = Listed \ {o} /\ Apart'
      BY <3>1, <1>3, NodeUnlisted
    <3>3. /\ ToSet(freeOpers') = ToSet(freeOpers) \cup {o}
          /\ IsInjective(freeOpers')
      BY <3>1, <3>2, <1>3, PushBack DEF TypeOK
    <3> QED BY <3>2, <3>3, <2>2, <2>3, <2>4, <1>3
  <2> QED BY <1>10, <2>1, <2>5, <2>6 DEF ReleaseOperData, MarkOper, EraseOper, FindOper
<1>11. ASSUME NEW X \in SUBSET (Clients \X Kinds),
              NEW nodes, \A o : o \in nodes <=> \E x \in X : o \in pending[x],
              \A x \in Clients \X Kinds : pending'[x] = IF x \in X THEN {} ELSE pending[x],
              \E order \in SetToSeqs(nodes) : freeOpers' = freeOpers \o order,
              operType' = [o \in Opers |-> IF o \in nodes THEN RELEASED ELSE operType[o]],
              UNCHANGED <<operCount, io, call>>
       PROVE  Goal
  <2>1. /\ nodes \in SUBSET Opers /\ nodes \subseteq Listed
        /\ Listed' = Listed \ nodes
        /\ Apart'
    <3>1. nodes \in SUBSET Opers /\ nodes \subseteq Listed
      BY <1>11 DEF TypeOK, Listed
    <3>2. \A x \in Clients \X Kinds : x \notin X => pending[x] \cap nodes = {}
      BY <1>11, <1>3 DEF Apart
    <3>3. Listed' = Listed \ nodes
      BY <1>11, <3>2 DEF Listed
    <3>4. Apart'
      BY <1>11, <1>3 DEF Apart
    <3> QED BY <3>1, <3>3, <3>4
  <2>2. /\ ToSet(freeOpers') = ToSet(freeOpers) \cup nodes
        /\ IsInjective(freeOpers')
    <3>1. PICK order \in SetToSeqs(nodes) : freeOpers' = freeOpers \o order
      BY <1>11
    <3>2. ToSet(freeOpers) \cap nodes = {}
      BY <2>1, <1>3
    <3> QED BY <2>1, <3>1, <3>2, <1>3, ReleaseAllType
  <2>3. InHand' = InHand /\ Distinct'
    BY <1>11, <1>3, SameHands
  <2>4. NoExits'
    BY <1>11, <1>3, Constants0 DEF NoExits
  <2> QED BY <1>11, <2>1, <2>2, <2>3, <2>4, <1>3
<1>12. ASSUME NEW t \in Threads, NEW c \in Clients, NEW k \in Kinds, ReleasePending(t, c, k)
       PROVE  Goal
  <2> DEFINE nodes == pending[<<c, k>>]
  <2>1. /\ \A o : o \in nodes <=> \E x \in {<<c, k>>} : o \in pending[x]
        /\ {<<c, k>>} \in SUBSET (Clients \X Kinds)
    OBVIOUS
  <2>2. \A x \in Clients \X Kinds : pending'[x] = IF x \in {<<c, k>>} THEN {} ELSE pending[x]
    BY <1>12 DEF ReleasePending, TypeOK
  <2>3. /\ \E order \in SetToSeqs(nodes) : freeOpers' = freeOpers \o order
        /\ operType' = [o \in Opers |-> IF o \in nodes THEN RELEASED ELSE operType[o]]
        /\ UNCHANGED <<operCount, io, call>>
    BY <1>12 DEF ReleasePending
  <2> HIDE DEF nodes
  <2> QED BY <2>1, <2>2, <2>3, <1>11
<1>13. ASSUME NEW S \in SUBSET Clients, ReleaseAllPending(S) PROVE Goal
  <2> DEFINE nodes == UNION {pending[x] : x \in S \X Kinds}
  <2>1. /\ \A o : o \in nodes <=> \E x \in S \X Kinds : o \in pending[x]
        /\ S \X Kinds \in SUBSET (Clients \X Kinds)
    OBVIOUS
  <2>2. \A x \in Clients \X Kinds : pending'[x] = IF x \in S \X Kinds THEN {} ELSE pending[x]
    BY <1>13 DEF ReleaseAllPending
  <2>3. /\ \E order \in SetToSeqs(nodes) : freeOpers' = freeOpers \o order
        /\ operType' = [o \in Opers |-> IF o \in nodes THEN RELEASED ELSE operType[o]]
        /\ UNCHANGED <<operCount, io, call>>
    BY <1>13 DEF ReleaseAllPending
  <2> HIDE DEF nodes
  <2> QED BY <2>1, <2>2, <2>3, <1>11
<1>14. ASSUME NEW t \in Threads, NEW p \in DOMAIN io, TakeKillThread(t, p) PROVE Goal
  BY <1>14, <1>3 DEF TakeKillThread, NoExits
<1>15. CASE PostKillThread
  BY <1>15, <1>1, <1>2 DEF PostKillThread
<1>16. CASE ClosePort \/ UNCHANGED vars
  <2>1. UNCHANGED <<freeOpers, operCount, operType, pending, call>>
    BY <1>16 DEF ClosePort, vars
  <2>2. InHand' = InHand /\ Distinct'
    BY <2>1, <1>3, SameHands
  <2>3. DOMAIN io' \subseteq DOMAIN io
    BY <1>16 DEF ClosePort, vars, EmptyBag, SetToBag
  <2>4. NoExits'
    BY <2>1, <2>3, <1>3 DEF NoExits
  <2> QED BY <2>1, <2>2, <2>4, <1>5
<1> HIDE DEF Goal
<1> QED
  BY <1>4, <1>6, <1>7, <1>8, <1>9, <1>10, <1>12, <1>13, <1>14, <1>15, <1>16, ThreadAssumption
  DEF Next

\* Until the stop every node has one owner, whatever completes late and whatever
\* stubs and nodes it completes with.
THEOREM OpersOwned == Spec => []OperOwnership
<1>1. Init => TypeOK /\ Locals /\ Owned
  <2> SUFFICES ASSUME Init PROVE Owned
    BY TypeInit
  <2>1. ToSet(freeOpers) = 1 .. InitOpers /\ IsInjective(freeOpers)
    BY OperAssumption DEF Init, ToSet, IsInjective
  <2>2. InHand = {} /\ Posting = {} /\ Listed = {}
    BY DEF Init, InHand, Posting, Listed, Idle
  <2>3. NoExits
    BY Constants0 DEF Init, NoExits, EmptyBag, SetToBag
  <2> QED BY <2>1, <2>2, <2>3 DEF Init, Owned, Exclusive, NoneLost
<1>2. TypeOK /\ Locals /\ Owned /\ [Next]_vars => TypeOK' /\ Locals' /\ Owned'
  BY TypeStep, OwnedStep
<1>3. Owned => OperOwnership
  BY DEF Owned, OperOwnership
<1>4. QED
  BY <1>1, <1>2, <1>3, PTL DEF Spec
----------------------------------------------------------------------------
(* What a packet says of its node                                          *)

\* The nodes that exist and are not in the pool; the threads that have a node which no
\* packet has, because they are about to post it or have dequeued it.
Pool  == IsInjective(freeOpers) /\ ToSet(freeOpers) \subseteq 1 .. operCount
Taken == (1 .. operCount) \ ToSet(freeOpers)
Using == {t \in Threads : call[t].at \in {"filled", "done", "eraserecv", "erasesend"}}

\* As long as no client is closed, a packet finds its node as it was posted: only one
\* packet or thread has the node, and the pool does not have it.
PacketsTrue ==
  /\ \A p \in DOMAIN io : /\ io[p] = 1 /\ p.oper \in Taken /\ operType[p.oper] = p.kind
                          /\ p.key # NoClient => p.kind \in Kinds
  /\ \A p, q \in DOMAIN io : p.oper = q.oper => p = q

ThreadsTrue ==
  /\ \A t \in Threads : call[t].at \notin {"findrecv", "findsend"}
  /\ \A t \in Threads : call[t].at \in {"filled", "done"} => operType[call[t].oper] = call[t].type
  /\ \A t \in Using : call[t].oper \in Taken /\ call[t].type \in Kinds
  /\ \A t \in Using, p \in DOMAIN io : p.oper # call[t].oper
  /\ \A t, u \in Using : call[t].oper = call[u].oper => t = u

Fresh == Pool /\ PacketsTrue /\ ThreadsTrue

\* A node leaves the pool, ...
LEMMA NodeTaken ==
  ASSUME TypeOK, Pool, NEW o \in Opers, GetIOOperData(o)
  PROVE  Pool' /\ o \notin Taken /\ Taken' = Taken \cup {o}
<1>1. CASE /\ freeOpers # <<>>
           /\ o = Head(freeOpers)
           /\ freeOpers' = Tail(freeOpers)
           /\ UNCHANGED operCount
  <2>1. /\ ToSet(freeOpers) = {o} \cup ToSet(freeOpers')
        /\ IsInjective(freeOpers')
        /\ o \notin ToSet(freeOpers')
    BY <1>1, PopFront DEF TypeOK, Pool
  <2> QED BY <1>1, <2>1 DEF Pool, Taken
<1>2. CASE /\ freeOpers = <<>>
           /\ operCount + OperBlock <= MaxOpers
           /\ o = operCount + 1
           /\ freeOpers' = NewOpers(operCount)
           /\ operCount' = operCount + OperBlock
  <2>1. operCount \in Nat /\ OperBlock \in Nat \ {0} /\ MaxOpers \in Nat
    BY OperAssumption DEF TypeOK
  <2>2. /\ ToSet(freeOpers') = (operCount + 2) .. (operCount + OperBlock)
        /\ IsInjective(freeOpers')
    BY <1>2, <2>1, RestOfBlock DEF NewOpers
  <2>3. Taken = 1 .. operCount
    BY <1>2 DEF ToSet, Taken
  <2>4. Taken' = (1 .. operCount) \cup {o}
    BY <1>2, <2>1, <2>2 DEF Taken
  <2>5. ToSet(freeOpers') \subseteq 1 .. operCount' /\ o \notin 1 .. operCount
    BY <1>2, <2>1, <2>2
  <2> QED BY <2>2, <2>3, <2>4, <2>5 DEF Pool
<1> QED BY <1>1, <1>2 DEF GetIOOperData

\* ... and goes back to it.
LEMMA NodeGiven ==
  ASSUME TypeOK, Pool, NEW o \in Taken, freeOpers' = Append(freeOpers, o), operCount' = operCount
  PROVE  Pool' /\ Taken' = Taken \ {o}
<1>1. o \in Opers /\ o \notin ToSet(freeOpers) /\ o \in 1 .. operCount
  BY OperAssumption DEF Taken, TypeOK, Opers
<1>2. ToSet(freeOpers') = ToSet(freeOpers) \cup {o} /\ IsInjective(freeOpers')
  BY <1>1, PushBack DEF TypeOK, Pool
<1> QED BY <1>1, <1>2 DEF Pool, Taken

LEMMA NodesStay ==
  ASSUME UNCHANGED <<freeOpers, operCount>>
  PROVE  (Pool => Pool') /\ Taken' = Taken
BY DEF Pool, Taken

\* The packets when there is one of each: after one is added, ...
LEMMA PacketPut ==
  ASSUME \A q \in DOMAIN io : io[q] = 1, NEW p, p \notin DOMAIN io, io' = io (+) SetToBag({p})
  PROVE  DOMAIN io' = DOMAIN io \cup {p} /\ \A q \in DOMAIN io' : io'[q] = 1
BY DEF (+), SetToBag

\* ... and after one is taken away.
LEMMA PacketGone ==
  ASSUME \A q \in DOMAIN io : io[q] = 1, NEW p \in DOMAIN io, io' = io (-) SetToBag({p})
  PROVE  DOMAIN io' = DOMAIN io \ {p} /\ \A q \in DOMAIN io' : io'[q] = 1
<1>1. PICK e : e = SetToBag({p})
  OBVIOUS
<1>2. DOMAIN e = {p} /\ e[p] = 1
  BY <1>1 DEF SetToBag
<1>3. PICK f : f = [q \in DOMAIN io |-> IF q \in DOMAIN e THEN io[q] - e[q] ELSE io[q]]
  OBVIOUS
<1>4. DOMAIN f = DOMAIN io /\ f[p] = 0 /\ \A q \in DOMAIN io \ {p} : f[q] = 1
  BY <1>2, <1>3
<1>5. io' = [q \in {x \in DOMAIN f : f[x] > 0} |-> f[q]]
  BY <1>1, <1>3 DEF (-)
<1>6. {x \in DOMAIN f : f[x] > 0} = DOMAIN io \ {p}
  BY <1>4
<1> QED BY <1>4, <1>5, <1>6

\* Every step but those that close clients and the port.
NoneClosing ==
  \/ \E t \in Threads, c \in Clients, k \in Kinds : FillOper(t, c, k)
  \/ \E t \in Threads, c \in Clients : PostPends(t, c)
  \/ \E t \in Threads : PostFails(t) \/ InsertPending(t) \/ ReleaseOperData(t)
  \/ \E t \in Threads, p \in DOMAIN io :
       TakeKillThread(t, p) \/ \E r \in Results(p.kind) : Dequeue(t, p, r)
  \/ PostKillThread
  \/ UNCHANGED vars

LEMMA FreshStep ==
  ASSUME TypeOK, Locals, Fresh, NoneClosing
  PROVE  Fresh'
<1>0. /\ Pool /\ PacketsTrue /\ ThreadsTrue /\ DOMAIN call = Threads /\ DOMAIN operType = Opers
      /\ \A p \in DOMAIN io : io[p] = 1 /\ p.oper \in Opers /\ p \in Packet
  BY DEF Fresh, PacketsTrue, TypeOK, Packet
<1>1. ASSUME NEW t \in Threads, NEW c \in Clients, NEW k \in Kinds, FillOper(t, c, k) PROVE Fresh'
  <2> DEFINE Next0(o) == [Idle EXCEPT !.at = "filled", !.oper = o, !.client = c, !.type = k]
  <2>1. PICK o \in Opers :
          /\ GetIOOperData(o)
          /\ operType' = [operType EXCEPT ![o] = k]
          /\ call' = [call EXCEPT ![t] = Next0(o)]
    BY <1>1, Zenon DEF FillOper
  <2>a. Next0(o).at = "filled" /\ Next0(o).oper = o /\ Next0(o).type = k /\ Idle.at = "idle"
    BY DEF Idle
  <2> HIDE DEF Next0
  <2>2. /\ call'[t].at = "filled" /\ call'[t].oper = o /\ call'[t].type = k /\ io' = io
        /\ call[t].at = "idle" /\ \A u \in Threads : u # t => call'[u] = call[u]
    BY <1>0, <1>1, <2>1, <2>a DEF FillOper
  <2>3. Pool' /\ o \notin Taken /\ Taken' = Taken \cup {o}
    BY <1>0, <2>1, NodeTaken
  <2>4. operType'[o] = k /\ \A x \in Opers : x # o => operType'[x] = operType[x]
    BY <1>0, <2>1
  <2>5. PacketsTrue'
    BY <1>0, <2>2, <2>3, <2>4 DEF PacketsTrue
  <2>6. Using' = Using \cup {t} /\ t \notin Using
    BY <2>2 DEF Using
  <2>7. \A u \in Using : call[u].oper \in Taken /\ call[u].oper \in Opers /\ u # t /\ u \in Threads
    BY <1>0, <2>6, Constants0 DEF ThreadsTrue, Using, Locals, Releasing
  <2>8. ThreadsTrue'
    <3>1. \A u \in Threads : call'[u].at \in {"filled", "done"} => operType'[call'[u].oper] = call'[u].type
      BY <1>0, <2>2, <2>3, <2>4, <2>7 DEF ThreadsTrue, Using
    <3>2. \A u \in Using', p \in DOMAIN io' : p.oper # call'[u].oper
      BY <1>0, <2>2, <2>3, <2>6 DEF ThreadsTrue, PacketsTrue, Using
    <3>3. \A u, v \in Using' : call'[u].oper = call'[v].oper => u = v
      BY <1>0, <2>2, <2>3, <2>6, <2>7 DEF ThreadsTrue
    <3>4. \A u \in Using' : call'[u].oper \in Taken' /\ call'[u].type \in Kinds
      BY <1>0, <2>2, <2>3, <2>6, <2>7 DEF ThreadsTrue
    <3>5. \A u \in Threads : call'[u].at \notin {"findrecv", "findsend"}
      BY <1>0, <2>2 DEF ThreadsTrue
    <3> QED BY <3>1, <3>2, <3>3, <3>4, <3>5 DEF ThreadsTrue
  <2> QED BY <2>3, <2>5, <2>8 DEF Fresh
\* A thread that gives its node away, or goes on with none.
<1>2. ASSUME NEW t \in Threads, call' = [call EXCEPT ![t] = Idle],
             io' = io, operType' = operType, operCount' = operCount,
             freeOpers' = freeOpers \/ (t \in Using /\ freeOpers' = Append(freeOpers, call[t].oper))
      PROVE  Fresh'
  <2>1. /\ call'[t].at = "idle" /\ \A u \in Threads : u # t => call'[u] = call[u]
        /\ Using' = Using \ {t}
    BY <1>0, <1>2 DEF Idle, Using
  <2>2. Pool' /\ (Taken' = Taken \/ (t \in Using /\ Taken' = Taken \ {call[t].oper}))
    <3>1. CASE freeOpers' = freeOpers
      BY <1>0, <1>2, <3>1, NodesStay
    <3>2. CASE t \in Using /\ freeOpers' = Append(freeOpers, call[t].oper)
      <4>1. call[t].oper \in Taken
        BY <1>0, <3>2 DEF ThreadsTrue
      <4> QED BY <1>0, <1>2, <3>2, <4>1, NodeGiven
    <3> QED BY <1>2, <3>1, <3>2
  <2>3. PacketsTrue'
    BY <1>0, <1>2, <2>2 DEF PacketsTrue, ThreadsTrue
  <2>4. ThreadsTrue'
    <3>1. \A u \in Using' : u \in Using /\ u # t /\ call'[u] = call[u] /\ u \in Threads
      BY <2>1 DEF Using
    <3>2. \A u \in Using' : call[u].oper \in Taken'
      BY <1>0, <2>2, <3>1 DEF ThreadsTrue
    <3> QED BY <1>0, <1>2, <2>1, <3>1, <3>2 DEF ThreadsTrue
  <2> QED BY <2>2, <2>3, <2>4 DEF Fresh
<1>3. ASSUME NEW t \in Threads, PostFails(t) \/ InsertPending(t) PROVE Fresh'
  BY <1>2, <1>3 DEF PostFails, InsertPending, Using
<1>4. ASSUME NEW t \in Threads, NEW c \in Clients, PostPends(t, c) PROVE Fresh'
  <2>1. PICK p : p = [oper |-> call[t].oper, key |-> c, kind |-> call[t].type]
    OBVIOUS
  <2>2. /\ call[t].at = "filled" /\ call'[t].at = "posted"
        /\ \A u \in Threads : u # t => call'[u] = call[u]
        /\ p.oper = call[t].oper /\ p.kind = call[t].type /\ io' = io (+) SetToBag({p})
        /\ UNCHANGED <<freeOpers, operCount, operType>>
    BY <1>0, <1>4, <2>1 DEF PostPends
  <2>3. t \in Using /\ Using' = Using \ {t} /\ \A q \in DOMAIN io : q.oper # p.oper
    BY <1>0, <2>2 DEF Using, ThreadsTrue
  <2>4. DOMAIN io' = DOMAIN io \cup {p} /\ \A q \in DOMAIN io' : io'[q] = 1
    <3>1. p \notin DOMAIN io /\ \A q \in DOMAIN io : io[q] = 1
      BY <1>0, <2>3
    <3> QED BY <2>2, <3>1, PacketPut, Zenon
  <2>5. p.oper \in Taken /\ p.kind \in Kinds /\ operType[p.oper] = p.kind
    BY <1>0, <2>2, <2>3 DEF ThreadsTrue
  <2>6. Pool' /\ Taken' = Taken
    BY <1>0, <2>2, NodesStay
  <2>7. PacketsTrue'
    BY <1>0, <2>2, <2>3, <2>4, <2>5, <2>6 DEF PacketsTrue
  <2>8. ThreadsTrue'
    <3>1. \A u \in Using' : u \in Using /\ u # t /\ call'[u] = call[u] /\ u \in Threads
      BY <2>2, <2>3 DEF Using
    <3>2. \A u \in Using', q \in DOMAIN io' : q.oper # call'[u].oper
      BY <1>0, <2>2, <2>3, <2>4, <3>1 DEF ThreadsTrue
    <3>3. \A u \in Threads : /\ call'[u].at \notin {"findrecv", "findsend"}
                             /\ call'[u].at \in {"filled", "done"} => operType'[call'[u].oper] = call'[u].type
      BY <1>0, <2>2 DEF ThreadsTrue
    <3>4. \A u \in Using' : call'[u].oper \in Taken' /\ call'[u].type \in Kinds
      BY <1>0, <2>6, <3>1 DEF ThreadsTrue
    <3>5. \A u, v \in Using' : call'[u].oper = call'[v].oper => u = v
      BY <1>0, <3>1 DEF ThreadsTrue
    <3> QED BY <3>2, <3>3, <3>4, <3>5 DEF ThreadsTrue
  <2> QED BY <2>6, <2>7, <2>8 DEF Fresh
<1>5. ASSUME NEW t \in Threads, NEW p \in DOMAIN io, NEW r \in Results(p.kind), Dequeue(t, p, r)
      PROVE  Fresh'
  <2>1. /\ operType[p.oper] = p.kind /\ p.kind \in Kinds /\ p.kind # KILLTHREAD /\ p.kind # RELEASED
        /\ p.oper \in Taken
    BY <1>0, <1>5, Constants0 DEF Dequeue, PacketsTrue
  <2>2. call' = [call EXCEPT ![t] = [at |-> "done", oper |-> p.oper, client |-> p.key,
                                     type |-> p.kind, ok |-> r.ok, data |-> r.data]]
    BY <1>5, <2>1 DEF Dequeue
  <2>3. /\ call'[t].at = "done" /\ call'[t].oper = p.oper /\ call'[t].type = p.kind /\ call[t].at = "idle"
        /\ \A u \in Threads : u # t => call'[u] = call[u]
    BY <1>0, <1>5, <2>2 DEF Dequeue, Idle
  <2>4. UNCHANGED <<freeOpers, operCount, operType>> /\ io' = io (-) SetToBag({p})
    BY <1>5, <2>1 DEF Dequeue
  <2>5. DOMAIN io' = DOMAIN io \ {p} /\ \A q \in DOMAIN io' : io'[q] = 1
    <3>1. \A q \in DOMAIN io : io[q] = 1
      BY <1>0
    <3> QED BY <2>4, <3>1, PacketGone, Zenon
  <2>6. Pool' /\ Taken' = Taken
    BY <1>0, <2>4, NodesStay
  <2>7. PacketsTrue'
    BY <1>0, <2>4, <2>5, <2>6 DEF PacketsTrue
  <2>8. ThreadsTrue'
    <3>1. Using' = Using \cup {t} /\ t \notin Using /\ \A u \in Using : call'[u] = call[u] /\ u \in Threads
      BY <2>3 DEF Using
    <3>2. \A u \in Using : call[u].oper # p.oper
      BY <1>0 DEF ThreadsTrue
    <3>3. \A q \in DOMAIN io' : q.oper # p.oper /\ q \in DOMAIN io
      BY <1>0, <2>5 DEF PacketsTrue
    <3>4. \A u \in Using', q \in DOMAIN io' : q.oper # call'[u].oper
      BY <1>0, <2>3, <3>1, <3>3 DEF ThreadsTrue
    <3>5. \A u, v \in Using' : call'[u].oper = call'[v].oper => u = v
      BY <1>0, <2>3, <3>1, <3>2 DEF ThreadsTrue
    <3>6. \A u \in Using' : call'[u].oper \in Taken' /\ call'[u].type \in Kinds
      BY <1>0, <2>1, <2>3, <2>6, <3>1 DEF ThreadsTrue
    <3>7. \A u \in Threads : /\ call'[u].at \notin {"findrecv", "findsend"}
                             /\ call'[u].at \in {"filled", "done"} => operType'[call'[u].oper] = call'[u].type
      BY <1>0, <2>1, <2>3, <2>4 DEF ThreadsTrue
    <3> QED BY <3>4, <3>5, <3>6, <3>7 DEF ThreadsTrue
  <2> QED BY <2>6, <2>7, <2>8 DEF Fresh
<1>6. ASSUME NEW t \in Threads, ReleaseOperData(t) PROVE Fresh'
  <2>1. CASE MarkOper(t)
    <3>1. PICK o \in Opers : o = call[t].oper /\ call[t].at = "done" /\ operType[o] = call[t].type
      BY <1>0, <2>1, Constants0 DEF MarkOper, Locals, ThreadsTrue
    <3>2. t \in Using /\ operType[o] \in Kinds
      BY <1>0, <3>1 DEF Using, ThreadsTrue
    <3>3. /\ operType' = [operType EXCEPT ![o] = RELEASED]
          /\ \E k \in Kinds : call' = [call EXCEPT ![t].at = Erasing(k)]
          /\ UNCHANGED <<freeOpers, operCount, io>>
      BY <2>1, <3>1, <3>2 DEF MarkOper
    <3>4. /\ call'[t].at \in {"eraserecv", "erasesend"} /\ call'[t].oper = o /\ call'[t].type = call[t].type
          /\ \A u \in Threads : u # t => call'[u] = call[u]
      BY <1>0, <3>1, <3>3 DEF Erasing
    <3>5. Using' = Using /\ \A u \in Using : call'[u].oper = call[u].oper /\ call'[u].type = call[u].type
      BY <3>1, <3>2, <3>4 DEF Using
    <3>6. Pool' /\ Taken' = Taken
      BY <1>0, <3>3, NodesStay
    <3>7. PacketsTrue'
      <4>1. \A p \in DOMAIN io : p.oper # o
        BY <1>0, <3>1, <3>2 DEF ThreadsTrue
      <4> QED BY <1>0, <3>3, <3>6, <4>1 DEF PacketsTrue
    <3>8. ThreadsTrue'
      <4>1. \A u \in Threads : u # t /\ call[u].at \in {"filled", "done"} => call[u].oper # o /\ call[u].oper \in Opers
        BY <1>0, <3>1, <3>2, Constants0 DEF ThreadsTrue, Using, Locals
      <4>2. \A u \in Threads : call'[u].at \in {"filled", "done"} => operType'[call'[u].oper] = call'[u].type
        BY <1>0, <3>3, <3>4, <4>1 DEF ThreadsTrue
      <4> QED BY <1>0, <3>3, <3>4, <3>5, <3>6, <4>2 DEF ThreadsTrue
    <3> QED BY <3>6, <3>7, <3>8 DEF Fresh
  <2>2. CASE \E k \in Kinds : EraseOper(t, k)
    <3>1. t \in Using /\ call' = [call EXCEPT ![t] = Idle] /\ UNCHANGED <<operCount, operType, io>>
      BY <2>2 DEF EraseOper, Erasing, Using
    <3>2. freeOpers' = freeOpers \/ freeOpers' = Append(freeOpers, call[t].oper)
      BY <2>2 DEF EraseOper, Unlist
    <3> QED BY <1>2, <3>1, <3>2
  <2>3. CASE \E k \in Kinds : FindOper(t, k)
    BY <1>0, <2>3 DEF FindOper, Finding, ThreadsTrue
  <2> QED BY <1>6, <2>1, <2>2, <2>3 DEF ReleaseOperData
<1>7. ASSUME NEW t \in Threads, NEW p \in DOMAIN io, TakeKillThread(t, p) PROVE Fresh'
  <2>1. /\ p.oper \in Taken /\ freeOpers' = Append(freeOpers, p.oper)
        /\ UNCHANGED <<operCount, operType>> /\ io' = io (-) SetToBag({p})
    BY <1>0, <1>7 DEF TakeKillThread, PacketsTrue
  <2>2. Pool' /\ Taken' = Taken \ {p.oper}
    BY <1>0, <2>1, NodeGiven
  <2>3. DOMAIN io' = DOMAIN io \ {p} /\ \A q \in DOMAIN io' : io'[q] = 1
    <3>1. \A q \in DOMAIN io : io[q] = 1
      BY <1>0
    <3> QED BY <2>1, <3>1, PacketGone, Zenon
  <2>4. /\ call[t].at = "idle" /\ call'[t].at \in {"idle", "exited"}
        /\ \A u \in Threads : u # t => call'[u] = call[u]
    BY <1>0, <1>7 DEF TakeKillThread, Idle
  <2>5. PacketsTrue'
    BY <1>0, <2>1, <2>2, <2>3 DEF PacketsTrue
  <2>6. Using' = Using /\ \A u \in Using : call'[u] = call[u] /\ u \in Threads
    BY <2>4 DEF Using
  <2>7. ThreadsTrue'
    <3>1. \A u \in Threads : /\ call'[u].at \notin {"findrecv", "findsend"}
                             /\ call'[u].at \in {"filled", "done"} => operType'[call'[u].oper] = call'[u].type
      BY <1>0, <2>1, <2>4 DEF ThreadsTrue
    <3>2. \A u \in Using : call[u].oper # p.oper
      BY <1>0 DEF ThreadsTrue
    <3> QED BY <1>0, <2>2, <2>3, <2>6, <3>1, <3>2 DEF ThreadsTrue
  <2> QED BY <2>2, <2>5, <2>7 DEF Fresh
<1>8. CASE PostKillThread
  <2>1. PICK o \in Opers :
          /\ GetIOOperData(o)
          /\ operType' = [operType EXCEPT ![o] = KILLTHREAD]
          /\ io' = io (+) SetToBag({[oper |-> o, key |-> NoClient, kind |-> KILLTHREAD]})
    BY <1>8 DEF PostKillThread
  <2>2. PICK p : p = [oper |-> o, key |-> NoClient, kind |-> KILLTHREAD]
    OBVIOUS
  <2>3. Pool' /\ o \notin Taken /\ Taken' = Taken \cup {o}
    BY <1>0, <2>1, NodeTaken
  <2>4. p.oper = o /\ p.key = NoClient /\ p.kind = KILLTHREAD /\ io' = io (+) SetToBag({p}) /\ call' = call
    BY <1>8, <2>1, <2>2 DEF PostKillThread
  <2>5. \A q \in DOMAIN io : q.oper # o
    BY <1>0, <2>3 DEF PacketsTrue
  <2>6. DOMAIN io' = DOMAIN io \cup {p} /\ \A q \in DOMAIN io' : io'[q] = 1
    <3>1. p \notin DOMAIN io /\ \A q \in DOMAIN io : io[q] = 1
      BY <1>0, <2>4, <2>5
    <3> QED BY <2>4, <3>1, PacketPut, Zenon
  <2>7. operType'[o] = KILLTHREAD /\ \A x \in Opers : x # o => operType'[x] = operType[x]
    BY <1>0, <2>1
  <2>8. PacketsTrue'
    BY <1>0, <2>3, <2>4, <2>5, <2>6, <2>7 DEF PacketsTrue
  <2>9. ThreadsTrue'
    <3>1. Using' = Using /\ \A u \in Using : call[u].oper # o
      BY <1>0, <2>3, <2>4 DEF Using, ThreadsTrue
    <3>2. \A u \in Threads : call[u].at \in {"filled", "done"} => u \in Using /\ call[u].oper \in Opers
      BY Constants0 DEF Using, Locals
    <3> QED BY <1>0, <2>3, <2>4, <2>6, <2>7, <3>1, <3>2 DEF ThreadsTrue
  <2> QED BY <2>3, <2>8, <2>9 DEF Fresh
<1>9. CASE UNCHANGED vars
  <2>1. UNCHANGED <<freeOpers, operCount, operType, io, call>>
    BY <1>9 DEF vars
  <2>2. Pool' /\ Taken' = Taken /\ Using' = Using
    BY <1>0, <2>1, NodesStay DEF Using
  <2> QED BY <1>0, <2>1, <2>2 DEF Fresh, PacketsTrue, ThreadsTrue
<1> QED BY <1>1, <1>3, <1>4, <1>5, <1>6, <1>7, <1>8, <1>9 DEF NoneClosing

LEMMA FreshInit == Init => Fresh
<1> SUFFICES ASSUME Init PROVE Fresh
  OBVIOUS
<1>1. DOMAIN io = {} /\ \A t \in Threads : call[t].at = "idle"
  BY DEF Init, Idle, EmptyBag, SetToBag
<1>2. Pool
  BY OperAssumption DEF Init, Pool, ToSet, IsInjective
<1> QED BY <1>1, <1>2 DEF Fresh, PacketsTrue, ThreadsTrue, Using
============================================================================
