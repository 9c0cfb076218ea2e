------------------------ MODULE ClientManagerProofs ------------------------
(***************************************************************************)
(* The manager's type, its ownership of stubs and its ownership of sockets *)
(* hold for any number of threads, stubs and sockets.                      *)
(***************************************************************************)
EXTENDS ClientManager, FreeListLemmas

\* What SocketOwnership rests on: where a stub without a socket can be, and that
\* the handle the accept thread has not stored yet is open.
Sockets0 ==
  /\ \A t \in Threads : mgr[t].at = "got" =>
       /\ socket[mgr[t].client] = NoSocket
       /\ mgr[t].sock # NoSocket => mgr[t].sock \in opened
  /\ \A t \in Threads : mgr[t].at \in {"closed", "reset"} => socket[mgr[t].client] = NoSocket
  /\ \A c \in Clients : c > clientCount => socket[c] = NoSocket

IInv == TypeOK /\ StubOwnership /\ SocketOwnership /\ Sockets0

----------------------------------------------------------------------------
(* The type of every variable                                              *)

\* What GetFreeClient does to the free list, whichever branch it takes.
LEMMA GetFreeClientType ==
  ASSUME TypeOK, NEW c \in Clients, GetFreeClient(c)
  PROVE  /\ freeClients' \in Seq(Clients)
         /\ clientCount' \in 0 .. MaxClients
         /\ clientCount <= clientCount'
<1>1. CASE /\ freeClients # <<>>
           /\ freeClients' = Tail(freeClients)
           /\ UNCHANGED clientCount
  BY <1>1 DEF TypeOK
<1>2. CASE /\ clientCount + ClientBlock <= MaxClients
           /\ freeClients' = NewClients(clientCount)
           /\ clientCount' = clientCount + ClientBlock
  <2>1. clientCount \in Nat /\ clientCount' \in 0 .. MaxClients /\ clientCount <= clientCount'
    BY <1>2, ClientAssumption DEF TypeOK
  <2>2. freeClients' \in Seq(1 .. MaxClients)
    BY <1>2, <2>1, ClientAssumption, RestOfBlock DEF NewClients
  <2> QED BY <2>1, <2>2 DEF Clients
<1> QED BY <1>1, <1>2 DEF GetFreeClient

\* What CloseAllClient does to the free list: the real clients follow in some
\* order, each once.
LEMMA PushAllType ==
  ASSUME TypeOK, PushAll(realClients)
  PROVE  /\ freeClients' \in Seq(Clients)
         /\ ToSet(freeClients') = ToSet(freeClients) \cup realClients
         /\ IsInjective(freeClients) /\ ToSet(freeClients) \cap realClients = {}
              => IsInjective(freeClients')
<1>1. PICK order \in SetToSeqs(realClients) : freeClients' = freeClients \o order
  BY DEF PushAll
<1>2. IsFiniteSet(realClients)
  <2>1. IsFiniteSet(Clients)
    BY ClientAssumption, FS_Interval DEF Clients
  <2> QED BY <2>1, FS_Subset DEF TypeOK
<1>3. order \in Seq(Clients) /\ ToSet(order) = realClients /\ IsInjective(order)
  BY <1>1, <1>2, OrderOfSet DEF TypeOK
<1> QED BY <1>1, <1>3, PushList DEF TypeOK

\* Each variable has its type initially,
LEMMA TypeInit == Init => TypeOK
<1> SUFFICES ASSUME Init PROVE TypeOK
  OBVIOUS
<1>1. freeClients \in Seq(Clients)
  <2>1. freeClients \in [1 .. InitClients -> Clients]
    BY ClientAssumption DEF Init, Clients
  <2> QED BY <2>1, ClientAssumption
<1> QED BY <1>1, ClientAssumption DEF Init, TypeOK, Handles, Idle, Clients

\* and keeps it.
LEMMA TypeStep ==
  ASSUME TypeOK, [Next]_vars
  PROVE  TypeOK'
<1> DEFINE InCall == [at : {"got", "inited", "erased", "closed", "reset"},
                      client : Clients, sock : Handles]
<1>1. ASSUME NEW t \in Threads, mgr[t].at # "idle"
      PROVE  mgr[t] \in InCall /\ mgr[t].client \in Clients /\ mgr[t].sock \in Handles
  BY <1>1 DEF TypeOK, Idle
<1>2. ASSUME NEW t \in Threads, NEW call \in {Idle} \cup InCall,
             mgr' = [mgr EXCEPT ![t] = call]
      PROVE  mgr' \in [Threads -> {Idle} \cup InCall]
  BY <1>2 DEF TypeOK
<1>3. ASSUME NEW t \in Threads, NEW step \in {"inited", "closed", "reset"},
             mgr[t].at # "idle", GoTo(t, step)
      PROVE  mgr' \in [Threads -> {Idle} \cup InCall]
  <2>1. [mgr[t] EXCEPT !.at = step] \in InCall
    BY <1>1, <1>3
  <2>2. mgr' = [mgr EXCEPT ![t] = [mgr[t] EXCEPT !.at = step]]
    BY <1>3 DEF GoTo, TypeOK
  <2> QED BY <2>1, <2>2, <1>2
<1>4. ASSUME NEW t \in Threads, NEW s \in Handles, AcceptClient(t, s) PROVE TypeOK'
  <2>1. PICK c \in Clients :
          /\ GetFreeClient(c)
          /\ mgr' = [mgr EXCEPT ![t] = [at |-> "got", client |-> c, sock |-> s]]
    BY <1>4 DEF AcceptClient
  <2>2. freeClients' \in Seq(Clients) /\ clientCount' \in 0 .. MaxClients
    BY <2>1, GetFreeClientType
  <2>3. mgr' \in [Threads -> {Idle} \cup InCall]
    BY <2>1, <1>2
  <2> QED BY <1>4, <2>2, <2>3 DEF AcceptClient, TypeOK
<1>5. ASSUME NEW t \in Threads, NEW c \in 1 .. clientCount, RemoveRealClient(t, c) PROVE TypeOK'
  <2>1. c \in Clients
    BY ClientAssumption DEF Clients, TypeOK
  <2>2. [at |-> "erased", client |-> c, sock |-> NoSocket] \in InCall
    BY <2>1 DEF Handles
  <2>3. mgr' \in [Threads -> {Idle} \cup InCall]
    BY <1>5, <2>2, <1>2 DEF RemoveRealClient, TypeOK
  <2> QED BY <1>5, <2>3 DEF RemoveRealClient, TypeOK
<1>6. ASSUME NEW t \in Threads, InitClient(t) PROVE TypeOK'
  <2>1. mgr[t].at # "idle" /\ mgr' \in [Threads -> {Idle} \cup InCall]
    BY <1>6, <1>3 DEF InitClient
  <2> QED BY <1>6, <2>1, <1>1 DEF InitClient, TypeOK
<1>7. ASSUME NEW t \in Threads, AddRealClient(t) PROVE TypeOK'
  <2>1. mgr[t].client \in Clients /\ mgr' \in [Threads -> {Idle} \cup InCall]
    BY <1>7, <1>1, <1>2 DEF AddRealClient
  <2> QED BY <1>7, <2>1 DEF AddRealClient, TypeOK
<1>8. ASSUME NEW t \in Threads, CloseSocket(t) PROVE TypeOK'
  <2>1. mgr' \in [Threads -> {Idle} \cup InCall]
    BY <1>8, <1>3 DEF CloseSocket
  <2>2. socket' \in [Clients -> Handles]
    BY <1>8 DEF CloseSocket, Invalidate, Handles, TypeOK
  <2> QED BY <1>8, <2>1, <2>2 DEF CloseSocket, TypeOK
<1>9. ASSUME NEW t \in Threads, ResetStatus(t) PROVE TypeOK'
  <2>1. mgr' \in [Threads -> {Idle} \cup InCall]
    BY <1>9, <1>3 DEF ResetStatus
  <2> QED BY <1>9, <2>1 DEF ResetStatus, TypeOK
<1>10. ASSUME NEW t \in Threads, PushFreeClient(t) PROVE TypeOK'
  <2>1. mgr[t].client \in Clients /\ mgr' \in [Threads -> {Idle} \cup InCall]
    BY <1>10, <1>1, <1>2 DEF PushFreeClient
  <2>2. freeClients' \in Seq(Clients)
    BY <1>10, <2>1, PushBack DEF PushFreeClient, TypeOK
  <2> QED BY <1>10, <2>1, <2>2 DEF PushFreeClient, TypeOK
<1>11. CASE CloseAllClient
  <2>1. freeClients' \in Seq(Clients)
    BY <1>11, PushAllType DEF CloseAllClient
  <2>2. socket' \in [Clients -> Handles] /\ status' \in [Clients -> {-1, 1}]
    BY <1>11 DEF CloseAllClient, Invalidate, Handles, TypeOK
  <2> QED BY <1>11, <2>1, <2>2 DEF CloseAllClient, TypeOK
<1>12. CASE UNCHANGED vars
  BY <1>12 DEF vars, TypeOK
<1> QED
  BY <1>4, <1>5, <1>6, <1>7, <1>8, <1>9, <1>10, <1>11, <1>12 DEF Next

\* Every variable keeps its type.
THEOREM TypeCorrect == Spec => []TypeOK
<1>1. TypeOK /\ [Next]_vars => TypeOK'
  BY TypeStep
<1>2. QED
  BY TypeInit, <1>1, PTL DEF Spec

----------------------------------------------------------------------------
(* The ownership of stubs                                                  *)

\* Distinct threads have distinct stubs in hand.
Distinct == \A t, u \in Busy : mgr[t].client = mgr[u].client => t = u

\* A thread takes a stub that no thread has in hand.
LEMMA TakeInHand ==
  ASSUME TypeOK, NEW t \in Threads, mgr[t] = Idle,
         NEW step, step # "idle", NEW c, NEW s,
         mgr' = [mgr EXCEPT ![t] = [at |-> step, client |-> c, sock |-> s]]
  PROVE  /\ InHand' = InHand \cup {c}
         /\ Distinct /\ c \notin InHand => Distinct'
<1>1. /\ mgr'[t].at = step /\ mgr'[t].client = c
      /\ \A u \in Threads : u # t => mgr'[u] = mgr[u]
      /\ Busy' = Busy \cup {t}
      /\ t \notin Busy
  BY DEF TypeOK, Busy, Idle
<1>2. InHand' = InHand \cup {c}
  BY <1>1 DEF InHand, Busy
<1>3. ASSUME Distinct, c \notin InHand PROVE Distinct'
  BY <1>1, <1>3 DEF InHand, Distinct, Busy
<1> QED BY <1>2, <1>3

\* A thread gives the stub it has in hand away.
LEMMA DropFromHand ==
  ASSUME TypeOK, Distinct, NEW t \in Threads, mgr[t].at # "idle",
         mgr' = [mgr EXCEPT ![t] = Idle]
  PROVE  InHand' = InHand \ {mgr[t].client} /\ Distinct'
<1>1. /\ mgr'[t] = Idle
      /\ \A u \in Threads : u # t => mgr'[u] = mgr[u]
      /\ Busy' = Busy \ {t}
      /\ t \in Busy
  BY DEF TypeOK, Busy, Idle
<1>2. InHand' = InHand \ {mgr[t].client}
  <2>1. InHand' = {mgr[u].client : u \in Busy \ {t}}
    BY <1>1 DEF InHand, Busy
  <2> QED BY <2>1, <1>1 DEF InHand, Distinct, Busy
<1>3. Distinct'
  BY <1>1 DEF Distinct, Busy
<1> QED BY <1>2, <1>3

\* A thread goes on with the stub it has in hand.
LEMMA KeepInHand ==
  ASSUME TypeOK, NEW t \in Threads, mgr[t].at # "idle",
         NEW step, step # "idle", GoTo(t, step)
  PROVE  InHand' = InHand /\ (Distinct => Distinct')
<1>1. /\ \A u \in Threads : mgr'[u].client = mgr[u].client
      /\ \A u \in Threads : mgr'[u].at # "idle" <=> mgr[u].at # "idle"
  BY DEF TypeOK, GoTo, Idle
<1>2. Busy' = Busy
  BY <1>1 DEF Busy
<1> QED BY <1>1, <1>2 DEF InHand, Distinct, Busy

\* A step that leaves the threads where they are leaves the stubs in their hands.
LEMMA SameHands ==
  ASSUME Distinct, UNCHANGED mgr
  PROVE  InHand' = InHand /\ Distinct'
<1>1. Busy' = Busy
  BY DEF Busy
<1>2. InHand' = InHand
  BY <1>1 DEF InHand
<1>3. Distinct'
  BY <1>1 DEF Distinct
<1> QED BY <1>2, <1>3

\* GetFreeClient returns a stub that has no owner, and makes owned only stubs
\* that did not exist.
LEMMA GetFreeClientOwner ==
  ASSUME TypeOK, StubOwnership, NEW c \in Clients, GetFreeClient(c)
  PROVE  /\ IsInjective(freeClients')
         /\ c \notin ToSet(freeClients')
         /\ c \notin realClients \cup InHand
         /\ ToSet(freeClients') \cap (realClients \cup InHand) = {}
         /\ ToSet(freeClients') \cup {c} \cup realClients \cup InHand = 1 .. clientCount'
<1> USE DEF StubOwnership, Exclusive, NoneLost
<1>1. CASE /\ freeClients # <<>>
           /\ c = Head(freeClients)
           /\ freeClients' = Tail(freeClients)
           /\ UNCHANGED clientCount
  <2>1. /\ ToSet(freeClients) = {c} \cup ToSet(freeClients')
        /\ IsInjective(freeClients')
        /\ c \notin ToSet(freeClients')
    BY <1>1, PopFront DEF TypeOK
  <2> QED BY <1>1, <2>1
<1>2. CASE /\ freeClients = <<>>
           /\ clientCount + ClientBlock <= MaxClients
           /\ c = clientCount + 1
           /\ freeClients' = NewClients(clientCount)
           /\ clientCount' = clientCount + ClientBlock
  <2>1. clientCount \in Nat /\ ClientBlock \in Nat \ {0} /\ MaxClients \in Nat
    BY ClientAssumption DEF TypeOK
  <2>2. /\ ToSet(freeClients') = (clientCount + 2) .. (clientCount + ClientBlock)
        /\ IsInjective(freeClients')
    BY <1>2, <2>1, RestOfBlock DEF NewClients
  <2>3. ToSet(freeClients) = {}
    BY <1>2 DEF ToSet
  <2>4. realClients \cup InHand = 1 .. clientCount
    BY <2>3
  <2>5. (1 .. clientCount) \cup {c} \cup ToSet(freeClients') = 1 .. clientCount'
    BY <1>2, <2>1, <2>2
  <2>6. ToSet(freeClients') \cap (1 .. clientCount) = {} /\ c \notin ToSet(freeClients')
    BY <1>2, <2>1, <2>2
  <2>7. c \notin 1 .. clientCount
    BY <1>2, <2>1
  <2> QED BY <2>2, <2>4, <2>5, <2>6, <2>7
<1> QED BY <1>1, <1>2 DEF GetFreeClient

\* No step of any thread gives a stub a second owner or loses it.
LEMMA StubOwnershipStep ==
  ASSUME TypeOK, StubOwnership, [Next]_vars
  PROVE  StubOwnership'
<1>0. /\ IsInjective(freeClients) /\ Distinct
      /\ ToSet(freeClients) \cap realClients = {}
      /\ ToSet(freeClients) \cap InHand = {}
      /\ realClients \cap InHand = {}
      /\ ToSet(freeClients) \cup realClients \cup InHand = 1 .. clientCount
  BY DEF StubOwnership, Exclusive, NoneLost, Distinct
<1>1. SUFFICES /\ IsInjective(freeClients') /\ Distinct'
               /\ ToSet(freeClients') \cap realClients' = {}
               /\ ToSet(freeClients') \cap InHand' = {}
               /\ realClients' \cap InHand' = {}
               /\ ToSet(freeClients') \cup realClients' \cup InHand' = 1 .. clientCount'
  BY DEF StubOwnership, Exclusive, NoneLost, Distinct
<1> DEFINE Goal == /\ IsInjective(freeClients') /\ Distinct'
                   /\ ToSet(freeClients') \cap realClients' = {}
                   /\ ToSet(freeClients') \cap InHand' = {}
                   /\ realClients' \cap InHand' = {}
                   /\ ToSet(freeClients') \cup realClients' \cup InHand' = 1 .. clientCount'
<1>2. ASSUME NEW t \in Threads, NEW s \in Handles, AcceptClient(t, s) PROVE Goal
  <2>1. PICK c \in Clients :
          /\ GetFreeClient(c)
          /\ mgr' = [mgr EXCEPT ![t] = [at |-> "got", client |-> c, sock |-> s]]
    BY <1>2 DEF AcceptClient
  <2>2. mgr[t] = Idle /\ realClients' = realClients
    BY <1>2 DEF AcceptClient
  <2>3. /\ IsInjective(freeClients')
        /\ c \notin ToSet(freeClients')
        /\ c \notin realClients \cup InHand
        /\ ToSet(freeClients') \cap (realClients \cup InHand) = {}
        /\ ToSet(freeClients') \cup {c} \cup realClients \cup InHand = 1 .. clientCount'
    BY <2>1, GetFreeClientOwner
  <2>4. InHand' = InHand \cup {c} /\ Distinct'
    BY <2>1, <2>2, <2>3, <1>0, TakeInHand
  <2> QED BY <2>2, <2>3, <2>4, <1>0
<1>3. ASSUME NEW t \in Threads, NEW c \in 1 .. clientCount, RemoveRealClient(t, c) PROVE Goal
  <2>1. UNCHANGED <<freeClients, clientCount>> /\ mgr[t] = Idle
    BY <1>3 DEF RemoveRealClient
  <2>2. CASE c \in realClients
    <3>1. /\ realClients' = realClients \ {c}
          /\ mgr' = [mgr EXCEPT ![t] = [at |-> "erased", client |-> c, sock |-> NoSocket]]
      BY <1>3, <2>2 DEF RemoveRealClient, Erased
    <3>2. InHand' = InHand \cup {c} /\ Distinct'
      BY <3>1, <2>1, <2>2, <1>0, TakeInHand
    <3> QED BY <2>1, <2>2, <3>1, <3>2, <1>0
  <2>3. CASE c \notin realClients
    <3>1. UNCHANGED <<realClients, mgr>>
      BY <1>3, <2>3 DEF RemoveRealClient, Erased
    <3>2. InHand' = InHand /\ Distinct'
      BY <3>1, <1>0, SameHands
    <3> QED BY <2>1, <3>1, <3>2, <1>0
  <2> QED BY <2>2, <2>3
<1>4. ASSUME NEW t \in Threads, mgr[t].at # "idle",
             NEW step \in {"inited", "closed", "reset"}, GoTo(t, step),
             UNCHANGED <<freeClients, realClients, clientCount>>
      PROVE  Goal
  <2>1. InHand' = InHand /\ Distinct'
    BY <1>4, <1>0, KeepInHand
  <2> QED BY <2>1, <1>4, <1>0
<1>5. ASSUME NEW t \in Threads, AddRealClient(t) PROVE Goal
  <2>1. /\ mgr[t].at # "idle" /\ mgr[t].client \in InHand
        /\ realClients' = realClients \cup {mgr[t].client}
        /\ mgr' = [mgr EXCEPT ![t] = Idle]
        /\ UNCHANGED <<freeClients, clientCount>>
    BY <1>5 DEF AddRealClient, InHand, Busy
  <2>2. InHand' = InHand \ {mgr[t].client} /\ Distinct'
    BY <2>1, <1>0, DropFromHand
  <2> QED BY <2>1, <2>2, <1>0
<1>6. ASSUME NEW t \in Threads, PushFreeClient(t) PROVE Goal
  <2>1. /\ mgr[t].at # "idle" /\ mgr[t].client \in InHand
        /\ freeClients' = Append(freeClients, mgr[t].client)
        /\ mgr' = [mgr EXCEPT ![t] = Idle]
        /\ UNCHANGED <<realClients, clientCount>>
    BY <1>6 DEF PushFreeClient, InHand, Busy
  <2>2. InHand' = InHand \ {mgr[t].client} /\ Distinct'
    BY <2>1, <1>0, DropFromHand
  <2>3. mgr[t].client \in Clients
    BY <2>1 DEF TypeOK, Idle
  <2>4. /\ ToSet(freeClients') = ToSet(freeClients) \cup {mgr[t].client}
        /\ IsInjective(freeClients')
    BY <2>1, <2>3, <1>0, PushBack DEF TypeOK
  <2> QED BY <2>1, <2>2, <2>4, <1>0
<1>7. CASE CloseAllClient
  <2>1. PushAll(realClients) /\ realClients' = {} /\ UNCHANGED <<clientCount, mgr>>
    BY <1>7 DEF CloseAllClient
  <2>2. /\ ToSet(freeClients') = ToSet(freeClients) \cup realClients
        /\ IsInjective(freeClients')
    BY <2>1, <1>0, PushAllType
  <2>3. InHand' = InHand /\ Distinct'
    BY <2>1, <1>0, SameHands
  <2> QED BY <2>1, <2>2, <2>3, <1>0
<1>8. CASE UNCHANGED vars
  <2>1. UNCHANGED <<freeClients, realClients, clientCount, mgr>>
    BY <1>8 DEF vars
  <2>2. InHand' = InHand /\ Distinct'
    BY <2>1, <1>0, SameHands
  <2> QED BY <2>1, <2>2, <1>0
<1> QED
  BY <1>2, <1>3, <1>4, <1>5, <1>6, <1>7, <1>8 DEF Next, InitClient, CloseSocket, ResetStatus

\* Initially every stub has one owner.
LEMMA StubOwnershipInit == Init => StubOwnership
<1> SUFFICES ASSUME Init PROVE StubOwnership
  OBVIOUS
<1>1. ToSet(freeClients) = 1 .. InitClients /\ IsInjective(freeClients)
  BY ClientAssumption DEF Init, ToSet, IsInjective
<1>2. InHand = {}
  BY DEF Init, InHand, Busy, Idle
<1> QED BY <1>1, <1>2 DEF Init, StubOwnership, Exclusive, NoneLost, InHand

\* Every stub has one owner, whatever the threads do with the stubs they know.
THEOREM StubsOwned == Spec => []StubOwnership
<1>1. TypeOK /\ StubOwnership /\ [Next]_vars => StubOwnership'
  BY StubOwnershipStep
<1>2. QED
  BY StubOwnershipInit, <1>1, TypeCorrect, PTL DEF Spec

----------------------------------------------------------------------------
(* Who owns a socket                                                       *)

\* The handles nobody has open are in no stub, stored or about to be stored.
LEMMA FreshHandle ==
  ASSUME IInv, NEW s \in Sockets \ opened, NEW c \in Clients
  PROVE  ~Holds(c, s)
<1>1. s # NoSocket
  BY SocketAssumption
<1>2. socket[c] # s
  BY <1>1 DEF IInv, SocketOwnership
<1>3. \A t \in Threads : mgr[t].at = "got" => mgr[t].sock # s
  BY <1>1 DEF IInv, Sockets0
<1> QED BY <1>2, <1>3 DEF Holds

\* The stub GetFreeClient returns, and those it makes free, have no socket.
LEMMA FreeStubHasNoSocket ==
  ASSUME IInv, NEW c \in Clients, GetFreeClient(c)
  PROVE  /\ socket[c] = NoSocket
         /\ \A i \in DOMAIN freeClients' : socket[freeClients'[i]] = NoSocket
<1> USE DEF IInv, SocketOwnership, Sockets0
<1>1. CASE /\ freeClients # <<>>
           /\ c = Head(freeClients)
           /\ freeClients' = Tail(freeClients)
  BY <1>1 DEF TypeOK
<1>2. CASE /\ clientCount + ClientBlock <= MaxClients
           /\ c = clientCount + 1
           /\ freeClients' = NewClients(clientCount)
  <2>1. clientCount \in Nat /\ ClientBlock \in Nat \ {0} /\ MaxClients \in Nat
    BY ClientAssumption DEF TypeOK
  <2>2. \A i \in DOMAIN freeClients' :
          freeClients'[i] \in Clients /\ freeClients'[i] > clientCount
    BY <1>2, <2>1 DEF NewClients, Clients
  <2> QED BY <1>2, <2>1, <2>2
<1> QED BY <1>1, <1>2 DEF GetFreeClient

\* The steps that touch neither a socket nor a handle still to be stored.
LEMMA SameHolders ==
  ASSUME UNCHANGED socket,
         \A t \in Threads : mgr'[t].at = "got" <=> mgr[t].at = "got",
         \A t \in Threads : mgr[t].at = "got" => mgr'[t] = mgr[t]
  PROVE  \A c, s : Holds(c, s)' <=> Holds(c, s)
BY DEF Holds

LEMMA AcceptClientSockets ==
  ASSUME IInv, NEW t \in Threads, NEW s \in Handles, AcceptClient(t, s)
  PROVE  SocketOwnership' /\ Sockets0'
<1>1. PICK c \in Clients :
        /\ GetFreeClient(c)
        /\ mgr' = [mgr EXCEPT ![t] = [at |-> "got", client |-> c, sock |-> s]]
  BY DEF AcceptClient
<1>2. /\ mgr[t] = Idle
      /\ s \notin opened
      /\ opened' = opened \cup ({s} \cap Sockets)
      /\ UNCHANGED <<realClients, socket>>
  BY DEF AcceptClient
<1>3. TypeOK /\ StubOwnership /\ SocketOwnership /\ Sockets0 /\ Distinct
  BY DEF IInv, StubOwnership, Exclusive, Distinct
<1>4. /\ socket[c] = NoSocket
      /\ \A i \in DOMAIN freeClients' : socket[freeClients'[i]] = NoSocket
  BY <1>1, FreeStubHasNoSocket
<1>5. /\ mgr'[t] = [at |-> "got", client |-> c, sock |-> s]
      /\ \A u \in Threads : u # t => mgr'[u] = mgr[u]
      /\ mgr[t].at = "idle"
  BY <1>1, <1>2, <1>3 DEF TypeOK, Idle
<1>6. c \notin realClients \cup InHand
  BY <1>1, <1>3, GetFreeClientOwner
<1>7. InHand' = InHand \cup {c}
  BY <1>1, <1>2, <1>3, <1>6, TakeInHand
<1>8. \A d, h : Holds(d, h)' <=> Holds(d, h) \/ (d = c /\ h = s)
  BY <1>2, <1>5 DEF Holds
<1>9. \A d \in Clients : s \in Sockets => ~Holds(d, s)
  BY <1>2, FreshHandle
<1>10. clientCount <= clientCount' /\ clientCount \in Int /\ clientCount' \in Int
  BY <1>1, <1>3, GetFreeClientType DEF TypeOK
<1>11. \A h \in opened' : \E d \in realClients' \cup InHand' : Holds(d, h)'
  BY <1>2, <1>3, <1>7, <1>8 DEF SocketOwnership
<1>12. \A h \in Sockets : \A d, e \in Clients : Holds(d, h)' /\ Holds(e, h)' => d = e
  BY <1>3, <1>8, <1>9 DEF SocketOwnership
<1>13. \A d \in Clients : socket'[d] # NoSocket => socket'[d] \in opened'
  BY <1>2, <1>3 DEF SocketOwnership
<1>14. SocketOwnership'
  BY <1>2, <1>4, <1>11, <1>12, <1>13 DEF SocketOwnership
<1>15. Sockets0'
  <2>1. \A u \in Threads : mgr'[u].at = "got" =>
          /\ socket'[mgr'[u].client] = NoSocket
          /\ mgr'[u].sock # NoSocket => mgr'[u].sock \in opened'
    BY <1>2, <1>3, <1>4, <1>5 DEF Sockets0, Handles
  <2>2. \A u \in Threads : mgr'[u].at \in {"closed", "reset"} => socket'[mgr'[u].client] = NoSocket
    BY <1>2, <1>3, <1>5 DEF Sockets0
  <2>3. \A d \in Clients : d > clientCount' => socket'[d] = NoSocket
    BY <1>2, <1>3, <1>10 DEF Sockets0, Clients
  <2> QED BY <2>1, <2>2, <2>3 DEF Sockets0
<1> QED BY <1>14, <1>15

LEMMA InitClientSockets ==
  ASSUME IInv, NEW t \in Threads, InitClient(t)
  PROVE  SocketOwnership' /\ Sockets0'
<1>0. PICK c \in Clients, s \in Handles : mgr[t].client = c /\ mgr[t].sock = s
  BY DEF IInv, TypeOK, InitClient, Idle
<1>1. TypeOK /\ StubOwnership /\ SocketOwnership /\ Sockets0 /\ Distinct
  BY DEF IInv, StubOwnership, Exclusive, Distinct
<1>2. /\ mgr[t].at = "got"
      /\ socket[c] = NoSocket
      /\ socket' = [socket EXCEPT ![c] = s]
      /\ UNCHANGED <<freeClients, realClients, clientCount, opened>>
  BY <1>0, <1>1 DEF InitClient, Sockets0
<1>3. /\ mgr'[t].at = "inited" /\ mgr'[t].client = c /\ mgr'[t].sock = s
      /\ \A u \in Threads : u # t => mgr'[u] = mgr[u]
  BY <1>0, <1>1, <1>2 DEF InitClient, GoTo, TypeOK, Idle
<1>4. InHand' = InHand
  BY <1>1, <1>2, KeepInHand DEF InitClient
<1>5. \A u \in Threads : u # t /\ mgr[u].at # "idle" => mgr[u].client # c
  BY <1>0, <1>1, <1>2 DEF Distinct, Busy
<1>6. c \in InHand
  BY <1>0, <1>2 DEF InHand, Busy
<1>7. socket'[c] = s /\ \A d \in Clients : d # c => socket'[d] = socket[d]
  BY <1>1, <1>2 DEF TypeOK
<1>8. \A d \in Clients, h \in Sockets : Holds(d, h)' <=> Holds(d, h)
  <2>1. \A d \in Clients, h \in Sockets : d # c => (Holds(d, h)' <=> Holds(d, h))
    BY <1>0, <1>2, <1>3, <1>7 DEF Holds
  <2>2. \A h \in Sockets : Holds(c, h)' <=> h = s
    BY <1>3, <1>5, <1>7 DEF Holds
  <2>3. \A h \in Sockets : Holds(c, h) <=> h = s
    BY <1>0, <1>2, <1>5, SocketAssumption DEF Holds
  <2>4. ASSUME NEW d \in Clients, NEW h \in Sockets PROVE Holds(d, h)' <=> Holds(d, h)
    <3>1. CASE d = c
      BY <3>1, <2>2, <2>3
    <3>2. CASE d # c
      BY <3>2, <2>1
    <3> QED BY <3>1, <3>2
  <2> QED BY <2>4
<1>9. realClients \cup InHand \subseteq Clients
  BY <1>1 DEF TypeOK, InHand, Busy, Idle
<1>10. opened \subseteq Sockets
  BY <1>1 DEF TypeOK
<1>11. \A h \in opened' : \E d \in realClients' \cup InHand' : Holds(d, h)'
  BY <1>1, <1>2, <1>4, <1>8, <1>9, <1>10 DEF SocketOwnership
<1>12. \A h \in Sockets : \A d, e \in Clients : Holds(d, h)' /\ Holds(e, h)' => d = e
  BY <1>1, <1>8 DEF SocketOwnership
<1>13. \A d \in Clients : socket'[d] # NoSocket => socket'[d] \in opened'
  BY <1>0, <1>1, <1>2, <1>7 DEF SocketOwnership, Sockets0
<1>14. \A i \in DOMAIN freeClients : freeClients[i] \in Clients /\ freeClients[i] # c
  BY <1>1, <1>6 DEF TypeOK, StubOwnership, Exclusive, ToSet
<1>15. SocketOwnership'
  BY <1>1, <1>2, <1>7, <1>11, <1>12, <1>13, <1>14 DEF SocketOwnership
<1>16. c <= clientCount
  BY <1>1, <1>6 DEF StubOwnership, NoneLost, TypeOK
<1>17. Sockets0'
  <2>1. \A u \in Threads : mgr'[u].at = "got" =>
          /\ socket'[mgr'[u].client] = NoSocket
          /\ mgr'[u].sock # NoSocket => mgr'[u].sock \in opened'
    BY <1>0, <1>1, <1>2, <1>3, <1>5, <1>7 DEF Sockets0, TypeOK, Idle
  <2>2. \A u \in Threads : mgr'[u].at \in {"closed", "reset"} => socket'[mgr'[u].client] = NoSocket
    BY <1>1, <1>2, <1>3, <1>5, <1>7 DEF Sockets0, TypeOK, Idle
  <2>3. \A d \in Clients : d > clientCount' => socket'[d] = NoSocket
    BY <1>1, <1>2, <1>7, <1>16 DEF Sockets0, TypeOK, Clients
  <2> QED BY <2>1, <2>2, <2>3 DEF Sockets0
<1> QED BY <1>15, <1>17

\* The steps that leave the sockets, the handles and the free list alone.
LEMMA OtherSockets ==
  ASSUME IInv,
         UNCHANGED <<freeClients, clientCount, socket, opened>>,
         realClients' \cup InHand' = realClients \cup InHand,
         \A t \in Threads : mgr'[t].at = "got" <=> mgr[t].at = "got",
         \A t \in Threads : mgr[t].at = "got" => mgr'[t] = mgr[t],
         \A t \in Threads : mgr'[t].at \in {"closed", "reset"} =>
           mgr[t].at \in {"closed", "reset"} /\ mgr'[t].client = mgr[t].client
  PROVE  SocketOwnership' /\ Sockets0'
<1>1. \A c, s : Holds(c, s)' <=> Holds(c, s)
  BY SameHolders
<1>2. SocketOwnership'
  BY <1>1 DEF IInv, SocketOwnership
<1>3. Sockets0'
  BY DEF IInv, Sockets0
<1> QED BY <1>2, <1>3

LEMMA CloseSocketSockets ==
  ASSUME IInv, NEW t \in Threads, CloseSocket(t)
  PROVE  SocketOwnership' /\ Sockets0'
<1>0. PICK c \in Clients : mgr[t].client = c
  BY DEF IInv, TypeOK, CloseSocket, Idle
<1>1. TypeOK /\ StubOwnership /\ SocketOwnership /\ Sockets0 /\ Distinct
  BY DEF IInv, StubOwnership, Exclusive, Distinct
<1>2. /\ mgr[t].at = "erased"
      /\ opened' = opened \ {socket[c]}
      /\ UNCHANGED <<freeClients, realClients, clientCount>>
  BY <1>0 DEF CloseSocket
<1>3. /\ mgr'[t].at = "closed" /\ mgr'[t].client = c
      /\ \A u \in Threads : u # t => mgr'[u] = mgr[u]
  BY <1>0, <1>1 DEF CloseSocket, GoTo, TypeOK, Idle
<1>4. InHand' = InHand
  BY <1>1, <1>2, KeepInHand DEF CloseSocket
<1>5. \A u \in Threads : u # t /\ mgr[u].at # "idle" => mgr[u].client # c
  BY <1>0, <1>1, <1>2 DEF Distinct, Busy
<1>6. /\ socket'[c] = NoSocket
      /\ \A d \in Clients : d # c => socket'[d] = socket[d]
      /\ \A d \in Clients : socket'[d] = NoSocket \/ socket'[d] = socket[d]
  BY <1>0 DEF CloseSocket, Invalidate
<1>7. \A d \in Clients, h \in Sockets : Holds(d, h)' <=> Holds(d, h) /\ d # c
  <2>1. ASSUME NEW d \in Clients, NEW h \in Sockets, d # c PROVE Holds(d, h)' <=> Holds(d, h)
    BY <2>1, <1>2, <1>3, <1>6 DEF Holds
  <2>2. \A h \in Sockets : ~Holds(c, h)'
    BY <1>3, <1>5, <1>6, SocketAssumption DEF Holds
  <2> QED BY <2>1, <2>2
<1>8. \A h \in Sockets : Holds(c, h) <=> h = socket[c]
  BY <1>0, <1>2, <1>5 DEF Holds
<1>9. realClients \cup InHand \subseteq Clients /\ opened \subseteq Sockets
  BY <1>1 DEF TypeOK, InHand, Busy, Idle
<1>10. \A h \in opened' : \E d \in realClients' \cup InHand' : Holds(d, h)'
  BY <1>1, <1>2, <1>4, <1>7, <1>8, <1>9 DEF SocketOwnership
<1>11. \A h \in Sockets : \A d, e \in Clients : Holds(d, h)' /\ Holds(e, h)' => d = e
  BY <1>1, <1>7 DEF SocketOwnership
<1>12. \A d \in Clients : socket'[d] # NoSocket => socket'[d] \in opened'
  <2>1. ASSUME NEW d \in Clients, socket'[d] # NoSocket PROVE socket'[d] \in opened'
    <3>1. d # c /\ socket'[d] = socket[d] /\ socket[d] \in opened
      BY <2>1, <1>1, <1>6 DEF SocketOwnership
    <3>2. socket[d] # socket[c]
      BY <3>1, <1>1, <1>9 DEF SocketOwnership, Holds
    <3> QED BY <3>1, <3>2, <1>2
  <2> QED BY <2>1
<1>13. \A i \in DOMAIN freeClients : freeClients[i] \in Clients
  BY <1>1 DEF TypeOK
<1>14. SocketOwnership'
  BY <1>1, <1>2, <1>6, <1>10, <1>11, <1>12, <1>13 DEF SocketOwnership
<1>15. Sockets0'
  <2>1. \A u \in Threads : mgr'[u].at = "got" =>
          /\ socket'[mgr'[u].client] = NoSocket
          /\ mgr'[u].sock # NoSocket => mgr'[u].sock \in opened'
    <3>1. ASSUME NEW u \in Threads, mgr'[u].at = "got"
          PROVE  /\ socket'[mgr'[u].client] = NoSocket
                 /\ mgr'[u].sock # NoSocket => mgr'[u].sock \in opened'
      <4>1. u # t /\ mgr'[u] = mgr[u] /\ mgr[u].at = "got" /\ mgr[u].client # c
        BY <3>1, <1>3, <1>5
      <4>2. mgr[u].client \in Clients /\ mgr[u].sock \in Handles
        BY <4>1, <1>1 DEF TypeOK, Idle
      <4>3. socket[mgr[u].client] = NoSocket /\ (mgr[u].sock # NoSocket => mgr[u].sock \in opened)
        BY <4>1, <1>1 DEF Sockets0
      <4>4. mgr[u].sock # NoSocket => mgr[u].sock # socket[c]
        BY <4>1, <4>2, <1>1 DEF SocketOwnership, Holds, Handles
      <4> QED BY <4>1, <4>2, <4>3, <4>4, <1>2, <1>6
    <3> QED BY <3>1
  <2>2. \A u \in Threads : mgr'[u].at \in {"closed", "reset"} => socket'[mgr'[u].client] = NoSocket
    BY <1>1, <1>2, <1>3, <1>5, <1>6 DEF Sockets0, TypeOK, Idle
  <2>3. \A d \in Clients : d > clientCount' => socket'[d] = NoSocket
    BY <1>1, <1>2, <1>6 DEF Sockets0
  <2> QED BY <2>1, <2>2, <2>3 DEF Sockets0
<1> QED BY <1>14, <1>15

LEMMA PushFreeClientSockets ==
  ASSUME IInv, NEW t \in Threads, PushFreeClient(t)
  PROVE  SocketOwnership' /\ Sockets0'
<1>0. PICK c \in Clients : mgr[t].client = c
  BY DEF IInv, TypeOK, PushFreeClient, Idle
<1>1. TypeOK /\ StubOwnership /\ SocketOwnership /\ Sockets0 /\ Distinct
  BY DEF IInv, StubOwnership, Exclusive, Distinct
<1>2. /\ mgr[t].at = "reset"
      /\ freeClients' = Append(freeClients, c)
      /\ mgr' = [mgr EXCEPT ![t] = Idle]
      /\ UNCHANGED <<realClients, clientCount, socket, opened>>
  BY <1>0 DEF PushFreeClient
<1>3. mgr'[t] = Idle /\ \A u \in Threads : u # t => mgr'[u] = mgr[u]
  BY <1>1, <1>2 DEF TypeOK
<1>4. InHand' = InHand \ {c}
  BY <1>0, <1>1, <1>2, DropFromHand
<1>5. socket[c] = NoSocket
  BY <1>0, <1>1, <1>2 DEF Sockets0
<1>6. \A u \in Threads : u # t /\ mgr[u].at # "idle" => mgr[u].client # c
  BY <1>0, <1>1, <1>2 DEF Distinct, Busy
<1>7. \A d, h : Holds(d, h)' <=> Holds(d, h)
  BY <1>2, <1>3, SameHolders DEF Idle
<1>8. \A h \in Sockets : ~Holds(c, h)
  BY <1>0, <1>2, <1>5, <1>6, SocketAssumption DEF Holds
<1>9. \A h \in opened' : \E d \in realClients' \cup InHand' : Holds(d, h)'
  BY <1>1, <1>2, <1>4, <1>7, <1>8 DEF SocketOwnership, TypeOK
<1>10. \A i \in DOMAIN freeClients' : socket'[freeClients'[i]] = NoSocket
  BY <1>1, <1>2, <1>5 DEF SocketOwnership, TypeOK
<1>11. SocketOwnership'
  BY <1>1, <1>2, <1>7, <1>9, <1>10 DEF SocketOwnership
<1>12. Sockets0'
  BY <1>1, <1>2, <1>3 DEF Sockets0, Idle
<1> QED BY <1>11, <1>12

\* When no thread has a stub in hand, every open handle is a real client's.
LEMMA CloseAllClientSockets ==
  ASSUME IInv, \A t \in Threads : mgr[t] = Idle, CloseAllClient
  PROVE  SocketOwnership' /\ Sockets0'
<1>1. TypeOK /\ StubOwnership /\ SocketOwnership /\ Sockets0
  BY DEF IInv
<1>2. /\ PushAll(realClients)
      /\ opened' = opened \ {socket[c] : c \in realClients}
      /\ socket' = [c \in Clients |-> IF c \in realClients THEN NoSocket ELSE socket[c]]
      /\ UNCHANGED <<clientCount, mgr>>
  BY DEF CloseAllClient, Invalidate
<1>3. InHand = {} /\ \A t \in Threads : mgr[t].at = "idle"
  BY DEF InHand, Busy, Idle
<1>4. \A c, h : Holds(c, h) <=> socket[c] = h
  BY <1>3 DEF Holds
<1>5. \A c, h : Holds(c, h)' <=> socket'[c] = h
  BY <1>2, <1>3 DEF Holds
<1>6. opened' = {}
  BY <1>1, <1>2, <1>3, <1>4 DEF SocketOwnership
<1>7. realClients \subseteq Clients /\ freeClients' \in Seq(Clients)
  BY <1>1, <1>2, PushAllType DEF TypeOK
<1>8. \A c \in Clients : socket'[c] = NoSocket
  <2>1. ASSUME NEW c \in Clients, c \notin realClients PROVE socket[c] = NoSocket
    <3>1. CASE socket[c] # NoSocket
      <4>1. socket[c] \in opened /\ socket[c] \in Sockets
        BY <3>1, <1>1 DEF SocketOwnership, TypeOK
      <4>2. PICK d \in realClients : socket[d] = socket[c]
        BY <4>1, <1>1, <1>3, <1>4 DEF SocketOwnership
      <4>3. c = d
        BY <4>1, <4>2, <1>1, <1>4, <1>7 DEF SocketOwnership
      <4> QED BY <2>1, <4>3
    <3> QED BY <3>1
  <2> QED BY <2>1, <1>2
<1>9. SocketOwnership'
  <2>1. \A i \in DOMAIN freeClients' : freeClients'[i] \in Clients
    BY <1>7
  <2> QED BY <2>1, <1>5, <1>6, <1>8, SocketAssumption DEF SocketOwnership
<1>10. Sockets0'
  BY <1>2, <1>3, <1>8 DEF Sockets0
<1> QED BY <1>9, <1>10

\* Every open handle belongs to one stub: no thread closes a handle twice, or
\* one that the system has given to a later connection.
THEOREM SocketsOwned == Spec => []SocketOwnership
<1>1. Init => SocketOwnership /\ Sockets0
  <2> SUFFICES ASSUME Init PROVE SocketOwnership /\ Sockets0
    OBVIOUS
  <2>1. /\ \A c \in Clients : socket[c] = NoSocket
        /\ opened = {}
        /\ \A t \in Threads : mgr[t].at = "idle"
        /\ \A i \in DOMAIN freeClients : freeClients[i] \in Clients
    BY ClientAssumption DEF Init, Idle, Clients
  <2> QED BY <2>1, SocketAssumption DEF SocketOwnership, Sockets0, Holds
<1>2. TypeOK /\ StubOwnership /\ SocketOwnership /\ Sockets0 /\ [Next]_vars
        => SocketOwnership' /\ Sockets0'
  <2> SUFFICES ASSUME IInv, [Next]_vars PROVE SocketOwnership' /\ Sockets0'
    BY DEF IInv
  <2>0. TypeOK /\ Distinct
    BY DEF IInv, StubOwnership, Exclusive, Distinct
  <2>1. ASSUME NEW t \in Threads, AddRealClient(t) PROVE SocketOwnership' /\ Sockets0'
    <3>1. /\ mgr[t].at = "inited" /\ mgr[t].client \in InHand
          /\ realClients' = realClients \cup {mgr[t].client}
          /\ mgr' = [mgr EXCEPT ![t] = Idle]
          /\ UNCHANGED <<freeClients, clientCount, socket, opened>>
      BY <2>1 DEF AddRealClient, InHand, Busy
    <3>2. InHand' = InHand \ {mgr[t].client}
      BY <3>1, <2>0, DropFromHand
    <3>3. mgr'[t].at = "idle" /\ \A u \in Threads : u # t => mgr'[u] = mgr[u]
      BY <3>1, <2>0 DEF TypeOK, Idle
    <3> QED BY <3>1, <3>2, <3>3, OtherSockets
  <2>2. ASSUME NEW t \in Threads, NEW c \in 1 .. clientCount, RemoveRealClient(t, c)
        PROVE SocketOwnership' /\ Sockets0'
    <3>1. mgr[t] = Idle /\ UNCHANGED <<freeClients, clientCount, socket, opened>>
      BY <2>2 DEF RemoveRealClient
    <3>2. CASE c \in realClients
      <4>1. /\ realClients' = realClients \ {c}
            /\ mgr' = [mgr EXCEPT ![t] = [at |-> "erased", client |-> c, sock |-> NoSocket]]
        BY <2>2, <3>2 DEF RemoveRealClient, Erased
      <4>2. InHand' = InHand \cup {c}
        BY <4>1, <3>1, <2>0, TakeInHand
      <4>3. mgr'[t].at = "erased" /\ \A u \in Threads : u # t => mgr'[u] = mgr[u]
        BY <4>1, <2>0 DEF TypeOK
      <4>4. realClients' \cup InHand' = realClients \cup InHand
        BY <3>2, <4>1, <4>2
      <4> QED BY <3>1, <4>3, <4>4, OtherSockets DEF Idle
    <3>3. CASE c \notin realClients
      <4>1. UNCHANGED <<realClients, mgr>>
        BY <2>2, <3>3 DEF RemoveRealClient, Erased
      <4>2. InHand' = InHand
        BY <4>1, <2>0, SameHands
      <4> QED BY <3>1, <4>1, <4>2, OtherSockets
    <3> QED BY <3>2, <3>3
  <2>3. ASSUME NEW t \in Threads, ResetStatus(t) PROVE SocketOwnership' /\ Sockets0'
    <3>1. /\ mgr[t].at = "closed"
          /\ UNCHANGED <<freeClients, realClients, clientCount, socket, opened>>
      BY <2>3 DEF ResetStatus
    <3>2. InHand' = InHand
      BY <2>3, <2>0, <3>1, KeepInHand DEF ResetStatus
    <3>3. /\ mgr'[t].at = "reset" /\ mgr'[t].client = mgr[t].client
          /\ \A u \in Threads : u # t => mgr'[u] = mgr[u]
      BY <2>3, <2>0, <3>1 DEF ResetStatus, GoTo, TypeOK, Idle
    <3> QED BY <3>1, <3>2, <3>3, OtherSockets
  <2>4. CASE UNCHANGED vars
    <3>1. UNCHANGED <<freeClients, realClients, clientCount, socket, opened, mgr>>
      BY <2>4 DEF vars
    <3>2. InHand' = InHand
      BY <3>1, <2>0, SameHands
    <3> QED BY <3>1, <3>2, OtherSockets
  <2> QED
    BY <2>1, <2>2, <2>3, <2>4, AcceptClientSockets, InitClientSockets, CloseSocketSockets,
       PushFreeClientSockets, CloseAllClientSockets DEF Next
<1>3. QED
  BY <1>1, <1>2, TypeCorrect, StubsOwned, PTL DEF Spec
============================================================================
