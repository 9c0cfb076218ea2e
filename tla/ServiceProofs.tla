---------------------------- MODULE ServiceProofs ----------------------------
(***************************************************************************)
(* What is built up and given back, or read, in steps that may end early.  *)
(*                                                                         *)
(* - The start and the stop of the server keep their handles, whichever    *)
(*   step fails, for every number of workers and of handle numbers, and    *)
(*   the port and the listening socket outlive the threads that use them.  *)
(*   The invariant says what the object's flags and handles are at each    *)
(*   step of StartService and StopService: StopService tests some of them  *)
(*   only, and relies on what the start has set together.                  *)
(* - Every block of CMemCache is in one place but those that a packet was  *)
(*   mistaken for or forgot, for every number of threads, nodes and blocks *)
(*   and every size; and none is as long as no client is closed over an    *)
(*   operation of its own. The invariant ties the steps of a handler to the*)
(*   block it holds, and the packets to the nodes through which they are   *)
(*   led to their blocks.                                                  *)
(* - The two headers of an RTSP request that are parsed on, of             *)
(*   RtspTransport and RtspRange: on every text the parsers come to an     *)
(*   end, stay in their array and in the width of their integers.          *)
(***************************************************************************)
EXTENDS MCService, MCRtsp, FreeListLemmas, SequenceTheorems, TLAPS

----------------------------------------------------------------------------
(* The start and the stop                                                  *)

\* Nothing was made yet, of what the next steps of the start make.
Started ==
  /\ pc \in {"port", "socket", "event", "bind", "refuse", "accept"} =>
       /\ alive = {} /\ at = 1 /\ ~workRunning /\ ~acceptRunning
       /\ \A i \in AllThreads : thread[i] = Null
  /\ pc = "port" => iocp = Null
  /\ pc \in {"port", "socket", "refuse"} => listen = Null
  /\ pc \in {"port", "socket", "event", "refuse"} => event = Null
  /\ pc \in {"socket", "event", "bind", "refuse", "accept"} => iocp # Null
  /\ pc \in {"event", "bind", "accept", "workers"} => listen # Null
  /\ pc = "bind" => event # Null
  /\ pc \in {"port", "socket", "event", "bind", "accept", "workers"} => ~refused
  /\ pc = "refuse" => refused

\* A service that is not running holds nothing.
Stopped ==
  /\ ~running => /\ pc = "idle" /\ iocp = Null /\ listen = Null
                 /\ \A i \in AllThreads : thread[i] = Null
  /\ kills # 0 => pc \in {"joinworkers", "close"}

\* The accept thread: StopService waits for it by its flag and its handle.
AcceptKnown ==
  /\ thread[Accept] # Null /\ pc \in {"workers", "idle"} => acceptRunning
  /\ Accept \in alive => /\ listen # Null /\ thread[Accept] # Null
                         /\ pc \in {"workers", "idle", "joinaccept"}

\* The workers: by m_bWorkRunning, and by the handles if all were made.
WorkersKnown ==
  /\ workRunning => /\ pc \in {"workers", "idle", "joinaccept", "kill", "joinworkers"}
                    /\ iocp # Null
  /\ pc \in {"workers", "joinworkers"} => workRunning
  /\ ~workRunning /\ pc \in {"idle", "joinaccept", "kill"} =>
       \A i \in Workers : thread[i] = Null
  /\ pc = "workers" => at \in Workers /\ \A i \in at .. N : thread[i] = Null
  /\ ~short /\ running => N <= MaxWait
  /\ ~short /\ pc = "workers" => \A i \in 1 .. at - 1 : thread[i] # Null
  /\ ~short /\ workRunning /\ pc # "workers" => \A i \in Workers : thread[i] # Null
  /\ ~short /\ alive \cap Workers # {} => workRunning

\* The port and the listening socket.
PortOwned ==
  \A h \in Handles :
    /\ (owner[h] = "port") <=> (iocp = h /\ (refused => pc = "refuse"))
    /\ (owner[h] = "listen") <=> (listen = h)

\* The event, and m_hIOCP when its number is closed a second time.
EventOwned ==
  /\ \A h \in Handles : (owner[h] = "event") <=> (event = h \/ h \in forgotten)
  /\ event \notin forgotten
  /\ refused /\ pc # "refuse" /\ iocp # Null => owner[iocp] = Free

\* The threads' handles: which are open after some of them were closed.
ThreadsOwned ==
  /\ \A h \in Handles : owner[h] = "thread" =>
       /\ \E i \in AllThreads : thread[i] = h /\ (pc \in {"kill", "joinworkers"} => i \in Workers)
       /\ pc # "close"
  /\ \A i \in AllThreads : thread[i] # Null =>
       /\ owner[thread[i]] \in {"thread", Free}
       /\ pc \in {"workers", "idle", "joinaccept"} => owner[thread[i]] = "thread"

IInv == TypeOK /\ Started /\ Stopped /\ AcceptKnown /\ WorkersKnown
        /\ PortOwned /\ EventOwned /\ ThreadsOwned

\* No thread has a handle.
LEMMA NoneMade ==
  /\ [i \in AllThreads |-> Null] \in [AllThreads -> Handles \cup {Null}]
  /\ 0 \in 0 .. N /\ 0 \in 0 .. MaxRounds /\ 1 \in 1 .. N + 1
BY ServiceAssumption

LEMMA InitInv == Init => IInv
<1> SUFFICES ASSUME Init PROVE IInv  OBVIOUS
<1> USE ServiceAssumption DEF Init
<1>0. owner \in [Handles -> {Free, "port", "listen", "event", "thread"}]  OBVIOUS
<1>1. TypeOK  BY <1>0, NoneMade DEF TypeOK
<1>2. Started /\ Stopped  BY DEF Started, Stopped
<1>3. AcceptKnown  BY DEF AcceptKnown, AllThreads, Accept
<1>4. WorkersKnown  BY DEF WorkersKnown, AllThreads, Workers
<1>5. PortOwned /\ EventOwned /\ ThreadsOwned  BY DEF PortOwned, EventOwned, ThreadsOwned, Free
<1> QED  BY <1>1, <1>2, <1>3, <1>4, <1>5 DEF IInv

LEMMA StartClickInv ==
  ASSUME IInv, StartClick
  PROVE  IInv'
<1> USE ServiceAssumption DEF IInv, StartClick, flagVars, dialogVars, auxVars
<1>0. short' \in BOOLEAN  OBVIOUS
<1>a. short' <=> N > MaxWait  OBVIOUS
<1>b. rounds' \in 0 .. MaxRounds  BY DEF TypeOK
<1>1. TypeOK'  BY <1>0, <1>b, NoneMade, Zenon DEF TypeOK
<1>2. Started'  BY DEF Started, AllThreads
<1>3. Stopped'  BY DEF Stopped
<1>4. AcceptKnown'  BY DEF AcceptKnown, AllThreads, Accept
<1>5. WorkersKnown'  BY <1>a DEF WorkersKnown, AllThreads, Workers
<1>6. PortOwned'  BY DEF PortOwned, Stopped
<1>e. EventOwned'  BY DEF EventOwned, TypeOK
<1>7. ThreadsOwned'  BY DEF ThreadsOwned, Stopped
<1> QED  BY <1>1, <1>2, <1>3, <1>4, <1>5, <1>6, <1>e, <1>7

LEMMA CreatePortInv ==
  ASSUME IInv, CreatePort
  PROVE  IInv'
<1> USE ServiceAssumption DEF IInv, CreatePort, flagVars, dialogVars, auxVars, Open
<1>1. TypeOK'  BY DEF TypeOK, AllThreads, Free
<1>2. Started'  BY DEF Started, TypeOK
<1>3. Stopped'  BY DEF Stopped
<1>4. AcceptKnown'  BY DEF AcceptKnown, Started, AllThreads, Accept
<1>5. WorkersKnown'  BY DEF WorkersKnown, Started, AllThreads, Workers
<1>6. PortOwned'  BY DEF PortOwned, Started, TypeOK, Free
<1>e. EventOwned'  BY DEF PortOwned, EventOwned, Started, TypeOK, Free
<1>7. ThreadsOwned'  BY DEF ThreadsOwned, Started, TypeOK, Free
<1> QED  BY <1>1, <1>2, <1>3, <1>4, <1>5, <1>6, <1>e, <1>7

LEMMA InitSocketInv ==
  ASSUME IInv, InitSocket
  PROVE  IInv'
<1> USE ServiceAssumption DEF IInv, InitSocket, flagVars, dialogVars, Open, Closed
<1>1. CASE CreateSocket
  <2> USE <1>1 DEF CreateSocket
  <2>1. TypeOK'  BY DEF TypeOK, AllThreads, Free
  <2>2. Started'  BY DEF Started, TypeOK
  <2>3. Stopped'  BY DEF Stopped
  <2>4. AcceptKnown' /\ WorkersKnown'
    BY DEF AcceptKnown, WorkersKnown, Started, AllThreads, Accept, Workers
  <2>5. PortOwned' /\ EventOwned'  BY DEF PortOwned, EventOwned, Started, TypeOK, Free
  <2>6. ThreadsOwned'  BY DEF ThreadsOwned, Started, TypeOK, Free
  <2> QED  BY <2>1, <2>2, <2>3, <2>4, <2>5, <2>6
<1>2. CASE CreateEvent
  <2> USE <1>2 DEF CreateEvent
  <2>1. TypeOK'  BY DEF TypeOK, AllThreads, Free
  <2>2. Started'  BY DEF Started, TypeOK
  <2>3. Stopped'  BY DEF Stopped
  <2>4. AcceptKnown' /\ WorkersKnown'
    BY DEF AcceptKnown, WorkersKnown, Started, AllThreads, Accept, Workers
  <2>5. PortOwned' /\ EventOwned'  BY DEF PortOwned, EventOwned, Started, TypeOK, Free
  <2>6. ThreadsOwned'  BY DEF ThreadsOwned, Started, TypeOK, Free
  <2> QED  BY <2>1, <2>2, <2>3, <2>4, <2>5, <2>6
<1>3. CASE Bind
  <2> USE <1>3 DEF Bind
  <2>1. TypeOK'  BY DEF TypeOK, AllThreads, Free
  <2>2. Started'  BY DEF Started, TypeOK
  <2>3. Stopped'  BY DEF Stopped
  <2>4. AcceptKnown' /\ WorkersKnown'
    BY DEF AcceptKnown, WorkersKnown, Started, AllThreads, Accept, Workers
  <2>5. PortOwned' /\ EventOwned'  BY DEF PortOwned, EventOwned, Started, TypeOK, Free
  <2>6. ThreadsOwned'  BY DEF ThreadsOwned, Started, TypeOK, Free
  <2> QED  BY <2>1, <2>2, <2>3, <2>4, <2>5, <2>6
<1> QED  BY <1>1, <1>2, <1>3

LEMMA RefuseStartInv ==
  ASSUME IInv, RefuseStart
  PROVE  IInv'
<1> USE ServiceAssumption DEF IInv, RefuseStart, flagVars, dialogVars, auxVars, Closed
<1>1. TypeOK'  BY DEF TypeOK, AllThreads, Free
<1>2. Started'  BY DEF Started
<1>3. Stopped'  BY DEF Stopped
<1>4. AcceptKnown'  BY DEF AcceptKnown, Started, AllThreads, Accept
<1>5. WorkersKnown'  BY DEF WorkersKnown, Started, AllThreads, Workers
<1>6. PortOwned'  BY DEF PortOwned, Started, TypeOK, Free
<1>e. EventOwned'  BY DEF PortOwned, EventOwned, Started, TypeOK, Free
<1>7. ThreadsOwned'  BY DEF ThreadsOwned, Started, TypeOK, Free
<1> QED  BY <1>1, <1>2, <1>3, <1>4, <1>5, <1>6, <1>e, <1>7

\* A thread is made under a handle that was free, or nothing changes.
LEMMA BeginMakes ==
  ASSUME TypeOK, NEW i \in AllThreads, Begin(i)
  PROVE  \/ \E h \in Handles :
              /\ owner[h] = Free /\ owner' = [owner EXCEPT ![h] = "thread"]
              /\ thread' = [thread EXCEPT ![i] = h] /\ thread'[i] = h /\ thread'[i] # Null
              /\ alive' = alive \cup {i}
         \/ UNCHANGED <<owner, thread, alive>>
BY ServiceAssumption DEF TypeOK, Begin, Kept, Open

LEMMA StartAcceptInv ==
  ASSUME IInv, StartAccept
  PROVE  IInv'
<1> USE ServiceAssumption DEF IInv, StartAccept, flagVars, dialogVars, auxVars
<1>0. Accept \in AllThreads /\ Accept \notin Workers  BY DEF Accept, AllThreads, Workers
<1>1. CASE UNCHANGED <<owner, thread, alive>>
  <2>0. thread'[Accept] = Null /\ pc' = "idle" /\ workRunning' = workRunning /\ ~workRunning
    BY <1>0, <1>1 DEF Started
  <2>1. TypeOK'  BY <1>1, <2>0 DEF TypeOK
  <2>2. Started'  BY <1>1, <2>0 DEF Started
  <2>3. Stopped'  BY <1>1, <2>0 DEF Stopped
  <2>4. AcceptKnown'  BY <1>1, <2>0 DEF AcceptKnown
  <2>5. WorkersKnown'  BY <1>1, <2>0 DEF WorkersKnown, Started, AllThreads, Workers
  <2>6. PortOwned'  BY <1>1, <2>0 DEF PortOwned, Started
  <2>e. EventOwned'  BY <1>1, <2>0 DEF PortOwned, EventOwned, Started
  <2>7. ThreadsOwned'  BY <1>1, <2>0 DEF ThreadsOwned, Started
  <2> QED  BY <2>1, <2>2, <2>3, <2>4, <2>5, <2>6, <2>e, <2>7
<1>2. CASE ~UNCHANGED <<owner, thread, alive>>
  <2>0. PICK h \in Handles :
          /\ owner[h] = Free /\ owner' = [owner EXCEPT ![h] = "thread"]
          /\ thread' = [thread EXCEPT ![Accept] = h] /\ thread'[Accept] = h /\ thread'[Accept] # Null
          /\ alive' = alive \cup {Accept}
    BY <1>0, <1>2, BeginMakes
  <2>a. pc' = "workers" /\ workRunning' = TRUE  BY <2>0
  <2>b. \A i \in Workers : i \in AllThreads /\ thread'[i] = Null
    BY <1>0, <2>0 DEF Started, TypeOK, AllThreads, Workers
  <2>1. TypeOK'  BY <1>0, <2>0, <2>a DEF TypeOK, Free
  <2>2. Started'  BY <2>0, <2>a DEF Started
  <2>3. Stopped'  BY <2>0, <2>a DEF Stopped
  <2>4. AcceptKnown'  BY <2>0, <2>a DEF AcceptKnown, Started
  <2>5. WorkersKnown'  BY <1>0, <2>0, <2>a, <2>b DEF WorkersKnown, Started, Stopped, Workers
  <2>6. PortOwned'  BY <2>0, <2>a DEF PortOwned, Started, TypeOK, Free
  <2>e. EventOwned'  BY <2>0, <2>a DEF PortOwned, EventOwned, Started, TypeOK, Free
  <2>7. ThreadsOwned'  BY <1>0, <2>0, <2>a DEF ThreadsOwned, Started, TypeOK, Free
  <2> QED  BY <2>1, <2>2, <2>3, <2>4, <2>5, <2>6, <2>e, <2>7
<1> QED  BY <1>1, <1>2

LEMMA StartWorkerInv ==
  ASSUME IInv, StartWorker
  PROVE  IInv'
<1> USE ServiceAssumption DEF IInv, StartWorker, flagVars, dialogVars, auxVars
<1>0. /\ at \in Workers /\ at \in AllThreads /\ at # Accept /\ at \in 1 .. N
      /\ thread[at] = Null /\ workRunning /\ ~refused
  BY DEF WorkersKnown, Started, Accept, AllThreads, Workers
<1>a. at' \in 1 .. N + 1 /\ (pc' = "workers" => at' \in Workers) /\ pc' \in {"idle", "workers"}
      /\ (pc' = "workers" <=> at # N)
  BY <1>0 DEF Workers
<1>b. short' \in BOOLEAN  BY <1>0 DEF TypeOK
<1>c. ~short' => ~short /\ thread'[at] # Null  OBVIOUS
<1>1. CASE UNCHANGED <<owner, thread, alive>>
  <2>1. TypeOK'  BY <1>1, <1>a, <1>b DEF TypeOK
  <2>2. Started'  BY <1>1, <1>a DEF Started
  <2>3. Stopped'  BY <1>1, <1>a DEF Stopped
  <2>4. AcceptKnown'  BY <1>1, <1>a DEF AcceptKnown
  <2>5. WorkersKnown'  BY <1>0, <1>1, <1>a, <1>c DEF WorkersKnown, Workers
  <2>6. PortOwned'  BY <1>0, <1>1, <1>a DEF PortOwned
  <2>e. EventOwned'  BY <1>0, <1>1, <1>a DEF PortOwned, EventOwned
  <2>7. ThreadsOwned'  BY <1>1, <1>a DEF ThreadsOwned
  <2> QED  BY <2>1, <2>2, <2>3, <2>4, <2>5, <2>6, <2>e, <2>7
<1>2. CASE ~UNCHANGED <<owner, thread, alive>>
  <2>0. PICK h \in Handles :
          /\ owner[h] = Free /\ owner' = [owner EXCEPT ![h] = "thread"]
          /\ thread' = [thread EXCEPT ![at] = h] /\ thread'[at] = h /\ thread'[at] # Null
          /\ alive' = alive \cup {at}
    BY <1>0, <1>2, BeginMakes
  <2>1. TypeOK'  BY <1>0, <1>a, <1>b, <2>0 DEF TypeOK, Free
  <2>2. Started'  BY <1>a, <2>0 DEF Started
  <2>3. Stopped'  BY <1>0, <1>a, <2>0 DEF Stopped
  <2>4. AcceptKnown'  BY <1>0, <1>a, <2>0 DEF AcceptKnown, TypeOK, Accept, AllThreads
  <2>5. WorkersKnown'
    <3>1. \A i \in AllThreads : i # at => thread'[i] = thread[i]  BY <2>0 DEF TypeOK
    <3>2. \A i \in Workers : i \in AllThreads  BY DEF Workers, AllThreads
    <3>3. \A i \in at' .. N : i \in Workers /\ i # at  BY <1>0 DEF Workers
    <3>4. \A i \in 1 .. at' - 1 : i \in Workers /\ (i # at => i \in 1 .. at - 1)  BY <1>0 DEF Workers
    <3>5. at = N => Workers = 1 .. at' - 1  BY <1>0 DEF Workers
    <3>6. \A i \in at' .. N : i \in at .. N  BY <1>0 DEF Workers
    <3>7. pc' = "workers" => \A i \in at' .. N : thread'[i] = Null
      BY <3>1, <3>2, <3>3, <3>6 DEF WorkersKnown
    <3>8. ~short' => \A i \in 1 .. at' - 1 : thread'[i] # Null
      BY <1>c, <2>0, <3>1, <3>2, <3>4 DEF WorkersKnown
    <3> QED  BY <1>0, <1>a, <1>c, <3>5, <3>7, <3>8 DEF WorkersKnown
  <2>6. PortOwned'  BY <1>0, <1>a, <2>0 DEF PortOwned, TypeOK, Free
  <2>e. EventOwned'  BY <1>0, <1>a, <2>0 DEF PortOwned, EventOwned, TypeOK, Free
  <2>7. ThreadsOwned'  BY <1>0, <1>a, <2>0 DEF ThreadsOwned, TypeOK, Free
  <2> QED  BY <2>1, <2>2, <2>3, <2>4, <2>5, <2>6, <2>e, <2>7
<1> QED  BY <1>1, <1>2

LEMMA StopClickInv ==
  ASSUME IInv, StopClick
  PROVE  IInv'
<1> USE ServiceAssumption DEF IInv, StopClick, flagVars, dialogVars, auxVars
<1>0. thread[Accept] = Null => pc' = "kill"  OBVIOUS
<1>a. thread[Accept] # Null => pc' = "joinaccept"  BY DEF AcceptKnown
<1>b. pc' \in {"joinaccept", "kill"} /\ Accept \in AllThreads /\ Workers = AllThreads \ {Accept}
  BY DEF Accept, AllThreads, Workers
<1>1. TypeOK'  BY DEF TypeOK
<1>2. Started'  BY DEF Started
<1>3. Stopped'  BY DEF Stopped
<1>4. AcceptKnown'  BY <1>0, <1>a, <1>b DEF AcceptKnown
<1>5. WorkersKnown'  BY DEF WorkersKnown
<1>6. PortOwned'  BY <1>b DEF PortOwned
<1>e. EventOwned'  BY <1>b DEF PortOwned, EventOwned
<1>7. ThreadsOwned'  BY <1>0, <1>a, <1>b DEF ThreadsOwned
<1> QED  BY <1>1, <1>2, <1>3, <1>4, <1>5, <1>6, <1>e, <1>7

LEMMA JoinAcceptInv ==
  ASSUME IInv, JoinAccept
  PROVE  IInv'
<1> USE ServiceAssumption DEF IInv, JoinAccept, AcceptEnded, flagVars, dialogVars, auxVars, Closed
<1>0. Accept \in AllThreads /\ Workers = AllThreads \ {Accept}  BY DEF Accept, AllThreads, Workers
<1>1. TypeOK'  BY <1>0 DEF TypeOK, Free
<1>2. Started'  BY DEF Started
<1>3. Stopped'  BY DEF Stopped
<1>4. AcceptKnown'  BY DEF AcceptKnown
<1>5. WorkersKnown'  BY DEF WorkersKnown
<1>6. PortOwned'  BY <1>0 DEF PortOwned, ThreadsOwned, TypeOK, Free
<1>e. EventOwned'  BY <1>0 DEF PortOwned, EventOwned, ThreadsOwned, TypeOK, Free
<1>7. ThreadsOwned'  BY <1>0 DEF ThreadsOwned, TypeOK, Free
<1> QED  BY <1>1, <1>2, <1>3, <1>4, <1>5, <1>6, <1>e, <1>7

LEMMA PostKillThreadInv ==
  ASSUME IInv, PostKillThread
  PROVE  IInv'
<1> USE ServiceAssumption DEF IInv, PostKillThread, Enough, flagVars, dialogVars, auxVars
<1>0. kills = 0 /\ pc' \in {"joinworkers", "close"} /\ kills' \in 0 .. N  BY DEF Stopped
<1>1. TypeOK'  BY <1>0 DEF TypeOK
<1>2. Started'  BY <1>0 DEF Started
<1>3. Stopped'  BY <1>0 DEF Stopped
<1>4. AcceptKnown'  BY <1>0 DEF AcceptKnown
<1>5. WorkersKnown'  BY <1>0 DEF WorkersKnown
<1>6. PortOwned'  BY <1>0 DEF PortOwned
<1>e. EventOwned'  BY <1>0 DEF PortOwned, EventOwned
<1>7. ThreadsOwned'  BY <1>0 DEF ThreadsOwned, WorkersKnown
<1> QED  BY <1>1, <1>2, <1>3, <1>4, <1>5, <1>6, <1>e, <1>7

LEMMA JoinWorkersInv ==
  ASSUME IInv, JoinWorkers
  PROVE  IInv'
<1> USE ServiceAssumption DEF IInv, JoinWorkers, flagVars, dialogVars, auxVars
<1>0. ~short => alive \cap Workers = {}  BY DEF Joined, MayWait, WorkersKnown, Stopped
<1>a. \A h \in Handles : owner'[h] = owner[h] \/ owner'[h] = Free  OBVIOUS
<1>b. \A h \in Handles : owner[h] \in {"port", "listen", "event"} => owner'[h] = owner[h]
  BY DEF ThreadsOwned, TypeOK, Free, Workers, AllThreads
<1>1. TypeOK'  BY DEF TypeOK, Free
<1>2. Started'  BY DEF Started
<1>3. Stopped'  BY DEF Stopped
<1>4. AcceptKnown'  BY DEF AcceptKnown
<1>5. WorkersKnown'  BY <1>0 DEF WorkersKnown
<1>6. PortOwned'  BY <1>a, <1>b DEF PortOwned, Free
<1>e. EventOwned'  BY <1>a, <1>b DEF EventOwned, TypeOK, Free
<1>7. ThreadsOwned'
  <2>1. \A h \in Handles : owner'[h] # "thread"  BY DEF ThreadsOwned, Free
  <2>2. \A i \in AllThreads : thread[i] # Null => owner'[thread[i]] \in {"thread", Free}
    BY <1>a DEF ThreadsOwned, TypeOK
  <2> QED  BY <2>1, <2>2 DEF ThreadsOwned
<1> QED  BY <1>1, <1>2, <1>3, <1>4, <1>5, <1>6, <1>e, <1>7

LEMMA ClosePortInv ==
  ASSUME IInv, ClosePort
  PROVE  IInv'
<1> USE ServiceAssumption DEF IInv, ClosePort, flagVars, dialogVars, auxVars, CloseListen, Closed
<1>0. Closed(owner, iocp) \in [Handles -> {Free, "port", "listen", "event", "thread"}]  BY DEF TypeOK
<1>a. owner' \in [Handles -> {Free, "port", "listen", "event", "thread"}]  BY <1>0 DEF TypeOK
<1>1. TypeOK'  BY <1>a, NoneMade DEF TypeOK
<1>2. Started'  BY DEF Started
<1>3. Stopped'  BY DEF Stopped
<1>4. AcceptKnown'  BY DEF AcceptKnown, Accept, AllThreads
<1>5. WorkersKnown'  BY DEF WorkersKnown, Workers, AllThreads
<1>6. PortOwned'  BY DEF PortOwned, TypeOK, Free
<1>e. EventOwned'  BY DEF PortOwned, EventOwned, TypeOK, Free
<1>7. ThreadsOwned'  BY DEF ThreadsOwned, TypeOK, Free
<1> QED  BY <1>1, <1>2, <1>3, <1>4, <1>5, <1>6, <1>e, <1>7

LEMMA AcceptEndsInv ==
  ASSUME IInv, AcceptEnds
  PROVE  IInv'
<1> USE ServiceAssumption DEF IInv, AcceptEnds, flagVars, dialogVars, auxVars
<1>1. TypeOK'  BY DEF TypeOK
<1>2. Started'  BY DEF Started
<1>3. Stopped'  BY DEF Stopped
<1>4. AcceptKnown'  BY DEF AcceptKnown
<1>5. WorkersKnown'  BY DEF WorkersKnown
<1>6. PortOwned'  BY DEF PortOwned
<1>e. EventOwned'  BY DEF PortOwned, EventOwned
<1>7. ThreadsOwned'  BY DEF ThreadsOwned
<1> QED  BY <1>1, <1>2, <1>3, <1>4, <1>5, <1>6, <1>e, <1>7

LEMMA WorkerEndsInv ==
  ASSUME IInv, NEW i \in Workers, WorkerEnds(i)
  PROVE  IInv'
<1> USE ServiceAssumption DEF IInv, WorkerEnds, flagVars, dialogVars, auxVars
<1>0. kills' \in 0 .. N /\ (kills = 0 => kills' = 0)  BY DEF TypeOK
<1>1. TypeOK'  BY <1>0 DEF TypeOK
<1>2. Started'  BY DEF Started
<1>3. Stopped'  BY <1>0 DEF Stopped
<1>4. AcceptKnown'  BY DEF AcceptKnown
<1>5. WorkersKnown'  BY DEF WorkersKnown
<1>6. PortOwned'  BY DEF PortOwned
<1>e. EventOwned'  BY DEF PortOwned, EventOwned
<1>7. ThreadsOwned'  BY DEF ThreadsOwned
<1> QED  BY <1>1, <1>2, <1>3, <1>4, <1>5, <1>6, <1>e, <1>7

LEMMA TalkInv ==
  ASSUME IInv, NEW i \in AllThreads, Talks(i) \/ Answered(i)
  PROVE  IInv'
<1> USE DEF Talks, Answered, flagVars, dialogVars, auxVars
<1>1. TypeOK'  BY DEF IInv, TypeOK
<1>2. Started' /\ Stopped' /\ AcceptKnown' /\ WorkersKnown'
  BY DEF IInv, Started, Stopped, AcceptKnown, WorkersKnown
<1>3. PortOwned' /\ EventOwned' /\ ThreadsOwned'
  BY DEF IInv, PortOwned, EventOwned, ThreadsOwned
<1> QED  BY <1>1, <1>2, <1>3 DEF IInv

LEMMA Invariant == Spec => []IInv
<1>1. IInv /\ [Next]_vars => IInv'
  <2> SUFFICES ASSUME IInv, [Next]_vars PROVE IInv'  OBVIOUS
  <2>1. CASE StartClick \/ StopClick \/ AcceptEnds
    BY <2>1, StartClickInv, StopClickInv, AcceptEndsInv
  <2>6. ASSUME NEW i \in AllThreads, Talks(i) \/ Answered(i) PROVE IInv'
    BY <2>6, TalkInv
  <2>2. CASE Starting
    BY <2>2, CreatePortInv, InitSocketInv, RefuseStartInv, StartAcceptInv, StartWorkerInv DEF Starting
  <2>3. CASE Stopping
    BY <2>3, JoinAcceptInv, PostKillThreadInv, JoinWorkersInv, ClosePortInv DEF Stopping
  <2>4. ASSUME NEW i \in Workers, WorkerEnds(i) PROVE IInv'  BY <2>4, WorkerEndsInv
  <2>5. CASE UNCHANGED vars
    BY <2>5 DEF vars, flagVars, dialogVars, auxVars, IInv, TypeOK, Started, Stopped, AcceptKnown,
                WorkersKnown, PortOwned, EventOwned, ThreadsOwned
  <2> QED  BY <2>1, <2>2, <2>3, <2>4, <2>5, <2>6 DEF Next
<1> QED  BY <1>1, InitInv, PTL DEF Spec

\* The variables keep their types; above all, never more exit messages than workers are
\* in the port (TcpIOCPServerImp.cpp:163-168).
THEOREM TypeCorrect == Spec => []TypeOK
<1>1. IInv => TypeOK  BY DEF IInv
<1> QED  BY <1>1, Invariant, PTL

\* Every open handle is held by the present server and every one it holds is open,
\* whichever step of StartService failed and wherever StopService stands, but for
\* m_hIOCP after InitSocket failed, and for m_hEvent, which stays open with each server
\* that was stopped (TcpIOCPServerImp.cpp:54-147, 155-201).
THEOREM HandlesKept == Spec => []HandlesOwned
<1>1. IInv => HandlesOwned
  BY ServiceAssumption DEF IInv, HandlesOwned, PortOwned, EventOwned, ThreadsOwned, TypeOK
<1> QED  BY <1>1, Invariant, PTL

\* The listening socket outlives the accept thread, and the port the workers, if all of
\* them were made and the system can wait for so many (TcpIOCPServerImp.cpp:143, 157, 169).
THEOREM ThreadsOutlived == Spec => []OutliveThreads
<1>1. IInv => OutliveThreads  BY DEF IInv, OutliveThreads, AcceptKnown, WorkersKnown
<1> QED  BY <1>1, Invariant, PTL

----------------------------------------------------------------------------
(* The memory blocks                                                       *)

\* The class of the blocks that the handlers ask for, and its free list.
class == C!Class(BlockSize)
list  == freeList[class]

\* All blocks the handlers ask for are of one class.
LEMMA ClassExists ==
  /\ class \in C!Classes
  /\ C!Fits(BlockSize, class)
  /\ class > 0 => ~C!Fits(BlockSize, class - 1)
<1> DEFINE Large == {i \in 0 .. 29 : C!Fits(BlockSize, i)}
<1>1. Large # {} /\ Large \in SUBSET Nat
  BY BlocksAssumption DEF C!MemCacheAssumption, C!Classes
<1>2. PICK i \in Large : \A j \in Large : i <= j
  BY <1>1, LeastNumber
<1>3. i \in C!Classes /\ i < 30 /\ C!Fits(BlockSize, i)
  BY DEF C!Classes
<1>4. ASSUME NEW j \in 0 .. i - 1 PROVE ~C!Fits(BlockSize, j)
  <2>1. j \in 0 .. 29 /\ ~(i <= j)
    OBVIOUS
  <2> QED
    BY <1>2, <2>1
<1>5. /\ class \in C!Classes /\ class < 30 /\ C!Fits(BlockSize, class)
      /\ \A j \in 0 .. class - 1 : ~C!Fits(BlockSize, j)
  BY <1>3, <1>4 DEF class, C!Class
<1>6. class > 0 => class - 1 \in 0 .. class - 1
  BY <1>5 DEF C!Classes
<1> QED
  BY <1>5, <1>6

Posts    == {"filled", "posted"}
Takes    == {"answer", "release", "forget"}
Empty    == {"idle", "get", "posted"}
BlockOf(s) == io[s].block
NodeOf(s)  == io[s].node
KindOf(s)  == io[s].kind

\* A thread holds a block from the step at which it gets one to that at which it posts or
\* releases it; whoever refers to a node that was posted finds a block in it.
Holds ==
  /\ \A t \in Threads : hand[t] = NoBlock <=> cpc[t] \in Empty
  /\ \A t \in Threads : cpc[t] \in Posts \cup Takes => node[t] \in Nodes
  /\ \A t \in Threads : cpc[t] = "filled" => buf[node[t]] # NoBlock
  /\ \A s \in C!Packets :
       /\ BlockOf(s) = NoBlock <=> KindOf(s) \notin C!Kinds
       /\ NodeOf(s) = NoNode <=> KindOf(s) = "released"
       /\ KindOf(s) \in C!Kinds => buf[NodeOf(s)] # NoBlock
  /\ \A i \in C!Classes : i # class => freeList[i] = <<>>

\* OnePlace of a block, with the free list spelled out.
Once(l, b) == \A x, y \in 1 .. Len(l) : l[x] = b /\ l[y] = b => x = y
Posted(b)  == \E s \in C!Packets : BlockOf(s) = b
Held(b)    == \E t \in Threads : hand[t] = b
Placed(b) ==
  /\ Once(list, b)
  /\ \A r, s \in C!Packets : BlockOf(r) = b /\ BlockOf(s) = b => r = s
  /\ \A t, u \in Threads : hand[t] = b /\ hand[u] = b => t = u
  /\ b \in ToSet(list) => ~Posted(b) /\ ~Held(b) /\ b \notin lost
  /\ Posted(b) => ~Held(b) /\ b \notin lost
  /\ Held(b) => b \notin lost
  /\ server # "closed" =>
       (b <= areas <=> b \in ToSet(list) \/ Posted(b) \/ Held(b) \/ b \in lost)

AllPlaced == \A b \in C!Blocks \ spoiled : Placed(b)

\* As long as no node was given away too early: the packet of an operation finds what was
\* posted, and a node serves one operation at a time. A thread that posted may find that
\* the packet was taken before it enters the node in the list.
NodesKept ==
  /\ listed \cap pool = {}
  /\ \A r, s \in C!Packets : NodeOf(r) = NodeOf(s) /\ NodeOf(r) # NoNode => r = s
  /\ \A s \in C!Packets :
       /\ NodeOf(s) \notin pool
       /\ KindOf(s) = "kill" => NodeOf(s) \notin listed
       /\ KindOf(s) \in C!Kinds => type[NodeOf(s)] = KindOf(s) /\ buf[NodeOf(s)] = BlockOf(s)
ThreadsKept ==
  /\ \A t \in Threads : cpc[t] # "forget"
  /\ \A t \in Threads : cpc[t] \in Posts \cup Takes => node[t] \notin pool
  /\ \A t \in Threads : cpc[t] \in Posts => node[t] \notin listed
  /\ \A t \in Threads : cpc[t] = "filled" => type[node[t]] = kind[t] /\ buf[node[t]] = hand[t]
  /\ \A t \in Threads, s \in C!Packets : cpc[t] \in Posts \cup Takes /\ NodeOf(s) = node[t] =>
       cpc[t] = "posted" /\ KindOf(s) # "kill"
  /\ \A t, u \in Threads : t # u /\ cpc[t] \in Posts \cup Takes /\ cpc[u] \in Posts \cup Takes
       /\ node[t] = node[u] => \/ cpc[t] = "posted" /\ cpc[u] \in Takes
                               \/ cpc[u] = "posted" /\ cpc[t] \in Takes

NoneSpoiled == ~stale => spoiled = {} /\ NodesKept /\ ThreadsKept

BInv == C!TypeOK /\ Holds /\ AllPlaced /\ NoneSpoiled

LEMMA ListType ==
  ASSUME C!TypeOK
  PROVE  /\ list \in Seq(C!Blocks) /\ ToSet(list) \subseteq C!Blocks
         /\ NoBlock \notin C!Blocks /\ C!Blocks \subseteq Nat /\ NoNode \notin Nodes
         /\ areas \in Nat /\ areas <= MaxBlocks /\ MaxBlocks \in Nat /\ Num \in Nat \ {0}
<1>1. list \in Seq(C!Blocks)
  BY ClassExists DEF C!TypeOK, list
<1>2. ToSet(list) \subseteq C!Blocks
  BY <1>1 DEF ToSet
<1> QED
  BY <1>1, <1>2, BlocksAssumption DEF C!TypeOK, C!Blocks, C!MemCacheAssumption

LEMMA PlacedIsOnePlace ==
  ASSUME BInv
  PROVE  OnePlace /\ OwnBlock
<1>1. ASSUME NEW b \in C!Blocks
      PROVE  /\ C!Entries(b) = {x \in 1 .. Len(list) : list[x] = b}
             /\ C!Entries(b) # {} <=> b \in ToSet(list)
  <2>1. DOMAIN list = 1 .. Len(list)
    BY ListType DEF BInv
  <2> QED
    BY <2>1 DEF C!Entries, list, class, ToSet
<1>2. \A b \in C!Blocks : (C!Operations(b) # {} <=> Posted(b)) /\ (C!Holders(b) # {} <=> Held(b))
  BY DEF C!Operations, C!Holders, Posted, Held, BlockOf
<1>3. ASSUME NEW b \in C!Blocks, Placed(b)
      PROVE  C!Alone(b) /\ (server # "closed" => (b <= areas <=>
               C!Entries(b) \cup C!Operations(b) \cup C!Holders(b) # {} \/ b \in lost))
  <2>1. \A x, y \in C!Entries(b) : x = y
    BY <1>1, <1>3 DEF Placed, Once
  <2>2. \A x, y \in C!Operations(b) : x = y
    BY <1>3 DEF Placed, C!Operations, BlockOf
  <2>3. \A x, y \in C!Holders(b) : x = y
    BY <1>3 DEF Placed, C!Holders
  <2> QED
    BY <1>1, <1>2, <1>3, <2>1, <2>2, <2>3 DEF Placed, C!Alone
<1>4. C!OnePlace
  BY <1>3 DEF C!OnePlace, BInv, AllPlaced
<1> QED
  BY <1>4 DEF OnePlace, OwnBlock, C!OwnBlock, BInv, NoneSpoiled

LEMMA BlocksInit ==
  ASSUME C!Init
  PROVE  BInv
<1>1. /\ <<>> \in Seq(C!Blocks) /\ 0 \in 0 .. MaxBlocks /\ 0 \in 0 .. MaxStarts
      /\ list = <<>> /\ ToSet(list) = {} /\ \A b \in C!Blocks : b \in Nat \ {0} /\ b # NoBlock
      /\ NoBlock \notin C!Blocks /\ NoNode \notin Nodes
  BY ClassExists, BlocksAssumption DEF C!Init, C!MemCacheAssumption, list, ToSet, C!Blocks
<1>2. C!TypeOK
  BY <1>1 DEF C!Init, C!TypeOK, C!NoPacket, C!Types, C!Kinds
<1>3. Holds
  BY <1>1 DEF C!Init, Holds, C!NoPacket, C!Kinds, BlockOf, NodeOf, KindOf, Empty, Posts, Takes
<1>4. AllPlaced
  BY <1>1 DEF C!Init, AllPlaced, Placed, Once, Posted, Held, BlockOf, C!NoPacket
<1>5. NoneSpoiled
  BY <1>1 DEF C!Init, NoneSpoiled, NodesKept, ThreadsKept, C!NoPacket, C!Kinds, BlockOf, NodeOf, KindOf,
              Posts, Takes
<1> QED
  BY <1>2, <1>3, <1>4, <1>5 DEF BInv

\* What the steps do to the list.
LEMMA ListTaken ==
  ASSUME NEW S, NEW l \in Seq(S), l # <<>>
  PROVE  /\ Head(l) \in S /\ Tail(l) \in Seq(S) /\ ToSet(l) = {Head(l)} \cup ToSet(Tail(l))
         /\ \A b : Once(l, b) => Once(Tail(l), b)
         /\ Once(l, Head(l)) => Head(l) \notin ToSet(Tail(l))
<1>1. Len(l) \in Nat \ {0} /\ Head(l) = l[1] /\ Len(Tail(l)) = Len(l) - 1
      /\ \A x \in 1 .. Len(l) - 1 : Tail(l)[x] = l[x + 1] /\ x + 1 \in 1 .. Len(l)
  OBVIOUS
<1>2. ASSUME NEW b, Once(l, b) PROVE Once(Tail(l), b)
  <2> SUFFICES ASSUME NEW x \in 1 .. Len(l) - 1, NEW y \in 1 .. Len(l) - 1,
                      Tail(l)[x] = b, Tail(l)[y] = b
               PROVE  x = y
    BY <1>1 DEF Once
  <2>1. x + 1 = y + 1
    BY <1>1, <1>2 DEF Once
  <2> QED  BY <2>1
<1>3. ASSUME Once(l, Head(l)), Head(l) \in ToSet(Tail(l)) PROVE FALSE
  <2>1. PICK x \in 1 .. Len(l) - 1 : Tail(l)[x] = Head(l)
    BY <1>1, <1>3 DEF ToSet
  <2>2. x + 1 = 1
    BY <1>1, <1>3, <2>1 DEF Once
  <2> QED  BY <2>2
<1> QED
  BY <1>2, <1>3, PopFront

LEMMA ListGrown ==
  ASSUME NEW S, NEW l \in Seq(S), NEW e \in S
  PROVE  /\ Append(l, e) \in Seq(S) /\ ToSet(Append(l, e)) = ToSet(l) \cup {e}
         /\ \A b : Once(l, b) /\ b # e => Once(Append(l, e), b)
         /\ e \notin ToSet(l) => Once(Append(l, e), e)
<1>1. Len(l) \in Nat /\ Len(Append(l, e)) = Len(l) + 1 /\ Append(l, e)[Len(l) + 1] = e
      /\ \A x \in 1 .. Len(l) : Append(l, e)[x] = l[x]
  OBVIOUS
<1>2. \A b : Once(l, b) /\ b # e => Once(Append(l, e), b)
  BY <1>1 DEF Once
<1>3. ASSUME e \notin ToSet(l) PROVE Once(Append(l, e), e)
  <2>1. \A x \in 1 .. Len(l) : l[x] # e
    BY <1>3 DEF ToSet
  <2> QED  BY <1>1, <2>1 DEF Once
<1> QED
  BY <1>2, <1>3, PushBack

\* The list of the class changes, and no other.
LEMMA ListChanges ==
  ASSUME C!TypeOK, NEW l \in Seq(C!Blocks), freeList' = [freeList EXCEPT ![class] = l]
  PROVE  /\ list' = l /\ \A i \in C!Classes : i # class => freeList'[i] = freeList[i]
         /\ freeList' \in [C!Classes -> Seq(C!Blocks)]
         /\ \A i \in C!Classes : freeList'[i] # <<>> =>
              C!Fits(BlockSize, i) /\ (i > 0 => ~C!Fits(BlockSize, i - 1))
<1>1. freeList \in [C!Classes -> Seq(C!Blocks)]
  BY DEF C!TypeOK
<1>2. list' = l /\ \A i \in C!Classes : i # class => freeList'[i] = freeList[i]
  BY <1>1, ClassExists DEF list, class
<1> QED
  BY <1>1, <1>2, ClassExists DEF C!TypeOK, list, class

\* The blocks of posted operations, of hands and of lost stay: and so do their places.
LEMMA PlacesStay ==
  ASSUME BInv, list' = list, areas' = areas, lost' = lost, hand' = hand,
         \A s \in C!Packets : BlockOf(s)' = BlockOf(s),
         spoiled \subseteq spoiled', server # "closed" \/ server' = "closed"
  PROVE  AllPlaced'
BY DEF BInv, AllPlaced, Placed, Once, Posted, Held

LEMMA GetBlock ==
  ASSUME BInv, NEW t \in Threads, C!Get(t), server # "closed"
  PROVE  BInv'
<1> USE DEF C!Get, C!GoTo, C!nodeVars, C!serverVars, C!auxVars
<1>0. /\ hand[t] = NoBlock /\ C!TypeOK /\ list \in Seq(C!Blocks) /\ NoBlock \notin C!Blocks
      /\ C!Blocks = 1 .. MaxBlocks /\ areas \in Nat /\ MaxBlocks \in Nat /\ Num \in Nat \ {0}
      /\ cpc[t] \in {"idle", "get"}
  BY ListType DEF BInv, Holds, Empty, C!Blocks
<1>1. PICK b \in C!Blocks, l \in Seq(C!Blocks) :
        /\ hand' = [hand EXCEPT ![t] = b] /\ freeList' = [freeList EXCEPT ![class] = l]
        /\ \/ list # <<>> /\ b = Head(list) /\ l = Tail(list) /\ areas' = areas
           \/ /\ list = <<>> /\ b = areas + 1 /\ l = C!Rest /\ areas' = areas + Num
              /\ areas + Num <= MaxBlocks
  <2>1. CASE list # <<>>
    BY <1>0, <2>1, ListTaken DEF C!GetMemBlock, C!Pop, list, class
  <2>2. CASE list = <<>>
    <3>1. areas + Num <= MaxBlocks /\ areas + 1 \in C!Blocks
      BY <1>0, <2>2 DEF C!GetMemBlock, list, class
    <3>2. C!Rest \in Seq(C!Blocks)
      BY <1>0, <3>1, RestOfBlock DEF C!Rest
    <3> QED
      BY <1>0, <2>2, <3>1, <3>2 DEF C!GetMemBlock, list, class
  <2> QED  BY <2>1, <2>2
<1>2. /\ list' = l /\ \A i \in C!Classes : i # class => freeList'[i] = freeList[i]
      /\ freeList' \in [C!Classes -> Seq(C!Blocks)]
      /\ \A i \in C!Classes : freeList'[i] # <<>> =>
           C!Fits(BlockSize, i) /\ (i > 0 => ~C!Fits(BlockSize, i - 1))
  BY <1>0, <1>1, ListChanges
<1>3. /\ hand'[t] = b /\ \A u \in Threads : u # t => hand'[u] = hand[u]
      /\ cpc'[t] = "fill" /\ \A u \in Threads : u # t => cpc'[u] = cpc[u]
      /\ areas' \in 0 .. MaxBlocks /\ areas <= areas'
  BY <1>0, <1>1 DEF C!TypeOK
<1>4. C!TypeOK'
  BY <1>0, <1>1, <1>2, <1>3 DEF C!TypeOK
<1>5. Holds'
  BY <1>0, <1>2, <1>3 DEF BInv, Holds, Empty, Posts, Takes, BlockOf, NodeOf, KindOf
<1>6. ASSUME NEW c \in C!Blocks \ spoiled PROVE Placed(c)'
  <2>0. Placed(c) /\ Posted(c)' = Posted(c) /\ c \in Nat
    BY <1>0 DEF BInv, AllPlaced, Posted, BlockOf
  <2>1. Held(c)' <=> Held(c) \/ c = b
    BY <1>0, <1>3 DEF Held
  <2>2. CASE list # <<>>
    <3>0. b = Head(list) /\ list' = Tail(list) /\ areas' = areas
      BY <1>1, <1>2, <2>2
    <3>1. /\ ToSet(list) = {b} \cup ToSet(list') /\ areas' = areas
          /\ Once(list, c) => Once(list', c)
          /\ Once(list, b) => b \notin ToSet(list')
      BY <1>0, <2>2, <3>0, ListTaken, Zenon
    <3>2. \A u, v \in Threads : hand'[u] = c /\ hand'[v] = c => u = v
      BY <1>3, <2>0, <3>1 DEF Placed, Held
    <3> QED
      BY <2>0, <2>1, <3>1, <3>2 DEF Placed, Posted, BlockOf
  <2>3. CASE list = <<>>
    <3>1. /\ b = areas + 1 /\ l = C!Rest /\ areas' = areas + Num /\ areas + Num <= MaxBlocks
          /\ ToSet(list) = {}
      BY <1>1, <2>3 DEF ToSet
    <3>2. ToSet(list') = (areas + 2) .. (areas + Num) /\ IsInjective(list')
      BY <1>0, <1>2, <3>1, RestOfBlock DEF C!Rest
    <3>3. Once(list', c)
      BY <1>2, <3>2 DEF IsInjective, Once
    <3>4. c <= areas <=> Posted(c) \/ Held(c) \/ c \in lost
      BY <2>0, <3>1 DEF Placed
    <3>9. c \in ToSet(list') <=> areas + 2 <= c /\ c <= areas + Num
      BY <1>0, <2>0, <3>2
    <3>5. c <= areas' <=> c <= areas \/ c = b \/ c \in ToSet(list')
      BY <1>0, <2>0, <3>1, <3>9
    <3>6. c \in ToSet(list') => ~(c <= areas) /\ c # b
      BY <1>0, <2>0, <3>1, <3>9
    <3>7. c = b => ~(c <= areas)
      BY <1>0, <2>0, <3>1
    <3>8. \A u, v \in Threads : hand'[u] = c /\ hand'[v] = c => u = v
      BY <1>3, <2>0, <3>4, <3>7 DEF Placed, Held
    <3> QED
      BY <2>0, <2>1, <3>3, <3>4, <3>5, <3>6, <3>7, <3>8 DEF Placed, Posted, BlockOf
  <2> QED
    BY <2>2, <2>3
<1>7. ASSUME ~stale' PROVE spoiled' = {} /\ NodesKept' /\ ThreadsKept'
  <2>1. spoiled' = {} /\ NodesKept /\ ThreadsKept
    BY <1>7 DEF BInv, NoneSpoiled
  <2>2. NodesKept'
    BY <2>1 DEF NodesKept, NodeOf, KindOf, BlockOf
  <2>3. \A u \in Threads : cpc'[u] \in Posts \cup Takes => u # t
    BY <1>3 DEF Posts, Takes
  <2>4. ThreadsKept'
    BY <1>3, <2>1, <2>3 DEF ThreadsKept, NodeOf, KindOf
  <2> QED
    BY <2>1, <2>2, <2>4
<1> QED
  BY <1>4, <1>5, <1>6, <1>7 DEF BInv, AllPlaced, NoneSpoiled

LEMMA FillNode ==
  ASSUME BInv, NEW t \in Threads, C!FillOper(t), server # "closed"
  PROVE  BInv'
<1> USE DEF C!FillOper, C!GoTo, C!Named, C!cacheVars, C!serverVars, C!auxVars
<1>1. PICK n \in pool : /\ pool' = pool \ {n} /\ node' = [node EXCEPT ![t] = n]
                        /\ type' = [type EXCEPT ![n] = kind[t]]
                        /\ buf' = [buf EXCEPT ![n] = hand[t]]
  BY Zenon
<1>2. n \in Nodes /\ hand[t] # NoBlock /\ kind[t] \in C!Types /\ hand[t] \in C!Blocks \cup {NoBlock}
      /\ cpc[t] = "fill"
  BY DEF BInv, Holds, Empty, C!TypeOK, C!Types
<1>3. /\ node'[t] = n /\ \A u \in Threads : u # t => node'[u] = node[u]
      /\ cpc'[t] = "filled" /\ \A u \in Threads : u # t => cpc'[u] = cpc[u]
      /\ type'[n] = kind[t] /\ \A m \in Nodes : m # n => type'[m] = type[m]
      /\ buf'[n] = hand[t] /\ \A m \in Nodes : m # n => buf'[m] = buf[m]
  BY <1>1, <1>2 DEF BInv, C!TypeOK
<1>4. C!TypeOK'
  BY <1>1, <1>2, <1>3 DEF BInv, C!TypeOK
<1>5. Holds'
  BY <1>1, <1>2, <1>3 DEF BInv, Holds, Empty, Posts, Takes, BlockOf, NodeOf, KindOf, C!TypeOK
<1>6. AllPlaced'
  BY PlacesStay DEF list, BlockOf
<1>7. ASSUME ~stale' PROVE spoiled' = {} /\ NodesKept' /\ ThreadsKept'
  <2>1. spoiled' = {} /\ NodesKept /\ ThreadsKept
    BY <1>7 DEF BInv, NoneSpoiled
  <2>2. \A s \in C!Packets : NodeOf(s) # n /\ (KindOf(s) \in C!Kinds => NodeOf(s) \in Nodes)
    BY <1>1, <2>1 DEF NodesKept, BInv, Holds, C!TypeOK, NodeOf, KindOf, C!Kinds
  <2>3. \A u \in Threads : cpc[u] \in Posts \cup Takes => node[u] # n /\ node[u] \in Nodes
    BY <1>1, <2>1 DEF ThreadsKept, BInv, Holds
  <2>4. NodesKept'
    BY <1>1, <1>3, <2>1, <2>2 DEF NodesKept, NodeOf, KindOf, BlockOf
  <2>5. ThreadsKept'
    BY <1>1, <1>2, <1>3, <2>1, <2>2, <2>3 DEF ThreadsKept, NodesKept, NodeOf, KindOf, Posts, Takes
  <2> QED
    BY <2>1, <2>4, <2>5
<1> QED
  BY <1>4, <1>5, <1>6, <1>7 DEF BInv, NoneSpoiled

LEMMA PostNode ==
  ASSUME BInv, NEW t \in Threads, C!Post(t)
  PROVE  BInv'
<1> USE DEF C!Post, C!GoTo, C!cacheVars, C!nodeVars, C!serverVars, C!auxVars
<1>1. PICK s \in C!Packets :
        /\ io[s] = C!NoPacket
        /\ io' = [io EXCEPT ![s] = [node |-> node[t], kind |-> kind[t], block |-> hand[t]]]
  BY Zenon DEF C!IsNextPlace
<1>2. /\ node[t] \in Nodes /\ hand[t] \in C!Blocks /\ hand[t] # NoBlock /\ kind[t] \in C!Kinds
      /\ cpc[t] = "filled" /\ NoNode \notin Nodes /\ NoBlock \notin C!Blocks
  BY ListType DEF BInv, Holds, Empty, Posts, C!TypeOK
<1>3. /\ hand'[t] = NoBlock /\ \A u \in Threads : u # t => hand'[u] = hand[u]
      /\ cpc'[t] = "posted" /\ \A u \in Threads : u # t => cpc'[u] = cpc[u]
  BY <1>2 DEF BInv, C!TypeOK
<1>4. /\ NodeOf(s)' = node[t] /\ KindOf(s)' = kind[t] /\ BlockOf(s)' = hand[t]
      /\ NodeOf(s) = NoNode /\ BlockOf(s) = NoBlock
      /\ \A r \in C!Packets : r # s => NodeOf(r)' = NodeOf(r) /\ KindOf(r)' = KindOf(r)
                                       /\ BlockOf(r)' = BlockOf(r)
      /\ io' \in [C!Packets -> [node : Nodes \cup {NoNode}, kind : C!Types, block : C!Blocks \cup {NoBlock}]]
  BY <1>1, <1>2 DEF BInv, C!TypeOK, C!Types, C!NoPacket, NodeOf, KindOf, BlockOf
<1>5. C!TypeOK'
  BY <1>3, <1>4 DEF BInv, C!TypeOK
<1>6. Holds'
  <2>1. \A u \in Threads : /\ hand'[u] = NoBlock <=> cpc'[u] \in Empty
                           /\ cpc'[u] \in Posts \cup Takes => node'[u] \in Nodes
                           /\ cpc'[u] = "filled" => buf'[node'[u]] # NoBlock
    BY <1>2, <1>3 DEF BInv, Holds, Empty, Posts, Takes
  <2>2. buf[node[t]] # NoBlock
    BY <1>2 DEF BInv, Holds
  <2>3. \A r \in C!Packets :
          /\ BlockOf(r)' = NoBlock <=> KindOf(r)' \notin C!Kinds
          /\ NodeOf(r)' = NoNode <=> KindOf(r)' = "released"
          /\ KindOf(r)' \in C!Kinds => buf'[NodeOf(r)'] # NoBlock
    BY <1>2, <1>4, <2>2 DEF BInv, Holds, C!Kinds
  <2> QED
    BY <2>1, <2>3 DEF Holds, BInv
<1>7. ASSUME NEW c \in C!Blocks \ spoiled PROVE Placed(c)'
  <2>0. Placed(c) /\ c # NoBlock /\ list' = list
    BY <1>2 DEF BInv, AllPlaced, list
  <2>1. Posted(c)' <=> Posted(c) \/ c = hand[t]
    BY <1>4, <2>0 DEF Posted
  <2>2. Held(c) <=> Held(c)' \/ c = hand[t]
    BY <1>3, <2>0 DEF Held
  <2>3. c = hand[t] => ~Held(c)' /\ ~Posted(c)
    BY <1>3, <2>0, <2>2 DEF Placed, Held
  <2>4. \A r, q \in C!Packets : BlockOf(r)' = c /\ BlockOf(q)' = c => r = q
    BY <1>4, <2>0, <2>3 DEF Placed, Posted
  <2>5. \A u, v \in Threads : hand'[u] = c /\ hand'[v] = c => u = v
    BY <1>3, <2>0 DEF Placed
  <2> QED
    BY <2>0, <2>1, <2>2, <2>3, <2>4, <2>5 DEF Placed, Once
<1>8. ASSUME ~stale' PROVE spoiled' = {} /\ NodesKept' /\ ThreadsKept'
  <2>1. spoiled' = {} /\ NodesKept /\ ThreadsKept
    BY <1>8 DEF BInv, NoneSpoiled
  <2>2. \A r \in C!Packets : NodeOf(r) # node[t]
    BY <1>2, <2>1 DEF ThreadsKept, Posts
  <2>3. node[t] \notin pool /\ node[t] \notin listed /\ type[node[t]] = kind[t] /\ buf[node[t]] = hand[t]
    BY <1>2, <2>1 DEF ThreadsKept, Posts
  <2>4. NodesKept'
    BY <1>2, <1>4, <2>1, <2>2, <2>3 DEF NodesKept, C!Kinds
  <2>5. \A u \in Threads : cpc'[u] \in Posts \cup Takes => cpc[u] \in Posts \cup Takes
    BY <1>2, <1>3 DEF Posts
  <2>6. \A u \in Threads : cpc[u] \in Posts \cup Takes /\ u # t => node[u] # node[t]
    BY <1>2, <2>1 DEF ThreadsKept, Posts, Takes
  <2>7. ThreadsKept'
    <3>1. \A u \in Threads : cpc'[u] # "forget" /\ (cpc'[u] \in Posts \cup Takes => node'[u] \notin pool')
                             /\ (cpc'[u] \in Posts => node'[u] \notin listed')
                             /\ (cpc'[u] = "filled" => type'[node'[u]] = kind'[u] /\ buf'[node'[u]] = hand'[u])
      BY <1>2, <1>3, <2>1 DEF ThreadsKept, Posts
    <3>2. ASSUME NEW u \in Threads, NEW r \in C!Packets, cpc'[u] \in Posts \cup Takes, NodeOf(r)' = node'[u]
          PROVE  cpc'[u] = "posted" /\ KindOf(r)' # "kill"
      BY <1>2, <1>3, <1>4, <2>1, <2>2, <2>5, <2>6, <3>2 DEF ThreadsKept, C!Kinds
    <3>3. \A u, v \in Threads : u # v /\ cpc'[u] \in Posts \cup Takes /\ cpc'[v] \in Posts \cup Takes
            /\ node'[u] = node'[v] => \/ cpc'[u] = "posted" /\ cpc'[v] \in Takes
                                      \/ cpc'[v] = "posted" /\ cpc'[u] \in Takes
      BY <1>3, <2>1, <2>5, <2>6 DEF ThreadsKept
    <3> QED
      BY <3>1, <3>2, <3>3 DEF ThreadsKept
  <2> QED
    BY <2>1, <2>4, <2>7
<1> QED
  BY <1>5, <1>6, <1>7, <1>8 DEF BInv, AllPlaced, NoneSpoiled

LEMMA InsertNode ==
  ASSUME BInv, NEW t \in Threads, C!Insert(t), server # "closed"
  PROVE  BInv'
<1> USE DEF C!Insert, C!Returns, C!GoTo, C!cacheVars, C!serverVars, C!auxVars
<1>1. /\ cpc[t] = "posted" /\ node[t] \in Nodes /\ hand[t] = NoBlock
  BY DEF BInv, Holds, Posts, Empty
<1>2. /\ cpc'[t] \in {"idle", "get"} /\ \A u \in Threads : u # t => cpc'[u] = cpc[u]
      /\ \A u \in Threads : u # t => node'[u] = node[u] /\ kind'[u] = kind[u]
  BY <1>1 DEF BInv, C!TypeOK
<1>3. C!TypeOK'
  <2>1. /\ cpc' \in [Threads -> {"idle", "get", "fill", "filled", "posted", "answer", "release", "forget", "done"}]
        /\ node' \in [Threads -> Nodes \cup {NoNode}] /\ kind' \in [Threads -> C!Kinds]
    BY DEF BInv, C!TypeOK, C!Kinds
  <2> QED
    BY <1>1, <2>1 DEF BInv, C!TypeOK
<1>4. Holds'
  BY <1>1, <1>2 DEF BInv, Holds, Posts, Takes, Empty, BlockOf, NodeOf, KindOf
<1>5. AllPlaced'
  BY PlacesStay DEF list, BlockOf
<1>6. ASSUME ~stale' PROVE spoiled' = {} /\ NodesKept' /\ ThreadsKept'
  <2>1. spoiled' = {} /\ NodesKept /\ ThreadsKept
    BY <1>6 DEF BInv, NoneSpoiled
  <2>2. /\ node[t] \notin pool
        /\ \A s \in C!Packets : KindOf(s) = "kill" => NodeOf(s) # node[t]
        /\ \A u \in Threads : u # t /\ cpc[u] \in Posts => node[u] # node[t]
    BY <1>1, <2>1 DEF ThreadsKept, Posts, Takes
  <2>3. NodesKept'
    BY <2>1, <2>2 DEF NodesKept, NodeOf, KindOf, BlockOf
  <2>4. \A u \in Threads : cpc'[u] \in Posts \cup Takes => u # t
    BY <1>2 DEF Posts, Takes
  <2>5. ThreadsKept'
    <3>1. \A u \in Threads : u # t => cpc'[u] = cpc[u] /\ node'[u] = node[u] /\ kind'[u] = kind[u]
      BY <1>2
    <3>2. cpc'[t] # "forget"  BY <1>2
    <3> QED
      BY <2>1, <2>2, <2>4, <3>1, <3>2 DEF ThreadsKept, NodeOf, KindOf, Posts
  <2> QED
    BY <2>1, <2>3, <2>5
<1> QED
  BY <1>3, <1>4, <1>5, <1>6 DEF BInv, NoneSpoiled

\* A block goes back to the list.
LEMMA BlockReturned ==
  ASSUME BInv, NEW t \in Threads, hand[t] # NoBlock, C!ReleaseMemBlock(t), lost' = lost,
         spoiled' = spoiled, server' = server, io' = io
  PROVE  /\ AllPlaced' /\ hand'[t] = NoBlock /\ \A u \in Threads : u # t => hand'[u] = hand[u]
         /\ hand' \in [Threads -> C!Blocks \cup {NoBlock}]
         /\ freeList' \in [C!Classes -> Seq(C!Blocks)]
         /\ \A i \in C!Classes : i # class => freeList'[i] = freeList[i]
         /\ \A i \in C!Classes : freeList'[i] # <<>> =>
              C!Fits(BlockSize, i) /\ (i > 0 => ~C!Fits(BlockSize, i - 1))
<1>1. /\ C!TypeOK /\ list \in Seq(C!Blocks) /\ hand[t] \in C!Blocks /\ NoBlock \notin C!Blocks
      /\ areas' = areas
  BY ListType DEF BInv, C!TypeOK, C!ReleaseMemBlock
<1>2. /\ Append(list, hand[t]) \in Seq(C!Blocks)
      /\ ToSet(Append(list, hand[t])) = ToSet(list) \cup {hand[t]}
      /\ \A b : Once(list, b) /\ b # hand[t] => Once(Append(list, hand[t]), b)
      /\ hand[t] \notin ToSet(list) => Once(Append(list, hand[t]), hand[t])
  BY <1>1, ListGrown
<1>3. freeList' = [freeList EXCEPT ![class] = Append(list, hand[t])]
  BY <1>1, ClassExists DEF C!ReleaseMemBlock, list, class, C!TypeOK
<1>4. /\ list' = Append(list, hand[t]) /\ \A i \in C!Classes : i # class => freeList'[i] = freeList[i]
      /\ freeList' \in [C!Classes -> Seq(C!Blocks)]
      /\ \A i \in C!Classes : freeList'[i] # <<>> =>
           C!Fits(BlockSize, i) /\ (i > 0 => ~C!Fits(BlockSize, i - 1))
  BY <1>1, <1>2, <1>3, ListChanges
<1>5. hand'[t] = NoBlock /\ (\A u \in Threads : u # t => hand'[u] = hand[u])
      /\ hand' \in [Threads -> C!Blocks \cup {NoBlock}]
  BY <1>1 DEF C!ReleaseMemBlock, C!TypeOK
<1>6. ASSUME NEW c \in C!Blocks \ spoiled PROVE Placed(c)'
  <2>0. Placed(c) /\ c # NoBlock /\ Posted(c)' = Posted(c)
    BY <1>1 DEF BInv, AllPlaced, Posted, BlockOf
  <2>1. Held(c) <=> Held(c)' \/ c = hand[t]
    BY <1>5, <2>0 DEF Held
  <2>2. c = hand[t] => ~Held(c)' /\ c \notin ToSet(list)
    BY <1>5, <2>0, <2>1 DEF Placed, Held
  <2>3. \A u, v \in Threads : hand'[u] = c /\ hand'[v] = c => u = v
    BY <1>5, <2>0 DEF Placed
  <2>4. Once(list', c) /\ ToSet(list') = ToSet(list) \cup {hand[t]}
    BY <1>2, <1>4, <2>0, <2>2 DEF Placed
  <2> QED
    BY <1>1, <2>0, <2>1, <2>2, <2>3, <2>4 DEF Placed, BlockOf
<1> QED
  BY <1>4, <1>5, <1>6 DEF AllPlaced

LEMMA PostFailed ==
  ASSUME BInv, NEW t \in Threads, C!PostFails(t), server # "closed"
  PROVE  BInv'
<1> USE DEF C!PostFails, C!Returns, C!GoTo, C!serverVars, C!auxVars
<1>1. /\ cpc[t] = "filled" /\ node[t] \in Nodes /\ hand[t] # NoBlock
  BY DEF BInv, Holds, Posts, Empty
<1>2. /\ cpc'[t] \in {"idle", "get"} /\ \A u \in Threads : u # t => cpc'[u] = cpc[u]
      /\ \A u \in Threads : u # t => node'[u] = node[u] /\ kind'[u] = kind[u]
  BY <1>1 DEF BInv, C!TypeOK
<1>3. /\ AllPlaced' /\ hand'[t] = NoBlock /\ \A u \in Threads : u # t => hand'[u] = hand[u]
      /\ hand' \in [Threads -> C!Blocks \cup {NoBlock}]
      /\ freeList' \in [C!Classes -> Seq(C!Blocks)]
      /\ \A i \in C!Classes : i # class => freeList'[i] = freeList[i]
      /\ \A i \in C!Classes : freeList'[i] # <<>> =>
           C!Fits(BlockSize, i) /\ (i > 0 => ~C!Fits(BlockSize, i - 1))
  BY <1>1, BlockReturned
<1>4. C!TypeOK'
  <2>1. /\ cpc' \in [Threads -> {"idle", "get", "fill", "filled", "posted", "answer", "release", "forget", "done"}]
        /\ node' \in [Threads -> Nodes \cup {NoNode}] /\ kind' \in [Threads -> C!Kinds]
    BY DEF BInv, C!TypeOK, C!Kinds
  <2>2. pool' \subseteq Nodes /\ areas' = areas
    BY <1>1 DEF BInv, C!TypeOK, C!ReleaseMemBlock
  <2> QED
    BY <1>3, <2>1, <2>2 DEF BInv, C!TypeOK
<1>5. Holds'
  BY <1>1, <1>2, <1>3 DEF BInv, Holds, Posts, Takes, Empty, BlockOf, NodeOf, KindOf, class
<1>6. ASSUME ~stale' PROVE spoiled' = {} /\ NodesKept' /\ ThreadsKept'
  <2>1. spoiled' = {} /\ NodesKept /\ ThreadsKept
    BY <1>6 DEF BInv, NoneSpoiled
  <2>2. /\ node[t] \notin listed /\ \A s \in C!Packets : NodeOf(s) # node[t]
        /\ \A u \in Threads : u # t /\ cpc[u] \in Posts \cup Takes => node[u] # node[t]
    BY <1>1, <2>1 DEF ThreadsKept, Posts, Takes
  <2>3. NodesKept'
    BY <2>1, <2>2 DEF NodesKept, NodeOf, KindOf, BlockOf
  <2>4. \A u \in Threads : cpc'[u] \in Posts \cup Takes => u # t
    BY <1>2 DEF Posts, Takes
  <2>5. ThreadsKept'
    <3>1. \A u \in Threads : u # t => cpc'[u] = cpc[u] /\ node'[u] = node[u] /\ kind'[u] = kind[u]
                                      /\ hand'[u] = hand[u]
      BY <1>2, <1>3
    <3>2. cpc'[t] # "forget"  BY <1>2
    <3> QED
      BY <2>1, <2>2, <2>4, <3>1, <3>2 DEF ThreadsKept, NodeOf, KindOf, Posts
  <2> QED
    BY <2>1, <2>3, <2>5
<1> QED
  BY <1>3, <1>4, <1>5, <1>6 DEF BInv, NoneSpoiled

\* A packet is dropped: its block is forgotten.
LEMMA PacketDropped ==
  ASSUME BInv, NEW s \in C!Packets, KindOf(s) \in C!Kinds,
         io' = [io EXCEPT ![s] = C!NoPacket], type[NodeOf(s)] \notin C!Kinds,
         spoiled' = spoiled \cup {BlockOf(s)},
         UNCHANGED <<cpc, hand, node, kind, freeList, areas, pool, type, buf, listed,
                     server, starts, lost, stale>>
  PROVE  BInv'
<1>1. /\ NodeOf(s)' = NoNode /\ KindOf(s)' = "released" /\ BlockOf(s)' = NoBlock
      /\ \A r \in C!Packets : r # s => NodeOf(r)' = NodeOf(r) /\ KindOf(r)' = KindOf(r)
                                       /\ BlockOf(r)' = BlockOf(r)
      /\ io' \in [C!Packets -> [node : Nodes \cup {NoNode}, kind : C!Types, block : C!Blocks \cup {NoBlock}]]
      /\ BlockOf(s) \in C!Blocks /\ BlockOf(s) # NoBlock /\ "released" \notin C!Kinds /\ NoBlock \notin C!Blocks
  BY ListType DEF BInv, C!TypeOK, Holds, C!Types, C!Kinds, C!NoPacket, NodeOf, KindOf, BlockOf
<1>2. C!TypeOK'
  BY <1>1 DEF BInv, C!TypeOK
<1>3. Holds'
  BY <1>1 DEF BInv, Holds
<1>4. ASSUME NEW c \in C!Blocks \ spoiled' PROVE Placed(c)'
  <2>1. Placed(c) /\ c # NoBlock /\ c # BlockOf(s) /\ list' = list
    BY <1>1 DEF BInv, AllPlaced, list
  <2>2. Posted(c)' <=> Posted(c)
    BY <1>1, <2>1 DEF Posted
  <2> QED
    BY <1>1, <2>1, <2>2 DEF Placed, Once, Held
<1>5. ~stale => FALSE
  BY DEF BInv, NoneSpoiled, NodesKept
<1> QED
  BY <1>2, <1>3, <1>4, <1>5 DEF BInv, AllPlaced, NoneSpoiled

\* A packet is taken: its node leads the thread to a block.
TakenAs(t, s, p) ==
  /\ cpc[t] = "idle" /\ KindOf(s) \in C!Kinds
  /\ io' = [io EXCEPT ![s] = C!NoPacket]
  /\ hand' = [hand EXCEPT ![t] = buf[NodeOf(s)]]
  /\ node' = [node EXCEPT ![t] = NodeOf(s)]
  /\ cpc' = [cpc EXCEPT ![t] = p]
  /\ type[NodeOf(s)] \in C!Kinds => p # "forget"
  /\ spoiled' = IF buf[NodeOf(s)] = BlockOf(s) THEN spoiled
                ELSE spoiled \cup {buf[NodeOf(s)], BlockOf(s)}
  /\ UNCHANGED <<kind, freeList, areas, pool, type, buf, listed, server, starts, lost, stale>>
LEMMA PacketTaken ==
  ASSUME BInv, NEW t \in Threads, NEW s \in C!Packets, NEW p \in Takes, TakenAs(t, s, p)
  PROVE  BInv'
<1> USE DEF TakenAs
<1>1. /\ NodeOf(s)' = NoNode /\ KindOf(s)' = "released" /\ BlockOf(s)' = NoBlock
      /\ \A r \in C!Packets : r # s => NodeOf(r)' = NodeOf(r) /\ KindOf(r)' = KindOf(r)
                                       /\ BlockOf(r)' = BlockOf(r)
      /\ io' \in [C!Packets -> [node : Nodes \cup {NoNode}, kind : C!Types, block : C!Blocks \cup {NoBlock}]]
      /\ BlockOf(s) \in C!Blocks /\ BlockOf(s) # NoBlock /\ "released" \notin C!Kinds /\ NoBlock \notin C!Blocks
  BY ListType DEF BInv, C!TypeOK, Holds, C!Types, C!Kinds, C!NoPacket, NodeOf, KindOf, BlockOf
<1>a. /\ NodeOf(s) \in Nodes /\ buf[NodeOf(s)] \in C!Blocks /\ buf[NodeOf(s)] # NoBlock /\ hand[t] = NoBlock
      /\ p \notin Empty /\ p \notin Posts /\ p # "filled"
  BY <1>1 DEF BInv, C!TypeOK, Holds, NodeOf, Empty, Takes, Posts, C!Kinds, KindOf
<1>b. /\ hand'[t] = buf[NodeOf(s)] /\ \A u \in Threads : u # t => hand'[u] = hand[u]
      /\ node'[t] = NodeOf(s) /\ \A u \in Threads : u # t => node'[u] = node[u]
      /\ cpc'[t] = p /\ \A u \in Threads : u # t => cpc'[u] = cpc[u]
  BY DEF BInv, C!TypeOK
<1>2. C!TypeOK'
  <2>1. cpc' \in [Threads -> {"idle", "get", "fill", "filled", "posted", "answer", "release", "forget", "done"}]
    BY DEF BInv, C!TypeOK, Takes
  <2>2. spoiled' \subseteq C!Blocks
    BY <1>1, <1>a DEF BInv, C!TypeOK
  <2> QED
    BY <1>1, <1>a, <2>1, <2>2 DEF BInv, C!TypeOK
<1>3. Holds'
  BY <1>1, <1>a, <1>b DEF BInv, Holds
<1>4. ASSUME NEW c \in C!Blocks \ spoiled' PROVE Placed(c)'
  <2>1. Placed(c) /\ c # NoBlock /\ list' = list /\ (c = BlockOf(s) <=> c = buf[NodeOf(s)])
    BY <1>1 DEF BInv, AllPlaced, list
  <2>2. Posted(c) <=> Posted(c)' \/ c = BlockOf(s)
    BY <1>1, <2>1 DEF Posted
  <2>3. Held(c)' <=> Held(c) \/ c = BlockOf(s)
    BY <1>a, <1>b, <2>1 DEF Held
  <2>4. c = BlockOf(s) => ~Held(c) /\ ~Posted(c)'
    BY <1>1, <2>1, <2>2 DEF Placed, Posted
  <2>5. \A r, q \in C!Packets : BlockOf(r)' = c /\ BlockOf(q)' = c => r = q
    BY <1>1, <2>1 DEF Placed
  <2>6. \A u, v \in Threads : hand'[u] = c /\ hand'[v] = c => u = v
    BY <1>b, <2>1, <2>4 DEF Placed, Held
  <2> QED
    BY <2>1, <2>2, <2>3, <2>4, <2>5, <2>6 DEF Placed, Once
<1>5. ASSUME ~stale' PROVE spoiled' = {} /\ NodesKept' /\ ThreadsKept'
  <2>1. spoiled = {} /\ NodesKept /\ ThreadsKept
    BY <1>5 DEF BInv, NoneSpoiled
  <2>2. /\ type[NodeOf(s)] = KindOf(s) /\ buf[NodeOf(s)] = BlockOf(s) /\ p # "forget"
        /\ NodeOf(s) \notin pool
    BY <2>1 DEF NodesKept
  <2>3. spoiled' = {}  BY <2>1, <2>2
  <2>4. \A r \in C!Packets : r # s => NodeOf(r) # NodeOf(s)
    BY <1>1, <2>1 DEF NodesKept, BInv, Holds
  <2>5. NodesKept'
    <3>1. NoNode \notin pool  BY ListType DEF BInv, C!TypeOK
    <3> QED
      BY <1>1, <2>1, <3>1 DEF NodesKept
  <2>6. \A u \in Threads : cpc[u] \in Posts \cup Takes /\ node[u] = NodeOf(s) => cpc[u] = "posted"
    BY <2>1 DEF ThreadsKept
  <2>7. ThreadsKept'
    <3>1. /\ \A u \in Threads : cpc'[u] # "forget"
          /\ \A u \in Threads : cpc'[u] \in Posts \cup Takes => node'[u] \notin pool'
          /\ \A u \in Threads : cpc'[u] \in Posts => node'[u] \notin listed'
          /\ \A u \in Threads : cpc'[u] = "filled" => type'[node'[u]] = kind'[u] /\ buf'[node'[u]] = hand'[u]
      BY <1>a, <1>b, <2>1, <2>2 DEF ThreadsKept
    <3>2. ASSUME NEW u \in Threads, NEW r \in C!Packets, cpc'[u] \in Posts \cup Takes, NodeOf(r)' = node'[u]
          PROVE  cpc'[u] = "posted" /\ KindOf(r)' # "kill"
      <4>1. u = t => node'[u] \in Nodes  BY <1>a, <1>b
      <4>2. u # t => node'[u] \in Nodes  BY <1>b, <3>2 DEF BInv, Holds
      <4>3. NoNode \notin Nodes  BY ListType DEF BInv
      <4>4. r # s  BY <1>1, <3>2, <4>1, <4>2, <4>3
      <4>5. u # t  BY <1>1, <1>b, <2>4, <3>2, <4>4
      <4> QED
        BY <1>1, <1>b, <2>1, <3>2, <4>4, <4>5 DEF ThreadsKept
    <3>3. \A u, v \in Threads : u # v /\ cpc'[u] \in Posts \cup Takes /\ cpc'[v] \in Posts \cup Takes
            /\ node'[u] = node'[v] => \/ cpc'[u] = "posted" /\ cpc'[v] \in Takes
                                      \/ cpc'[v] = "posted" /\ cpc'[u] \in Takes
      BY <1>b, <2>1, <2>6 DEF ThreadsKept
    <3> QED
      BY <3>1, <3>2, <3>3 DEF ThreadsKept
  <2> QED
    BY <2>3, <2>5, <2>7
<1> QED
  BY <1>2, <1>3, <1>4, <1>5 DEF BInv, AllPlaced, NoneSpoiled

LEMMA Dequeued ==
  ASSUME BInv, NEW t \in Threads, C!Dequeue(t)
  PROVE  BInv'
<1>1. PICK s \in C!Packets, ok \in BOOLEAN, data \in BOOLEAN :
        /\ KindOf(s) \in C!Kinds
        /\ io' = [io EXCEPT ![s] = C!NoPacket]
        /\ ok /\ type[NodeOf(s)] \notin C!Kinds =>
             spoiled' = spoiled \cup {BlockOf(s)} /\ UNCHANGED C!threadVars
        /\ ~(ok /\ type[NodeOf(s)] \notin C!Kinds) =>
             /\ hand' = [hand EXCEPT ![t] = buf[NodeOf(s)]]
             /\ node' = [node EXCEPT ![t] = NodeOf(s)]
             /\ cpc' = [cpc EXCEPT ![t] = C!Handling(type[NodeOf(s)], ok, data)]
             /\ spoiled' = IF buf[NodeOf(s)] = BlockOf(s) THEN spoiled
                           ELSE spoiled \cup {buf[NodeOf(s)], BlockOf(s)}
             /\ UNCHANGED kind
  BY Zenon DEF C!Dequeue, C!GoTo, NodeOf, KindOf, BlockOf
<1>2. /\ cpc[t] = "idle"
      /\ UNCHANGED <<freeList, areas, pool, type, buf, listed, server, starts, lost, stale>>
  BY DEF C!Dequeue, C!cacheVars, C!nodeVars, C!serverVars
<1>3. CASE ok /\ type[NodeOf(s)] \notin C!Kinds
  BY <1>1, <1>2, <1>3, PacketDropped DEF C!threadVars
<1>4. CASE ~(ok /\ type[NodeOf(s)] \notin C!Kinds)
  <2>1. /\ C!Handling(type[NodeOf(s)], ok, data) \in Takes
        /\ type[NodeOf(s)] \in C!Kinds => C!Handling(type[NodeOf(s)], ok, data) # "forget"
    BY DEF C!Handling, C!Kinds, Takes
  <2>2. TakenAs(t, s, C!Handling(type[NodeOf(s)], ok, data))
    BY <1>1, <1>2, <1>4, <2>1 DEF TakenAs
  <2> QED
    BY <2>1, <2>2, PacketTaken
<1> QED
  BY <1>3, <1>4

LEMMA NodeReleased ==
  ASSUME BInv, NEW t \in Threads, C!ReleaseOperData(t), server # "closed"
  PROVE  BInv'
<1> USE DEF C!ReleaseOperData, C!GoTo, C!cacheVars, C!serverVars
<1>1. /\ cpc[t] \in Takes /\ node[t] \in Nodes /\ hand[t] \in C!Blocks /\ hand[t] # NoBlock
      /\ NoBlock \notin C!Blocks /\ NoNode \notin Nodes
  BY ListType DEF BInv, Holds, C!Taking, Takes, Empty, C!TypeOK
<1>2. /\ cpc[t] = "answer"  => cpc' = [cpc EXCEPT ![t] = "fill"] /\ kind' = [kind EXCEPT ![t] = "write"]
      /\ cpc[t] = "release" => cpc' = [cpc EXCEPT ![t] = "done"] /\ kind' = kind
      /\ cpc[t] = "forget"  => /\ cpc' = [cpc EXCEPT ![t] = "idle"] /\ kind' = kind
                               /\ hand' = [hand EXCEPT ![t] = NoBlock] /\ spoiled' = spoiled \cup {hand[t]}
      /\ cpc[t] # "forget"  => hand' = hand /\ spoiled' = spoiled
  BY <1>1 DEF Takes
<1>3. /\ cpc'[t] \in {"fill", "done", "idle"} /\ \A u \in Threads : u # t => cpc'[u] = cpc[u]
      /\ cpc'[t] = "idle" <=> cpc[t] = "forget"
      /\ cpc' \in [Threads -> {"idle", "get", "fill", "filled", "posted", "answer", "release", "forget", "done"}]
      /\ \A u \in Threads : u # t => node'[u] = node[u] /\ kind'[u] = kind[u] /\ hand'[u] = hand[u]
      /\ node' \in [Threads -> Nodes \cup {NoNode}] /\ kind' \in [Threads -> C!Kinds]
      /\ hand' \in [Threads -> C!Blocks \cup {NoBlock}] /\ spoiled' \subseteq C!Blocks
      /\ hand'[t] = IF cpc[t] = "forget" THEN NoBlock ELSE hand[t]
  BY <1>1, <1>2 DEF BInv, C!TypeOK, C!Kinds, Takes
<1>4. /\ type' \in [Nodes -> C!Types] /\ \A m \in Nodes : m # node[t] => type'[m] = type[m]
      /\ \/ node[t] \in listed /\ listed' = listed \ {node[t]} /\ pool' = pool \cup {node[t]}
         \/ listed' = listed /\ pool' = pool
  BY <1>1 DEF BInv, C!TypeOK, C!Types, C!Kinds
<1>5. C!TypeOK'
  BY <1>1, <1>3, <1>4 DEF BInv, C!TypeOK
<1>6. Holds'
  BY <1>1, <1>3 DEF BInv, Holds, Empty, Posts, Takes, NodeOf, KindOf, BlockOf
<1>7. ASSUME NEW c \in C!Blocks \ spoiled' PROVE Placed(c)'
  <2>1. Placed(c) /\ c # NoBlock /\ list' = list /\ Posted(c)' = Posted(c)
    BY <1>1, <1>2 DEF BInv, AllPlaced, list, Posted, BlockOf
  <2>2. cpc[t] = "forget" => c # hand[t]
    BY <1>2
  <2>3. \A u \in Threads : hand'[u] = c <=> hand[u] = c
    BY <1>3, <2>1, <2>2
  <2> QED
    BY <2>1, <2>3 DEF Placed, Held, BlockOf
<1>8. ASSUME ~stale' PROVE spoiled' = {} /\ NodesKept' /\ ThreadsKept'
  <2>1. spoiled = {} /\ NodesKept /\ ThreadsKept
    BY <1>8 DEF BInv, NoneSpoiled
  <2>2. /\ cpc[t] # "forget" /\ node[t] \notin pool /\ \A s \in C!Packets : NodeOf(s) # node[t]
        /\ \A u \in Threads : u # t /\ cpc[u] \in Posts \cup Takes /\ node[u] = node[t] => cpc[u] = "posted"
    BY <1>1, <2>1 DEF ThreadsKept, Takes
  <2>3. \A u \in Threads : cpc[u] \in Posts /\ node[u] = node[t] => node[t] \notin listed
    BY <2>1 DEF ThreadsKept
  <2>4. NodesKept'
    BY <1>4, <2>1, <2>2 DEF NodesKept, BInv, Holds, C!TypeOK, NodeOf, KindOf, BlockOf, C!Kinds
  <2>5. \A u \in Threads : cpc'[u] \in Posts \cup Takes => u # t
    BY <1>3 DEF Posts, Takes
  <2>6. ThreadsKept'
    <3>1. /\ \A u \in Threads : cpc'[u] # "forget"
          /\ \A u \in Threads : cpc'[u] \in Posts => node'[u] \notin listed'
      BY <1>3, <1>4, <2>1, <2>5 DEF ThreadsKept
    <3>2. ASSUME NEW u \in Threads, cpc'[u] \in Posts \cup Takes PROVE node'[u] \notin pool'
      <4>1. u # t /\ node'[u] = node[u] /\ cpc'[u] = cpc[u] /\ node[u] \notin pool
        BY <1>3, <2>1, <2>5, <3>2 DEF ThreadsKept
      <4>2. node[t] \in listed => node[u] # node[t]
        BY <2>2, <2>3, <3>2, <4>1 DEF Posts
      <4> QED
        BY <1>4, <4>1, <4>2
    <3>3. ASSUME NEW u \in Threads, cpc'[u] = "filled"
          PROVE  type'[node'[u]] = kind'[u] /\ buf'[node'[u]] = hand'[u]
      <4>1. u # t /\ cpc[u] = "filled" /\ node'[u] = node[u] /\ kind'[u] = kind[u] /\ hand'[u] = hand[u]
        BY <1>3, <3>3
      <4>2. node[u] \in Nodes /\ node[u] # node[t]
        BY <2>2, <4>1 DEF BInv, Holds, Posts
      <4> QED
        BY <1>4, <2>1, <4>1, <4>2 DEF ThreadsKept
    <3>4. \A u \in Threads, r \in C!Packets : cpc'[u] \in Posts \cup Takes /\ NodeOf(r)' = node'[u]
            => cpc'[u] = "posted" /\ KindOf(r)' # "kill"
      BY <1>3, <2>1, <2>5 DEF ThreadsKept, NodeOf, KindOf
    <3>5. \A u, v \in Threads : u # v /\ cpc'[u] \in Posts \cup Takes /\ cpc'[v] \in Posts \cup Takes
            /\ node'[u] = node'[v] => \/ cpc'[u] = "posted" /\ cpc'[v] \in Takes
                                      \/ cpc'[v] = "posted" /\ cpc'[u] \in Takes
      BY <1>3, <2>1, <2>5 DEF ThreadsKept
    <3> QED
      BY <3>1, <3>2, <3>3, <3>4, <3>5 DEF ThreadsKept
  <2> QED
    BY <1>2, <2>1, <2>2, <2>4, <2>6
<1> QED
  BY <1>5, <1>6, <1>7, <1>8 DEF BInv, AllPlaced, NoneSpoiled

LEMMA BlockReleased ==
  ASSUME BInv, NEW t \in Threads, C!Release(t), server # "closed"
  PROVE  BInv'
<1> USE DEF C!Release, C!GoTo, C!nodeVars, C!serverVars, C!auxVars
<1>1. /\ cpc[t] = "done" /\ hand[t] # NoBlock
  BY DEF BInv, Holds, Empty
<1>2. /\ cpc'[t] = "idle" /\ \A u \in Threads : u # t => cpc'[u] = cpc[u]
      /\ cpc' \in [Threads -> {"idle", "get", "fill", "filled", "posted", "answer", "release", "forget", "done"}]
  BY <1>1 DEF BInv, C!TypeOK
<1>3. /\ AllPlaced' /\ hand'[t] = NoBlock /\ \A u \in Threads : u # t => hand'[u] = hand[u]
      /\ hand' \in [Threads -> C!Blocks \cup {NoBlock}]
      /\ freeList' \in [C!Classes -> Seq(C!Blocks)]
      /\ \A i \in C!Classes : i # class => freeList'[i] = freeList[i]
      /\ \A i \in C!Classes : freeList'[i] # <<>> =>
           C!Fits(BlockSize, i) /\ (i > 0 => ~C!Fits(BlockSize, i - 1))
  BY <1>1, BlockReturned
<1>4. C!TypeOK'
  BY <1>2, <1>3 DEF BInv, C!TypeOK, C!ReleaseMemBlock
<1>5. Holds'
  <2>1. \A u \in Threads : /\ hand'[u] = NoBlock <=> cpc'[u] \in Empty
                           /\ cpc'[u] \in Posts \cup Takes => node'[u] \in Nodes
                           /\ cpc'[u] = "filled" => buf'[node'[u]] # NoBlock
    BY <1>2, <1>3 DEF BInv, Holds, Posts, Takes, Empty
  <2>2. \A i \in C!Classes : i # class => freeList'[i] = <<>>
    BY <1>3 DEF BInv, Holds
  <2> QED
    BY <2>1, <2>2 DEF BInv, Holds, BlockOf, NodeOf, KindOf, class
<1>6. ASSUME ~stale' PROVE spoiled' = {} /\ NodesKept' /\ ThreadsKept'
  <2>1. spoiled' = {} /\ NodesKept /\ ThreadsKept
    BY <1>6 DEF BInv, NoneSpoiled
  <2>2. NodesKept'
    BY <2>1 DEF NodesKept, NodeOf, KindOf, BlockOf
  <2>3. \A u \in Threads : cpc'[u] \in Posts \cup Takes => u # t
    BY <1>2 DEF Posts, Takes
  <2>4. ThreadsKept'
    BY <1>2, <1>3, <2>1, <2>3 DEF ThreadsKept, NodeOf, KindOf
  <2> QED
    BY <2>1, <2>2, <2>4
<1> QED
  BY <1>3, <1>4, <1>5, <1>6 DEF BInv, NoneSpoiled

\* The node of an exit message comes back.
LEMMA KillTaken ==
  ASSUME BInv, NEW t \in Threads, C!TakeKillThread(t)
  PROVE  BInv'
<1> USE DEF C!TakeKillThread, C!cacheVars, C!threadVars, C!serverVars, C!auxVars
<1>1. PICK s \in C!Packets : /\ KindOf(s) = "kill" /\ io' = [io EXCEPT ![s] = C!NoPacket]
                             /\ pool' = pool \cup {NodeOf(s)}
  BY Zenon DEF KindOf, NodeOf
<1>2. /\ NodeOf(s)' = NoNode /\ KindOf(s)' = "released" /\ BlockOf(s)' = NoBlock
      /\ \A r \in C!Packets : r # s => NodeOf(r)' = NodeOf(r) /\ KindOf(r)' = KindOf(r)
                                       /\ BlockOf(r)' = BlockOf(r)
      /\ io' \in [C!Packets -> [node : Nodes \cup {NoNode}, kind : C!Types, block : C!Blocks \cup {NoBlock}]]
      /\ "released" \notin C!Kinds /\ "kill" \notin C!Kinds /\ NoBlock \notin C!Blocks
      /\ BlockOf(s) = NoBlock /\ NodeOf(s) \in Nodes /\ NoNode \notin Nodes
  BY <1>1, ListType DEF BInv, C!TypeOK, Holds, C!Types, C!Kinds, C!NoPacket, NodeOf, KindOf, BlockOf
<1>3. C!TypeOK'
  BY <1>1, <1>2 DEF BInv, C!TypeOK
<1>4. Holds'
  BY <1>2 DEF BInv, Holds
<1>5. AllPlaced'
  <2>1. \A r \in C!Packets : BlockOf(r)' = BlockOf(r)
    BY <1>2
  <2> QED
    BY <2>1, PlacesStay DEF list
<1>6. ASSUME ~stale' PROVE spoiled' = {} /\ NodesKept' /\ ThreadsKept'
  <2>1. spoiled' = {} /\ NodesKept /\ ThreadsKept
    BY <1>6 DEF BInv, NoneSpoiled
  <2>2. /\ NodeOf(s) \notin listed /\ \A r \in C!Packets : r # s => NodeOf(r) # NodeOf(s)
        /\ \A u \in Threads : cpc[u] \in Posts \cup Takes => node[u] # NodeOf(s)
    BY <1>1, <1>2, <2>1 DEF NodesKept, ThreadsKept
  <2>3. NodesKept'
    <3>1. NoNode \notin pool  BY <1>2 DEF BInv, C!TypeOK
    <3> QED
      BY <1>1, <1>2, <2>1, <2>2, <3>1 DEF NodesKept
  <2>4. ThreadsKept'
    <3>1. \A u \in Threads : cpc[u] \in Posts \cup Takes => node[u] # NoNode
      BY <1>2 DEF BInv, Holds
    <3>2. \A u \in Threads, r \in C!Packets : cpc[u] \in Posts \cup Takes /\ NodeOf(r)' = node[u] =>
            NodeOf(r)' = NodeOf(r) /\ KindOf(r)' = KindOf(r)
      BY <1>2, <3>1
    <3>3. \A u \in Threads, r \in C!Packets : cpc[u] \in Posts \cup Takes /\ NodeOf(r)' = node[u] =>
            cpc[u] = "posted" /\ KindOf(r)' # "kill"
      BY <2>1, <3>2 DEF ThreadsKept
    <3>4. \A u \in Threads : cpc[u] \in Posts \cup Takes => node[u] \notin pool'
      BY <1>1, <2>1, <2>2 DEF ThreadsKept
    <3> QED
      BY <2>1, <3>3, <3>4 DEF ThreadsKept
  <2> QED
    BY <2>1, <2>3, <2>4
<1> QED
  BY <1>3, <1>4, <1>5, <1>6 DEF BInv, NoneSpoiled

LEMMA KillPosted ==
  ASSUME BInv, C!PostKillThread
  PROVE  BInv'
<1> USE DEF C!PostKillThread, C!cacheVars, C!threadVars, C!serverVars, C!auxVars
<1>1. PICK n \in pool, s \in C!Packets :
        /\ io[s] = C!NoPacket /\ pool' = pool \ {n} /\ type' = [type EXCEPT ![n] = "kill"]
        /\ io' = [io EXCEPT ![s] = [node |-> n, kind |-> "kill", block |-> NoBlock]]
  BY Zenon DEF C!IsNextPlace
<1>2. /\ NodeOf(s)' = n /\ KindOf(s)' = "kill" /\ BlockOf(s)' = NoBlock
      /\ NodeOf(s) = NoNode /\ BlockOf(s) = NoBlock
      /\ \A r \in C!Packets : r # s => NodeOf(r)' = NodeOf(r) /\ KindOf(r)' = KindOf(r)
                                       /\ BlockOf(r)' = BlockOf(r)
      /\ n \in Nodes /\ NoNode \notin Nodes /\ "kill" \notin C!Kinds /\ "kill" \in C!Types
      /\ \A m \in Nodes : m # n => type'[m] = type[m]
  BY <1>1, ListType DEF BInv, C!TypeOK, C!Types, C!Kinds, C!NoPacket, NodeOf, KindOf, BlockOf
<1>3. C!TypeOK'
  <2>1. io' \in [C!Packets -> [node : Nodes \cup {NoNode}, kind : C!Types, block : C!Blocks \cup {NoBlock}]]
    BY <1>1, <1>2 DEF BInv, C!TypeOK
  <2> QED
    BY <1>1, <1>2, <2>1 DEF BInv, C!TypeOK
<1>4. Holds'
  BY <1>2 DEF BInv, Holds
<1>5. AllPlaced'
  <2>1. \A r \in C!Packets : BlockOf(r)' = BlockOf(r)
    BY <1>2
  <2> QED
    BY <2>1, PlacesStay DEF list
<1>6. ASSUME ~stale' PROVE spoiled' = {} /\ NodesKept' /\ ThreadsKept'
  <2>1. spoiled' = {} /\ NodesKept /\ ThreadsKept
    BY <1>6 DEF BInv, NoneSpoiled
  <2>2. /\ n \notin listed /\ \A r \in C!Packets : NodeOf(r) # n
        /\ \A u \in Threads : cpc[u] \in Posts \cup Takes => node[u] # n /\ node[u] \in Nodes
        /\ \A r \in C!Packets : KindOf(r) \in C!Kinds => NodeOf(r) \in Nodes
    BY <1>1, <1>2, <2>1 DEF NodesKept, ThreadsKept, BInv, Holds, C!TypeOK, NodeOf, KindOf, C!Kinds
  <2>3. NodesKept'
    BY <1>1, <1>2, <2>1, <2>2 DEF NodesKept
  <2>4. ThreadsKept'
    <3>1. \A u \in Threads, r \in C!Packets : cpc[u] \in Posts \cup Takes /\ NodeOf(r)' = node[u] =>
            cpc[u] = "posted" /\ KindOf(r)' # "kill"
      BY <1>2, <2>1, <2>2 DEF ThreadsKept
    <3>2. \A u \in Threads : cpc[u] = "filled" => type'[node[u]] = kind[u] /\ buf[node[u]] = hand[u]
      BY <1>2, <2>1, <2>2 DEF ThreadsKept, Posts
    <3> QED
      BY <1>1, <2>1, <3>1, <3>2 DEF ThreadsKept
  <2> QED
    BY <2>1, <2>3, <2>4
<1> QED
  BY <1>3, <1>4, <1>5, <1>6 DEF BInv, NoneSpoiled

\* Nodes that nobody refers to are given away; others make the history stale.
LEMMA NodesGiven ==
  ASSUME BInv, NEW S \in SUBSET listed, C!GiveAway(S),
         UNCHANGED <<cpc, hand, node, kind, freeList, spoiled>>
  PROVE  /\ type' \in [Nodes -> C!Types] /\ pool' \subseteq Nodes /\ listed' \subseteq Nodes
         /\ \A m \in Nodes \ S : type'[m] = type[m]
         /\ (~stale => listed' \cap pool' = {})
<1>1. S \subseteq Nodes /\ "released" \in C!Types
  BY DEF BInv, C!TypeOK, C!Types
<1> QED
  BY <1>1 DEF C!GiveAway, BInv, C!TypeOK, NoneSpoiled, NodesKept

LEMMA ClientClosed ==
  ASSUME BInv, NEW S \in SUBSET listed, C!CloseClient(S), server # "closed"
  PROVE  BInv'
<1> USE DEF C!CloseClient, C!cacheVars, C!threadVars, C!serverVars
<1>1. /\ type' \in [Nodes -> C!Types] /\ pool' \subseteq Nodes /\ listed' \subseteq Nodes
      /\ \A m \in Nodes \ S : type'[m] = type[m]
      /\ (~stale => listed' \cap pool' = {})
      /\ listed' = listed \ S /\ pool' = pool \cup S /\ buf' = buf
  BY NodesGiven DEF C!GiveAway
<1>2. C!TypeOK'
  BY <1>1 DEF BInv, C!TypeOK
<1>3. Holds'
  BY <1>1 DEF BInv, Holds, NodeOf, KindOf, BlockOf
<1>4. AllPlaced'
  BY PlacesStay DEF list, BlockOf
<1>5. ASSUME ~stale' PROVE spoiled' = {} /\ NodesKept' /\ ThreadsKept'
  <2>1. ~stale /\ \A n \in S : ~C!InUse(n)
    BY <1>5
  <2>2. spoiled' = {} /\ NodesKept /\ ThreadsKept
    BY <2>1 DEF BInv, NoneSpoiled
  <2>3. \A s \in C!Packets : NodeOf(s) \notin S
    BY <2>1 DEF C!InUse, NodeOf
  <2>4. \A u \in Threads : cpc[u] \in Posts \cup Takes => node[u] \notin S
    BY <2>1, <2>2 DEF C!InUse, ThreadsKept, Takes, Posts, C!Taking
  <2>5. NodesKept'
    <3>1. \A s \in C!Packets : KindOf(s) \in C!Kinds => NodeOf(s) \in Nodes
      BY DEF BInv, Holds, C!TypeOK, NodeOf, KindOf, C!Kinds
    <3> QED
      BY <1>1, <2>1, <2>2, <2>3, <3>1 DEF NodesKept, NodeOf, KindOf, BlockOf
  <2>6. ThreadsKept'
    BY <1>1, <2>2, <2>4 DEF ThreadsKept, NodeOf, KindOf, BInv, Holds, Posts
  <2> QED
    BY <2>2, <2>5, <2>6
<1> QED
  BY <1>2, <1>3, <1>4, <1>5 DEF BInv, NoneSpoiled

\* The stop: the packets, and the blocks of their operations, are lost.
LEMMA AllClosed ==
  ASSUME BInv, C!Stopped
  PROVE  BInv'
<1> USE DEF C!Stopped, C!cacheVars, C!threadVars
<1>1. /\ type' \in [Nodes -> C!Types] /\ pool' \subseteq Nodes /\ listed' \subseteq Nodes
      /\ \A m \in Nodes \ listed : type'[m] = type[m]
      /\ listed' = {} /\ pool' = pool \cup listed /\ buf' = buf
  BY NodesGiven DEF C!GiveAway
<1>2. \A s \in C!Packets : NodeOf(s)' = NoNode /\ KindOf(s)' = "released" /\ BlockOf(s)' = NoBlock
  BY DEF NodeOf, KindOf, BlockOf, C!NoPacket
<1>3. NoBlock \notin C!Blocks /\ NoNode \notin Nodes /\ "released" \notin C!Kinds /\ "released" \in C!Types
  BY ListType DEF BInv, C!Kinds, C!Types
<1>4. C!TypeOK'
  <2>1. io' \in [C!Packets -> [node : Nodes \cup {NoNode}, kind : C!Types, block : C!Blocks \cup {NoBlock}]]
    BY <1>3 DEF C!NoPacket
  <2>2. lost' \subseteq C!Blocks
    BY DEF BInv, C!TypeOK
  <2> QED
    BY <1>1, <2>1, <2>2 DEF BInv, C!TypeOK
<1>5. Holds'
  BY <1>1, <1>2, <1>3 DEF BInv, Holds
<1>6. ASSUME NEW c \in C!Blocks \ spoiled PROVE Placed(c)'
  <2>1. Placed(c) /\ c # NoBlock /\ list' = list
    BY <1>3 DEF BInv, AllPlaced, list
  <2>2. ~Posted(c)' /\ Held(c)' = Held(c)
    BY <1>2, <2>1 DEF Posted, Held
  <2>3. c \in lost' <=> c \in lost \/ Posted(c)
    BY <2>1 DEF Posted, BlockOf
  <2> QED
    BY <1>2, <2>1, <2>2, <2>3 DEF Placed, Once, Held
<1>7. ASSUME ~stale' PROVE spoiled' = {} /\ NodesKept' /\ ThreadsKept'
  <2>1. ~stale /\ \A t \in Threads : C!Taking(t) => node[t] \notin listed
    BY <1>7
  <2>2. spoiled' = {} /\ NodesKept /\ ThreadsKept
    BY <2>1 DEF BInv, NoneSpoiled, C!auxVars
  <2>4. \A u \in Threads : cpc[u] \in Posts \cup Takes => node[u] \notin listed /\ node[u] \in Nodes
    BY <2>1, <2>2 DEF ThreadsKept, Takes, Posts, C!Taking, BInv, Holds
  <2>5. NodesKept'
    <3>1. NoNode \notin pool'  BY <1>1, <1>3
    <3> QED
      BY <1>1, <1>2, <1>3, <3>1 DEF NodesKept
  <2>6. ThreadsKept'
    BY <1>1, <1>2, <1>3, <2>2, <2>4 DEF ThreadsKept, Posts
  <2> QED
    BY <2>2, <2>5, <2>6
<1> QED
  BY <1>4, <1>5, <1>6, <1>7 DEF BInv, AllPlaced, NoneSpoiled

LEMMA DialogStep ==
  ASSUME BInv, C!StartServer \/ C!StopServer \/ C!Close
  PROVE  BInv'
<1> USE DEF C!StartServer, C!StopServer, C!Close, C!cacheVars, C!nodeVars, C!threadVars, C!auxVars
<1>1. C!TypeOK'
  <2>1. areas \in 0 .. MaxBlocks /\ starts \in 0 .. MaxStarts /\ 0 \in 0 .. MaxBlocks
    BY ListType DEF BInv, C!TypeOK
  <2>2. areas' \in 0 .. MaxBlocks /\ starts' \in 0 .. MaxStarts
    BY <2>1, BlocksAssumption DEF C!MemCacheAssumption
  <2> QED
    BY <2>2 DEF BInv, C!TypeOK
<1>2. Holds'
  BY DEF BInv, Holds, NodeOf, KindOf, BlockOf
<1>3. ASSUME NEW c \in C!Blocks \ spoiled PROVE Placed(c)'
  BY DEF BInv, AllPlaced, Placed, Once, Posted, Held, BlockOf, list
<1>4. NoneSpoiled'
  BY DEF BInv, NoneSpoiled, NodesKept, ThreadsKept, NodeOf, KindOf, BlockOf
<1> QED
  BY <1>1, <1>2, <1>3, <1>4 DEF BInv, AllPlaced

LEMMA BlocksInvariant == C!Spec => []BInv
<1>1. C!Init => BInv
  BY BlocksInit
<1>2. BInv /\ [C!Next]_C!vars => BInv'
  <2> SUFFICES ASSUME BInv, [C!Next]_C!vars PROVE BInv'
    OBVIOUS
  <2>1. CASE C!StartServer \/ C!StopServer \/ C!Close
    BY <2>1, DialogStep
  <2>2. CASE C!PostKillThread
    BY <2>2, KillPosted
  <2>3. CASE C!Stopped
    BY <2>3, AllClosed
  <2>4. CASE \E S \in SUBSET listed : C!CloseClient(S)
    BY <2>4, ClientClosed DEF C!CloseClient
  <2>5. ASSUME NEW t \in Threads, server # "closed", C!Posting(t) PROVE BInv'
    BY <2>5, GetBlock, FillNode, PostNode, InsertNode, PostFailed DEF C!Posting
  <2>6. ASSUME NEW t \in Threads, server # "closed", C!Handler(t) PROVE BInv'
    BY <2>6, Dequeued, NodeReleased, BlockReleased, KillTaken DEF C!Handler
  <2>7. CASE UNCHANGED C!vars
    <3>1. C!TypeOK' /\ Holds'
      BY <2>7 DEF BInv, C!TypeOK, Holds, NodeOf, KindOf, BlockOf, list, C!vars, C!cacheVars, C!nodeVars,
                  C!threadVars, C!serverVars, C!auxVars
    <3>2. AllPlaced'
      BY <2>7 DEF BInv, AllPlaced, Placed, Once, Posted, Held, BlockOf, list, C!vars, C!cacheVars,
                  C!nodeVars, C!threadVars, C!serverVars, C!auxVars
    <3>3. NoneSpoiled'
      BY <2>7 DEF BInv, NoneSpoiled, NodesKept, ThreadsKept, NodeOf, KindOf, BlockOf, C!vars, C!cacheVars,
                  C!nodeVars, C!threadVars, C!serverVars, C!auxVars
    <3> QED
      BY <3>1, <3>2, <3>3 DEF BInv
  <2> QED
    BY <2>1, <2>2, <2>3, <2>4, <2>5, <2>6, <2>7 DEF C!Next
<1> QED
  BY <1>1, <1>2, PTL DEF C!Spec

\* Every block but those that a packet was mistaken for or forgot is in one place, the
\* free list, an operation, a handler's hand or lost to a stop, whatever the handlers, the
\* posts and the stops do at the same time (TestIOCPServerDlg.cpp:191-280).
THEOREM BlocksInOnePlace == C!Spec => []OnePlace
<1>1. BInv => OnePlace
  BY PlacedIsOnePlace
<1> QED
  BY <1>1, BlocksInvariant, PTL

\* As long as no client is closed over an operation of its own, every packet finds the
\* block it was posted with and none is dropped or forgotten
\* (TcpIOCPClientStub.cpp:37-93, 154-190; TcpIOCPServerImp.cpp:305-346).
THEOREM BlocksFound == C!Spec => []OwnBlock
<1>1. BInv => OwnBlock
  BY PlacedIsOnePlace
<1> QED
  BY <1>1, BlocksInvariant, PTL

----------------------------------------------------------------------------
(* A Transport header                                                      *)

\* A behaviour is one of each parser, that moves or stays.
LEMMA EachHeader == HeaderSpec => H!Spec /\ G!Spec
<1>1. HeaderInit => H!Init /\ G!Init
  BY DEF HeaderInit
<1>2. [HeaderNext]_headerVars => [H!Next]_(H!vars)
  BY DEF HeaderNext, headerVars, hvars, H!vars, H!auxVars
<1>3. [HeaderNext]_headerVars => [G!Next]_(G!vars)
  BY DEF HeaderNext, headerVars, gvars, G!vars, G!timeVars
<1> QED
  BY <1>1, <1>2, <1>3, PTL DEF HeaderSpec, H!Spec, G!Spec

\* The texts that are put together of texts.
LEMMA FlattenedTexts ==
  ASSUME NEW S, NEW ss \in Seq(Seq(S))
  PROVE  H!FlattenSeq(ss) \in Seq(S)
<1>1. CASE Len(ss) = 0
  <2>1. ss = <<>>  BY <1>1
  <2>2. H!FlattenSeq(ss) = ss  BY <1>1 DEF H!FlattenSeq
  <2>3. <<>> \in Seq(S)  OBVIOUS
  <2> QED  BY <2>1, <2>2, <2>3
<1>2. CASE Len(ss) # 0
  <2> DEFINE Flat(f) == f = [i \in 1 .. Len(ss) |-> IF i = 1 THEN ss[i] ELSE f[i - 1] \o ss[i]]
             F == [x \in (1 .. Len(ss)) \X Seq(S) |-> x[2] \o ss[x[1]]]
             made == CHOOSE f : Flat(f)
  <2>1. Len(ss) \in Nat \ {0} /\ \A i \in 1 .. Len(ss) : ss[i] \in Seq(S)  BY <1>2
  <2>2. F \in [(1 .. Len(ss)) \X Seq(S) -> Seq(S)]
    <3>1. ASSUME NEW i \in 1 .. Len(ss), NEW x \in Seq(S) PROVE x \o ss[i] \in Seq(S)
      BY <2>1
    <3> QED  BY <3>1
  <2>3. \A i \in 1 .. Len(ss), x \in Seq(S) : F[<<i, x>>] = x \o ss[i]  OBVIOUS
  <2>4. <<>> \in Seq(S)  OBVIOUS
  <2>5. PICK f : Rounds(f, Len(ss), <<>>, F)
    <3> HIDE DEF F
    <3> QED  BY <2>1, RoundsMade
  <2>6. \A i \in 0 .. Len(ss) : f[i] \in Seq(S)
    <3> HIDE DEF F
    <3> QED  BY <2>1, <2>2, <2>4, <2>5, RoundsTyped
  <2> DEFINE h == [i \in 1 .. Len(ss) |-> f[i]]
  <2>7. Flat(h)
    <3>1. ASSUME NEW i \in 1 .. Len(ss)
          PROVE  h[i] = IF i = 1 THEN ss[i] ELSE h[i - 1] \o ss[i]
      <4>1. f[i] = F[<<i, f[i - 1]>>] /\ f[0] = <<>>
        <5> HIDE DEF F
        <5> QED  BY <2>5 DEF Rounds
      <4>2. i - 1 \in 0 .. Len(ss) /\ f[i - 1] \in Seq(S)  BY <2>1, <2>6
      <4>3. f[i] = f[i - 1] \o ss[i]
        <5> HIDE DEF F
        <5> QED  BY <2>3, <4>1, <4>2
      <4>4. CASE i = 1
        <5>1. <<>> \o ss[1] = ss[1]  BY <2>1
        <5>2. f[1] = <<>> \o ss[1]
          <6>1. i - 1 = 0  BY <4>4
          <6>2. f[i - 1] = <<>>  BY <4>1, <6>1
          <6>3. f[i] = <<>> \o ss[i]  BY <4>3, <6>2
          <6> QED  BY <4>4, <6>3
        <5>3. h[1] = f[1]  BY <2>1
        <5> QED  BY <4>4, <5>1, <5>2, <5>3
      <4>5. CASE i # 1
        <5>1. h[i - 1] = f[i - 1] /\ h[i] = f[i]  BY <2>1, <4>5
        <5> QED  BY <4>3, <4>5, <5>1
      <4> QED  BY <4>4, <4>5
    <3>2. h = [i \in 1 .. Len(ss) |-> h[i]]  OBVIOUS
    <3> HIDE DEF h
    <3> QED  BY <3>1, <3>2
  <2>8. Flat(made)
    <3> HIDE DEF Flat, h
    <3> QED  BY <2>7
  <2>9. H!FlattenSeq(ss) = made[Len(ss)]  BY <1>2 DEF H!FlattenSeq
  <2>10. ASSUME NEW i \in 1 .. Len(ss) PROVE made[i] = IF i = 1 THEN ss[i] ELSE made[i - 1] \o ss[i]
    <3> HIDE DEF made
    <3> QED  BY <2>8
  <2> DEFINE T == {i \in 0 .. Len(ss) : i # 0 => made[i] \in Seq(S)}
  <2>11. 0 \in T  OBVIOUS
  <2>12. ASSUME NEW i \in 0 .. Len(ss) - 1, i \in T PROVE i + 1 \in T
    <3> HIDE DEF made
    <3>1. i + 1 \in 1 .. Len(ss) /\ (i + 1) - 1 = i /\ ss[i + 1] \in Seq(S)  BY <2>1
    <3>2. made[i + 1] = IF i + 1 = 1 THEN ss[i + 1] ELSE made[i] \o ss[i + 1]  BY <2>10, <3>1
    <3>3. CASE i = 0  BY <3>1, <3>2, <3>3
    <3>4. CASE i # 0
      <4>1. made[i] \in Seq(S)  BY <2>12, <3>4
      <4>2. PICK x, y : x = made[i] /\ y = ss[i + 1]  OBVIOUS
      <4>3. x \o y \in Seq(S)
        <5>1. x \in Seq(S) /\ y \in Seq(S)  BY <3>1, <4>1, <4>2
        <5> QED  BY <5>1
      <4>4. i + 1 # 1  BY <3>4
      <4>5. made[i + 1] = x \o y  BY <3>2, <4>2, <4>4
      <4>6. made[i + 1] \in Seq(S)  BY <4>3, <4>5
      <4> QED  BY <3>1, <4>6
    <3> QED  BY <3>3, <3>4
  <2>13. \A i \in 0 .. Len(ss) : i \in T
    <3> HIDE DEF T
    <3> QED  BY <2>1, <2>11, <2>12, Counting
  <2>14. made[Len(ss)] \in Seq(S)
    <3> HIDE DEF made
    <3> QED  BY <2>1, <2>13
  <2> QED  BY <2>9, <2>14
<1> QED  BY <1>1, <1>2

\* The rest of a text.
LEMMA RestOfText ==
  ASSUME NEW S, NEW s \in Seq(S), NEW k \in 0 .. Len(s)
  PROVE  /\ H!From(s, k) \in Seq(S) /\ Len(H!From(s, k)) = Len(s) - k
         /\ k < Len(s) => Head(H!From(s, k)) = s[k + 1]
         /\ SubSeq(s, 1, k) \in Seq(S) /\ Len(SubSeq(s, 1, k)) = k
         /\ \A i \in 1 .. k : SubSeq(s, 1, k)[i] = s[i]
<1>1. Len(s) \in Nat /\ \A i \in 1 .. Len(s) : s[i] \in S  OBVIOUS
<1>2. SubSeq(s, k + 1, Len(s)) \in Seq(S)
  <2>1. \A i \in k + 1 .. Len(s) : s[i] \in S  BY <1>1
  <2> QED  BY <1>1, <2>1, SubSeqProperties
<1>3. Len(SubSeq(s, k + 1, Len(s))) = Len(s) - k  BY <1>1
<1>4. k < Len(s) => Head(SubSeq(s, k + 1, Len(s))) = s[k + 1]  BY <1>1
<1>5. SubSeq(s, 1, k) \in Seq(S)
  <2>1. \A i \in 1 .. k : s[i] \in S  BY <1>1
  <2> QED  BY <1>1, <2>1, SubSeqProperties
<1>6. Len(SubSeq(s, 1, k)) = k /\ \A i \in 1 .. k : SubSeq(s, 1, k)[i] = s[i]  BY <1>1
<1> QED  BY <1>2, <1>3, <1>4, <1>5, <1>6 DEF H!From

LEMMA RestOfTail ==
  ASSUME NEW S, NEW s \in Seq(S), s # <<>>
  PROVE  Tail(s) \in Seq(S) /\ Len(Tail(s)) = Len(s) - 1 /\ Len(s) \in Nat \ {0} /\ Head(s) = s[1]
<1>1. Len(s) \in Nat /\ Len(s) # 0  OBVIOUS
<1> QED  BY <1>1

\* strcspn: what comes before the first of the separators.
LEMMA SpanIs ==
  ASSUME NEW S, NEW s \in Seq(S), NEW seps
  PROVE  /\ H!SpanTo(s, seps) \in 0 .. Len(s)
         /\ \A i \in 1 .. H!SpanTo(s, seps) : s[i] \notin seps
         /\ H!SpanTo(s, seps) < Len(s) => s[H!SpanTo(s, seps) + 1] \in seps
<1> DEFINE I == {i \in 1 .. Len(s) : s[i] \in seps}
<1>1. CASE I = {}
  <2>1. H!SelectInSeq(s, LAMBDA c : c \in seps) = 0  BY <1>1 DEF H!SelectInSeq
  <2>2. H!SpanTo(s, seps) = Len(s)  BY <2>1 DEF H!SpanTo
  <2> QED  BY <1>1, <2>2
<1>2. CASE I # {}
  <2>1. I \in SUBSET Nat  OBVIOUS
  <2>2. \E x \in I : \A y \in I : x <= y
    <3> HIDE DEF I
    <3> QED  BY <1>2, <2>1, LeastNumber
  <2>3. PICK k : k = H!Min(I)  OBVIOUS
  <2>4. k \in I /\ \A y \in I : k <= y
    <3> HIDE DEF I
    <3> QED  BY <2>2, <2>3 DEF H!Min
  <2>5. H!SelectInSeq(s, LAMBDA c : c \in seps) = k  BY <1>2, <2>3 DEF H!SelectInSeq
  <2>6. k # 0  BY <2>4
  <2>7. H!SpanTo(s, seps) = k - 1  BY <2>5, <2>6 DEF H!SpanTo
  <2> QED  BY <2>4, <2>7
<1> QED  BY <1>1, <1>2

\* strspn of the blanks.
LEMMA BlanksSkipped ==
  ASSUME NEW S, NEW s \in Seq(S)
  PROVE  /\ H!SkipBlanks(s) \in Seq(S) /\ Len(H!SkipBlanks(s)) <= Len(s)
         /\ H!SkipBlanks(s) # <<>> => Head(H!SkipBlanks(s)) # H!Blank
         /\ s # <<>> /\ Head(s) # H!Blank => H!SkipBlanks(s) = s
         /\ s # <<>> /\ Head(s) = H!Blank => Len(H!SkipBlanks(s)) < Len(s)
<1> DEFINE I == {i \in 1 .. Len(s) : s[i] # H!Blank}
<1>1. CASE I = {}
  <2>1. H!SelectInSeq(s, LAMBDA c : c # H!Blank) = 0  BY <1>1 DEF H!SelectInSeq
  <2>2. H!SkipBlanks(s) = <<>>  BY <2>1 DEF H!SkipBlanks
  <2>3. s # <<>> => Head(s) = H!Blank  BY <1>1
  <2> QED  BY <2>2, <2>3
<1>2. CASE I # {}
  <2>1. I \in SUBSET Nat  OBVIOUS
  <2>2. \E x \in I : \A y \in I : x <= y
    <3> HIDE DEF I
    <3> QED  BY <1>2, <2>1, LeastNumber
  <2>3. PICK k : k = H!Min(I)  OBVIOUS
  <2>4. k \in I /\ \A y \in I : k <= y
    <3> HIDE DEF I
    <3> QED  BY <2>2, <2>3 DEF H!Min
  <2>5. H!SelectInSeq(s, LAMBDA c : c # H!Blank) = k  BY <1>2, <2>3 DEF H!SelectInSeq
  <2>6. k \in 1 .. Len(s) /\ k # 0 /\ k - 1 \in 0 .. Len(s) /\ k - 1 < Len(s) /\ (k - 1) + 1 = k
        /\ s[k] # H!Blank
    BY <2>4
  <2>7. H!SkipBlanks(s) = H!From(s, k - 1)  BY <2>5, <2>6 DEF H!SkipBlanks
  <2>8. /\ H!From(s, k - 1) \in Seq(S) /\ Len(H!From(s, k - 1)) = Len(s) - (k - 1)
        /\ Head(H!From(s, k - 1)) = s[(k - 1) + 1]
    BY <2>6, RestOfText
  <2>9. s # <<>> /\ Head(s) # H!Blank => k = 1
    <3>1. s # <<>> /\ Head(s) # H!Blank => 1 \in I  OBVIOUS
    <3> HIDE DEF I
    <3> QED  BY <2>4, <2>6, <3>1
  <2>10. s # <<>> /\ Head(s) = H!Blank => k # 1  BY <2>6
  <2>11. k = 1 => H!From(s, k - 1) = s  BY DEF H!From
  <2> QED  BY <2>6, <2>7, <2>8, <2>9, <2>10, <2>11
<1> QED  BY <1>1, <1>2

\* get_word_sep takes a word from the front of a text, and takes something unless the text
\* begins with a separator.
LEMMA WordTaken ==
  ASSUME NEW S, NEW s \in Seq(S), NEW seps
  PROVE  /\ H!GetWord(s, seps).word \in Seq(S) /\ H!GetWord(s, seps).rest \in Seq(S)
         /\ Len(H!GetWord(s, seps).rest) <= Len(s)
         /\ s # <<>> /\ (Head(s) \in {"/", H!Blank} \/ Head(s) \notin seps) =>
              Len(H!GetWord(s, seps).rest) < Len(s)
         /\ s # <<>> /\ Head(s) \notin {"/", H!Blank} /\ Head(s) \in seps =>
              H!GetWord(s, seps).word = <<>> /\ H!GetWord(s, seps).rest = s
<1> DEFINE u == IF H!StartsWith(s, "/") THEN Tail(s) ELSE s
           x == H!SkipBlanks(u)
           k == H!SpanTo(x, seps)
<1>1. /\ u \in Seq(S) /\ Len(u) \in Nat /\ Len(s) \in Nat
      /\ s # <<>> /\ Head(s) = "/" => Len(u) < Len(s)
      /\ ~(s # <<>> /\ Head(s) = "/") => u = s
  <2>1. CASE s # <<>> /\ Head(s) = "/"
    <3>1. u = Tail(s)  BY <2>1 DEF H!StartsWith
    <3> QED  BY <2>1, <3>1, RestOfTail
  <2>2. CASE ~(s # <<>> /\ Head(s) = "/")
    <3>1. u = s  BY <2>2 DEF H!StartsWith
    <3> HIDE DEF u
    <3>2. Len(s) \in Nat  OBVIOUS
    <3> QED  BY <2>2, <3>1, <3>2
  <2> QED  BY <2>1, <2>2
<1>2. /\ x \in Seq(S) /\ Len(x) <= Len(u) /\ Len(x) \in Nat
      /\ u # <<>> /\ Head(u) # H!Blank => x = u
      /\ u # <<>> /\ Head(u) = H!Blank => Len(x) < Len(u)
  <2> HIDE DEF u
  <2>1. x \in Seq(S)  BY <1>1, BlanksSkipped
  <2>2. Len(x) \in Nat  BY <2>1
  <2> QED  BY <1>1, <2>1, <2>2, BlanksSkipped
<1> HIDE DEF u, x
<1>3. /\ k \in 0 .. Len(x)
      /\ k < Len(x) => x[k + 1] \in seps
      /\ \A i \in 1 .. k : x[i] \notin seps
  BY <1>2, SpanIs
<1>4. H!GetWord(s, seps) = [word |-> SubSeq(x, 1, k), rest |-> H!From(x, k)]
  BY DEF H!GetWord, u, x
<1> HIDE DEF k
<1>5. /\ SubSeq(x, 1, k) \in Seq(S) /\ H!From(x, k) \in Seq(S)
      /\ Len(H!From(x, k)) = Len(x) - k
  BY <1>2, <1>3, RestOfText
<1>6. ASSUME s # <<>>, Head(s) \in {"/", H!Blank} \/ Head(s) \notin seps
      PROVE  Len(x) - k < Len(s)
  <2>1. CASE Head(s) = "/"  BY <1>1, <1>2, <1>3, <1>6, <2>1
  <2>2. CASE Head(s) # "/" /\ Head(s) = H!Blank  BY <1>1, <1>2, <1>3, <1>6, <2>2
  <2>3. CASE Head(s) # "/" /\ Head(s) # H!Blank /\ Head(s) \notin seps
    <3>1. x = s  BY <1>1, <1>2, <1>6, <2>3
    <3>2. Len(s) > 0 /\ s[1] = Head(s)  BY <1>6, RestOfTail
    <3>3. k # 0
      <4>1. k = 0 => x[1] \in seps
        <5>1. k = 0 => k < Len(x) /\ k + 1 = 1  BY <3>1, <3>2
        <5> QED  BY <1>3, <5>1
      <4> QED  BY <2>3, <3>1, <3>2, <4>1
    <3> QED  BY <1>3, <3>1, <3>3
  <2> QED  BY <1>6, <2>1, <2>2, <2>3
<1>7. ASSUME s # <<>>, Head(s) \notin {"/", H!Blank}, Head(s) \in seps
      PROVE  SubSeq(x, 1, k) = <<>> /\ H!From(x, k) = s
  <2>1. x = s  BY <1>1, <1>2, <1>7
  <2>2. Len(s) > 0 /\ s[1] = Head(s)  BY <1>7, RestOfTail
  <2>3. k = 0
    <3>1. k >= 1 => x[1] \notin seps  BY <1>3
    <3> QED  BY <1>3, <1>7, <2>1, <2>2, <3>1
  <2>4. SubSeq(x, 1, 0) = <<>> /\ SubSeq(x, 0 + 1, Len(x)) = x  BY <1>2
  <2> QED  BY <2>1, <2>3, <2>4 DEF H!From
<1> QED  BY <1>1, <1>2, <1>3, <1>4, <1>5, <1>6, <1>7

\* strtol and rtsp_parse_range take nothing or something.
LEMMA NumberTaken ==
  ASSUME NEW S, NEW s \in Seq(S)
  PROVE  /\ H!StrToL(s).val \in Seq(S) /\ H!StrToL(s).rest \in Seq(S)
         /\ Len(H!StrToL(s).rest) <= Len(s)
<1> DEFINE x == H!SkipBlanks(s)
           k == IF H!StartsWith(x, "-") THEN 2 ELSE 1
<1>1. x \in Seq(S) /\ Len(x) <= Len(s) /\ Len(x) \in Nat /\ Len(s) \in Nat
  <2>1. x \in Seq(S)  BY BlanksSkipped
  <2>2. Len(x) \in Nat /\ Len(s) \in Nat  BY <2>1
  <2> QED  BY <2>1, <2>2, BlanksSkipped
<1>2. k \in {1, 2}  OBVIOUS
<1>3. H!StrToL(s) = IF Len(x) >= k /\ x[k] \in H!Numbers
                    THEN [val |-> SubSeq(x, 1, k), rest |-> H!From(x, k)]
                    ELSE [val |-> <<>>, rest |-> s]
  BY DEF H!StrToL
<1> HIDE DEF x, k
<1>4. CASE Len(x) >= k /\ x[k] \in H!Numbers
  <2>1. k \in 0 .. Len(x)  BY <1>1, <1>2, <1>4
  <2>2. /\ SubSeq(x, 1, k) \in Seq(S) /\ H!From(x, k) \in Seq(S)
        /\ Len(H!From(x, k)) = Len(x) - k
    BY <1>1, <2>1, RestOfText
  <2> QED  BY <1>1, <1>2, <1>3, <1>4, <2>2
<1>5. CASE ~(Len(x) >= k /\ x[k] \in H!Numbers)
  <2>1. <<>> \in Seq(S)  OBVIOUS
  <2> QED  BY <1>1, <1>3, <1>5, <2>1
<1> QED  BY <1>4, <1>5

LEMMA RangeTaken ==
  ASSUME NEW S, NEW s \in Seq(S)
  PROVE  /\ H!ParseRange(s).range \in [min : Seq(S), max : Seq(S)]
         /\ H!ParseRange(s).rest \in Seq(S)
         /\ Len(H!ParseRange(s).rest) <= Len(s)
<1> DEFINE a == H!StrToL(H!SkipBlanks(s))
           b == H!StrToL(Tail(a.rest))
<1>1. H!ParseRange(s) = IF H!StartsWith(a.rest, "-")
        THEN [range |-> [min |-> a.val, max |-> b.val], rest |-> b.rest]
        ELSE [range |-> [min |-> a.val, max |-> a.val], rest |-> a.rest]
  BY DEF H!ParseRange
<1>2. H!SkipBlanks(s) \in Seq(S) /\ Len(H!SkipBlanks(s)) <= Len(s)  BY BlanksSkipped
<1>3. a.val \in Seq(S) /\ a.rest \in Seq(S) /\ Len(a.rest) <= Len(H!SkipBlanks(s))
  BY <1>2, NumberTaken
<1>4. Len(a.rest) \in Nat /\ Len(s) \in Nat /\ Len(H!SkipBlanks(s)) \in Nat
  <2> HIDE DEF a
  <2> QED  BY <1>2, <1>3
<1>5. Len(a.rest) <= Len(s)
  <2> HIDE DEF a
  <2> QED  BY <1>2, <1>3, <1>4
<1>6. CASE H!StartsWith(a.rest, "-")
  <2>1. a.rest # <<>>  BY <1>6 DEF H!StartsWith
  <2> HIDE DEF a
  <2>2. Tail(a.rest) \in Seq(S) /\ Len(Tail(a.rest)) = Len(a.rest) - 1  BY <1>3, <2>1, RestOfTail
  <2>3. b.val \in Seq(S) /\ b.rest \in Seq(S) /\ Len(b.rest) <= Len(Tail(a.rest))
    BY <2>2, NumberTaken
  <2> HIDE DEF b
  <2>4. Len(b.rest) \in Nat  BY <2>3
  <2> QED  BY <1>1, <1>3, <1>4, <1>5, <1>6, <2>2, <2>3, <2>4
<1>7. CASE ~H!StartsWith(a.rest, "-")
  <2> HIDE DEF a, b
  <2> QED  BY <1>1, <1>3, <1>4, <1>5, <1>7
<1> QED  BY <1>6, <1>7

\* Protocol takes something of a text that does not begin with a blank.
LEMMA ProtocolTaken ==
  ASSUME NEW S, NEW s \in Seq(S), s # <<>>, Head(s) # H!Blank
  PROVE  /\ H!Protocol(s).transport \in {"RTP", "raw", "RDT", "none"}
         /\ H!Protocol(s).rest \in Seq(S) /\ Len(H!Protocol(s).rest) < Len(s)
<1> DEFINE proto   == H!GetWord(s, {"/"})
           profile == H!GetWord(proto.rest, {"/"} \cup H!ValueEnds)
           lower   == IF H!StartsWith(profile.rest, "/") THEN H!GetWord(profile.rest, H!ValueEnds)
                                                         ELSE [word |-> <<>>, rest |-> profile.rest]
<1>1. proto.rest \in Seq(S) /\ Len(proto.rest) < Len(s)
  <2>1. Head(s) \in {"/", H!Blank} \/ Head(s) \notin {"/"}  OBVIOUS
  <2> QED  BY <2>1, WordTaken
<1>2. /\ H!Protocol(s).transport \in {"RTP", "raw", "RDT", "none"}
      /\ H!Protocol(s).rest \in {lower.rest, profile.rest, proto.rest}
  <2> HIDE DEF proto, profile, lower
  <2>1. H!Protocol(s) =
          CASE proto.word = <<"RTP">>        -> [transport |-> "RTP", lower |-> lower.word, rest |-> lower.rest]
            [] proto.word = <<"raw">>        -> [transport |-> "raw", lower |-> lower.word, rest |-> lower.rest]
            [] proto.word = <<"x-real-rdt">> -> [transport |-> "RDT", lower |-> profile.word, rest |-> profile.rest]
            [] OTHER                         -> [transport |-> "none", lower |-> <<>>, rest |-> proto.rest]
    BY DEF H!Protocol, proto, profile, lower
  <2>2. <<"RTP">> # <<"raw">> /\ <<"RTP">> # <<"x-real-rdt">> /\ <<"raw">> # <<"x-real-rdt">>
    OBVIOUS
  <2>3. CASE proto.word = <<"RTP">>  BY <2>1, <2>2, <2>3
  <2>4. CASE proto.word = <<"raw">>  BY <2>1, <2>2, <2>4
  <2>5. CASE proto.word = <<"x-real-rdt">>  BY <2>1, <2>2, <2>5
  <2>6. CASE proto.word \notin {<<"RTP">>, <<"raw">>, <<"x-real-rdt">>}  BY <2>1, <2>6
  <2> QED  BY <2>3, <2>4, <2>5, <2>6
<1> HIDE DEF proto
<1>3. profile.rest \in Seq(S) /\ Len(profile.rest) <= Len(proto.rest)  BY <1>1, WordTaken
<1> HIDE DEF profile
<1>4. lower.rest \in Seq(S) /\ Len(lower.rest) <= Len(profile.rest)
  <2>1. /\ H!GetWord(profile.rest, H!ValueEnds).rest \in Seq(S)
        /\ Len(H!GetWord(profile.rest, H!ValueEnds).rest) <= Len(profile.rest)
    BY <1>3, WordTaken
  <2>2. Len(profile.rest) <= Len(profile.rest)
    <3>1. Len(profile.rest) \in Nat  BY <1>3
    <3> QED  BY <3>1
  <2>3. CASE H!StartsWith(profile.rest, "/")
    <3>1. lower = H!GetWord(profile.rest, H!ValueEnds)  BY <2>3
    <3> HIDE DEF lower
    <3> QED  BY <2>1, <3>1
  <2>4. CASE ~H!StartsWith(profile.rest, "/")
    <3>1. lower = [word |-> <<>>, rest |-> profile.rest]  BY <2>4
    <3> HIDE DEF lower
    <3> QED  BY <1>3, <2>2, <3>1
  <2> QED  BY <2>3, <2>4
<1> HIDE DEF lower
<1>5. Len(proto.rest) \in Nat /\ Len(profile.rest) \in Nat /\ Len(lower.rest) \in Nat /\ Len(s) \in Nat
  BY <1>1, <1>3, <1>4
<1>6. Len(proto.rest) < Len(s) /\ Len(profile.rest) < Len(s) /\ Len(lower.rest) < Len(s)
  BY <1>1, <1>3, <1>4, <1>5
<1> QED  BY <1>1, <1>2, <1>3, <1>4, <1>6

\* A semicolon is skipped, or nothing.
LEMMA SemicolonSkipped ==
  ASSUME NEW S, NEW s \in Seq(S)
  PROVE  /\ (IF H!StartsWith(s, H!Semicolon) THEN Tail(s) ELSE s) \in Seq(S)
         /\ Len(IF H!StartsWith(s, H!Semicolon) THEN Tail(s) ELSE s) <= Len(s)
         /\ s # <<>> /\ Head(s) = H!Semicolon => Len(IF H!StartsWith(s, H!Semicolon) THEN Tail(s) ELSE s) < Len(s)
<1>1. CASE H!StartsWith(s, H!Semicolon)
  <2>1. s # <<>>  BY <1>1 DEF H!StartsWith
  <2>2. Tail(s) \in Seq(S) /\ Len(Tail(s)) = Len(s) - 1 /\ Len(s) \in Nat  BY <2>1, RestOfTail
  <2> QED  BY <1>1, <2>2
<1>2. CASE ~H!StartsWith(s, H!Semicolon)
  <2>1. ~(s # <<>> /\ Head(s) = H!Semicolon)  BY <1>2 DEF H!StartsWith
  <2>2. Len(s) \in Nat  OBVIOUS
  <2> QED  BY <1>2, <2>1, <2>2
<1> QED  BY <1>1, <1>2

\* What is left of a parameter is skipped: something, unless the text begins with a comma.
LEMMA ParameterPast ==
  ASSUME NEW S, NEW s \in Seq(S)
  PROVE  /\ H!Past(s) \in Seq(S) /\ Len(H!Past(s)) <= Len(s)
         /\ s # <<>> /\ Head(s) # H!Comma => Len(H!Past(s)) < Len(s)
<1> DEFINE k == H!SpanTo(s, H!ValueEnds)
           x == H!From(s, k)
<1>1. /\ k \in 0 .. Len(s) /\ Len(s) \in Nat
      /\ k < Len(s) => s[k + 1] \in H!ValueEnds
  <2>1. Len(s) \in Nat  OBVIOUS
  <2> QED  BY <2>1, SpanIs
<1>2. H!Past(s) = IF H!StartsWith(x, H!Semicolon) THEN Tail(x) ELSE x  BY DEF H!Past
<1> HIDE DEF k
<1>3. /\ x \in Seq(S) /\ Len(x) = Len(s) - k /\ Len(x) \in Nat
      /\ k < Len(s) => Head(x) = s[k + 1]
  <2>1. x \in Seq(S) /\ Len(x) = Len(s) - k /\ (k < Len(s) => Head(x) = s[k + 1])
    BY <1>1, RestOfText
  <2> QED  BY <1>1, <2>1
<1> HIDE DEF x
<1>4. /\ H!Past(s) \in Seq(S) /\ Len(H!Past(s)) <= Len(x)
      /\ x # <<>> /\ Head(x) = H!Semicolon => Len(H!Past(s)) < Len(x)
  BY <1>2, <1>3, SemicolonSkipped
<1>5. Len(H!Past(s)) \in Nat  BY <1>4
<1>6. ASSUME s # <<>>, Head(s) # H!Comma PROVE Len(H!Past(s)) < Len(s)
  <2>1. Len(s) > 0 /\ s[1] = Head(s)  BY <1>6, RestOfTail
  <2>2. CASE k = 0
    <3>1. Head(x) = s[1] /\ s[1] \in H!ValueEnds
      <4>1. k < Len(s) /\ k + 1 = 1  BY <2>1, <2>2
      <4> QED  BY <1>1, <1>3, <4>1
    <3>3. s[1] \in {H!Semicolon, H!Comma}  BY <3>1 DEF H!ValueEnds
    <3>2. x # <<>> /\ Head(x) = H!Semicolon
      <4>1. Len(x) > 0  BY <1>3, <2>1, <2>2
      <4> QED  BY <1>6, <2>1, <3>1, <3>3, <4>1
    <3> QED  BY <1>3, <1>4, <1>5, <2>2, <3>2
  <2>3. CASE k # 0  BY <1>1, <1>3, <1>4, <1>5, <2>3
  <2> QED  BY <2>2, <2>3
<1> QED  BY <1>1, <1>3, <1>4, <1>5, <1>6

\* What an element of m_RtspReplyMessage.transports holds.
Texts == Seq(HeaderTokens)
TransportFields ==
  [transport : {"RTP", "RDT", "raw"}, lower : {"TCP", "UDP", "UDP_MULTICAST"},
   range : [H!Ranges -> [min : Texts, max : Texts]],
   ttl : Texts, destination : Texts, source : Texts, mode_record : BOOLEAN]

\* What a parameter of a transport makes of its field, and of the text.
ParameterRead(r, s) == r.field \in TransportFields /\ r.rest \in Texts /\ Len(r.rest) <= Len(s)

LEMMA FieldWithParameter ==
  ASSUME NEW f \in TransportFields, NEW name \in Texts, NEW s \in Texts
  PROVE  /\ ParameterRead(H!WithParameter(f, name, s), s)
         /\ name = <<>> => H!WithParameter(f, name, s).rest = s
<1> DEFINE has  == H!StartsWith(s, "=")
           r    == H!ParseRange(Tail(s))
           num  == H!StrToL(Tail(s))
           w    == H!GetWord(Tail(s), H!ValueEnds)
           mode == H!GetWord(Tail(s), H!ValueEnds \cup {H!Blank})
           ranged == \E k \in H!Ranges : name = <<k>>
           e1 == [field |-> [f EXCEPT !.range[name[1]] = r.range], rest |-> r.rest]
           e2 == [field |-> [f EXCEPT !.lower = IF @ = "UDP" THEN "UDP_MULTICAST" ELSE @], rest |-> s]
           e3 == [field |-> [f EXCEPT !.ttl = num.val], rest |-> num.rest]
           e4 == [field |-> [f EXCEPT !.destination = IF H!Numeric(w.word) THEN w.word ELSE @],
                  rest |-> w.rest]
           e5 == [field |-> [f EXCEPT !.source = w.word], rest |-> w.rest]
           e6 == [field |-> [f EXCEPT !.mode_record = @ \/ mode.word \in {<<"record">>, <<"receive">>}],
                  rest |-> mode.rest]
           e7 == [field |-> f, rest |-> s]
<1>1. H!WithParameter(f, name, s) =
        CASE has /\ ranged -> e1
          [] name = <<"multicast">> -> e2
          [] has /\ name = <<"ttl">> -> e3
          [] has /\ name = <<"destination">> -> e4
          [] has /\ name = <<"source">> -> e5
          [] has /\ name = <<"mode">> -> e6
          [] OTHER -> e7
  BY DEF H!WithParameter
<1>2. has => /\ r.range \in [min : Texts, max : Texts]
             /\ num.val \in Texts /\ w.word \in Texts
             /\ r.rest \in Texts /\ num.rest \in Texts /\ w.rest \in Texts /\ mode.rest \in Texts
             /\ Len(r.rest) <= Len(s) /\ Len(num.rest) <= Len(s) /\ Len(w.rest) <= Len(s)
             /\ Len(mode.rest) <= Len(s)
  <2> SUFFICES ASSUME s # <<>> PROVE
             /\ r.range \in [min : Texts, max : Texts]
             /\ num.val \in Texts /\ w.word \in Texts
             /\ r.rest \in Texts /\ num.rest \in Texts /\ w.rest \in Texts /\ mode.rest \in Texts
             /\ Len(r.rest) <= Len(s) /\ Len(num.rest) <= Len(s) /\ Len(w.rest) <= Len(s)
             /\ Len(mode.rest) <= Len(s)
    BY DEF H!StartsWith
  <2>1. PICK x : x = Tail(s)  OBVIOUS
  <2>2. x \in Seq(HeaderTokens) /\ Len(x) = Len(s) - 1 /\ Len(s) \in Nat /\ Len(x) \in Nat
    <3>1. s \in Seq(HeaderTokens)  BY DEF Texts
    <3>2. x \in Seq(HeaderTokens) /\ Len(x) = Len(s) - 1  BY <2>1, <3>1, RestOfTail
    <3> QED  BY <3>1, <3>2
  <2>3. /\ H!ParseRange(x).range \in [min : Seq(HeaderTokens), max : Seq(HeaderTokens)]
        /\ H!ParseRange(x).rest \in Seq(HeaderTokens) /\ Len(H!ParseRange(x).rest) <= Len(x)
    BY <2>2, RangeTaken
  <2>4. /\ H!StrToL(x).val \in Seq(HeaderTokens) /\ H!StrToL(x).rest \in Seq(HeaderTokens)
        /\ Len(H!StrToL(x).rest) <= Len(x)
    BY <2>2, NumberTaken
  <2>5. \A seps : /\ H!GetWord(x, seps).word \in Seq(HeaderTokens) /\ H!GetWord(x, seps).rest \in Seq(HeaderTokens)
                  /\ Len(H!GetWord(x, seps).rest) <= Len(x)
    BY <2>2, WordTaken
  <2>6. \A y \in Seq(HeaderTokens) : Len(y) <= Len(x) => Len(y) <= Len(s)
    <3>1. \A y \in Seq(HeaderTokens) : Len(y) \in Nat  OBVIOUS
    <3> QED  BY <2>2, <3>1
  <2> QED  BY <2>1, <2>3, <2>4, <2>5, <2>6 DEF Texts
<1> HIDE DEF has, r, num, w, mode
<1>3. Len(s) \in Nat  BY DEF Texts
<1>4. \A k \in H!Ranges : /\ <<k>> # <<"multicast">> /\ <<k>> # <<"ttl">> /\ <<k>> # <<"destination">>
                          /\ <<k>> # <<"source">> /\ <<k>> # <<"mode">> /\ <<k>> # <<>> /\ <<k>>[1] = k
  BY DEF H!Ranges
<1>5. /\ <<"multicast">> # <<"ttl">> /\ <<"multicast">> # <<"destination">> /\ <<"multicast">> # <<"source">>
      /\ <<"multicast">> # <<"mode">> /\ <<"ttl">> # <<"destination">> /\ <<"ttl">> # <<"source">>
      /\ <<"ttl">> # <<"mode">> /\ <<"destination">> # <<"source">> /\ <<"destination">> # <<"mode">>
      /\ <<"source">> # <<"mode">>
  OBVIOUS
<1>6. /\ <<"multicast">> # <<>> /\ <<"ttl">> # <<>> /\ <<"destination">> # <<>> /\ <<"source">> # <<>>
      /\ <<"mode">> # <<>>
  OBVIOUS
<1>7. ASSUME has, ranged PROVE ParameterRead(e1, s)
  <2>1. PICK k \in H!Ranges : name = <<k>>  BY <1>7
  <2>2. name[1] = k  BY <2>1, <1>4
  <2>3. f.range \in [H!Ranges -> [min : Texts, max : Texts]]  BY DEF TransportFields
  <2>4. [f EXCEPT !.range[name[1]] = r.range] \in TransportFields
    BY <1>2, <1>7, <2>2, <2>3 DEF TransportFields
  <2> QED  BY <1>2, <1>7, <2>4 DEF ParameterRead
<1>8. ParameterRead(e2, s)
  <2>1. [f EXCEPT !.lower = IF @ = "UDP" THEN "UDP_MULTICAST" ELSE @] \in TransportFields
    BY DEF TransportFields
  <2> QED  BY <1>3, <2>1 DEF ParameterRead
<1>9. ASSUME has PROVE ParameterRead(e3, s)
  <2>1. [f EXCEPT !.ttl = num.val] \in TransportFields  BY <1>2, <1>9 DEF TransportFields
  <2> QED  BY <1>2, <1>9, <2>1 DEF ParameterRead
<1>10. ASSUME has PROVE ParameterRead(e4, s)
  <2>1. [f EXCEPT !.destination = IF H!Numeric(w.word) THEN w.word ELSE @] \in TransportFields
    BY <1>2, <1>10 DEF TransportFields
  <2> QED  BY <1>2, <1>10, <2>1 DEF ParameterRead
<1>11. ASSUME has PROVE ParameterRead(e5, s)
  <2>1. [f EXCEPT !.source = w.word] \in TransportFields  BY <1>2, <1>11 DEF TransportFields
  <2> QED  BY <1>2, <1>11, <2>1 DEF ParameterRead
<1>12. ASSUME has PROVE ParameterRead(e6, s)
  <2>1. f.mode_record \in BOOLEAN  BY DEF TransportFields
  <2>2. PICK b : b = (f.mode_record \/ mode.word \in {<<"record">>, <<"receive">>})  OBVIOUS
  <2>3. b \in BOOLEAN  BY <2>2
  <2>4. [f EXCEPT !.mode_record = b] \in TransportFields  BY <2>3 DEF TransportFields
  <2>5. e6 = [field |-> [f EXCEPT !.mode_record = b], rest |-> mode.rest]  BY <2>2
  <2> QED  BY <1>2, <1>12, <2>4, <2>5 DEF ParameterRead
<1>13. ParameterRead(e7, s) /\ e7.rest = s  BY <1>3 DEF ParameterRead
<1>14. CASE has /\ ranged
  <2>1. PICK k \in H!Ranges : name = <<k>>  BY <1>14
  <2>2. H!WithParameter(f, name, s) = e1
    <3> HIDE DEF e1, e2, e3, e4, e5, e6, e7
    <3>1. /\ name # <<"multicast">> /\ name # <<"ttl">> /\ name # <<"destination">>
          /\ name # <<"source">> /\ name # <<"mode">>
      BY <1>4, <2>1
    <3> HIDE DEF ranged
    <3> QED  BY <1>1, <1>14, <3>1
  <2>3. name # <<>>  BY <1>4, <2>1
  <2> HIDE DEF ranged, e1
  <2> QED  BY <1>7, <1>14, <2>2, <2>3
<1>15. CASE ~(has /\ ranged)
  <2> HIDE DEF ranged, e1, e2, e3, e4, e5, e6, e7
  <2>1. CASE name = <<"multicast">>  BY <1>1, <1>5, <1>6, <1>8, <1>15, <2>1
  <2>2. CASE has /\ name = <<"ttl">>  BY <1>1, <1>5, <1>6, <1>9, <1>15, <2>2
  <2>3. CASE has /\ name = <<"destination">>  BY <1>1, <1>5, <1>6, <1>10, <1>15, <2>3
  <2>4. CASE has /\ name = <<"source">>  BY <1>1, <1>5, <1>6, <1>11, <1>15, <2>4
  <2>5. CASE has /\ name = <<"mode">>  BY <1>1, <1>5, <1>6, <1>12, <1>15, <2>5
  <2>6. CASE /\ name # <<"multicast">>
             /\ ~(has /\ name \in {<<"ttl">>, <<"destination">>, <<"source">>, <<"mode">>})
    <3>1. H!WithParameter(f, name, s) = e7  BY <1>1, <1>15, <2>6
    <3> QED  BY <1>13, <3>1
  <2> QED  BY <2>1, <2>2, <2>3, <2>4, <2>5, <2>6
<1> QED  BY <1>14, <1>15

\* What a client writes is a text.
LEMMA WrittenText ==
  ASSUME H!TransportAssumption, NEW ts \in Seq(H!Transport)
  PROVE  H!TextOf(ts) \in Texts
<1>1. ASSUME NEW x \in H!Transport PROVE H!Text(x) \in Seq(HeaderTokens)
  <2> DEFINE ps == [i \in DOMAIN x.params |->
                     <<H!Semicolon, x.params[i][1]>> \o
                     (IF x.params[i][2] = <<>> THEN <<>> ELSE <<"=">> \o x.params[i][2])]
             front == CASE x.proto = "RDT" -> <<"x-real-rdt", "/", x.lower>>
                        [] x.lower = ""    -> <<x.proto, "/", "AVP">>
                        [] OTHER           -> <<x.proto, "/", "AVP", "/", x.lower>>
  <2>1. /\ x.proto \in HeaderTokens /\ x.lower \in HeaderTokens /\ x.params \in Seq(HeaderTokens \X Seq(HeaderTokens))
        /\ {H!Semicolon, H!Comma, "/", "=", "AVP", "x-real-rdt"} \subseteq HeaderTokens
    BY DEF H!Transport, H!TransportAssumption
  <2>2. front \in Seq(HeaderTokens)
    <3>1. front \in {<<"x-real-rdt", "/", x.lower>>, <<x.proto, "/", "AVP">>, <<x.proto, "/", "AVP", "/", x.lower>>}
      <4>1. CASE x.proto = "RDT" /\ x.lower # ""  BY <4>1
      <4>2. CASE x.proto # "RDT" /\ x.lower = ""  BY <4>2
      <4>3. CASE x.proto # "RDT" /\ x.lower # ""  BY <4>3
      <4>4. CASE x.proto = "RDT" /\ x.lower = ""  BY <4>4
      <4> QED  BY <4>1, <4>2, <4>3, <4>4
    <3>2. /\ <<"x-real-rdt", "/", x.lower>> \in Seq(HeaderTokens) /\ <<x.proto, "/", "AVP">> \in Seq(HeaderTokens)
          /\ <<x.proto, "/", "AVP", "/", x.lower>> \in Seq(HeaderTokens)
      BY <2>1
    <3> QED  BY <3>1, <3>2
  <2>3. DOMAIN x.params = 1 .. Len(x.params) /\ Len(x.params) \in Nat  BY <2>1
  <2>4. ASSUME NEW i \in DOMAIN x.params PROVE ps[i] \in Seq(HeaderTokens)
    <3>1. x.params[i][1] \in HeaderTokens /\ x.params[i][2] \in Seq(HeaderTokens)
      <4>1. x.params[i] \in HeaderTokens \X Seq(HeaderTokens)  BY <2>1, <2>3
      <4> QED  BY <4>1
    <3>2. PICK a, b : /\ a = <<H!Semicolon, x.params[i][1]>>
                      /\ b = IF x.params[i][2] = <<>> THEN <<>> ELSE <<"=">> \o x.params[i][2]
      OBVIOUS
    <3>3. a \in Seq(HeaderTokens)  BY <2>1, <3>1, <3>2
    <3>4. b \in Seq(HeaderTokens)
      <4>1. PICK c : c = x.params[i][2]  OBVIOUS
      <4>2. <<>> \in Seq(HeaderTokens) /\ <<"=">> \in Seq(HeaderTokens)  BY <2>1
      <4>3. <<"=">> \o c \in Seq(HeaderTokens)
        <5>1. c \in Seq(HeaderTokens)  BY <3>1, <4>1
        <5> QED  BY <4>2, <5>1
      <4>4. b = <<>> \/ b = <<"=">> \o c  BY <3>2, <4>1
      <4> QED  BY <4>2, <4>3, <4>4
    <3>5. a \o b \in Seq(HeaderTokens)  BY <3>3, <3>4
    <3>6. ps[i] = a \o b  BY <3>2
    <3> QED  BY <3>5, <3>6
  <2>5. ps \in Seq(Seq(HeaderTokens))
    <3>1. DOMAIN ps = DOMAIN x.params /\ ps = [i \in DOMAIN x.params |-> ps[i]]  OBVIOUS
    <3> HIDE DEF ps
    <3>2. ps \in [1 .. Len(x.params) -> Seq(HeaderTokens)]  BY <2>3, <2>4, <3>1
    <3> QED  BY <2>3, <3>2
  <2>6. H!FlattenSeq(ps) \in Seq(HeaderTokens)
    <3> HIDE DEF ps
    <3> QED  BY <2>5, FlattenedTexts
  <2>7. H!Text(x) = front \o H!FlattenSeq(ps)  BY DEF H!Text
  <2> HIDE DEF front, ps
  <2>8. front \o H!FlattenSeq(ps) \in Seq(HeaderTokens)
    <3>1. PICK c : c = H!FlattenSeq(ps)  OBVIOUS
    <3>2. c \in Seq(HeaderTokens)  BY <2>6, <3>1
    <3>3. front \o c \in Seq(HeaderTokens)  BY <2>2, <3>2
    <3> QED  BY <3>1, <3>3
  <2> QED  BY <2>7, <2>8
<1> DEFINE ws == [i \in DOMAIN ts |-> (IF i = 1 THEN <<>> ELSE <<H!Comma>>) \o H!Text(ts[i])]
<1>2. DOMAIN ts = 1 .. Len(ts) /\ Len(ts) \in Nat  OBVIOUS
<1>3. ASSUME NEW i \in DOMAIN ts PROVE ws[i] \in Seq(HeaderTokens)
  <2>1. PICK c : c = H!Text(ts[i])  OBVIOUS
  <2>2. c \in Seq(HeaderTokens)
    <3>1. ts[i] \in H!Transport  BY <1>2
    <3> QED  BY <1>1, <2>1, <3>1
  <2>3. PICK a : a = IF i = 1 THEN <<>> ELSE <<H!Comma>>  OBVIOUS
  <2>4. a \in Seq(HeaderTokens)
    <3>1. H!Comma \in HeaderTokens  BY DEF H!TransportAssumption
    <3>2. <<>> \in Seq(HeaderTokens) /\ <<H!Comma>> \in Seq(HeaderTokens)  BY <3>1
    <3> QED  BY <2>3, <3>2
  <2>5. a \o c \in Seq(HeaderTokens)  BY <2>2, <2>4
  <2>6. ws[i] = a \o c  BY <2>1, <2>3
  <2> QED  BY <2>5, <2>6
<1>4. ws \in Seq(Seq(HeaderTokens))
  <2>1. DOMAIN ws = DOMAIN ts /\ ws = [i \in DOMAIN ts |-> ws[i]]  OBVIOUS
  <2> HIDE DEF ws
  <2>2. ws \in [1 .. Len(ts) -> Seq(HeaderTokens)]  BY <1>2, <1>3, <2>1
  <2> QED  BY <1>2, <2>2
<1>5. H!TextOf(ts) = H!FlattenSeq(ws)  BY DEF H!TextOf
<1>6. H!FlattenSeq(ws) \in Seq(HeaderTokens)
  <2> HIDE DEF ws
  <2> QED  BY <1>4, FlattenedTexts
<1> QED  BY <1>5, <1>6 DEF Texts

\* The parser's state, and that the rounds it is allowed are enough for what is left.
HInv ==
  /\ transports \in [1 .. MaxTransports -> TransportFields]
  /\ nb \in 0 .. MaxTransports /\ (tpc # "idle" => nb < MaxTransports)
  /\ tpc \in {"idle", "transport", "parameters"}
  /\ ttext \in Texts /\ headers \in 0 .. MaxHeaders
  /\ hrounds \in Int /\ H!Left <= hrounds

LEMMA LeftIs ==
  ASSUME NEW k \in Nat
  PROVE  /\ tpc = "idle" /\ Len(ttext) = k => H!Left = 3 * k
         /\ tpc = "transport" /\ Len(ttext) = k => H!Left = 3 * k + 1
         /\ tpc = "parameters" /\ Len(ttext) = k => H!Left = 3 * k + 2
BY DEF H!Left

LEMMA LeftThen ==
  ASSUME NEW k \in Nat
  PROVE  /\ tpc' = "idle" /\ Len(ttext)' = k => H!Left' = 3 * k
         /\ tpc' = "transport" /\ Len(ttext)' = k => H!Left' = 3 * k + 1
         /\ tpc' = "parameters" /\ Len(ttext)' = k => H!Left' = 3 * k + 2
BY DEF H!Left

LEMMA TransportStep ==
  ASSUME H!TransportAssumption, HInv, [H!Next]_(H!vars)
  PROVE  HInv'
<1>1. ASSUME NEW h, NEW ts, h \in Texts, H!Begin(h, ts) PROVE HInv'
  <2>1. PICK k : k = Len(h)  OBVIOUS
  <2>2. k \in Nat  BY <1>1, <2>1 DEF Texts
  <2>3. /\ ttext' = h /\ nb' = 0 /\ tpc' = "transport" /\ headers' = headers + 1 /\ headers < MaxHeaders
        /\ hrounds' = 3 * k + 1 /\ transports' = transports
    BY <1>1, <2>1 DEF H!Begin, H!Restart
  <2>4. H!Left' = 3 * k + 1
    <3>1. Len(ttext)' = k  BY <2>1, <2>3
    <3> QED  BY <2>2, <2>3, <3>1, LeftThen
  <2> QED  BY <1>1, <2>2, <2>3, <2>4 DEF HInv, H!TransportAssumption
<1>2. ASSUME H!NextTransport PROVE HInv'
  <2>1. PICK x : x = H!SkipBlanks(ttext)  OBVIOUS
  <2>2. /\ tpc = "transport" /\ x # <<>>
        /\ \E l \in H!Lowers(H!Protocol(x)) :
             transports' = [transports EXCEPT ![nb + 1] = H!WithProtocol(@, H!Protocol(x), l)]
        /\ ttext' = IF H!StartsWith(H!Protocol(x).rest, H!Semicolon)
                    THEN Tail(H!Protocol(x).rest) ELSE H!Protocol(x).rest
        /\ tpc' = "parameters" /\ hrounds' = hrounds - 1 /\ nb' = nb /\ headers' = headers
    BY <1>2, <2>1 DEF H!NextTransport, H!Round
  <2>3. x \in Texts /\ Len(x) <= Len(ttext) /\ Head(x) # H!Blank
    <3>1. ttext \in Seq(HeaderTokens)  BY DEF HInv, Texts
    <3> QED  BY <2>1, <2>2, <3>1, BlanksSkipped DEF Texts
  <2>4. PICK pr : pr = H!Protocol(x)  OBVIOUS
  <2>5. pr.transport \in {"RTP", "raw", "RDT", "none"} /\ pr.rest \in Texts /\ Len(pr.rest) < Len(x)
    BY <2>2, <2>3, <2>4, ProtocolTaken DEF Texts
  <2>6. ttext' \in Texts /\ Len(ttext') <= Len(pr.rest)
    BY <2>2, <2>4, <2>5, SemicolonSkipped DEF Texts
  <2>7. transports' \in [1 .. MaxTransports -> TransportFields]
    <3>1. PICK l \in H!Lowers(pr) :
            transports' = [transports EXCEPT ![nb + 1] = H!WithProtocol(@, pr, l)]
      BY <2>2, <2>4
    <3>2. l \in {"TCP", "UDP"}  BY DEF H!Lowers
    <3>3. nb + 1 \in 1 .. MaxTransports  BY <2>2 DEF HInv, H!TransportAssumption
    <3>4. PICK f : f = transports[nb + 1]  OBVIOUS
    <3>5. f \in TransportFields /\ transports \in [1 .. MaxTransports -> TransportFields]
      BY <3>3, <3>4 DEF HInv
    <3>6. PICK g : g = H!WithProtocol(f, pr, l)  OBVIOUS
    <3>7. g \in TransportFields
      <4>1. PICK y : y = IF pr.transport = "none" THEN f.transport ELSE pr.transport  OBVIOUS
      <4>2. f.transport \in {"RTP", "RDT", "raw"}  BY <3>5 DEF TransportFields
      <4>3. y \in {"RTP", "RDT", "raw"}  BY <2>5, <4>1, <4>2
      <4>4. g = [f EXCEPT !.mode_record = TRUE, !.lower = l, !.transport = y]
        BY <3>6, <4>1 DEF H!WithProtocol
      <4> QED  BY <3>2, <3>5, <4>3, <4>4 DEF TransportFields
    <3>8. transports'[nb + 1] = g  BY <3>1, <3>3, <3>4, <3>5, <3>6
    <3>9. \A i \in 1 .. MaxTransports : i # nb + 1 => transports'[i] = transports[i]  BY <3>1, <3>5
    <3>10. DOMAIN transports' = 1 .. MaxTransports /\ transports' = [i \in DOMAIN transports' |-> transports'[i]]
      BY <3>1, <3>5
    <3>11. \A i \in 1 .. MaxTransports : transports'[i] \in TransportFields
      BY <3>5, <3>7, <3>8, <3>9
    <3> QED  BY <3>10, <3>11
  <2>8. PICK k : k = Len(ttext)  OBVIOUS
  <2>9. PICK j : j = Len(ttext')  OBVIOUS
  <2>10. k \in Nat /\ j \in Nat /\ j + 1 <= k
    <3>1. Len(ttext) \in Nat /\ Len(x) \in Nat /\ Len(pr.rest) \in Nat /\ Len(ttext') \in Nat
      BY <2>3, <2>5, <2>6 DEF HInv, Texts
    <3> QED  BY <2>3, <2>5, <2>6, <2>8, <2>9, <3>1
  <2>11. H!Left = 3 * k + 1  BY <2>2, <2>8, <2>10, LeftIs
  <2>12. H!Left' = 3 * j + 2  BY <2>2, <2>9, <2>10, LeftThen
  <2>13. hrounds' \in Int /\ H!Left' <= hrounds'
    BY <2>2, <2>10, <2>11, <2>12 DEF HInv
  <2> QED  BY <2>2, <2>6, <2>7, <2>13 DEF HInv
<1>3. ASSUME H!Parameter PROVE HInv'
  <2>1. PICK w : w = H!GetWord(ttext, {"="} \cup H!ValueEnds)  OBVIOUS
  <2>2. PICK f : f = transports[nb + 1]  OBVIOUS
  <2>3. PICK pr : pr = H!WithParameter(f, w.word, w.rest)  OBVIOUS
  <2>4. /\ tpc = "parameters" /\ ttext # <<>> /\ Head(ttext) # H!Comma
        /\ transports' = [transports EXCEPT ![nb + 1] = pr.field]
        /\ ttext' = H!Past(pr.rest)
        /\ tpc' = tpc /\ hrounds' = hrounds - 1 /\ nb' = nb /\ headers' = headers
    BY <1>3, <2>1, <2>2, <2>3 DEF H!Parameter, H!Round, H!StartsWith
  <2>5. ttext \in Seq(HeaderTokens)  BY DEF HInv, Texts
  <2>6. /\ w.word \in Seq(HeaderTokens) /\ w.rest \in Seq(HeaderTokens) /\ Len(w.rest) <= Len(ttext)
        /\ Len(w.rest) < Len(ttext) \/ (w.word = <<>> /\ w.rest = ttext)
    BY <2>1, <2>4, <2>5, WordTaken
  <2>7. nb + 1 \in 1 .. MaxTransports /\ transports \in [1 .. MaxTransports -> TransportFields]
    BY <2>4 DEF HInv, H!TransportAssumption
  <2>8. f \in TransportFields  BY <2>2, <2>7
  <2>9. ParameterRead(pr, w.rest) /\ (w.word = <<>> => pr.rest = w.rest)
    <3>1. w.word \in Texts /\ w.rest \in Texts  BY <2>6 DEF Texts
    <3> QED  BY <2>3, <2>8, <3>1, FieldWithParameter
  <2>10. pr.field \in TransportFields /\ pr.rest \in Seq(HeaderTokens) /\ Len(pr.rest) <= Len(w.rest)
    BY <2>9 DEF ParameterRead, Texts
  <2>11. /\ ttext' \in Seq(HeaderTokens) /\ Len(ttext') <= Len(pr.rest)
         /\ pr.rest # <<>> /\ Head(pr.rest) # H!Comma => Len(ttext') < Len(pr.rest)
    BY <2>4, <2>10, ParameterPast
  <2>12. transports' \in [1 .. MaxTransports -> TransportFields]  BY <2>4, <2>7, <2>10
  <2>13. PICK k : k = Len(ttext)  OBVIOUS
  <2>14. PICK j : j = Len(ttext')  OBVIOUS
  <2>15. k \in Nat /\ j \in Nat /\ j + 1 <= k
    <3>1. Len(ttext) \in Nat /\ Len(w.rest) \in Nat /\ Len(pr.rest) \in Nat /\ Len(ttext') \in Nat
      BY <2>5, <2>6, <2>10, <2>11
    <3>2. CASE Len(w.rest) < Len(ttext)  BY <2>10, <2>11, <2>13, <2>14, <3>1, <3>2
    <3>3. CASE w.word = <<>> /\ w.rest = ttext
      <4>1. pr.rest = ttext  BY <2>9, <3>3
      <4>2. Len(ttext') < Len(ttext)  BY <2>4, <2>11, <4>1
      <4> QED  BY <2>13, <2>14, <3>1, <4>2
    <3> QED  BY <2>6, <3>2, <3>3
  <2>16. H!Left = 3 * k + 2  BY <2>4, <2>13, <2>15, LeftIs
  <2>17. H!Left' = 3 * j + 2  BY <2>4, <2>14, <2>15, LeftThen
  <2>18. hrounds' \in Int /\ H!Left' <= hrounds'
    BY <2>4, <2>15, <2>16, <2>17 DEF HInv
  <2> QED  BY <2>4, <2>11, <2>12, <2>18 DEF HInv, Texts
<1>4. ASSUME H!EndTransport PROVE HInv'
  <2>1. /\ tpc = "parameters" /\ (ttext = <<>> \/ H!StartsWith(ttext, H!Comma))
        /\ nb' = nb + 1
        /\ ttext' = IF nb + 1 >= MaxTransports \/ ttext = <<>> THEN <<>> ELSE Tail(ttext)
        /\ tpc' = IF nb + 1 >= MaxTransports THEN "idle" ELSE "transport"
        /\ hrounds' = hrounds - 1 /\ transports' = transports /\ headers' = headers
    BY <1>4 DEF H!EndTransport, H!Round, H!Full
  <2>2. ttext \in Seq(HeaderTokens) /\ Len(ttext) \in Nat  BY DEF HInv, Texts
  <2>3. ttext' \in Seq(HeaderTokens) /\ Len(ttext') <= Len(ttext) /\ Len(ttext') \in Nat
    <3>1. CASE ttext' = <<>>
      <4>1. <<>> \in Seq(HeaderTokens) /\ Len(<<>>) = 0  OBVIOUS
      <4> QED  BY <2>2, <3>1, <4>1
    <3>2. CASE ttext' # <<>>
      <4>1. ttext # <<>> /\ ttext' = Tail(ttext)  BY <2>1, <3>2
      <4>2. Tail(ttext) \in Seq(HeaderTokens) /\ Len(Tail(ttext)) = Len(ttext) - 1 /\ Len(ttext) \in Nat \ {0}
        BY <2>2, <4>1, RestOfTail
      <4> QED  BY <4>1, <4>2
    <3> QED  BY <3>1, <3>2
  <2>4. PICK k : k = Len(ttext)  OBVIOUS
  <2>5. PICK j : j = Len(ttext')  OBVIOUS
  <2>6. H!Left = 3 * k + 2  BY <2>1, <2>2, <2>4, LeftIs
  <2>7. H!Left' \in {3 * j, 3 * j + 1}  BY <2>1, <2>3, <2>5, LeftThen
  <2>8. k \in Nat /\ j \in Nat /\ j <= k  BY <2>2, <2>3, <2>4, <2>5
  <2>9. hrounds' \in Int /\ H!Left' <= hrounds'
    BY <2>1, <2>6, <2>7, <2>8 DEF HInv
  <2>10. nb' \in 0 .. MaxTransports /\ (tpc' # "idle" => nb' < MaxTransports)
         /\ tpc' \in {"idle", "transport", "parameters"}
    BY <2>1 DEF HInv, H!TransportAssumption
  <2> QED  BY <2>1, <2>3, <2>9, <2>10 DEF HInv, Texts
<1>5. ASSUME H!EndHeader PROVE HInv'
  <2>1. /\ tpc = "transport" /\ tpc' = "idle" /\ ttext' = <<>> /\ hrounds' = hrounds - 1
        /\ transports' = transports /\ nb' = nb /\ headers' = headers
    BY <1>5 DEF H!EndHeader, H!Round
  <2>2. PICK k : k = Len(ttext)  OBVIOUS
  <2>3. k \in Nat  BY <2>2 DEF HInv, Texts
  <2>4. H!Left = 3 * k + 1  BY <2>1, <2>2, <2>3, LeftIs
  <2>5. H!Left' = 0
    <3>1. Len(ttext)' = 0 /\ 3 * 0 = 0  BY <2>1
    <3> QED  BY <2>1, <3>1, LeftThen
  <2>6. hrounds' \in Int /\ H!Left' <= hrounds'  BY <2>1, <2>3, <2>4, <2>5 DEF HInv
  <2>7. <<>> \in Texts  BY DEF Texts
  <2> QED  BY <2>1, <2>6, <2>7 DEF HInv
<1>6. ASSUME UNCHANGED H!vars PROVE HInv'
  BY <1>6 DEF H!vars, H!auxVars, HInv, H!Left
<1>7. ASSUME NEW ts \in TransportLists PROVE H!TextOf(ts) \in Texts
  BY WrittenText DEF H!TransportAssumption
<1>8. TransportJunk \subseteq Texts  BY DEF H!TransportAssumption, Texts
<1> QED  BY <1>1, <1>2, <1>3, <1>4, <1>5, <1>6, <1>7, <1>8 DEF H!Next, H!Parse

\* A Transport header comes to an end, whatever its text, and no transport is stored outside
\* the array (RtspServer.cpp:427-548).
THEOREM HeadersEnd == HeaderSpec => []Ends
<1>1. H!Init => HInv
  <2> SUFFICES ASSUME H!Init PROVE HInv  OBVIOUS
  <2>1. H!Field \in TransportFields
    <3>1. <<>> \in Texts  BY DEF Texts
    <3>2. H!NoRange \in [min : Texts, max : Texts]  BY <3>1 DEF H!NoRange
    <3>3. [q \in H!Ranges |-> H!NoRange] \in [H!Ranges -> [min : Texts, max : Texts]]  BY <3>2
    <3> QED  BY <3>1, <3>3 DEF H!Field, TransportFields
  <2>2. transports \in [1 .. MaxTransports -> TransportFields]  BY <2>1 DEF H!Init
  <2>3. ttext = <<>> /\ tpc = "idle" /\ hrounds = 0 /\ nb = 0 /\ headers = 0  BY DEF H!Init
  <2>4. <<>> \in Texts /\ Len(<<>>) = 0  BY DEF Texts
  <2>5. H!Left = 0
    <3>1. Len(ttext) = 0 /\ 3 * 0 = 0  BY <2>3, <2>4
    <3> QED  BY <2>3, <3>1, LeftIs
  <2> QED  BY <2>2, <2>3, <2>4, <2>5, HeaderAssumption DEF HInv, H!TransportAssumption
<1>2. HInv /\ [H!Next]_(H!vars) => HInv'  BY TransportStep, HeaderAssumption
<1>3. HInv => Ends
  <2> SUFFICES ASSUME HInv PROVE Ends  OBVIOUS
  <2>1. ASSUME NEW i \in DOMAIN transports
        PROVE  /\ transports[i].transport \in {"RTP", "RDT", "raw"}
               /\ transports[i].lower \in {"TCP", "UDP", "UDP_MULTICAST"}
               /\ DOMAIN transports[i].range = H!Ranges
    <3>1. transports[i] \in TransportFields  BY DEF HInv
    <3> QED  BY <3>1 DEF TransportFields
  <2>2. DOMAIN transports = 1 .. MaxTransports  BY DEF HInv
  <2> QED  BY <2>1, <2>2 DEF HInv, H!TypeOK, H!Ends, Ends
<1> QED  BY <1>1, <1>2, <1>3, EachHeader, PTL DEF H!Spec

----------------------------------------------------------------------------
(* A Range header                                                          *)


TimeText == Seq(TimeChars)

LEMMA RestOfTime ==
  ASSUME NEW S, NEW s \in Seq(S), NEW k \in Nat
  PROVE  G!From(s, k) \in Seq(S)
<1>1. Len(s) \in Nat /\ \A i \in 1 .. Len(s) : s[i] \in S  OBVIOUS
<1>2. SubSeq(s, k + 1, Len(s)) \in Seq(S)
  <2>1. \A i \in k + 1 .. Len(s) : s[i] \in S  BY <1>1
  <2> QED  BY <1>1, <2>1, SubSeqProperties
<1> QED  BY <1>2 DEF G!From

\* strspn of the digits.
LEMMA DigitsSpan ==
  ASSUME NEW S, NEW s \in Seq(S)
  PROVE  /\ G!SpanDigits(s) \in 0 .. Len(s)
         /\ \A i \in 1 .. G!SpanDigits(s) : s[i] \in G!Digits
         /\ \A k \in 0 .. G!SpanDigits(s) : SubSeq(s, 1, k) \in Seq(G!Digits) /\ Len(SubSeq(s, 1, k)) = k
<1> DEFINE I == {i \in 1 .. Len(s) : s[i] \notin G!Digits}
<1>1. /\ G!SpanDigits(s) \in 0 .. Len(s)
      /\ \A i \in 1 .. G!SpanDigits(s) : s[i] \in G!Digits
  <2>1. CASE I = {}
    <3>1. G!SelectInSeq(s, LAMBDA c : c \notin G!Digits) = 0  BY <2>1 DEF G!SelectInSeq
    <3>2. G!SpanDigits(s) = Len(s)  BY <3>1 DEF G!SpanDigits
    <3> QED  BY <2>1, <3>2
  <2>2. CASE I # {}
    <3>1. I \in SUBSET Nat  OBVIOUS
    <3>2. \E x \in I : \A y \in I : x <= y
      <4> HIDE DEF I
      <4> QED  BY <2>2, <3>1, LeastNumber
    <3>3. PICK k : k = G!Min(I)  OBVIOUS
    <3>4. k \in I /\ \A y \in I : k <= y
      <4> HIDE DEF I
      <4> QED  BY <3>2, <3>3 DEF G!Min
    <3>5. G!SelectInSeq(s, LAMBDA c : c \notin G!Digits) = k  BY <2>2, <3>3 DEF G!SelectInSeq
    <3>6. k # 0  BY <3>4
    <3>7. G!SpanDigits(s) = k - 1  BY <3>5, <3>6 DEF G!SpanDigits
    <3> QED  BY <3>4, <3>7
  <2> QED  BY <2>1, <2>2
<1>2. ASSUME NEW k \in 0 .. G!SpanDigits(s)
      PROVE  SubSeq(s, 1, k) \in Seq(G!Digits) /\ Len(SubSeq(s, 1, k)) = k
  <2>1. k \in Nat /\ k <= Len(s) /\ \A i \in 1 .. k : s[i] \in G!Digits  BY <1>1
  <2>2. Len(SubSeq(s, 1, k)) = k  BY <2>1
  <2>3. SubSeq(s, 1, k) \in Seq(G!Digits)  BY <2>1, SubSeqProperties
  <2> QED  BY <2>2, <2>3
<1> QED  BY <1>1, <1>2

\* The word before a minus.
LEMMA WordIs ==
  ASSUME NEW S, NEW s \in Seq(S)
  PROVE  /\ G!Word(s) \in Seq(S) /\ Len(G!Word(s)) <= Len(s)
         /\ \A i \in 1 .. Len(G!Word(s)) : G!Word(s)[i] # "-"
<1> DEFINE I == {i \in 1 .. Len(s) : s[i] = "-"}
<1>1. CASE I = {}
  <2>1. G!SelectInSeq(s, LAMBDA c : c = "-") = 0  BY <1>1 DEF G!SelectInSeq
  <2>2. G!Word(s) = s  BY <2>1 DEF G!Word
  <2>3. Len(s) \in Nat  OBVIOUS
  <2> QED  BY <1>1, <2>2, <2>3
<1>2. CASE I # {}
  <2>1. I \in SUBSET Nat  OBVIOUS
  <2>2. \E x \in I : \A y \in I : x <= y
    <3> HIDE DEF I
    <3> QED  BY <1>2, <2>1, LeastNumber
  <2>3. PICK k : k = G!Min(I)  OBVIOUS
  <2>4. k \in I /\ \A y \in I : k <= y
    <3> HIDE DEF I
    <3> QED  BY <2>2, <2>3 DEF G!Min
  <2>5. G!SelectInSeq(s, LAMBDA c : c = "-") = k  BY <1>2, <2>3 DEF G!SelectInSeq
  <2>6. k # 0 /\ Len(s) \in Nat  BY <2>4
  <2>7. G!Word(s) = SubSeq(s, 1, k - 1)  BY <2>5, <2>6 DEF G!Word
  <2>8. PICK j : j = k - 1  OBVIOUS
  <2>9. j \in 0 .. Len(s) /\ \A i \in 1 .. j : s[i] # "-"  BY <2>4, <2>8
  <2>10. /\ SubSeq(s, 1, j) \in Seq(S) /\ Len(SubSeq(s, 1, j)) = j
         /\ \A i \in 1 .. j : SubSeq(s, 1, j)[i] = s[i]
    BY <2>9, RestOfText
  <2> QED  BY <2>6, <2>7, <2>8, <2>9, <2>10
<1> QED  BY <1>1, <1>2

LEMMA DigitIs == ASSUME NEW d \in G!Digits PROVE G!DigitOf[d] \in 0 .. 9
<1>1. \E i \in 1 .. 10 : d = G!Numerals[i]  BY DEF G!Digits
<1>2. PICK i : i = CHOOSE j \in 1 .. 10 : d = G!Numerals[j]  OBVIOUS
<1>3. i \in 1 .. 10  BY <1>1, <1>2
<1>4. G!DigitOf[d] = i - 1  BY <1>2 DEF G!DigitOf
<1> QED  BY <1>3, <1>4

\* Digits make a number.
LEMMA NumberIs ==
  ASSUME NEW ds \in Seq(G!Digits)
  PROVE  G!NumberOf(ds) \in Nat
<1> DEFINE Sums(f) == f = [i \in 0 .. Len(ds) |-> IF i = 0 THEN 0 ELSE 10 * f[i - 1] + G!DigitOf[ds[i]]]
           F == [x \in (1 .. Len(ds)) \X Nat |-> 10 * x[2] + G!DigitOf[ds[x[1]]]]
           made == CHOOSE f : Sums(f)
<1>1. Len(ds) \in Nat /\ \A i \in 1 .. Len(ds) : G!DigitOf[ds[i]] \in Nat
  <2>1. Len(ds) \in Nat /\ \A i \in 1 .. Len(ds) : ds[i] \in G!Digits  OBVIOUS
  <2> QED  BY <2>1, DigitIs
<1>2. F \in [(1 .. Len(ds)) \X Nat -> Nat]
  <2>1. ASSUME NEW i \in 1 .. Len(ds), NEW x \in Nat PROVE 10 * x + G!DigitOf[ds[i]] \in Nat
    BY <1>1
  <2> QED  BY <2>1
<1>3. \A i \in 1 .. Len(ds), x \in Nat : F[<<i, x>>] = 10 * x + G!DigitOf[ds[i]]  OBVIOUS
<1>4. PICK f : Rounds(f, Len(ds), 0, F)
  <2> HIDE DEF F
  <2> QED  BY <1>1, RoundsMade
<1> HIDE DEF F
<1>5. \A i \in 0 .. Len(ds) : f[i] \in Nat  BY <1>1, <1>2, <1>4, RoundsTyped
<1>6. Sums(f)
  <2>1. DOMAIN f = 0 .. Len(ds) /\ f[0] = 0  BY <1>4 DEF Rounds
  <2>2. ASSUME NEW i \in 1 .. Len(ds) PROVE f[i] = 10 * f[i - 1] + G!DigitOf[ds[i]]
    <3>1. f[i] = F[<<i, f[i - 1]>>]  BY <1>4 DEF Rounds
    <3>2. i - 1 \in 0 .. Len(ds)  BY <1>1
    <3> QED  BY <1>3, <1>5, <3>1, <3>2
  <2>3. \A i \in 0 .. Len(ds) : f[i] = IF i = 0 THEN 0 ELSE 10 * f[i - 1] + G!DigitOf[ds[i]]
    <3>1. \A i \in 0 .. Len(ds) : i # 0 => i \in 1 .. Len(ds)  BY <1>1
    <3> QED  BY <2>1, <2>2, <3>1
  <2>4. f = [i \in 0 .. Len(ds) |-> f[i]]
    <3>1. f = [i \in DOMAIN f |-> f[i]]  BY <1>4 DEF Rounds
    <3> QED  BY <2>1, <3>1
  <2> QED  BY <2>3, <2>4
<1>7. Sums(made)
  <2> HIDE DEF Sums
  <2> QED  BY <1>6
<1>8. G!NumberOf(ds) = made[Len(ds)]  BY DEF G!NumberOf
<1> HIDE DEF made
<1>9. \A i \in 0 .. Len(ds) : made[i] = IF i = 0 THEN 0 ELSE 10 * made[i - 1] + G!DigitOf[ds[i]]  BY <1>7
<1> DEFINE T == {i \in 0 .. Len(ds) : made[i] \in Nat}
<1>10. 0 \in T  BY <1>1, <1>9
<1>11. ASSUME NEW i \in 0 .. Len(ds) - 1, i \in T PROVE i + 1 \in T
  <2>1. i + 1 \in 1 .. Len(ds) /\ i + 1 \in 0 .. Len(ds) /\ i + 1 # 0 /\ (i + 1) - 1 = i  BY <1>1
  <2>2. made[i + 1] = 10 * made[i] + G!DigitOf[ds[i + 1]]  BY <1>9, <2>1
  <2> QED  BY <1>1, <1>11, <2>1, <2>2
<1>12. \A i \in 0 .. Len(ds) : i \in T
  <2> HIDE DEF T
  <2> QED  BY <1>1, <1>10, <1>11, Counting
<1> QED  BY <1>1, <1>8, <1>12

\* A tenth of a number, and what a digit of that weight is at most.
LEMMA Tenth ==
  ASSUME NEW k \in Nat
  PROVE  k \div 10 \in Nat /\ 10 * (k \div 10) <= k
OBVIOUS

LEMMA DigitTimes ==
  ASSUME NEW k \in Nat, NEW d \in 0 .. 9
  PROVE  k * d \in Nat /\ k * d <= 9 * k
<1>1. d \in {0, 1, 2, 3, 4, 5, 6, 7, 8, 9}  OBVIOUS
<1> QED  BY <1>1

\* What was added up, and the weight of the next digit: all that is still to come is less
\* than what is left of a second.
PartSums == {x \in [n : Nat, micro : Nat] : x.micro + 10 * x.n <= Second /\ x.micro < Second}

LEMMA PartsFit ==
  ASSUME G!RangeAssumption, NEW ds \in Seq(G!Digits)
  PROVE  G!Parts(ds) \in 0 .. Second - 1
<1> DEFINE Step(x, i) == [n |-> x.n \div 10, micro |-> x.micro + x.n * G!DigitOf[ds[i]]]
           first == [n |-> G!FirstWeight, micro |-> 0]
           Sums(f) == f = [i \in 0 .. Len(ds) |->
                             IF i = 0 THEN first
                             ELSE [n |-> f[i - 1].n \div 10, micro |-> f[i - 1].micro + f[i - 1].n * G!DigitOf[ds[i]]]]
           F == [x \in (1 .. Len(ds)) \X PartSums |-> Step(x[2], x[1])]
           made == CHOOSE f : Sums(f)
<1>1. Len(ds) \in Nat /\ \A i \in 1 .. Len(ds) : G!DigitOf[ds[i]] \in 0 .. 9
  <2>1. Len(ds) \in Nat /\ \A i \in 1 .. Len(ds) : ds[i] \in G!Digits  OBVIOUS
  <2> QED  BY <2>1, DigitIs
<1>2. ASSUME NEW i \in 1 .. Len(ds), NEW x \in PartSums PROVE Step(x, i) \in PartSums
  <2>1. PICK k : k = x.n  OBVIOUS
  <2>2. PICK m : m = x.micro  OBVIOUS
  <2>3. PICK d : d = G!DigitOf[ds[i]]  OBVIOUS
  <2>4. /\ k \in Nat /\ m \in Nat /\ d \in 0 .. 9 /\ m + 10 * k <= Second /\ m < Second
        /\ Second \in Nat
    BY <1>1, <2>1, <2>2, <2>3 DEF PartSums, G!RangeAssumption
  <2>5. PICK j : j = k \div 10  OBVIOUS
  <2>6. j \in Nat /\ 10 * j <= k  BY <2>4, <2>5, Tenth
  <2>7. PICK z : z = k * d  OBVIOUS
  <2>8. z \in Nat /\ z <= 9 * k  BY <2>4, <2>7, DigitTimes
  <2>9. Step(x, i) = [n |-> j, micro |-> m + z]  BY <2>1, <2>2, <2>3, <2>5, <2>7
  <2>10. k = 0 => z = 0  BY <2>8, <2>4
  <2>11. m + z + 10 * j <= Second /\ m + z < Second /\ m + z \in Nat  BY <2>4, <2>6, <2>8, <2>10
  <2> QED  BY <2>6, <2>9, <2>11 DEF PartSums
<1>3. first \in PartSums
  <2>1. Second \in Nat \ {0}  BY DEF G!RangeAssumption
  <2>2. G!FirstWeight \in Nat /\ 10 * G!FirstWeight <= Second  BY <2>1, Tenth DEF G!FirstWeight
  <2> QED  BY <2>1, <2>2 DEF PartSums
<1>4. F \in [(1 .. Len(ds)) \X PartSums -> PartSums]
  <2> HIDE DEF Step
  <2> QED  BY <1>2
<1>5. \A i \in 1 .. Len(ds), x \in PartSums : F[<<i, x>>] = Step(x, i)
  <2> HIDE DEF Step
  <2> QED  OBVIOUS
<1> HIDE DEF F, first
<1>6. PICK f : Rounds(f, Len(ds), first, F)  BY <1>1, RoundsMade
<1>7. \A i \in 0 .. Len(ds) : f[i] \in PartSums  BY <1>1, <1>3, <1>4, <1>6, RoundsTyped
<1>8. Sums(f)
  <2>1. DOMAIN f = 0 .. Len(ds) /\ f[0] = first  BY <1>6 DEF Rounds
  <2>2. ASSUME NEW i \in 1 .. Len(ds) PROVE f[i] = Step(f[i - 1], i)
    <3> HIDE DEF Step
    <3>1. f[i] = F[<<i, f[i - 1]>>]  BY <1>6 DEF Rounds
    <3>2. i - 1 \in 0 .. Len(ds)  BY <1>1
    <3> QED  BY <1>5, <1>7, <3>1, <3>2
  <2>3. ASSUME NEW i \in 0 .. Len(ds) PROVE f[i] = IF i = 0 THEN first ELSE Step(f[i - 1], i)
    <3> HIDE DEF Step
    <3>1. i # 0 => i \in 1 .. Len(ds)  BY <1>1
    <3> QED  BY <2>1, <2>2, <3>1
  <2>4. f = [i \in 0 .. Len(ds) |-> f[i]]
    <3>1. f = [i \in DOMAIN f |-> f[i]]  BY <1>6 DEF Rounds
    <3> QED  BY <2>1, <3>1
  <2>5. f = [i \in 0 .. Len(ds) |-> IF i = 0 THEN first ELSE Step(f[i - 1], i)]
    <3> HIDE DEF Step
    <3> QED  BY <2>3, <2>4
  <2> QED  BY <2>5
<1>9. Sums(made)
  <2> HIDE DEF Sums
  <2> QED  BY <1>8
<1>10. G!Parts(ds) = made[Len(ds)].micro  BY DEF G!Parts, first
<1> HIDE DEF made
<1>11. \A i \in 0 .. Len(ds) : made[i] = IF i = 0 THEN first ELSE Step(made[i - 1], i)  BY <1>9
<1> HIDE DEF Step
<1> DEFINE T == {i \in 0 .. Len(ds) : made[i] \in PartSums}
<1>12. 0 \in T  BY <1>1, <1>3, <1>11
<1>13. ASSUME NEW i \in 0 .. Len(ds) - 1, i \in T PROVE i + 1 \in T
  <2>1. i + 1 \in 1 .. Len(ds) /\ i + 1 \in 0 .. Len(ds) /\ i + 1 # 0 /\ (i + 1) - 1 = i  BY <1>1
  <2>2. made[i + 1] = Step(made[i], i + 1)  BY <1>11, <2>1
  <2>3. made[i] \in PartSums  BY <1>13
  <2> QED  BY <1>2, <2>1, <2>2, <2>3
<1>14. \A i \in 0 .. Len(ds) : i \in T
  <2> HIDE DEF T
  <2> QED  BY <1>1, <1>12, <1>13, Counting
<1>15. made[Len(ds)] \in PartSums  BY <1>1, <1>14
<1>16. made[Len(ds)].micro \in 0 .. Second - 1
  <2>1. PICK x : x = made[Len(ds)]  OBVIOUS
  <2>2. x.micro \in Nat /\ x.micro < Second /\ Second \in Nat
    BY <1>15, <2>1 DEF PartSums, G!RangeAssumption
  <2> QED  BY <2>1, <2>2
<1> QED  BY <1>10, <1>16

\* date_get_num, and one field of av_small_strptime after another.
LEMMA NumberRead ==
  ASSUME NEW s \in TimeText, NEW max \in Nat, NEW len \in Nat, G!DateGetNum(s, max, len).ok
  PROVE  G!DateGetNum(s, max, len).val \in Nat /\ G!DateGetNum(s, max, len).rest \in TimeText
<1> DEFINE k == G!Smaller(G!SpanDigits(s), len)
           v == G!NumberOf(SubSeq(s, 1, k))
<1>1. s \in Seq(TimeChars)  BY DEF TimeText
<1>2. G!SpanDigits(s) \in Nat  BY <1>1, DigitsSpan
<1>3. k \in 0 .. G!SpanDigits(s)  BY <1>2 DEF G!Smaller
<1>4. G!DateGetNum(s, max, len) =
        IF k = 0 \/ v > max THEN G!Fail ELSE [ok |-> TRUE, val |-> v, rest |-> G!From(s, k)]
  BY DEF G!DateGetNum
<1> HIDE DEF k
<1>5. SubSeq(s, 1, k) \in Seq(G!Digits)  BY <1>1, <1>3, DigitsSpan
<1>6. v \in Nat  BY <1>5, NumberIs
<1>7. k \in Nat  BY <1>2, <1>3
<1>8. G!From(s, k) \in Seq(TimeChars)  BY <1>1, <1>7, RestOfTime
<1> HIDE DEF v
<1>9. ~(k = 0 \/ v > max)  BY <1>4 DEF G!Fail
<1> QED  BY <1>4, <1>6, <1>8, <1>9 DEF TimeText

\* After a field: the round of the loop in SmallStrptime, and what is known of its result.
FieldRead(fields, last, i) ==
  LET colon == i > 1
      num   == G!DateGetNum(IF colon THEN Tail(last.rest) ELSE last.rest,
                            G!Limit(fields[i]), G!Length(fields[i]))
  IN IF ~last.ok \/ (colon /\ ~G!StartsWith(last.rest, ":")) \/ ~num.ok THEN G!Fail
     ELSE [ok |-> TRUE, val |-> Append(last.val, num.val), rest |-> num.rest]
FieldsRead(r, i) == r.ok => r.val \in Seq(Nat) /\ Len(r.val) = i /\ r.rest \in TimeText

LEMMA FieldIsRead ==
  ASSUME NEW fields, NEW last, NEW i \in Nat \ {0}, FieldsRead(last, i - 1)
  PROVE  FieldsRead(FieldRead(fields, last, i), i)
<1> DEFINE x == IF i > 1 THEN Tail(last.rest) ELSE last.rest
           max == G!Limit(fields[i])
           len == G!Length(fields[i])
           num == G!DateGetNum(x, max, len)
<1>1. FieldRead(fields, last, i) =
        IF ~last.ok \/ (i > 1 /\ ~G!StartsWith(last.rest, ":")) \/ ~num.ok THEN G!Fail
        ELSE [ok |-> TRUE, val |-> Append(last.val, num.val), rest |-> num.rest]
  BY DEF FieldRead
<1>2. max \in Nat /\ len \in Nat  BY DEF G!Limit, G!Length
<1> HIDE DEF max, len
<1>3. CASE ~last.ok \/ (i > 1 /\ ~G!StartsWith(last.rest, ":")) \/ ~num.ok
  <2> HIDE DEF num
  <2> QED  BY <1>1, <1>3 DEF FieldsRead, G!Fail
<1>4. CASE ~(~last.ok \/ (i > 1 /\ ~G!StartsWith(last.rest, ":")) \/ ~num.ok)
  <2>1. last.ok /\ num.ok /\ (i > 1 => G!StartsWith(last.rest, ":"))  BY <1>4
  <2>2. last.val \in Seq(Nat) /\ Len(last.val) = i - 1 /\ last.rest \in TimeText
    BY <2>1 DEF FieldsRead
  <2>3. x \in TimeText
    <3>1. CASE i > 1
      <4>1. last.rest # <<>>  BY <2>1, <3>1 DEF G!StartsWith
      <4>2. Tail(last.rest) \in Seq(TimeChars)  BY <2>2, <4>1, RestOfTail DEF TimeText
      <4> QED  BY <3>1, <4>2 DEF TimeText
    <3>2. CASE ~(i > 1)  BY <2>2, <3>2
    <3> QED  BY <3>1, <3>2
  <2> HIDE DEF x
  <2>4. num.val \in Nat /\ num.rest \in TimeText  BY <1>2, <2>1, <2>3, NumberRead
  <2> HIDE DEF num
  <2>5. Append(last.val, num.val) \in Seq(Nat) /\ Len(Append(last.val, num.val)) = i
    <3>1. PICK a : a = last.val  OBVIOUS
    <3>2. PICK b : b = num.val  OBVIOUS
    <3>3. Append(a, b) \in Seq(Nat) /\ Len(Append(a, b)) = Len(a) + 1
      BY <2>2, <2>4, <3>1, <3>2
    <3>4. Len(a) = i - 1  BY <2>2, <3>1
    <3> QED  BY <3>1, <3>2, <3>3, <3>4
  <2>6. FieldRead(fields, last, i) =
          [ok |-> TRUE, val |-> Append(last.val, num.val), rest |-> num.rest]
    BY <1>1, <2>1
  <2> QED  BY <2>4, <2>5, <2>6 DEF FieldsRead
<1> QED  BY <1>3, <1>4

LEMMA ClockRead ==
  ASSUME NEW s \in TimeText, NEW fields, Len(fields) \in {2, 3}
  PROVE  FieldsRead(G!SmallStrptime(s, fields), Len(fields))
<1> DEFINE first == [ok |-> TRUE, val |-> <<>>, rest |-> s]
           Reads(f) == f = [i \in 0 .. Len(fields) |->
              IF i = 0 THEN [ok |-> TRUE, val |-> <<>>, rest |-> s]
              ELSE LET last  == f[i - 1]
                       colon == i > 1
                       num   == G!DateGetNum(IF colon THEN Tail(last.rest) ELSE last.rest,
                                             G!Limit(fields[i]), G!Length(fields[i]))
                   IN IF ~last.ok \/ (colon /\ ~G!StartsWith(last.rest, ":")) \/ ~num.ok THEN G!Fail
                      ELSE [ok |-> TRUE, val |-> Append(last.val, num.val), rest |-> num.rest]]
           Is(f) == f = [i \in 0 .. Len(fields) |->
                           IF i = 0 THEN first ELSE FieldRead(fields, f[i - 1], i)]
           r1 == FieldRead(fields, first, 1)
           r2 == FieldRead(fields, r1, 2)
           r3 == FieldRead(fields, r2, 3)
           g == [i \in 0 .. Len(fields) |-> IF i = 0 THEN first ELSE IF i = 1 THEN r1
                                            ELSE IF i = 2 THEN r2 ELSE r3]
           made == CHOOSE f : Reads(f)
<1>1. \A f : Reads(f) <=> Is(f)  BY DEF FieldRead
<1>2. Is(g)
  <2> HIDE DEF first
  <2>1. ASSUME NEW i \in 0 .. Len(fields)
        PROVE  g[i] = IF i = 0 THEN first ELSE FieldRead(fields, g[i - 1], i)
    <3>1. i \in {0, 1, 2, 3}
      <4>1. PICK k \in {2, 3} : k = Len(fields)  OBVIOUS
      <4>2. i \in 0 .. k  BY <4>1
      <4> QED  BY <4>2
    <3> HIDE DEF r1, r2, r3
    <3>2. CASE i = 0  BY <3>2
    <3>3. CASE i = 1
      <4>1. g[1] = r1 /\ g[0] = first  BY <3>3
      <4> QED  BY <3>3, <4>1 DEF r1
    <3>4. CASE i = 2
      <4>1. g[2] = r2 /\ g[1] = r1  BY <3>4
      <4> QED  BY <3>4, <4>1 DEF r2
    <3>5. CASE i = 3
      <4>1. g[3] = r3 /\ g[2] = r2  BY <3>5
      <4> QED  BY <3>5, <4>1 DEF r3
    <3> QED  BY <3>1, <3>2, <3>3, <3>4, <3>5
  <2>2. g = [i \in 0 .. Len(fields) |-> g[i]]  OBVIOUS
  <2> HIDE DEF g
  <2> QED  BY <2>1, <2>2
<1>3. Is(made)
  <2> HIDE DEF Is, g
  <2>1. Reads(g)  BY <1>1, <1>2
  <2>2. Reads(made)
    <3> HIDE DEF Reads
    <3> QED  BY <2>1
  <2> HIDE DEF Reads, made
  <2> QED  BY <1>1, <2>2
<1>4. G!SmallStrptime(s, fields) = made[Len(fields)]  BY DEF G!SmallStrptime
<1> HIDE DEF made, first
<1>5. \A i \in 0 .. Len(fields) : made[i] = IF i = 0 THEN first ELSE FieldRead(fields, made[i - 1], i)
  BY <1>3
<1>6. FieldsRead(made[0], 0)
  <2>1. made[0] = first  BY <1>5
  <2>2. <<>> \in Seq(Nat) /\ Len(<<>>) = 0  OBVIOUS
  <2> QED  BY <2>1, <2>2 DEF FieldsRead, first
<1>7. FieldsRead(made[1], 1)
  <2>1. made[1] = FieldRead(fields, made[0], 1)
    <3>1. 1 \in 0 .. Len(fields) /\ 1 - 1 = 0  OBVIOUS
    <3> QED  BY <1>5, <3>1
  <2>2. FieldsRead(made[0], 1 - 1)  BY <1>6
  <2> QED  BY <2>1, <2>2, FieldIsRead
<1>8. FieldsRead(made[2], 2)
  <2>1. made[2] = FieldRead(fields, made[1], 2)
    <3>1. 2 \in 0 .. Len(fields) /\ 2 - 1 = 1  OBVIOUS
    <3> QED  BY <1>5, <3>1
  <2>2. FieldsRead(made[1], 2 - 1)  BY <1>7
  <2> QED  BY <2>1, <2>2, FieldIsRead
<1>9. Len(fields) = 3 => FieldsRead(made[3], 3)
  <2> SUFFICES ASSUME Len(fields) = 3 PROVE FieldsRead(made[3], 3)  OBVIOUS
  <2>1. made[3] = FieldRead(fields, made[2], 3)
    <3>1. 3 \in 0 .. Len(fields) /\ 3 - 1 = 2  OBVIOUS
    <3> QED  BY <1>5, <3>1
  <2>2. FieldsRead(made[2], 3 - 1)  BY <1>8
  <2> QED  BY <2>1, <2>2, FieldIsRead
<1> QED  BY <1>4, <1>8, <1>9

\* What a client writes is a text.
LEMMA FlattenedTimes ==
  ASSUME NEW S, NEW ss \in Seq(Seq(S))
  PROVE  G!FlattenSeq(ss) \in Seq(S)
<1>1. G!FlattenSeq(ss) = H!FlattenSeq(ss)  BY DEF G!FlattenSeq, H!FlattenSeq
<1> QED  BY <1>1, FlattenedTexts

LEMMA WrittenTime ==
  ASSUME G!RangeAssumption, NEW x \in G!Times
  PROVE  G!Text(x) \in TimeText
<1> DEFINE cs == [i \in DOMAIN x.clock |-> (IF i = 1 THEN <<>> ELSE <<":">>) \o x.clock[i]]
<1>1. /\ x.clock \in Seq(Seq(TimeChars)) /\ x.fraction \in Seq(TimeChars) /\ x.unit \in Seq(TimeChars)
      /\ x.junk \in Seq(TimeChars) /\ ":" \in TimeChars
  BY DEF G!Times, G!RangeAssumption
<1>2. DOMAIN x.clock = 1 .. Len(x.clock) /\ Len(x.clock) \in Nat  BY <1>1
<1>3. ASSUME NEW i \in DOMAIN x.clock PROVE cs[i] \in Seq(TimeChars)
  <2>1. PICK a : a = IF i = 1 THEN <<>> ELSE <<":">>  OBVIOUS
  <2>2. PICK c : c = x.clock[i]  OBVIOUS
  <2>3. a \in Seq(TimeChars)
    <3>1. <<>> \in Seq(TimeChars) /\ <<":">> \in Seq(TimeChars)  BY <1>1
    <3> QED  BY <2>1, <3>1
  <2>4. c \in Seq(TimeChars)  BY <1>1, <1>2, <2>2
  <2>5. a \o c \in Seq(TimeChars)  BY <2>3, <2>4
  <2>6. cs[i] = a \o c  BY <2>1, <2>2
  <2> QED  BY <2>5, <2>6
<1>4. cs \in Seq(Seq(TimeChars))
  <2>1. DOMAIN cs = DOMAIN x.clock /\ cs = [i \in DOMAIN x.clock |-> cs[i]]  OBVIOUS
  <2> HIDE DEF cs
  <2>2. cs \in [1 .. Len(x.clock) -> Seq(TimeChars)]  BY <1>2, <1>3, <2>1
  <2> QED  BY <1>2, <2>2
<1>5. G!Text(x) = ((G!FlattenSeq(cs) \o x.fraction) \o x.unit) \o x.junk  BY DEF G!Text
<1> HIDE DEF cs
<1>6. PICK a : a = G!FlattenSeq(cs)  OBVIOUS
<1>7. a \in Seq(TimeChars)  BY <1>4, <1>6, FlattenedTimes
<1>8. \A y, z \in Seq(TimeChars) : y \o z \in Seq(TimeChars)  OBVIOUS
<1>9. PICK b, c, d : b = x.fraction /\ c = x.unit /\ d = x.junk  OBVIOUS
<1>10. b \in Seq(TimeChars) /\ c \in Seq(TimeChars) /\ d \in Seq(TimeChars)  BY <1>1, <1>9
<1>11. a \o b \in Seq(TimeChars)  BY <1>7, <1>8, <1>10
<1>12. (a \o b) \o c \in Seq(TimeChars)  BY <1>8, <1>10, <1>11
<1>13. ((a \o b) \o c) \o d \in Seq(TimeChars)  BY <1>8, <1>10, <1>12
<1> QED  BY <1>5, <1>6, <1>9, <1>13 DEF TimeText

LEMMA WrittenTimes ==
  ASSUME G!RangeAssumption, NEW a \in TimeStarts, NEW b \in TimeEnds
  PROVE  G!TextOf(a, b) \in TimeText
<1>1. PICK x : x = G!Text(a)  OBVIOUS
<1>2. PICK y : y = IF b = NoTime THEN <<>> ELSE <<"-">> \o G!Text(b)  OBVIOUS
<1>3. x \in Seq(TimeChars)
  <2>1. a \in G!Times  BY DEF G!RangeAssumption
  <2> QED  BY <1>1, <2>1, WrittenTime DEF TimeText
<1>4. y \in Seq(TimeChars)
  <2>1. CASE b = NoTime
    <3>1. <<>> \in Seq(TimeChars)  OBVIOUS
    <3> QED  BY <1>2, <2>1, <3>1
  <2>2. CASE b # NoTime
    <3>1. b \in G!Times  BY <2>2 DEF G!RangeAssumption
    <3>2. PICK z : z = G!Text(b)  OBVIOUS
    <3>3. z \in Seq(TimeChars)  BY <3>1, <3>2, WrittenTime DEF TimeText
    <3>4. "-" \in TimeChars  BY DEF G!RangeAssumption
    <3>5. <<"-">> \in Seq(TimeChars)  BY <3>4
    <3>6. <<"-">> \o z \in Seq(TimeChars)  BY <3>3, <3>5
    <3> QED  BY <1>2, <2>2, <3>2, <3>6
  <2> QED  BY <2>1, <2>2
<1>5. x \o y \in Seq(TimeChars)  BY <1>3, <1>4
<1>6. G!TextOf(a, b) = x \o y  BY <1>1, <1>2 DEF G!TextOf
<1> QED  BY <1>5, <1>6 DEF TimeText

\* A time that is a number of milliseconds has no more parts than one of seconds.
LEMMA PartsOfMilli ==
  ASSUME G!RangeAssumption, NEW m \in 0 .. Second - 1
  PROVE  m \div (Second \div Milli) \in 0 .. Second - 1
<1>1. PICK q : q = Second \div Milli  OBVIOUS
<1>2. q \in Nat /\ q # 0
  <2>1. Second \in Nat /\ Milli \in Nat /\ Milli # 0 /\ Second # 0 /\ Second % Milli = 0
    BY DEF G!RangeAssumption
  <2>2. q \in Nat  BY <1>1, <2>1
  <2>3. Second = (Milli * q) + (Second % Milli)  BY <1>1, <2>1
  <2>4. q = 0 => Milli * q = 0  BY <2>1
  <2> QED  BY <2>1, <2>2, <2>3, <2>4
<1>3. PICK r : r = m \div q  OBVIOUS
<1>4. Second \in Nat /\ m \in Nat /\ m < Second  BY DEF G!RangeAssumption
<1>5. r \in Nat /\ r <= m  BY <1>2, <1>3, <1>4
<1> QED  BY <1>1, <1>3, <1>4, <1>5

\* A time in parts that is allowed fits its integer.
LEMMA TimeFits ==
  ASSUME NEW x \in Nat, NEW u \in Nat, NEW m \in Nat, Max64 \in Nat, x * u <= Max64 - m
  PROVE  x * u + m \in 0 .. Max64
<1>1. PICK z : z = x * u  OBVIOUS
<1>2. z \in Nat  BY <1>1
<1>3. z <= Max64 - m  BY <1>1
<1> QED  BY <1>1, <1>2, <1>3

\* What is parsed: a time of which get_word_sep has cut the minus off is not negative.
RInv ==
  /\ \A v \in {rangeStart, rangeEnd} : v = G!NoValue \/ v \in 0 .. Max64
  /\ rangePart \in {"start", "end"}
  /\ rangePc \in {"idle", "clock", "seconds", "fraction", "suffix", "end", "next", "fail", "done"}
  /\ seconds \in Nat /\ micro \in 0 .. Second - 1 /\ timeUnit \in {Second, Milli, 1}
  /\ negative = FALSE
  /\ rangeText \in TimeText /\ rangeRest \in TimeText
  /\ rangePc = "clock" => ~G!StartsWith(rangeRest, "-")

LEMMA WordNoMinus ==
  ASSUME NEW s \in TimeText
  PROVE  G!Word(s) \in TimeText /\ ~G!StartsWith(G!Word(s), "-")
<1>1. PICK w : w = G!Word(s)  OBVIOUS
<1>2. w \in Seq(TimeChars) /\ \A i \in 1 .. Len(w) : w[i] # "-"  BY <1>1, WordIs DEF TimeText
<1>3. ~G!StartsWith(w, "-")
  <2> SUFFICES ASSUME w # <<>> PROVE Head(w) # "-"  BY DEF G!StartsWith
  <2>1. Len(w) \in Nat \ {0} /\ Head(w) = w[1]  BY <1>2, RestOfTail
  <2> QED  BY <1>2, <2>1
<1> QED  BY <1>1, <1>2, <1>3 DEF TimeText

LEMMA RangeStep ==
  ASSUME G!RangeAssumption, RInv, [G!Next]_(G!vars)
  PROVE  RInv'
<1> USE DEF G!timeVars
<1>0. /\ Second \in Nat \ {0} /\ Milli \in Nat /\ Max64 \in Nat /\ micro \in Nat
      /\ rangeText \in Seq(TimeChars) /\ rangeRest \in Seq(TimeChars)
  BY DEF G!RangeAssumption, RInv, TimeText
<1>1. ASSUME G!Receive PROVE RInv'
  <2>1. PICK a \in TimeStarts, b \in TimeEnds : rangeText' = G!TextOf(a, b)  BY <1>1 DEF G!Receive
  <2>2. rangeText' \in TimeText  BY <2>1, WrittenTimes
  <2>3. rangeRest' = G!Word(rangeText')  BY <1>1 DEF G!Receive
  <2>4. rangeRest' \in TimeText /\ ~G!StartsWith(rangeRest', "-")  BY <2>2, <2>3, WordNoMinus
  <2>5. /\ rangeStart' = G!NoValue /\ rangeEnd' = G!NoValue /\ rangePart' = "start" /\ rangePc' = "clock"
        /\ seconds' = seconds /\ micro' = micro /\ timeUnit' = timeUnit /\ negative' = negative
    BY <1>1 DEF G!Receive
  <2>6. G!NoValue' = G!NoValue  BY DEF G!NoValue
  <2> QED  BY <2>2, <2>4, <2>5, <2>6 DEF RInv
<1>2. ASSUME G!Clock PROVE RInv'
  <2> DEFINE q   == IF negative' THEN Tail(rangeRest) ELSE rangeRest
             hms == G!SmallStrptime(q, <<"J", "M", "S">>)
             ms  == G!SmallStrptime(q, <<"M", "S">>)
  <2>1. /\ rangePc = "clock" /\ negative' = G!StartsWith(rangeRest, "-")
        /\ micro' = 0 /\ timeUnit' = Second
        /\ rangeStart' = rangeStart /\ rangeEnd' = rangeEnd /\ rangePart' = rangePart
        /\ rangeText' = rangeText
        /\ \/ /\ hms.ok
              /\ seconds' = hms.val[1] * 3600 + hms.val[2] * 60 + hms.val[3]
              /\ rangeRest' = hms.rest /\ rangePc' = "fraction"
           \/ /\ ms.ok
              /\ seconds' = ms.val[1] * 60 + ms.val[2] /\ rangeRest' = ms.rest /\ rangePc' = "fraction"
           \/ /\ rangeRest' = q /\ rangePc' = "seconds" /\ seconds' = seconds
    BY <1>2 DEF G!Clock, G!Fresh
  <2>2. negative' = FALSE /\ q = rangeRest  BY <2>1 DEF RInv
  <2>3. q \in TimeText  BY <2>2 DEF RInv
  <2> HIDE DEF q
  <2>4. FieldsRead(hms, 3)
    <3>1. Len(<<"J", "M", "S">>) = 3  OBVIOUS
    <3>2. PICK fs : fs = <<"J", "M", "S">>  OBVIOUS
    <3>3. Len(fs) = 3  BY <3>1, <3>2
    <3>5. Len(fs) \in {2, 3}  BY <3>3
    <3>6. PICK s : s = q  OBVIOUS
    <3>7. s \in TimeText  BY <2>3, <3>6
    <3>8. FieldsRead(G!SmallStrptime(s, fs), Len(fs))  BY <3>5, <3>7, ClockRead
    <3>4. FieldsRead(G!SmallStrptime(q, fs), Len(fs))  BY <3>6, <3>8
    <3> QED  BY <3>2, <3>3, <3>4
  <2>5. FieldsRead(ms, 2)
    <3>1. Len(<<"M", "S">>) = 2  OBVIOUS
    <3>2. PICK fs : fs = <<"M", "S">>  OBVIOUS
    <3>3. Len(fs) = 2  BY <3>1, <3>2
    <3>5. Len(fs) \in {2, 3}  BY <3>3
    <3>6. PICK s : s = q  OBVIOUS
    <3>7. s \in TimeText  BY <2>3, <3>6
    <3>8. FieldsRead(G!SmallStrptime(s, fs), Len(fs))  BY <3>5, <3>7, ClockRead
    <3>4. FieldsRead(G!SmallStrptime(q, fs), Len(fs))  BY <3>6, <3>8
    <3> QED  BY <3>2, <3>3, <3>4
  <2> HIDE DEF hms, ms
  <2>6. hms.ok => /\ hms.val[1] \in Nat /\ hms.val[2] \in Nat /\ hms.val[3] \in Nat
                  /\ hms.rest \in TimeText
    BY <2>4 DEF FieldsRead
  <2>7. ms.ok => ms.val[1] \in Nat /\ ms.val[2] \in Nat /\ ms.rest \in TimeText
    BY <2>5 DEF FieldsRead
  <2>8. seconds' \in Nat /\ rangeRest' \in TimeText /\ rangePc' \in {"fraction", "seconds"}
    BY <2>1, <2>3, <2>6, <2>7 DEF RInv
  <2>9. micro' \in 0 .. Second - 1  BY <1>0, <2>1
  <2> QED  BY <2>1, <2>2, <2>8, <2>9 DEF RInv, G!NoValue
<1>3. ASSUME G!Seconds PROVE RInv'
  <2>1. PICK k : k = G!SpanDigits(rangeRest)  OBVIOUS
  <2>2. k \in Nat /\ SubSeq(rangeRest, 1, k) \in Seq(G!Digits)  BY <1>0, <2>1, DigitsSpan
  <2>3. G!NumberOf(SubSeq(rangeRest, 1, k)) \in Nat  BY <2>2, NumberIs
  <2>4. G!From(rangeRest, k) \in TimeText  BY <1>0, <2>2, RestOfTime DEF TimeText
  <2>5. /\ seconds' \in {seconds, G!NumberOf(SubSeq(rangeRest, 1, k))}
        /\ rangeRest' \in {rangeRest, G!From(rangeRest, k)}
        /\ rangePc' \in {"fail", "fraction"}
        /\ rangeStart' = rangeStart /\ rangeEnd' = rangeEnd /\ rangePart' = rangePart
        /\ rangeText' = rangeText /\ micro' = micro /\ timeUnit' = timeUnit /\ negative' = negative
    BY <1>3, <2>1 DEF G!Seconds
  <2> QED  BY <2>3, <2>4, <2>5 DEF RInv, G!NoValue
<1>4. ASSUME G!Fraction PROVE RInv'
  <2>1. /\ rangePc' = "suffix" /\ seconds' = seconds
        /\ rangeStart' = rangeStart /\ rangeEnd' = rangeEnd /\ rangePart' = rangePart
        /\ rangeText' = rangeText /\ timeUnit' = timeUnit /\ negative' = negative
    BY <1>4 DEF G!Fraction
  <2>2. micro' \in 0 .. Second - 1 /\ rangeRest' \in TimeText
    <3>1. CASE G!StartsWith(rangeRest, G!Point)
      <4>1. rangeRest # <<>>  BY <3>1 DEF G!StartsWith
      <4>2. PICK s : s = Tail(rangeRest)  OBVIOUS
      <4>3. s \in Seq(TimeChars)  BY <1>0, <4>1, <4>2, RestOfTail
      <4>4. PICK ds : ds = SubSeq(s, 1, G!SpanDigits(s))  OBVIOUS
      <4>5. ds \in Seq(G!Digits) /\ Len(ds) \in Nat
        <5>1. G!SpanDigits(s) \in Nat /\ G!SpanDigits(s) \in 0 .. G!SpanDigits(s)  BY <4>3, DigitsSpan
        <5>2. ds \in Seq(G!Digits)  BY <4>3, <4>4, <5>1, DigitsSpan
        <5> QED  BY <5>2
      <4>6. micro' = G!Parts(ds) /\ rangeRest' = G!From(rangeRest, 1 + Len(ds))
        BY <1>4, <3>1, <4>2, <4>4 DEF G!Fraction
      <4>7. micro' \in 0 .. Second - 1  BY <4>5, <4>6, PartsFit
      <4>8. 1 + Len(ds) \in Nat  BY <4>5
      <4>9. rangeRest' \in TimeText  BY <1>0, <4>6, <4>8, RestOfTime DEF TimeText
      <4> QED  BY <4>7, <4>9
    <3>2. CASE ~G!StartsWith(rangeRest, G!Point)
      <4>1. micro' = micro /\ rangeRest' = rangeRest  BY <1>4, <3>2 DEF G!Fraction
      <4> QED  BY <4>1 DEF RInv
    <3> QED  BY <3>1, <3>2
  <2> QED  BY <2>1, <2>2 DEF RInv, G!NoValue
<1>5. ASSUME G!Suffix PROVE RInv'
  <2>1. /\ rangePc' = "end" /\ seconds' = seconds
        /\ rangeStart' = rangeStart /\ rangeEnd' = rangeEnd /\ rangePart' = rangePart
        /\ rangeText' = rangeText /\ negative' = negative
        /\ \/ /\ timeUnit' = Milli /\ micro' = micro \div (Second \div Milli)
              /\ rangeRest' = G!From(rangeRest, 2)
           \/ timeUnit' = 1 /\ micro' = 0 /\ rangeRest' = G!From(rangeRest, 2)
           \/ G!StartsWith(rangeRest, "s") /\ rangeRest' = Tail(rangeRest) /\ timeUnit' = timeUnit /\ micro' = micro
           \/ timeUnit' = timeUnit /\ micro' = micro /\ rangeRest' = rangeRest
    BY <1>5 DEF G!Suffix
  <2>2. G!From(rangeRest, 2) \in TimeText  BY <1>0, RestOfTime DEF TimeText
  <2>3. G!StartsWith(rangeRest, "s") => Tail(rangeRest) \in TimeText
    <3>1. rangeRest # <<>> => Tail(rangeRest) \in Seq(TimeChars)  BY <1>0, RestOfTail
    <3> QED  BY <3>1 DEF G!StartsWith, TimeText
  <2>4. micro \div (Second \div Milli) \in 0 .. Second - 1  BY PartsOfMilli DEF RInv
  <2>5. 0 \in 0 .. Second - 1  BY <1>0
  <2>6. micro' \in 0 .. Second - 1 /\ rangeRest' \in TimeText /\ timeUnit' \in {Second, Milli, 1}
    BY <2>1, <2>2, <2>3, <2>4, <2>5 DEF RInv
  <2> QED  BY <2>1, <2>6 DEF RInv, G!NoValue
<1>6. ASSUME G!EndTime PROVE RInv'
  <2>1. /\ rangePc' \in {"next", "fail"}
        /\ rangePart' = rangePart /\ rangeText' = rangeText /\ rangeRest' = rangeRest
        /\ seconds' = seconds /\ micro' = micro /\ timeUnit' = timeUnit /\ negative' = negative
    BY <1>6 DEF G!EndTime
  <2>2. \/ rangeStart' = rangeStart /\ rangeEnd' = rangeEnd
        \/ G!InRange /\ rangeStart' = G!Value /\ rangeEnd' = rangeEnd
        \/ G!InRange /\ rangeStart' = rangeStart /\ rangeEnd' = G!Value
    BY <1>6 DEF G!EndTime, G!Store
  <2>3. G!InRange => G!Value \in 0 .. Max64
    <3> SUFFICES ASSUME G!InRange PROVE G!Value \in 0 .. Max64  OBVIOUS
    <3>1. seconds * timeUnit <= Max64 - micro  BY DEF G!InRange
    <3>2. seconds \in Nat /\ timeUnit \in Nat  BY <1>0 DEF RInv
    <3>3. seconds * timeUnit + micro \in 0 .. Max64  BY <1>0, <3>1, <3>2, TimeFits
    <3>4. G!Value = seconds * timeUnit + micro  BY DEF G!Value, RInv
    <3> QED  BY <3>3, <3>4
  <2> QED  BY <2>1, <2>2, <2>3 DEF RInv, G!NoValue
<1>7. ASSUME G!NextPart PROVE RInv'
  <2>1. PICK rest : rest = G!From(rangeText, Len(G!Word(rangeText)))  OBVIOUS
  <2>2. /\ rangeStart' = rangeStart /\ rangeEnd' = rangeEnd /\ rangeText' = rangeText
        /\ seconds' = seconds /\ micro' = micro /\ timeUnit' = timeUnit /\ negative' = negative
        /\ \/ /\ G!StartsWith(rest, "-") /\ rangePart' = "end" /\ rangeRest' = G!Word(Tail(rest))
              /\ rangePc' = "clock"
           \/ rangePc' = "done" /\ rangePart' = rangePart /\ rangeRest' = rangeRest
    BY <1>7, <2>1 DEF G!NextPart
  <2>3. rest \in Seq(TimeChars)
    <3>1. Len(G!Word(rangeText)) \in Nat
      <4>1. G!Word(rangeText) \in Seq(TimeChars)  BY <1>0, WordIs
      <4> QED  BY <4>1
    <3> QED  BY <1>0, <2>1, <3>1, RestOfTime
  <2>4. G!StartsWith(rest, "-") => /\ G!Word(Tail(rest)) \in TimeText
                                   /\ ~G!StartsWith(G!Word(Tail(rest)), "-")
    <3> SUFFICES ASSUME rest # <<>>
                 PROVE  G!Word(Tail(rest)) \in TimeText /\ ~G!StartsWith(G!Word(Tail(rest)), "-")
      BY DEF G!StartsWith
    <3>1. Tail(rest) \in TimeText  BY <2>3, RestOfTail DEF TimeText
    <3> QED  BY <3>1, WordNoMinus
  <2>5. CASE rangePc' = "done" /\ rangePart' = rangePart /\ rangeRest' = rangeRest
    BY <2>2, <2>5 DEF RInv, G!NoValue
  <2>6. CASE /\ G!StartsWith(rest, "-") /\ rangePart' = "end" /\ rangeRest' = G!Word(Tail(rest))
             /\ rangePc' = "clock"
    <3>1. rangeRest' \in TimeText /\ ~G!StartsWith(rangeRest', "-")  BY <2>4, <2>6
    <3> QED  BY <2>2, <2>6, <3>1 DEF RInv, G!NoValue
  <2> QED  BY <2>2, <2>5, <2>6
<1>8. ASSUME G!Failed PROVE RInv'
  BY <1>8 DEF G!Failed, RInv, G!NoValue
<1>9. ASSUME UNCHANGED G!vars PROVE RInv'
  BY <1>9 DEF G!vars, RInv, G!NoValue, G!StartsWith
<1> QED  BY <1>1, <1>2, <1>3, <1>4, <1>5, <1>6, <1>7, <1>8, <1>9 DEF G!Next

\* What a Range header gives is no value, or fits its integer, on every text; a fraction
\* stays below a second whatever digits it has (ffutils.cpp:540-550, 600-606).
THEOREM TimesFit == HeaderSpec => []G!TypeOK
<1>1. G!Init => RInv
  <2> SUFFICES ASSUME G!Init PROVE RInv  OBVIOUS
  <2>1. <<>> \in TimeText  BY DEF TimeText
  <2>2. 0 \in 0 .. Second - 1  BY HeaderAssumption DEF G!RangeAssumption
  <2> QED  BY <2>1, <2>2 DEF G!Init, RInv
<1>2. RInv /\ [G!Next]_(G!vars) => RInv'  BY RangeStep, HeaderAssumption
<1>3. RInv => G!TypeOK  BY DEF RInv, G!TypeOK
<1> QED  BY <1>1, <1>2, <1>3, EachHeader, PTL DEF G!Spec
=============================================================================
