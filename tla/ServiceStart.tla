---------------------------- MODULE ServiceStart ----------------------------
(***************************************************************************)
(* How the server of the TestIOCPServer program is started and stopped:    *)
(* StartService, InitSocket and StopService of CTcpIOCPServerImp           *)
(* (TcpIOCPServerImp.cpp), any step of which may fail, and the button of   *)
(* the dialog, which makes a new server for each start and does not look   *)
(* at StartService's result (TestIOCPServerDlg.cpp).  What the threads do  *)
(* in between is TcpIOCPServer's, but that a thread may wait for the       *)
(* dialog's in SetDlgItemInt.  The process has few handle numbers, and the *)
(* system gives one that was closed out again.                             *)
(***************************************************************************)
EXTENDS Integers, FiniteSets

CONSTANTS
  Handles,    (* handle numbers, of sockets too                            *)
  Null,       (* no handle: NULL, 0, INVALID_SOCKET                        *)
  N,          (* m_nThreadNums                                             *)
  MaxWait,    (* MAXIMUM_WAIT_OBJECTS: 64                                  *)
  MaxRounds   (* BOUND on the servers made                                 *)

ASSUME ServiceAssumption ==
  /\ Null \notin Handles
  /\ N \in Nat \ {0} /\ MaxWait \in Nat /\ MaxRounds \in Nat

Accept   == 0          \* the accept thread, and its place in m_pThreadHandle
Workers  == 1 .. N
AllThreads == 0 .. N
Free == "free"

VARIABLES
  acceptRunning, workRunning,   \* m_bAcceptRunning, m_bWorkRunning
  iocp, listen, event,          \* m_hIOCP, m_ListenSocket, m_hEvent
  thread,                       \* m_pThreadHandle
  owner,                        \* what each handle number stands for
  alive,                        \* the threads that run
  talking,                      \* those in SetDlgItemInt, until the dialog's thread answers
  kills,                        \* exit messages in the port
  pc, at,                       \* step of the dialog's thread, and the worker it makes
  running,                      \* m_bRunning of the dialog
  rounds,
  refused, short,               \* auxiliary: InitSocket failed; a worker is missing
  forgotten                     \* auxiliary: m_hEvent of the servers before this one

flagVars == <<acceptRunning, workRunning>>
dialogVars == <<running, rounds>>
auxVars == <<refused, short, forgotten>>
vars == <<flagVars, iocp, listen, event, thread, owner, alive, talking, kills, pc, at,
          dialogVars, auxVars>>

\* The system gives out a number that is free; a number is given back.
Open(h, what) == owner[h] = Free /\ owner' = [owner EXCEPT ![h] = what]
Closed(o, h)  == IF h = Null THEN o ELSE [o EXCEPT ![h] = Free]

----------------------------------------------------------------------------
(* StartService                                                            *)

\* The Start button makes a server; the last one is forgotten, and a thread of it that
\* still runs not followed.
StartClick ==
  /\ pc = "idle" /\ ~running /\ rounds < MaxRounds
  /\ rounds' = rounds + 1 /\ running' = TRUE
  /\ acceptRunning' = FALSE /\ workRunning' = FALSE
  /\ iocp' = Null /\ listen' = Null /\ event' = Null /\ thread' = [i \in AllThreads |-> Null]
  /\ alive' = {} /\ talking' = {} /\ at' = 1
  /\ forgotten' = forgotten \cup ({event} \ {Null})
  /\ refused' = FALSE /\ short' = (N > MaxWait)
  /\ pc' = "port"
  /\ UNCHANGED <<owner, kills>>

CreatePort ==
  /\ pc = "port"
  /\ \/ \E h \in Handles : Open(h, "port") /\ iocp' = h /\ pc' = "socket"
     \/ UNCHANGED <<owner, iocp>> /\ pc' = "idle"
  /\ UNCHANGED <<flagVars, listen, event, thread, alive, talking, kills, at, dialogVars, auxVars>>

\* The steps of InitSocket: each that fails closes what the ones before it made.
CreateSocket ==
  /\ pc = "socket"
  /\ \/ \E h \in Handles : Open(h, "listen") /\ listen' = h /\ pc' = "event" /\ UNCHANGED refused
     \/ UNCHANGED <<owner, listen>> /\ pc' = "refuse" /\ refused' = TRUE
  /\ UNCHANGED event

CreateEvent ==
  /\ pc = "event"
  /\ \/ /\ \E h \in Handles : Open(h, "event") /\ event' = h
        /\ pc' = "bind" /\ UNCHANGED <<listen, refused>>
     \/ /\ owner' = Closed(owner, listen) /\ listen' = Null
        /\ pc' = "refuse" /\ refused' = TRUE /\ UNCHANGED event

\* WSAEventSelect, bind and listen.
Bind ==
  /\ pc = "bind"
  /\ \/ pc' = "accept" /\ UNCHANGED <<owner, listen, event, refused>>
     \/ /\ owner' = Closed(Closed(owner, listen), event) /\ listen' = Null /\ event' = Null
        /\ pc' = "refuse" /\ refused' = TRUE

InitSocket ==
  /\ CreateSocket \/ CreateEvent \/ Bind
  /\ UNCHANGED <<flagVars, iocp, thread, alive, talking, kills, at, dialogVars, short, forgotten>>

\* The port is closed, and m_hIOCP keeps its number.
RefuseStart ==
  /\ pc = "refuse"
  /\ owner' = Closed(owner, iocp)
  /\ pc' = "idle"
  /\ UNCHANGED <<flagVars, iocp, listen, event, thread, alive, talking, kills, at, dialogVars, auxVars>>

\* _beginthreadex.
Kept(h)       == h
Begin(i) ==
  \/ \E h \in Handles : /\ Open(h, "thread")
                        /\ thread' = [thread EXCEPT ![i] = Kept(h)]
                        /\ alive' = alive \cup {i}
  \/ UNCHANGED <<owner, thread, alive>>

StartAccept ==
  /\ pc = "accept"
  /\ acceptRunning' = TRUE
  /\ Begin(Accept)
  /\ IF thread'[Accept] = Null
       THEN pc' = "idle" /\ UNCHANGED workRunning
       ELSE pc' = "workers" /\ workRunning' = TRUE
  /\ UNCHANGED <<iocp, listen, event, talking, kills, at, dialogVars, auxVars>>

\* That a worker could not be made is not noticed.
StartWorker ==
  /\ pc = "workers"
  /\ Begin(at)
  /\ at' = at + 1
  /\ pc' = IF at = N THEN "idle" ELSE "workers"
  /\ short' = (short \/ thread'[at] = Null)
  /\ UNCHANGED <<flagVars, iocp, listen, event, talking, kills, dialogVars, refused, forgotten>>

----------------------------------------------------------------------------
(* StopService                                                             *)

\* Of the Stop button, and of the destructor at the end of the program.
StopClick ==
  /\ pc = "idle" /\ running
  /\ acceptRunning' = FALSE
  /\ pc' = IF acceptRunning /\ thread[Accept] # Null THEN "joinaccept" ELSE "kill"
  /\ UNCHANGED <<workRunning, iocp, listen, event, thread, owner, alive, talking, kills, at, dialogVars, auxVars>>

\* (Faulty: nobody waits for it.)
AcceptEndedFaulty == TRUE
AcceptEnded       == Accept \notin alive
JoinAccept ==
  /\ pc = "joinaccept"
  /\ AcceptEnded
  /\ owner' = Closed(owner, thread[Accept])
  /\ pc' = "kill"
  /\ UNCHANGED <<flagVars, iocp, listen, event, thread, alive, talking, kills, at, dialogVars, auxVars>>

\* (Faulty: one less; one more.)
EnoughFaultyLess == N - 1
EnoughFaultyMore == N + 1
Enough           == N
PostKillThread ==
  /\ pc = "kill"
  /\ IF workRunning THEN kills' = kills + Enough /\ pc' = "joinworkers"
                    ELSE UNCHANGED kills /\ pc' = "close"
  /\ UNCHANGED <<flagVars, iocp, listen, event, thread, owner, alive, talking, at, dialogVars, auxVars>>

\* WaitForMultipleObjects fails at once, and is not asked why, when one of the handles
\* is none or when there are too many. Until the flag is reset no worker ends by it.
MayWait == N <= MaxWait /\ \A i \in Workers : thread[i] # Null
Joined       == MayWait => alive \cap Workers = {}
JoinWorkers ==
  /\ pc = "joinworkers"
  /\ Joined
  /\ owner' = [h \in Handles |-> IF \E i \in Workers : thread[i] = h THEN Free ELSE owner[h]]
  /\ workRunning' = FALSE
  /\ pc' = "close"
  /\ UNCHANGED <<acceptRunning, iocp, listen, event, thread, alive, talking, kills, at, dialogVars, auxVars>>

\* The clients, then the port and the listening socket; the event is left open.
\* (Faulty: the socket is left too.)
CloseListenFaulty(o) == o
CloseListen(o)       == Closed(o, listen)
ClosePort ==
  /\ pc = "close"
  /\ owner' = CloseListen(Closed(owner, iocp))
  /\ iocp' = Null /\ listen' = Null /\ thread' = [i \in AllThreads |-> Null]
  /\ kills' = 0
  /\ pc' = "idle" /\ running' = FALSE
  /\ UNCHANGED <<flagVars, event, alive, talking, at, rounds, auxVars>>

----------------------------------------------------------------------------
(* The threads                                                             *)

\* ClientStatusNotify shows the number of connections: SetDlgItemInt sends a message to
\* the dialog's thread and waits until that is back in its message loop.
Talks(i) ==
  /\ i \in alive \ talking
  /\ talking' = talking \cup {i}
  /\ UNCHANGED <<flagVars, iocp, listen, event, thread, owner, alive, kills, pc, at, dialogVars, auxVars>>

Answered(i) ==
  /\ i \in talking /\ pc = "idle"
  /\ talking' = talking \ {i}
  /\ UNCHANGED <<flagVars, iocp, listen, event, thread, owner, alive, kills, pc, at, dialogVars, auxVars>>

\* It sees its flag, or an error of its event or of a client's socket.
AcceptEnds ==
  /\ Accept \in alive \ talking
  /\ alive' = alive \ {Accept}
  /\ UNCHANGED <<flagVars, iocp, listen, event, thread, owner, talking, kills, pc, at,
                 dialogVars, auxVars>>

\* It takes an exit message, or sees its flag, or finds the port closed.
WorkerEnds(i) ==
  /\ i \in (alive \ talking) \cap Workers
  /\ \/ kills > 0 /\ kills' = kills - 1
     \/ (~workRunning \/ iocp = Null) /\ UNCHANGED kills
  /\ alive' = alive \ {i}
  /\ UNCHANGED <<flagVars, iocp, listen, event, thread, owner, talking, pc, at, dialogVars, auxVars>>

----------------------------------------------------------------------------

Init ==
  /\ acceptRunning = FALSE /\ workRunning = FALSE
  /\ iocp = Null /\ listen = Null /\ event = Null
  /\ thread = [i \in AllThreads |-> Null] /\ owner = [h \in Handles |-> Free]
  /\ alive = {} /\ talking = {} /\ kills = 0
  /\ pc = "idle" /\ at = 1 /\ running = FALSE /\ rounds = 0
  /\ refused = FALSE /\ short = FALSE /\ forgotten = {}

Starting == CreatePort \/ InitSocket \/ RefuseStart \/ StartAccept \/ StartWorker
Stopping == JoinAccept \/ PostKillThread \/ JoinWorkers \/ ClosePort

Next == \/ StartClick \/ Starting \/ StopClick \/ Stopping
        \/ AcceptEnds \/ \E i \in Workers : WorkerEnds(i)
        \/ \E i \in AllThreads : Talks(i) \/ Answered(i)

Spec == Init /\ [][Next]_vars

\* The dialog's thread goes on. A thread that does not wait for the dialog sees its flag
\* within 50 ms, and a worker takes what is in the port.
AcceptAsked == ~acceptRunning /\ AcceptEnds
FairSpec == /\ Spec /\ WF_vars(Starting \/ Stopping)
            /\ WF_vars(AcceptAsked) /\ \A i \in Workers : WF_vars(WorkerEnds(i))

----------------------------------------------------------------------------
(* Properties                                                              *)

TypeOK ==
  /\ acceptRunning \in BOOLEAN /\ workRunning \in BOOLEAN
  /\ iocp \in Handles \cup {Null} /\ listen \in Handles \cup {Null} /\ event \in Handles \cup {Null}
  /\ thread \in [AllThreads -> Handles \cup {Null}]
  /\ owner \in [Handles -> {Free, "port", "listen", "event", "thread"}]
  /\ alive \subseteq AllThreads /\ talking \subseteq alive /\ kills \in 0 .. N
  /\ pc \in {"idle", "port", "socket", "event", "bind", "refuse", "accept", "workers",
             "joinaccept", "kill", "joinworkers", "close"}
  /\ at \in 1 .. N + 1
  /\ running \in BOOLEAN /\ rounds \in 0 .. MaxRounds
  /\ refused \in BOOLEAN /\ short \in BOOLEAN /\ forgotten \subseteq Handles

\* Every handle that is open is one that the present server holds, wherever its start
\* or its stop stands and whatever failed, and each that it holds is open, so that none
\* is closed twice; but for m_hIOCP after InitSocket failed. Only the event leaks:
\* StopService leaves it open, and the next start forgets the server that knows its
\* number (TcpIOCPServerImp.cpp:54-147, 155-201).
HandlesOwned ==
  \A h \in Handles :
    /\ (owner[h] = "port") <=> (iocp = h /\ (refused => pc = "refuse"))
    /\ (owner[h] = "listen") <=> (listen = h)
    /\ (owner[h] = "event") <=> (event = h \/ h \in forgotten)
    /\ owner[h] = "thread" => \E i \in AllThreads : thread[i] = h
    /\ (pc = "idle" /\ \E i \in AllThreads : thread[i] = h) => owner[h] = "thread"

\* The port is open while a worker runs, and the listening socket while the accept
\* thread does. For the workers it holds if all of them were made and if the system
\* can wait for so many: else StopService waits for none (TcpIOCPServerImp.cpp:143, 157, 169).
OutliveThreads ==
  /\ Accept \in alive => listen # Null
  /\ (~short /\ alive \cap Workers # {}) => iocp # Null

\* StopService returns, whichever step of the start failed and whichever threads have
\* ended before, unless a thread that it joins waits for the dialog's thread, which is
\* in StopService (TcpIOCPServerImp.cpp:157, 169; TestIOCPServerDlg.cpp:203, 207).
StopReturns ==
  (pc \in {"joinaccept", "kill", "joinworkers"}) ~>
     \/ pc = "idle" /\ ~running
     \/ pc = "joinaccept" /\ Accept \in talking
     \/ pc = "joinworkers" /\ MayWait /\ talking \cap Workers # {}

============================================================================
