---------------------------- MODULE MCSessions ----------------------------
(* TcpListener, TcpWorker and RtspServer for TLC, one of them in each       *)
(* behaviour: what one does to another is in the actions of both.           *)
EXTENDS TcpListener, TLC

CONSTANTS t1, t2, Parts, MaxWorkers, InitWorkers, FreshErrors, MaxSessions, MaxMessages, MaxAnswers, Echo,
          Asked, LineBufSize, LongLine, SeqWidth, MaxRequests, MaxConnections
MCThreads == {t1, t2}
MCFreshErrors == {0}

VARIABLES part,
          \* TcpWorker
          socket, wstatus, res, n, wio, bufs, reqs, freeWorkers, made, acceptNum, wpc, obj, todo,
          sessions, messages, wopened, refused, suspect, silent,
          \* RtspServer
          anaPhase, rtspState, methodcode, header, temp, line, seen, pkt, wire, sent, handled,
          answers, connections, options, answered, whole

W == INSTANCE TcpWorker WITH status <- wstatus, io <- wio, pc <- wpc,
                            opened <- wopened
R == INSTANCE RtspServer

wvars  == <<socket, wstatus, res, n, wio, bufs, reqs, freeWorkers, made, acceptNum, wpc,
            obj, todo, sessions, messages, wopened, refused, suspect, silent>>
rvars  == <<anaPhase, rtspState, methodcode, header, temp, line, seen, pkt, wire, sent, handled,
            answers, connections, options, answered, whole>>
mcvars == <<part, vars, wvars, rvars>>

ASSUME WorkerAssumption == W!WorkerAssumption
ASSUME RtspAssumption   == R!RtspAssumption

\* BOUNDS on RTSP, in two of its three parts: several connections with one method, or one
\* connection with all.
RtspBounds == /\ part = "connections" => \A i \in DOMAIN sent' : sent'[i].method = "OPTIONS"
              /\ part = "methods" => UNCHANGED connections

MCInit == part \in Parts /\ Init /\ W!Init /\ R!Init
MCNext == \/ part = "listener" /\ Next /\ UNCHANGED <<part, wvars, rvars>>
          \/ part = "worker" /\ W!Next /\ UNCHANGED <<part, vars, rvars>>
          \/ /\ part \in {"rtsp", "connections", "methods"} /\ R!Next /\ RtspBounds
             /\ UNCHANGED <<part, vars, wvars>>

\* A thread of the port goes on, as in the two FairSpecs.
ListenerThread(t) ==
  /\ part = "listener" /\ Progress(t)
  /\ UNCHANGED <<part, wvars, rvars>>
WorkerThread(t) ==
  /\ part = "worker" /\ W!Progress(t)
  /\ UNCHANGED <<part, vars, rvars>>
MCSpec == /\ MCInit /\ [][MCNext]_mcvars
          /\ \A t \in Threads : WF_mcvars(ListenerThread(t)) /\ WF_mcvars(WorkerThread(t))

\* The types of all parts; a thread works for an object between its packet and the end of
\* ConsumeReq; a line that is put together never outgrows its buffer (TcpListener.h:64-100,
\* TcpWorker.cpp:28-135, RtspServer.cpp:159, 177, 194).
TypesOK == TypeOK /\ W!TypeOK /\ R!TypeOK
\* What was allocated is in its list, under an operation or in a thread's hands, once:
\* buffers and requests of the listener and of the sessions, and the listener's accept
\* sockets until they are handed to a session's object or closed; and m_nAcceptNum, which
\* the dialog shows, is the number of the objects in use, whatever fails
\* (TcpListenerBase.cpp:242, 272-274, TcpListener.h:69-90, 143, TcpWorker.cpp:37-110, 241, 312).
ListsWhole == PoolsWhole /\ W!PoolsWhole /\ W!AcceptNumber
\* A released object is in the list once, and nothing of its last session is outstanding,
\* unless it was released while another thread was working for it, or started with errors;
\* and of the open sockets only those of refused sessions are nobody's
\* (TcpWorker.cpp:41, 57, 118, 133, 150).
ReleasedClean == W!ReleasedClean
\* The session never leaves the idle state, whatever a client sends and however it
\* is cut: SETUP, which alone would, is refused in that state (RtspServer.cpp:257-262, 627).
NeverLeavesIdle == R!NeverLeavesIdle
\* However the packets are cut between lines, exactly the requests that are accepted are
\* processed, in order and each with its own CSeq, of which the answer has 16 bits; however
\* lines are cut, no answer is sent that was not asked for (RtspServer.cpp:19-211, 550).
Faithful == R!Faithful
\* A session that was closed gives its object back in the end, unless the last packet was
\* a write's success (TcpWorker.cpp:68-75).
Released == W!Released
============================================================================
