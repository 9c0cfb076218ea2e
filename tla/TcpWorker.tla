----------------------------- MODULE TcpWorker -----------------------------
(***************************************************************************)
(* The sessions of the TestUdpReceiver program's listener: CTcpWorker      *)
(* (TcpWorker.cpp), and the part of CTcpListener::ConsumeReq that takes a  *)
(* worker object for an accepted connection and gets it back               *)
(* (TcpListener.h).  The threads of the completion port call ConsumeReq,   *)
(* each for one packet, at the same time for one object or for several.    *)
(*                                                                         *)
(* Five counters say what the system holds of an object's operations; an   *)
(* operation is counted when it has been posted.  Nothing says which       *)
(* session a packet is from, so a late one is counted for the session that *)
(* has the object now.                                                     *)
(***************************************************************************)
EXTENDS Integers, Sequences, FiniteSets, SequencesExt

CONSTANTS
  Threads,      (* the threads of the completion port                      *)
  MaxWorkers,   (* BOUND on the objects allocated                          *)
  InitWorkers,  (* objects that InitObject of the listener makes           *)
  FreshErrors,  (* what m_nErrorNum, which no code initialises, may hold   *)
  MaxSessions,  (* BOUND on the connections accepted                       *)
  MaxMessages,  (* BOUND on the messages that peers send                   *)
  MaxAnswers,   (* BOUND on the requests of a packet that are answered     *)
  Echo          (* TRUE: ReadedDataProcess of CTcpWorker, one Write; FALSE:*)
                (* of CRtspServer, one for each request that is answered   *)

WorkerAssumption ==
  /\ IsFiniteSet(Threads)
  /\ MaxWorkers \in Nat /\ InitWorkers \in 0 .. MaxWorkers
  /\ FreshErrors \subseteq Int
  /\ MaxSessions \in Nat /\ MaxMessages \in Nat /\ MaxAnswers \in Nat \ {0}
  /\ Echo \in BOOLEAN

Workers  == 1 .. MaxWorkers
NoWorker == 0
NoSocket == 0      \* a socket is the number of its session
Kinds    == {"read", "write"}

VARIABLES
  socket, status, res,   \* m_TcpSocket, m_nStatus, res of each object
  n,                     \* its counters
  io,                    \* its operations that the system holds
  bufs, reqs,            \* m_BufList, m_IOReqList: made, free
  freeWorkers,           \* m_WorkerList
  made,                  \* objects allocated
  acceptNum,             \* m_nAcceptNum
  pc, obj, todo,         \* step, object and Writes to do of each thread
  sessions, messages,
  opened,                \* sockets of sessions that are open
  refused,               \* auxiliary: those of sessions that were not started
  suspect,               \* auxiliary: objects that the two exceptions below are about
  silent                 \* auxiliary: objects whose last packet asked nothing

objVars  == <<socket, status, res>>
poolVars == <<bufs, reqs>>
listVars == <<freeWorkers, made, acceptNum>>
envVars  == <<sessions, messages>>
auxVars  == <<refused, suspect, silent>>
vars == <<objVars, n, io, poolVars, listVars, pc, obj, todo, envVars, opened, auxVars>>

Steps == {"idle", "start", "sread", "scount", "started", "refuse", "accepted", "write", "wcount",
          "wfailed", "wcheck", "read", "rcount", "rcheck", "stop", "fail", "error", "over"}

GoTo(t, s) == /\ pc' = [pc EXCEPT ![t] = s]
              /\ obj' = [obj EXCEPT ![t] = IF s = "idle" THEN NoWorker ELSE @]

Count(w, c) == n' = [n EXCEPT ![w][c] = @ + 1]

\* PopHead of a list, or new when it is empty; PushTail. (Faulty: the request is
\* forgotten.)
Taken(p) == IF p.free > 0 THEN [p EXCEPT !.free = @ - 1] ELSE [p EXCEPT !.made = @ + 1]
Back(p)  == [p EXCEPT !.free = @ + 1]
GiveBackFaulty == bufs' = Back(bufs) /\ UNCHANGED reqs
GiveBack == bufs' = Back(bufs) /\ reqs' = Back(reqs)

\* CTcpWorker::IsOver. (Faulty: what is still being written is forgotten; the
\* comparison is strict.)
IsOverFaulty(w) == n[w].recv <= n[w].recved + n[w].writed + n[w].error
IsOverStrict(w) == n[w].write + n[w].recv < n[w].recved + n[w].writed + n[w].error
IsOver(w) == n[w].write + n[w].recv <= n[w].recved + n[w].writed + n[w].error

----------------------------------------------------------------------------
(* An accepted connection                                                  *)

\* CTcpListener::ConsumeReq: a worker object w, from the list or new.
TakeWorker(w) ==
  \/ /\ freeWorkers # <<>> /\ w = Head(freeWorkers)
     /\ freeWorkers' = Tail(freeWorkers) /\ UNCHANGED <<made, n>>
  \/ /\ freeWorkers = <<>> /\ w = made + 1
     /\ made' = w /\ UNCHANGED freeWorkers
     /\ \E e \in FreshErrors : n' = [n EXCEPT ![w].error = e]

\* Its InitObject gives it the socket and adds a buffer and a request to the lists.
Accept(t) ==
  /\ pc[t] = "idle" /\ sessions < MaxSessions
  /\ sessions' = sessions + 1
  /\ \E w \in Workers :
       /\ TakeWorker(w)
       /\ socket' = [socket EXCEPT ![w] = sessions']
       /\ status' = [status EXCEPT ![w] = "stop"]
       /\ pc' = [pc EXCEPT ![t] = "start"]
       /\ obj' = [obj EXCEPT ![t] = w]
       /\ suspect' = IF n'[w].error # 0 THEN suspect \cup {w} ELSE suspect
       /\ silent' = silent \ {w}
  /\ opened' = opened \cup {sessions'}
  /\ bufs' = Back([bufs EXCEPT !.made = @ + 1])
  /\ reqs' = Back([reqs EXCEPT !.made = @ + 1])
  /\ UNCHANGED <<res, io, acceptNum, todo, messages, refused>>

\* What Start resets: not the number of errors.
Reset(c) == [c EXCEPT !.recv = 0, !.recved = 0, !.write = 0, !.writed = 0]

\* CTcpWorker::Start up to its Read. It does nothing on an object that runs;
\* AssociateDevice may fail.
Start(t) ==
  LET w == obj[t] IN
  /\ pc[t] = "start"
  /\ \/ GoTo(t, "refuse") /\ UNCHANGED n
     \/ /\ status[w] # "run"
        /\ n' = [n EXCEPT ![w] = Reset(@)]
        /\ GoTo(t, "sread")
  /\ UNCHANGED <<objVars, io, poolVars, listVars, todo, envVars, opened, auxVars>>

\* Start's return when its Read succeeded, whatever happened to the object since.
Started(t) ==
  /\ pc[t] = "started"
  /\ status' = [status EXCEPT ![obj[t]] = "run"]
  /\ GoTo(t, "accepted")
  /\ UNCHANGED <<socket, res, n, io, poolVars, listVars, todo, envVars, opened, auxVars>>

\* The listener counts the session; or it puts the object back, whose socket stays open
\* until the object has another one, and is lost then.
Accepted(t) ==
  /\ \/ /\ pc[t] = "accepted" /\ acceptNum' = acceptNum + 1
        /\ UNCHANGED <<freeWorkers, refused>>
     \/ /\ pc[t] = "refuse" /\ freeWorkers' = Append(freeWorkers, obj[t])
        /\ refused' = refused \cup {socket[obj[t]]}
        /\ UNCHANGED acceptNum
  /\ GoTo(t, "idle")
  /\ UNCHANGED <<objVars, n, io, poolVars, made, todo, envVars, opened, suspect, silent>>

----------------------------------------------------------------------------
(* Read and Write                                                          *)

\* The calls of Read and of Write: where a thread is when the system holds the
\* operation, when it is counted, and when the system call has failed. CRtspServer
\* does not look at the result of Write.
Call == [sread |-> [kind |-> "read",  posted |-> "scount", done |-> "started",
                    failed |-> "refuse"],
         read  |-> [kind |-> "read",  posted |-> "rcount", done |-> "rcheck",
                    failed |-> "rcheck"],
         write |-> [kind |-> "write", posted |-> "wcount", done |-> "write",
                    failed |-> IF Echo THEN "wfailed" ELSE "write"]]

\* A thread calls Write as often as there are requests to answer.
Calls(t) ==
  /\ pc[t] \in DOMAIN Call
  /\ IF pc[t] = "write" THEN todo[t] > 0 /\ todo' = [todo EXCEPT ![t] = @ - 1]
                        ELSE UNCHANGED todo

\* WSARecv or WSASend succeeds or pends: the system holds the operation.
Post(t) ==
  LET w == obj[t] IN
  /\ Calls(t) /\ socket[w] # NoSocket
  /\ io' = [io EXCEPT ![w][Call[pc[t]].kind] = @ + 1]
  /\ bufs' = Taken(bufs) /\ reqs' = Taken(reqs)
  /\ GoTo(t, Call[pc[t]].posted)
  /\ UNCHANGED <<objVars, n, listVars, envVars, opened, auxVars>>

\* It is counted afterwards. ConsumeReq keeps the result of its Read in res.
CountPosted(t) ==
  LET w == obj[t] IN
  \E s \in DOMAIN Call :
    /\ pc[t] = Call[s].posted
    /\ Count(w, IF Call[s].kind = "read" THEN "recv" ELSE "write")
    /\ res' = IF s = "read" THEN [res EXCEPT ![w] = 0] ELSE res
    /\ GoTo(t, Call[s].done)
    /\ UNCHANGED <<socket, status, io, poolVars, listVars, todo, envVars, opened, auxVars>>

\* The system call fails, as it always does on a socket that was closed.
PostFails(t) ==
  LET w == obj[t] IN
  /\ Calls(t)
  /\ status' = [status EXCEPT ![w] = "error"]
  /\ bufs' = Back(Taken(bufs)) /\ reqs' = Back(Taken(reqs))
  /\ res' = IF pc[t] = "read" THEN [res EXCEPT ![w] = -4] ELSE res
  /\ GoTo(t, Call[pc[t]].failed)
  /\ UNCHANGED <<socket, n, io, listVars, envVars, opened, auxVars>>

\* The end of ReadedDataProcess gives the buffer back, ConsumeReq the request.
Processed(t) ==
  /\ \/ pc[t] = "write" /\ todo[t] = 0 /\ res' = [res EXCEPT ![obj[t]] = 0]
     \/ pc[t] = "wfailed" /\ res' = [res EXCEPT ![obj[t]] = -4]
  /\ GiveBack
  /\ GoTo(t, "wcheck")
  /\ UNCHANGED <<socket, status, n, io, listVars, todo, envVars, opened, auxVars>>

\* The object is stopped when the result is an error, and read again if not. res is
\* a member of the object: another thread may have written it since.
CheckWrite(t) ==
  /\ pc[t] = "wcheck"
  /\ GoTo(t, IF res[obj[t]] < 0 THEN "stop" ELSE "read")
  /\ UNCHANGED <<objVars, n, io, poolVars, listVars, todo, envVars, opened, auxVars>>

CheckRead(t) ==
  /\ pc[t] = "rcheck"
  /\ GoTo(t, IF res[obj[t]] < 0 THEN "stop" ELSE "idle")
  /\ UNCHANGED <<objVars, n, io, poolVars, listVars, todo, envVars, opened, auxVars>>

----------------------------------------------------------------------------
(* A packet                                                                *)

\* Thread t takes a packet of object w.
Dequeue(t, w, kind, step) ==
  /\ pc[t] = "idle" /\ io[w][kind] > 0
  /\ io' = [io EXCEPT ![w][kind] = @ - 1]
  /\ pc' = [pc EXCEPT ![t] = step]
  /\ obj' = [obj EXCEPT ![t] = IF step = "idle" THEN NoWorker ELSE w]
  /\ UNCHANGED <<objVars, listVars, sessions, opened, refused, suspect>>

\* A read with data. The thread keeps the buffer until it is processed.
ReadData(t, w) ==
  /\ messages < MaxMessages /\ messages' = messages + 1
  /\ Dequeue(t, w, "read", "write")
  /\ Count(w, "recved")
  /\ \E k \in (IF Echo THEN {1} ELSE 0 .. MaxAnswers) : todo' = [todo EXCEPT ![t] = k]
  /\ UNCHANGED <<poolVars, silent>>

\* A read of no bytes: the peer has closed the connection.
PeerClosed(t, w) ==
  /\ Dequeue(t, w, "read", "stop")
  /\ Count(w, "recved") /\ GiveBack
  /\ UNCHANGED <<messages, todo, silent>>

\* A thread that is at one of these steps when the socket was closed will ask whether
\* the session is over: at once, or because its next Read fails.
Asking == {"write", "wcount", "wfailed", "wcheck", "read", "stop", "fail", "error", "over"}

\* A write has succeeded: this thread does not ask.
Written(t, w) ==
  /\ Dequeue(t, w, "write", "idle")
  /\ Count(w, "writed") /\ GiveBack
  /\ silent' = IF /\ socket[w] = NoSocket /\ io'[w]["read"] + io'[w]["write"] = 0
                  /\ \A u \in Threads : obj[u] = w => pc[u] \notin Asking
               THEN silent \cup {w} ELSE silent
  /\ UNCHANGED <<messages, todo>>

\* An operation has failed.
Failed(t, w, kind) ==
  /\ Dequeue(t, w, kind, "fail")
  /\ GiveBack
  /\ UNCHANGED <<n, messages, todo, silent>>

\* UninitObject, that is Stop, right after the error status that a failed packet sets.
Stop(t) ==
  LET w == obj[t] IN
  /\ pc[t] \in {"stop", "fail"}
  /\ status' = [status EXCEPT ![w] = "stop"]
  /\ socket' = [socket EXCEPT ![w] = NoSocket]
  /\ opened' = opened \ {socket[w]}
  /\ GoTo(t, IF pc[t] = "stop" THEN "over" ELSE "error")
  /\ UNCHANGED <<res, n, io, poolVars, listVars, todo, envVars, auxVars>>

CountError(t) ==
  /\ pc[t] = "error"
  /\ Count(obj[t], "error")
  /\ GoTo(t, "over")
  /\ UNCHANGED <<objVars, io, poolVars, listVars, todo, envVars, opened, auxVars>>

\* CTcpListener::ReleaseObject.
ReleaseObject(w) ==
  /\ freeWorkers' = Append(freeWorkers, w)
  /\ acceptNum' = acceptNum - 1

\* Another thread works for the object: from its packet, or until its Start returns.
Overtaken(t, w) ==
  \E u \in Threads \ {t} : obj[u] = w /\ pc[u] # "accepted"

\* It is called when the counters say that the session is over.
Over(t) ==
  LET w == obj[t] IN
  /\ pc[t] = "over"
  /\ IF IsOver(w)
     THEN /\ ReleaseObject(w)
          /\ suspect' = IF Overtaken(t, w) THEN suspect \cup {w} ELSE suspect
     ELSE UNCHANGED <<freeWorkers, acceptNum, suspect>>
  /\ GoTo(t, "idle")
  /\ UNCHANGED <<objVars, n, io, poolVars, made, todo, envVars, opened, refused, silent>>

----------------------------------------------------------------------------

Init ==
  /\ socket = [w \in Workers |-> NoSocket] /\ status = [w \in Workers |-> "stop"]
  /\ res = [w \in Workers |-> 0]
  /\ made = InitWorkers /\ freeWorkers = [w \in 1 .. InitWorkers |-> w]
  /\ n \in {[w \in Workers |-> [recv |-> 0, recved |-> 0, write |-> 0, writed |-> 0, error |-> e[w]]] :
              e \in [Workers -> FreshErrors]}
  /\ io = [w \in Workers |-> [k \in Kinds |-> 0]]
  /\ bufs = [made |-> 0, free |-> 0] /\ reqs = bufs
  /\ acceptNum = 0 /\ sessions = 0 /\ messages = 0
  /\ pc = [t \in Threads |-> "idle"] /\ obj = [t \in Threads |-> NoWorker]
  /\ todo = [t \in Threads |-> 0]
  /\ opened = {} /\ refused = {} /\ suspect = {} /\ silent = {}

PacketOf(t, w) == \/ ReadData(t, w) \/ PeerClosed(t, w) \/ Written(t, w)
                  \/ \E k \in Kinds : Failed(t, w, k)
Packet(t) == \E w \in Workers : PacketOf(t, w)

Handler(t) == \/ Start(t) \/ Started(t) \/ Accepted(t)
              \/ Post(t) \/ CountPosted(t) \/ PostFails(t)
              \/ Processed(t) \/ CheckWrite(t) \/ CheckRead(t)
              \/ Stop(t) \/ CountError(t) \/ Over(t)

Next == \E t \in Threads : Accept(t) \/ Packet(t) \/ Handler(t)

Spec == Init /\ [][Next]_vars

\* A thread goes on; and it takes a packet of an object whose socket was closed when there
\* is one, which there is in the end: the operations of a closed socket are cancelled.
Progress(t) == \/ Handler(t)
               \/ \E w \in Workers : socket[w] = NoSocket /\ PacketOf(t, w)
FairSpec == Spec /\ \A t \in Threads : WF_vars(Progress(t))

----------------------------------------------------------------------------
(* Properties                                                              *)

TypeOK ==
  /\ socket \in [Workers -> 0 .. MaxSessions]
  /\ status \in [Workers -> {"stop", "run", "error"}]
  /\ res \in [Workers -> {0, -4}]
  /\ n \in [Workers -> [{"recv", "recved", "write", "writed", "error"} -> Int]]
  /\ io \in [Workers -> [Kinds -> Nat]]
  /\ bufs \in [made : Nat, free : Nat] /\ reqs \in [made : Nat, free : Nat]
  /\ made \in 0 .. MaxWorkers /\ freeWorkers \in Seq(1 .. made)
  /\ acceptNum \in Int
  /\ pc \in [Threads -> Steps] /\ obj \in [Threads -> 0 .. made]
  /\ todo \in [Threads -> 0 .. MaxAnswers]
  /\ \A t \in Threads : (obj[t] = NoWorker) <=> (pc[t] = "idle")
  /\ sessions \in 0 .. MaxSessions /\ messages \in 0 .. MaxMessages
  /\ opened \subseteq 1 .. MaxSessions /\ refused \subseteq 0 .. MaxSessions
  /\ suspect \subseteq 1 .. made /\ silent \subseteq 1 .. made

\* The operations that the system holds, and the packets whose buffer and
\* request a thread has still to give back.
Outstanding == UNION {{p} \X (1 .. io[p[1]][p[2]]) : p \in Workers \X Kinds}
InHand      == {t \in Threads : pc[t] \in {"write", "wcount", "wfailed"}}
\* The threads that start a session.
Starting    == {t \in Threads : pc[t] \in {"start", "sread", "scount", "started", "accepted",
                                           "refuse"}}

\* Every buffer and every request that was allocated is in its list, under an
\* operation or in a thread's hands, once: whatever fails, however often a packet is
\* answered, and whatever object a late packet is counted for, none is lost and none is
\* given back twice (TcpWorker.cpp:37, 53, 71, 110, 241, 312, RtspServer.cpp:107).
PoolsWhole ==
  LET out == Cardinality(Outstanding) + Cardinality(InHand) IN
  /\ bufs.made = bufs.free + out
  /\ reqs.made = reqs.free + out

\* An object in the listener's list is there once, no operation of it is outstanding, no
\* thread works for it, and it has no socket but that of a session that was refused: so
\* the next session starts with none of the last one's packets (TcpWorker.cpp:41, 57, 118,
\* 133). Packets of an object may be processed by several threads at once. The two
\* exceptions are an object that was released while another thread was working for it,
\* and one that starts with errors, its own or those of its last session.
Clean(w) ==
  /\ \A i, j \in DOMAIN freeWorkers : freeWorkers[i] = w /\ freeWorkers[j] = w => i = j
  /\ \A k \in Kinds : io[w][k] = 0
  /\ \A t \in Threads : obj[t] = w => pc[t] = "accepted"
  /\ socket[w] \in {NoSocket} \cup refused

\* An open socket is some object's, or a refused session's: those are lost
\* (TcpListener.h:75, TcpWorker.cpp:150).
SocketsHeld == suspect = {} => opened \subseteq refused \cup Range(socket)

ReleasedClean == SocketsHeld /\ \A w \in Range(freeWorkers) \ suspect : Clean(w)

\* m_nAcceptNum is the number of objects that are in use, those aside whose
\* session is being started, whatever fails (TcpListener.h:73, 75 and 143).
AcceptNumber == acceptNum + Len(freeWorkers) + Cardinality(Starting) = made

\* A session that was closed gives its object back in the end; except when
\* the last packet was a write's success, after which nobody asks (TcpWorker.cpp:68-75).
Released ==
  \A w \in Workers :
    (w <= made /\ socket[w] = NoSocket) ~> (w \in Range(freeWorkers) \cup suspect \cup silent)

============================================================================
