---------------------------- MODULE TcpConnecter ----------------------------
(***************************************************************************)
(* An outgoing connection of the TestUdpReceiver program, CTcpConnecter    *)
(* (TcpConnecter.cpp), with the buttons of the dialog that start and stop  *)
(* it and the timer that writes to it.  The dialog's thread calls Start,   *)
(* Stop and Write, the threads of the completion port ConsumeReq, which    *)
(* calls Read and, after a failure, Stop; nothing excludes one from the    *)
(* other.  The socket is made once, by InitObject.                         *)
(***************************************************************************)
EXTENDS Integers, FiniteSets

CONSTANTS
  Threads,      (* the threads of the completion port                      *)
  UI,           (* the dialog's thread                                     *)
  MaxMessages,  (* BOUND on what the server sends                          *)
  MaxWrites     (* BOUND on the ticks of the timer that write              *)

ConnecterAssumption ==
  /\ UI \notin Threads /\ IsFiniteSet(Threads)
  /\ MaxMessages \in Nat /\ MaxWrites \in Nat

Callers == Threads \cup {UI}
OperKinds == {"connect", "disconnect", "read", "write"}
HasBuf  == {"read", "write"}

VARIABLES
  status, connected,      \* m_nStatus, m_bConnected
  valid,                  \* m_TcpSocket is not INVALID_SOCKET
  opened, associated,     \* the socket in the system
  n,                      \* the five counters
  io,                     \* how many operations of each kind are outstanding
  bufs, reqs,             \* m_BufList, m_IOReqList: made, free
  pc, ret,                \* step of each thread, and where its Stop returns to
  messages, writes,
  early                   \* auxiliary: Stop ran before Start noted its success

objVars  == <<status, connected, valid, opened, associated>>
poolVars == <<bufs, reqs>>
envVars  == <<messages, writes>>
vars == <<objVars, n, io, poolVars, pc, ret, envVars, early>>

GoTo(t, s) == pc' = [pc EXCEPT ![t] = s]
CallStop(t, back) == GoTo(t, "stop") /\ ret' = [ret EXCEPT ![t] = back]

\* The counters and the lists. (Faulty: errors are not counted.)
CountedFaulty(c) == IF c = "error" THEN n ELSE [n EXCEPT ![c] = @ + 1]
Counted(c) == [n EXCEPT ![c] = @ + 1]
Taken(p)   == IF p.free > 0 THEN [p EXCEPT !.free = @ - 1] ELSE [p EXCEPT !.made = @ + 1]
Back(p)    == [p EXCEPT !.free = @ + 1]

\* The counter that a post of a kind, and a packet of it, raises.
Posts(k)  == IF k = "write" THEN "write" ELSE "recv"
Passed(k) == IF k = "write" THEN "writed" ELSE "recved"

\* IsOver. Its only effect in this program is a line in the log, for no object has an
\* allocater. The code reads the counters one by one, here it is one step.
IsOver == n.write + n.recv <= n.recved + n.writed + n.error

----------------------------------------------------------------------------
(* A system call, and the counter after it                                 *)

\* What follows a failed connect and a failed read: Stop. (Faulty: Start goes on;
\* the read is posted again.)
AfterConnectFaulty == "run"
AfterFailedConnect == "stop"
AfterReadFaulty == "read"
AfterFailedRead == "stop"

\* A call: its kind, and the steps after it succeeded or failed. Disconnect is Stop's.
Connect    == [kind |-> "connect",    posted |-> "ccount", failed |-> AfterFailedConnect]
Disconnect == [kind |-> "disconnect", posted |-> "dcount", failed |-> "close"]
Read       == [kind |-> "read",       posted |-> "rcount", failed |-> AfterFailedRead]
Write      == [kind |-> "write",      posted |-> "wcount", failed |-> "idle"]

\* The steps at which they are made.
Calls == [connect |-> Connect, disc |-> Disconnect, read |-> Read, send |-> Write]

\* Where a thread goes that has counted its post.
After == [connect |-> "run", disc |-> "close", read |-> "idle", send |-> "idle"]

\* ConnectEx, DisconnectEx, WSARecv or WSASend succeeds or pends.
Post(t, s) ==
  /\ pc[t] = s /\ valid /\ opened
  /\ io' = [io EXCEPT ![Calls[s].kind] = @ + 1]
  /\ reqs' = Taken(reqs)
  /\ bufs' = IF Calls[s].kind \in HasBuf THEN Taken(bufs) ELSE bufs
  /\ GoTo(t, Calls[s].posted)
  /\ UNCHANGED <<objVars, n, ret, envVars, early>>

CountPosted(t, s) ==
  /\ pc[t] = Calls[s].posted
  /\ n' = Counted(Posts(Calls[s].kind))
  /\ GoTo(t, After[s])
  /\ UNCHANGED <<objVars, io, poolVars, ret, envVars, early>>

\* It fails, as it always does when the socket was closed. A failed connect and a
\* failed read are followed by Stop.
PostFails(t, s) ==
  /\ pc[t] = s
  /\ status' = "error"
  /\ reqs' = Back(Taken(reqs))
  /\ bufs' = IF Calls[s].kind \in HasBuf THEN Back(Taken(bufs)) ELSE bufs
  /\ GoTo(t, Calls[s].failed)
  /\ ret' = IF s = "connect" THEN [ret EXCEPT ![t] = "idle"]
            ELSE IF s = "read" THEN [ret EXCEPT ![t] = "error"] ELSE ret
  /\ UNCHANGED <<connected, valid, opened, associated, n, io, envVars, early>>

----------------------------------------------------------------------------
(* The dialog's thread                                                     *)

\* A socket can be associated with the port once, and not when it was closed.
Start ==
  /\ pc[UI] = "idle" /\ status # "run"
  /\ \/ /\ valid /\ opened /\ ~associated
        /\ associated' = TRUE
        /\ n' = [c \in DOMAIN n |-> 0]
        /\ connected' = FALSE
        /\ GoTo(UI, "connect") /\ UNCHANGED ret
     \/ CallStop(UI, "idle") /\ UNCHANGED <<associated, n, connected>>
  /\ UNCHANGED <<status, valid, opened, io, poolVars, envVars, early>>

Running ==
  /\ pc[UI] = "run"
  /\ status' = "run"
  /\ GoTo(UI, "idle")
  /\ UNCHANGED <<connected, valid, opened, associated, n, io, poolVars, ret, envVars, early>>

StopClick ==
  /\ pc[UI] = "idle"
  /\ CallStop(UI, "idle")
  /\ UNCHANGED <<objVars, n, io, poolVars, envVars, early>>

\* OnTimer and Write.
Timer ==
  /\ pc[UI] = "idle" /\ connected /\ status = "run" /\ writes < MaxWrites
  /\ writes' = writes + 1
  /\ GoTo(UI, "send")
  /\ UNCHANGED <<objVars, n, io, poolVars, ret, messages, early>>

----------------------------------------------------------------------------
(* Stop, by either                                                         *)

\* A connected socket is disconnected before it is closed.
StopStatus(t) ==
  /\ pc[t] = "stop"
  /\ status' = "stop"
  /\ GoTo(t, IF ~valid THEN ret[t] ELSE IF connected THEN "disc" ELSE "close")
  /\ early' = (early \/ pc[UI] \in {"ccount", "run"})
  /\ UNCHANGED <<connected, valid, opened, associated, n, io, poolVars, ret, envVars>>

CloseSocket(t) ==
  /\ pc[t] = "close"
  /\ opened' = FALSE
  /\ GoTo(t, "clear")
  /\ UNCHANGED <<status, connected, valid, associated, n, io, poolVars, ret, envVars, early>>

ClearSocket(t) ==
  /\ pc[t] = "clear"
  /\ valid' = FALSE
  /\ GoTo(t, ret[t])
  /\ UNCHANGED <<status, connected, opened, associated, n, io, poolVars, ret, envVars, early>>

----------------------------------------------------------------------------
(* A packet                                                                *)

Dequeue(t, k) ==
  /\ pc[t] = "idle" /\ io[k] > 0
  /\ io' = [io EXCEPT ![k] = @ - 1]
  /\ reqs' = Back(reqs)
  /\ bufs' = IF k \in HasBuf THEN Back(bufs) ELSE bufs
  /\ UNCHANGED <<status, valid, opened, associated, writes, early>>

\* Connected: the first read is posted.
Connected(t) ==
  /\ Dequeue(t, "connect")
  /\ n' = Counted(Passed("connect"))
  /\ connected' = TRUE
  /\ GoTo(t, "read")
  /\ UNCHANGED <<ret, messages>>

Disconnected(t) ==
  /\ Dequeue(t, "disconnect")
  /\ n' = Counted(Passed("disconnect"))
  /\ connected' = FALSE
  /\ GoTo(t, "over")
  /\ UNCHANGED <<ret, messages>>

\* Data, which is thrown away, and the next read.
ReadData(t) ==
  /\ Dequeue(t, "read")
  /\ messages < MaxMessages /\ messages' = messages + 1
  /\ n' = Counted(Passed("read"))
  /\ GoTo(t, "read")
  /\ UNCHANGED <<connected, ret>>

PeerClosed(t) ==
  /\ Dequeue(t, "read")
  /\ n' = Counted(Passed("read"))
  /\ CallStop(t, "over")
  /\ UNCHANGED <<connected, messages>>

Written(t) ==
  /\ Dequeue(t, "write")
  /\ n' = Counted(Passed("write"))
  /\ UNCHANGED <<connected, pc, ret, messages>>

\* An operation failed: Stop, status, number of errors.
Failed(t, k) ==
  /\ Dequeue(t, k)
  /\ CallStop(t, "failed")
  /\ UNCHANGED <<connected, n, messages>>

\* After Stop: the status, which is an error once more.
NoteError(t) ==
  /\ pc[t] \in {"error", "failed"}
  /\ status' = "error"
  /\ GoTo(t, IF pc[t] = "failed" THEN "ecount" ELSE "over")
  /\ UNCHANGED <<connected, valid, opened, associated, n, io, poolVars, ret, envVars, early>>

CountError(t) ==
  /\ pc[t] = "ecount"
  /\ n' = Counted("error")
  /\ GoTo(t, "over")
  /\ UNCHANGED <<objVars, io, poolVars, ret, envVars, early>>

\* Whether the session is over is asked for the log.
Over(t) ==
  /\ pc[t] = "over"
  /\ GoTo(t, "idle")
  /\ UNCHANGED <<objVars, n, io, poolVars, ret, envVars, early>>

----------------------------------------------------------------------------

\* A socket that is bound: the dialog deletes an object for which a step of this failed.
MakeTcpClientSocket == valid = TRUE /\ opened = TRUE

\* InitObject.
Init ==
  /\ status = "stop" /\ connected = FALSE
  /\ MakeTcpClientSocket /\ associated = FALSE
  /\ n = [c \in {"recv", "recved", "write", "writed", "error"} |-> 0]
  /\ io = [k \in OperKinds |-> 0]
  /\ bufs = [made |-> 1, free |-> 1] /\ reqs = [made |-> 1, free |-> 1]
  /\ pc = [t \in Callers |-> "idle"] /\ ret = [t \in Callers |-> "idle"]
  /\ messages = 0 /\ writes = 0 /\ early = FALSE

Call(t) == \E s \in DOMAIN Calls : Post(t, s) \/ CountPosted(t, s) \/ PostFails(t, s)
Stop(t) == StopStatus(t) \/ CloseSocket(t) \/ ClearSocket(t)
Packet(t) == \/ Connected(t) \/ Disconnected(t) \/ ReadData(t) \/ PeerClosed(t) \/ Written(t)
             \/ \E k \in OperKinds : Failed(t, k)
Handler(t) == NoteError(t) \/ CountError(t) \/ Over(t)

Next == \/ Start \/ Running \/ StopClick \/ Timer \/ Call(UI) \/ Stop(UI)
        \/ \E t \in Threads : Packet(t) \/ Handler(t) \/ Call(t) \/ Stop(t)

Spec == Init /\ [][Next]_vars

\* Threads go on, take packets while there are any, and a button's handler ends.
FairSpec == /\ Spec
            /\ \A t \in Threads : WF_vars(Packet(t) \/ Handler(t) \/ Call(t) \/ Stop(t))
            /\ WF_vars(Running \/ Call(UI) \/ Stop(UI))

----------------------------------------------------------------------------
(* Properties                                                              *)

TypeOK ==
  /\ status \in {"stop", "run", "error"}
  /\ connected \in BOOLEAN /\ valid \in BOOLEAN /\ opened \in BOOLEAN /\ associated \in BOOLEAN
  /\ n \in [{"recv", "recved", "write", "writed", "error"} -> Nat]
  /\ io \in [OperKinds -> Nat]
  /\ bufs \in [made : Nat, free : Nat] /\ reqs \in [made : Nat, free : Nat]
  /\ pc \in [Callers -> {"idle", "connect", "ccount", "run", "send", "wcount", "read", "rcount",
                         "stop", "disc", "dcount", "close", "clear", "error", "failed", "ecount", "over"}]
  /\ ret \in [Callers -> {"idle", "error", "failed", "over"}]
  /\ messages \in 0 .. MaxMessages /\ writes \in 0 .. MaxWrites /\ early \in BOOLEAN

Outstanding == io["connect"] + io["disconnect"] + io["read"] + io["write"]
\* Threads that have posted what they have not counted, and that have dequeued a
\* failed operation that they have not counted.
Posting == {t \in Callers : pc[t] \in {"ccount", "dcount", "rcount", "wcount"}}
Failing == {t \in Callers : \/ pc[t] \in {"failed", "ecount"}
                            \/ pc[t] \in {"stop", "disc", "dcount", "close", "clear"} /\ ret[t] = "failed"}

\* What was posted is what came back, well or not, and what is outstanding, but for a
\* thread that is about to count.
CountersAgree ==
  n.recv + n.write + Cardinality(Posting)
    = n.recved + n.writed + n.error + Outstanding + Cardinality(Failing)

\* "session is over" is logged with operations outstanding only while a thread has
\* posted one that it has not counted yet (TcpConnecter.cpp:75, 94, 118, 220, 477-483).
OverIsTrue ==
  \A t \in Threads : pc[t] = "over" /\ IsOver => Outstanding <= Cardinality(Posting)

\* Buffers and requests are in their lists or under an operation: none is lost and none
\* given back twice, whatever fails.
PoolsWhole ==
  /\ bufs.made = bufs.free + io["read"] + io["write"]
  /\ reqs.made = reqs.free + Outstanding

\* The counters, which the dialog shows, account for every operation at every
\* interleaving, and so do the lists (TcpConnecter.cpp:53, 93, 108, 163, 219, 352, 547, 614).
Accounted == CountersAgree /\ OverIsTrue /\ PoolsWhole

\* A connection that shows the running status waits for the connect or for data, or a
\* thread works for it; unless a packet ended it before Start had noted its success, which
\* leaves it running for ever with no socket (TcpConnecter.cpp:301-303, 218).
Alive ==
  (status = "run" /\ ~early) =>
    io["connect"] + io["read"] > 0 \/ \E t \in Callers : pc[t] # "idle"

\* After a Stop everything comes back and is counted: what the second that the
\* dialog sleeps before it deletes the objects is for (TestUdpReceiverDlg.cpp:739-747).
AtRest == Outstanding = 0 /\ \A t \in Callers : pc[t] = "idle"
AllCounted  == AtRest /\ n.recv + n.write = n.recved + n.writed + n.error
ComesToRest == ~valid ~> AllCounted

============================================================================
