---------------------------- MODULE UdpReceiver ----------------------------
(***************************************************************************)
(* The multicast receiver of the TestUdpReceiver program, CUdpReceiver     *)
(* (UdpReceiver.cpp), with the buttons of the dialog that start and stop   *)
(* it.  A datagram's buffer goes from the free list to WSARecv, to the     *)
(* thread that processes the packet, to the observers one after the other, *)
(* and back to the list when its reference count, kept before its first    *)
(* byte, goes from 1 to 0.  An observer is a CFileWriter: when it looks at *)
(* the data and when it gives the buffer back is modelled here, what it    *)
(* does with the data in FileWriter.                                       *)
(***************************************************************************)
EXTENDS Integers, Sequences, FiniteSets, SequencesExt, Functions

CONSTANTS
  Threads,       (* the threads of the completion port                     *)
  UI,            (* the dialog's thread                                    *)
  NoThread,      (* no thread                                              *)
  MaxBufs,       (* BOUND on the buffers allocated                         *)
  MaxSockets,    (* BOUND on the sockets made                              *)
  MaxDatagrams,  (* BOUND on the datagrams that arrive                     *)
  Observers,     (* how many observers there are: 1 in this program        *)
  EmptyComes,    (* whether a datagram may have no data                    *)
  WriteFails     (* whether WriteFile may fail at once in an observer      *)

ASSUME ReceiverAssumption ==
  /\ UI \notin Threads /\ NoThread \notin Threads
  /\ MaxBufs \in Nat \ {0} /\ MaxSockets \in Nat /\ MaxDatagrams \in Nat
  /\ Observers \in Nat \ {0}
  /\ EmptyComes \in BOOLEAN /\ WriteFails \in BOOLEAN

Callers  == Threads \cup {UI}
Bufs     == 1 .. MaxBufs
NoBuf    == 0
NoSocket == 0

VARIABLES
  status, sock, sockets,  \* m_nStatus, m_UdpSocket, sockets made
  free, made,             \* m_BufList, buffers allocated
  count,                  \* the long before each buffer
  io,                     \* buffers under an outstanding WSARecv
  reqs,                   \* m_IOReqList: made, free
  lock,                   \* m_ObserverLock
  pc, buf, size, at,      \* step, buffer, bytenumber, observer of each thread
  datagrams,
  late,                   \* auxiliary: a read failed before its success was noted
  dropped, doubled        \* auxiliary: buffers never returned, and returned twice

ioVars == <<io, reqs, datagrams>>
auxVars == <<late, dropped, doubled>>
vars == <<status, sock, sockets, free, made, count, ioVars, lock, pc, buf, size, at, auxVars>>

GoTo(t, s) == pc' = [pc EXCEPT ![t] = s]

----------------------------------------------------------------------------
(* The dialog's thread                                                     *)

\* A socket that is bound and in the group, or none: what was made is closed when
\* one of the steps fails.
MakeMultiSocket ==
  \/ sockets < MaxSockets /\ sockets' = sockets + 1 /\ sock' = sockets'
  \/ sock' = NoSocket /\ UNCHANGED sockets

\* A receiver that runs is not started again. After each failure the dialog
\* calls Stop.
StartClick ==
  /\ pc[UI] = "idle" /\ status # "run"
  /\ MakeMultiSocket
  /\ GoTo(UI, IF sock' = NoSocket THEN "stop" ELSE "associate")
  /\ late' = \E t \in Threads : pc[t] = "running"
  /\ UNCHANGED <<status, free, made, count, ioVars, lock, buf, size, at, dropped, doubled>>

Associate ==
  /\ pc[UI] = "associate"
  /\ GoTo(UI, "read") \/ GoTo(UI, "stop")
  /\ UNCHANGED <<status, sock, sockets, free, made, count, ioVars, lock, buf, size, at, auxVars>>

\* Stop, which then tells the observers, without the lock, to flush.
StopStatus ==
  /\ pc[UI] \in {"idle", "stop"}
  /\ status' = "stop"
  /\ GoTo(UI, "close")
  /\ UNCHANGED <<sock, sockets, free, made, count, ioVars, lock, buf, size, at, auxVars>>

StopSocket ==
  /\ pc[UI] = "close"
  /\ sock' = NoSocket
  /\ GoTo(UI, "idle")
  /\ UNCHANGED <<status, sockets, free, made, count, ioVars, lock, buf, size, at, auxVars>>

----------------------------------------------------------------------------
(* Read, by Start and by ConsumeReq; neither looks at its result           *)

\* "before use it,init it to 0".
InitCount(b) == count' = [count EXCEPT ![b] = 0]

\* A buffer and a request.
TakeBuf(t) ==
  /\ pc[t] = "read"
  /\ \E b \in Bufs :
       /\ \/ free # <<>> /\ b = Head(free) /\ free' = Tail(free) /\ UNCHANGED made
          \/ free = <<>> /\ b = made + 1 /\ made' = b /\ UNCHANGED free
       /\ buf' = [buf EXCEPT ![t] = b]
       /\ InitCount(b)
  /\ reqs' = IF reqs.free > 0 THEN [reqs EXCEPT !.free = @ - 1] ELSE [reqs EXCEPT !.made = @ + 1]
  /\ GoTo(t, "recv")
  /\ UNCHANGED <<status, sock, sockets, io, datagrams, lock, size, at, auxVars>>

RecvPends(t) ==
  /\ pc[t] = "recv" /\ sock # NoSocket
  /\ io' = io \cup {buf[t]} /\ buf' = [buf EXCEPT ![t] = NoBuf]
  /\ GoTo(t, "running")
  /\ UNCHANGED <<status, sock, sockets, free, made, count, reqs, datagrams, lock, size, at, auxVars>>

\* The status follows the call, before which the packet may be processed.
Running(t) ==
  /\ pc[t] = "running"
  /\ status' = "run"
  /\ GoTo(t, "idle")
  /\ UNCHANGED <<sock, sockets, free, made, count, ioVars, lock, buf, size, at, auxVars>>

\* m_nStatus = STATUSERROR. (Faulty: it is forgotten.)
NoteErrorFaulty == UNCHANGED status
NoteError == status' = "error"

RecvFails(t) ==
  /\ pc[t] = "recv"
  /\ NoteError
  /\ free' = Append(free, buf[t]) /\ buf' = [buf EXCEPT ![t] = NoBuf]
  /\ reqs' = [reqs EXCEPT !.free = @ + 1]
  /\ late' = (late \/ \E u \in Callers : pc[u] = "running")
  /\ GoTo(t, "idle")
  /\ UNCHANGED <<sock, sockets, made, count, io, datagrams, lock, size, at, dropped, doubled>>

----------------------------------------------------------------------------
(* A packet                                                                *)

Sizes == {"some"} \cup (IF EmptyComes THEN {"none"} ELSE {})

Received(t, b) ==
  /\ pc[t] = "idle" /\ b \in io /\ datagrams < MaxDatagrams
  /\ datagrams' = datagrams + 1
  /\ io' = io \ {b} /\ buf' = [buf EXCEPT ![t] = b]
  /\ \E z \in Sizes : size' = [size EXCEPT ![t] = z]
  /\ GoTo(t, "lock")
  /\ UNCHANGED <<status, sock, sockets, free, made, count, reqs, lock, at, auxVars>>

\* The read failed, in most cases because of Stop: no other one is posted.
Failed(t, b) ==
  /\ pc[t] = "idle" /\ b \in io
  /\ io' = io \ {b}
  /\ free' = Append(free, b) /\ reqs' = [reqs EXCEPT !.free = @ + 1]
  /\ NoteError
  /\ late' = (late \/ \E u \in Callers : pc[u] = "running")
  /\ UNCHANGED <<sock, sockets, made, count, datagrams, lock, pc, buf, size, at, dropped, doubled>>

\* ReadedDataProcess. The dialog gives every receiver an observer before it can be
\* started and takes none away, so that the list is never found empty.
Lock(t) ==
  /\ pc[t] = "lock" /\ lock = NoThread
  /\ lock' = t /\ at' = [at EXCEPT ![t] = 1]
  /\ GoTo(t, "count")
  /\ UNCHANGED <<status, sock, sockets, free, made, count, ioVars, buf, size, auxVars>>

Dispatch(t) ==
  /\ pc[t] = "count"
  /\ count' = [count EXCEPT ![buf[t]] = @ + 1]
  /\ GoTo(t, "import")
  /\ UNCHANGED <<status, sock, sockets, free, made, ioVars, lock, buf, size, at, auxVars>>

\* Whether a count that had this value lets the buffer go.
IsLast(val) == val = 1

ReturnBuf(b) ==
  /\ count' = [count EXCEPT ![b] = @ - 1]
  /\ free' = IF IsLast(count[b]) THEN Append(free, b) ELSE free

\* An observer that cannot take the data returns the buffer, and then itself. (Faulty:
\* it returns the buffer and goes on with the copy.)
RejectedFaulty(t) == ReturnBuf(buf[t]) /\ GoTo(t, "copy")
Rejected(t) == ReturnBuf(buf[t]) /\ GoTo(t, "next")

\* CFileWriter::ImportData. With a closed file it returns the buffer at once, but
\* not that of a datagram without data, which it takes for the sign to flush, unless
\* the write of the flush fails; and it returns the buffer too early when WriteFile fails.
Import(t) ==
  /\ pc[t] = "import"
  /\ \/ /\ size[t] = "none" /\ GoTo(t, "next")
        /\ dropped' = dropped \cup {buf[t]} /\ UNCHANGED <<count, free, doubled>>
     \/ (size[t] # "none" \/ WriteFails) /\ Rejected(t) /\ UNCHANGED <<dropped, doubled>>
     \/ size[t] # "none" /\ GoTo(t, "copy") /\ UNCHANGED <<count, free, dropped, doubled>>
     \/ /\ size[t] # "none" /\ WriteFails /\ GoTo(t, "copy") /\ ReturnBuf(buf[t])
        /\ doubled' = doubled \cup {buf[t]} /\ UNCHANGED dropped
  /\ UNCHANGED <<status, sock, sockets, made, ioVars, lock, buf, size, at, late>>

\* The data is copied, and the buffer returned.
Copied(t) ==
  /\ pc[t] = "copy"
  /\ ReturnBuf(buf[t])
  /\ GoTo(t, "next")
  /\ UNCHANGED <<status, sock, sockets, made, ioVars, lock, buf, size, at, auxVars>>

\* The end of the loop over the observers. (Faulty: off by one.)
IsLastObserverFaulty(i) == i > Observers
IsLastObserver(i) == i = Observers
\* (Faulty: the lock is kept.)
ReleaseLockFaulty == UNCHANGED lock
ReleaseLock == lock' = NoThread

\* The next observer; or the lock is released, the request goes back and
\* ConsumeReq reads on.
NextObserver(t) ==
  /\ pc[t] = "next"
  /\ IF ~IsLastObserver(at[t])
     THEN /\ at' = [at EXCEPT ![t] = @ + 1] /\ GoTo(t, "count")
          /\ doubled' = doubled \cup {buf[t]}
          /\ UNCHANGED <<lock, buf, reqs>>
     ELSE /\ ReleaseLock /\ GoTo(t, "read")
          /\ buf' = [buf EXCEPT ![t] = NoBuf]
          /\ reqs' = [reqs EXCEPT !.free = @ + 1]
          /\ UNCHANGED <<at, doubled>>
  /\ UNCHANGED <<status, sock, sockets, free, made, count, io, datagrams, size, late, dropped>>

----------------------------------------------------------------------------

\* InitObject: one buffer and one request.
Init ==
  /\ status = "stop" /\ sock = NoSocket /\ sockets = 0
  /\ free = <<1>> /\ made = 1 /\ count = [b \in Bufs |-> 0]
  /\ io = {} /\ reqs = [made |-> 1, free |-> 1]
  /\ lock = NoThread
  /\ pc = [t \in Callers |-> "idle"] /\ buf = [t \in Callers |-> NoBuf]
  /\ size = [t \in Callers |-> "some"] /\ at = [t \in Callers |-> 1]
  /\ datagrams = 0 /\ late = FALSE /\ dropped = {} /\ doubled = {}

Read(t)    == TakeBuf(t) \/ RecvPends(t) \/ Running(t) \/ RecvFails(t)
Process(t) == Lock(t) \/ Dispatch(t) \/ Import(t) \/ Copied(t) \/ NextObserver(t)
Packet(t)  == \E b \in Bufs : Received(t, b) \/ Failed(t, b)

Next == \/ StartClick \/ Associate \/ StopStatus \/ StopSocket \/ Read(UI)
        \/ \E t \in Threads : Packet(t) \/ Process(t) \/ Read(t)

Spec == Init /\ [][Next]_vars

\* A thread of the port goes on, and takes packets while there are any.
FairSpec == Spec /\ \A t \in Threads : WF_vars(Packet(t) \/ Read(t) \/ Process(t))

----------------------------------------------------------------------------
(* Properties                                                              *)

TypeOK ==
  /\ status \in {"stop", "run", "error"} /\ sock \in 0 .. MaxSockets /\ sockets \in 0 .. MaxSockets
  /\ made \in 1 .. MaxBufs /\ free \in Seq(1 .. made)
  /\ count \in [Bufs -> Int] /\ io \subseteq 1 .. made
  /\ reqs \in [made : Nat, free : Nat]
  /\ lock \in Threads \cup {NoThread}
  /\ pc \in [Callers -> {"idle", "associate", "stop", "close", "read", "recv", "running",
                         "lock", "count", "import", "copy", "next"}]
  /\ buf \in [Callers -> 0 .. made] /\ size \in [Callers -> {"some", "none"}]
  /\ at \in [Callers -> 1 .. Observers]
  /\ datagrams \in 0 .. MaxDatagrams /\ late \in BOOLEAN
  /\ dropped \subseteq 1 .. made /\ doubled \subseteq 1 .. made

\* A thread's buffer is its own until it was returned by the last observer.
Owns(t) == buf[t] # NoBuf /\ pc[t] # "next"

\* No buffer is at two places: in the list twice, in the list and under WSARecv, under
\* one of them and with a thread that works with its data, or with two threads
\* (UdpReceiver.cpp:181-192, 197, 386-388, 404). It holds of a buffer that was never
\* returned twice, as an observer does when its WriteFile fails (FileWriter.cpp:232, 258)
\* and as each but the first of several observers does.
BufExclusive ==
  \A b \in 1 .. made \ doubled :
    /\ \A i, j \in DOMAIN free : free[i] = b /\ free[j] = b => i = j
    /\ b \notin Range(free) \cap io
    /\ b \in dropped => b \notin Range(free) \cup io
    /\ \A t \in Callers : Owns(t) /\ buf[t] = b =>
         /\ b \notin Range(free) \cup io \cup dropped
         /\ \A u \in Callers \ {t} : Owns(u) => buf[u] # b

\* No buffer is lost but those of datagrams without data, which no observer
\* returns (FileWriter.cpp:129, 135), and perhaps one that was returned twice.
BufKept ==
  1 .. made \ (dropped \cup doubled)
    \subseteq Range(free) \cup io \cup {buf[t] : t \in {u \in Callers : buf[u] # NoBuf}}

\* A count is the number of observers that have the buffer: 1 from Dispatch to
\* the return, for ever when it is not returned, and 0 otherwise.
CountExact ==
  \A b \in 1 .. made \ doubled :
    count[b] = IF b \in dropped \/ \E t \in Callers : buf[t] = b /\ pc[t] \in {"import", "copy"}
               THEN 1 ELSE 0

\* A receiver that shows the running status has a read outstanding or a thread about
\* to post one, unless a failure was noted before the success of the read that
\* it belongs to, in which case it says that it runs and never reads again
\* (UdpReceiver.cpp:64, 191-207).
Reading ==
  (status = "run" /\ ~late) =>
    io # {} \/ \E t \in Callers : pc[t] \in {"read", "recv", "lock", "count", "import", "copy", "next"}

\* No thread keeps the observers' lock, whatever the observers return and whichever
\* observer it is (UdpReceiver.cpp:401-407).
LockReleased == \A t \in Threads : (lock = t) ~> (lock # t)

============================================================================
