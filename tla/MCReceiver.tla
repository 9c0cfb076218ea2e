---------------------------- MODULE MCReceiver ----------------------------
(* UdpReceiver, FileWriter, TcpConnecter and ReceiverDialog for TLC, one of *)
(* them in each behaviour: what one does to another is in the actions of    *)
(* both.                                                                    *)
EXTENDS UdpReceiver, TLC

CONSTANTS t1, t2, Parts, BufSize, Lengths, MaxFileBufs, MaxImports, MaxStops, MaxMessages,
          MaxWrites, PortThreads, Kinds, MaxObjects
MCThreads == {t1, t2}
OneThread == {t1}
MCLengths == 1 .. 2

VARIABLES part,
          \* FileWriter
          opened, cur, fill, data, wfree, wmade, wio, wreqs, file, wpc, ui, len, taken, stops,
          raced, failed,
          \* TcpConnecter
          cstatus, connected, valid, copened, associated, n, cio, cbufs, creqs, cpc, ret,
          messages, writes, early,
          \* ReceiverDialog
          list, files, rows, selected, dmade, stat, dfile, buffered, dio, todo, processing,
          port, dpc, dtaken

W == INSTANCE FileWriter WITH
       MaxBufs <- MaxFileBufs, MaxDatagrams <- MaxImports, free <- wfree, made <- wmade,
       io <- wio, reqs <- wreqs, pc <- wpc
C == INSTANCE TcpConnecter WITH
       status <- cstatus, opened <- copened, io <- cio, bufs <- cbufs, reqs <- creqs, pc <- cpc
D == INSTANCE ReceiverDialog WITH
       Threads <- PortThreads, made <- dmade, file <- dfile, io <- dio, pc <- dpc, taken <- dtaken

wvars  == <<opened, cur, fill, data, wfree, wmade, wio, wreqs, file, wpc, ui, len, taken, stops,
            raced, failed>>
cvars  == <<cstatus, connected, valid, copened, associated, n, cio, cbufs, creqs, cpc, ret,
            messages, writes, early>>
dvars  == <<list, files, rows, selected, dmade, stat, dfile, buffered, dio, todo, processing,
            port, dpc, dtaken>>
mcvars == <<part, vars, wvars, cvars, dvars>>

ASSUME WriterAssumption    == W!WriterAssumption
ASSUME ConnecterAssumption == C!ConnecterAssumption
ASSUME DialogAssumption    == D!DialogAssumption

\* BOUNDS on a connection, in two of its three parts: nothing is written, or one thread
\* takes all packets.
ConnectionBounds == /\ part = "reader" => UNCHANGED writes
                    /\ part = "loner" => \A t \in Threads \ {t1} : UNCHANGED cpc[t]

MCInit == part \in Parts /\ Init /\ W!Init /\ C!Init /\ D!Init
MCNext == \/ part = "receiver" /\ Next /\ UNCHANGED <<part, wvars, cvars, dvars>>
          \/ part = "writer" /\ W!Next /\ UNCHANGED <<part, vars, cvars, dvars>>
          \/ /\ part \in {"connecter", "reader", "loner"} /\ C!Next /\ ConnectionBounds
             /\ UNCHANGED <<part, vars, wvars, dvars>>
          \/ part = "dialog" /\ D!Next /\ UNCHANGED <<part, vars, wvars, cvars>>

\* What goes on of itself, as in the FairSpecs: a thread of the port, in its part; a
\* button of a connection to which nothing is written; a handler of the dialog.
Thread(t) ==
  \/ /\ part = "receiver" /\ (Packet(t) \/ Read(t) \/ Process(t))
     /\ UNCHANGED <<part, wvars, cvars, dvars>>
  \/ /\ part = "reader" /\ (C!Packet(t) \/ C!Handler(t) \/ C!Call(t) \/ C!Stop(t))
     /\ UNCHANGED <<part, vars, wvars, dvars>>
  \/ /\ part = "dialog" /\ t \in PortThreads /\ D!Thread(t)
     /\ UNCHANGED <<part, vars, wvars, cvars>>
Button ==
  \/ /\ part = "reader" /\ (C!Running \/ C!Call(UI) \/ C!Stop(UI))
     /\ UNCHANGED <<part, vars, wvars, dvars>>
  \/ /\ part = "dialog" /\ D!Calls
     /\ UNCHANGED <<part, vars, wvars, cvars>>
MCSpec == /\ MCInit /\ [][MCNext]_mcvars
          /\ \A t \in Threads : WF_mcvars(Thread(t))
          /\ WF_mcvars(Button)

\* The types of all parts; a buffer of the writer is never filled beyond its end, and the
\* counters of a connection never fall below zero (UdpReceiver.cpp:181-207,
\* FileWriter.cpp:135-195, TcpConnecter.cpp:53-118).
TypesOK == TypeOK /\ W!TypeOK /\ C!TypeOK /\ D!TypeOK
\* A buffer of the receiver is in the list, under WSARecv or with one thread, and its count is
\* the number of the observers that have it; a buffer of the writer is in the list, under
\* a write or the one that is filled: each once, and none is lost (UdpReceiver.cpp:181-207,
\* 386-404, FileWriter.cpp:57, 163-184, 226-239).
BufsWhole == BufExclusive /\ BufKept /\ CountExact /\ W!BufsOwned
\* What ImportData took is in the file or in the buffer, whole, once and in order, until a
\* write fails or a flush meets an import (FileWriter.cpp:135-258).
NothingLost == W!NothingLost
\* The counters that the dialog shows account for every operation, at every interleaving;
\* "session is over" is logged when nothing is outstanding but what a thread has still to
\* count; buffers and requests are in their lists or under an operation, whatever fails
\* (TcpConnecter.cpp:53-118, 163, 219, 352, 477-483, 547, 614).
Accounted == C!Accounted
\* A connection that shows the running status waits for the connect or for data, unless a
\* packet ended it before Start had noted its success (TcpConnecter.cpp:218, 301-303).
Alive == C!Alive
\* Receivers, writers and rows, three lists that only their positions relate, stay in step;
\* no deleted object is listed, and no file is closed before its receiver was stopped
\* (TestUdpReceiverDlg.cpp:64-75, 328-394, 472-491, 737-751).
ListsInStep == D!ListsInStep
\* Every thread ends after the port was closed, one that waits and one that was
\* processing a packet, though nobody waits for it (IOCompletionPortCenter.cpp:54-75, 101-123).
ThreadsEnd == D!ThreadsEnd
\* After a Stop every operation comes back and is counted, before the objects may be
\* deleted (TestUdpReceiverDlg.cpp:739-747).
ComesToRest == (part = "reader" /\ ~valid) ~> (part = "reader" /\ C!AllCounted)
============================================================================
