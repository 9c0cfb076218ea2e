--------------------------- MODULE ReceiverDialog ---------------------------
(***************************************************************************)
(* The dialog of the TestUdpReceiver program (TestUdpReceiverDlg.cpp) with *)
(* the threads of its completion port (IOCompletionPortCenter.cpp): the    *)
(* lists of receivers, of their file writers, of listeners and of          *)
(* connections, the rows that show them, the order in which the buttons    *)
(* and the end of the program stop, close and delete them, and the threads *)
(* that process their packets meanwhile.  An object is a number; a writer  *)
(* has that of the receiver it was made for.  What an object does inside   *)
(* is the matter of its own module: here it has one operation outstanding  *)
(* while it runs.                                                          *)
(***************************************************************************)
EXTENDS Integers, Sequences, SequencesExt, FiniteSetsExt

CONSTANTS
  Threads,    (* the threads that InitObj makes, two for each processor    *)
  Kinds,      (* of "recv", "tcp" and "client", those that are used        *)
  MaxObjects  (* BOUND on the objects that are made                        *)

DialogAssumption ==
  Kinds \subseteq {"recv", "tcp", "client"} /\ MaxObjects \in Nat

Objects == 1 .. MaxObjects
NoObject == 0

VARIABLES
  list, files,          \* m_RecvList, m_TcpList, m_ClientList; m_FileList
  rows, selected,       \* the rows of the three controls
  made,
  stat, file,           \* of an object and of its file
  buffered,             \* the writer has data in its buffer
  io,                   \* an operation of the object is outstanding
  todo,                 \* what the running handler has still to call
  processing, port,     \* m_bProcessing, m_hCompletionPort
  pc, taken             \* the threads, and the object whose packet one processes

listVars   == <<list, files, rows, selected, made>>
objVars    == <<stat, file, buffered, io>>
threadVars == <<processing, port, pc, taken>>
vars == <<listVars, objVars, todo, threadVars>>

Idle == todo = <<>> /\ port \in {"open", "null"}
Call(f, o) == <<f, o>>
\* One call for each object of a list.
ForEach(f, s) == [i \in 1 .. Len(s) |-> Call(f, s[i])]

\* GetFirstSelectedItemPosition: the row, and the object at its place in the list.
Chosen(k) == {i \in 1 .. Len(rows[k]) : rows[k][i].of \in selected[k]}
Cursel(k) == Min(Chosen(k))

----------------------------------------------------------------------------
(* Handlers that add                                                       *)

Row(o) == [of |-> o, shows |-> o, fileShows |-> o]

AddObject(k) ==
  /\ Idle /\ k \in Kinds /\ made < MaxObjects
  /\ made' = made + 1
  /\ list' = [list EXCEPT ![k] = Append(@, made + 1)]
  /\ rows' = [rows EXCEPT ![k] = Append(@, Row(made + 1))]
  /\ stat' = [stat EXCEPT ![made + 1] = "stopped"]
  /\ UNCHANGED <<buffered, io, todo, threadVars>>

\* The new row is selected too: several rows of this control can be. CreateFile may fail.
AddReceiver ==
  /\ AddObject("recv")
  /\ selected' = [selected EXCEPT !["recv"] = @ \cup {made + 1}]
  /\ files' = Append(files, made + 1)
  /\ \E f \in {"open", "failed"} : file' = [file EXCEPT ![made + 1] = f]

AddListener ==
  /\ AddObject("tcp")
  /\ selected' = [selected EXCEPT !["tcp"] = {made + 1}]
  /\ UNCHANGED <<files, file>>

AddClient ==
  /\ AddObject("client")
  /\ UNCHANGED <<selected, files, file>>

\* The user clicks rows.
Select(k) ==
  /\ Idle /\ rows[k] # <<>>
  /\ \E s \in SUBSET {r.of : r \in Range(rows[k])} :
       /\ k # "recv" => \E o \in s : s = {o}
       /\ s # selected[k]
       /\ selected' = [selected EXCEPT ![k] = s]
  /\ UNCHANGED <<list, files, rows, made, objVars, todo, threadVars>>

----------------------------------------------------------------------------
(* Handlers that act on an object, or on all                               *)

\* What a handler calls. The lists do not change before it does.
Handle(calls) ==
  /\ Idle
  /\ todo' = calls
  /\ UNCHANGED <<listVars, objVars, threadVars>>

\* The object whose row is selected.
Pointed(k)     == list[k][Cursel(k)]
StartButton(k) == Chosen(k) # {} /\ Handle(<<Call("start", Pointed(k))>>)
StopButton(k)  == Chosen(k) # {} /\ Handle(<<Call("stop", Pointed(k))>>)
StartAll(k)    == list[k] # <<>> /\ Handle(ForEach("start", list[k]))
StopAll(k)     == list[k] # <<>> /\ Handle(ForEach("stop", list[k]))

\* The handlers that start and stop one client are in no message map.
StartReceiver     == StartButton("recv")
StartListener     == StartButton("tcp")
StopReceiver      == StopButton("recv")
StopListener      == StopButton("tcp")
StartAllReceivers == StartAll("recv")
StartAllClients   == StartAll("client")
StopAllReceivers  == StopAll("recv")
StopAllClients    == StopAll("client")

\* The receiver, and then the writer at the same place.
DelReceiver ==
  /\ Chosen("recv") # {}
  /\ LET o == Pointed("recv")
         i == Cursel("recv")
     IN Handle(<<Call("stop", o), Call("uninit", o), Call("delete", o), Call("erase", i),
                 Call("uninitfile", files[i]), Call("erasefile", i)>>)

\* Its loop over the selected rows comes to one: this control selects a single row.
DelListener ==
  /\ Chosen("tcp") # {}
  /\ LET o == Pointed("tcp")
     IN Handle(<<Call("stop", o), Call("uninit", o), Call("delete", o),
                 Call("erasetcp", Cursel("tcp"))>>)

\* The second that is slept is no guarantee, and is no step.
DeleteAllClients ==
  /\ list["client"] # <<>>
  /\ Handle(ForEach("stop", list["client"]) \o ForEach("delete", list["client"])
              \o <<Call("clear", 0)>>)

\* The numbers of the object at a place of a list are shown in the row at that place.
OnTimer ==
  /\ Idle
  /\ rows' = [k \in DOMAIN rows |->
       [i \in 1 .. Len(rows[k]) |->
          [rows[k][i] EXCEPT !.shows = list[k][i],
                             !.fileShows = IF k = "recv" THEN files[i] ELSE @]]]
  /\ UNCHANGED <<list, files, selected, made, objVars, todo, threadVars>>

\* The destructor: receivers first, so that they hand what they have to the writers,
\* whose files are still open; then the port, and only then the objects.
Close ==
  Handle(ForEach("uninit", list["recv"]) \o ForEach("uninit", list["tcp"])
           \o ForEach("uninitfile", files)
           \o <<Call("closeport", 0)>>
           \o ForEach("delete", list["recv"]) \o ForEach("delete", list["tcp"]))

----------------------------------------------------------------------------
(* The calls of a handler                                                  *)

Calling(f) == todo # <<>> /\ Head(todo)[1] = f
Arg        == Head(todo)[2]
Done       == todo' = Tail(todo)

\* Start of an object that does not run. The handler stops one that does not start.
Start ==
  /\ Calling("start")
  /\ \/ /\ stat[Arg] # "running"
        /\ stat' = [stat EXCEPT ![Arg] = "running"]
        /\ io' = [io EXCEPT ![Arg] = TRUE]
        /\ Done
     \/ /\ stat[Arg] # "running"
        /\ todo' = <<Call("stop", Arg)>> \o Tail(todo)
        /\ UNCHANGED <<stat, io>>
     \/ stat[Arg] = "running" /\ Done /\ UNCHANGED <<stat, io>>
  /\ UNCHANGED <<listVars, file, buffered, threadVars>>

\* Stop, which UninitObject is too. A receiver makes its writer write what it has.
Stop ==
  /\ Calling("stop") \/ Calling("uninit")
  /\ stat' = [stat EXCEPT ![Arg] = "stopped"]
  /\ buffered' = [buffered EXCEPT ![Arg] = FALSE]
  /\ Done
  /\ UNCHANGED <<listVars, file, io, threadVars>>

Delete ==
  /\ Calling("delete")
  /\ stat' = [stat EXCEPT ![Arg] = "deleted"]
  /\ Done
  /\ UNCHANGED <<listVars, file, buffered, io, threadVars>>

\* erase and DeleteItem. (Faulty: the row stays.)
WithoutRowFaulty(k) == rows[k]
WithoutRow(k)       == RemoveAt(rows[k], Arg)
EraseRow(k) ==
  /\ selected' = [selected EXCEPT ![k] = @ \ {rows[k][Arg].of}]
  /\ list' = [list EXCEPT ![k] = RemoveAt(@, Arg)]
  /\ rows' = [rows EXCEPT ![k] = WithoutRow(k)]
  /\ Done
  /\ UNCHANGED <<files, made, objVars, threadVars>>
Erase == \/ Calling("erase") /\ EraseRow("recv")
         \/ Calling("erasetcp") /\ EraseRow("tcp")

Clear ==
  /\ Calling("clear")
  /\ list' = [list EXCEPT !["client"] = <<>>]
  /\ rows' = [rows EXCEPT !["client"] = <<>>]
  /\ selected' = [selected EXCEPT !["client"] = {}]
  /\ Done
  /\ UNCHANGED <<files, made, objVars, threadVars>>

\* CFileWriter::UninitObject.
CloseFile ==
  /\ Calling("uninitfile")
  /\ file' = [file EXCEPT ![Arg] = "closed"]
  /\ Done
  /\ UNCHANGED <<listVars, stat, buffered, io, threadVars>>

\* (Faulty: the writer stays in its list.)
WithoutFileFaulty(i) == files
WithoutFile(i)       == RemoveAt(files, i)
EraseFile ==
  /\ Calling("erasefile")
  /\ files' = WithoutFile(Arg)
  /\ Done
  /\ UNCHANGED <<list, rows, selected, made, objVars, threadVars>>

\* CIOCompletionPortCenter::UninitObject. (Faulty: the handle is not closed.)
PortFaulty == "open"
Port       == "closed"
ClosePort ==
  /\ Calling("closeport")
  /\ processing' = FALSE
  /\ port' = Port
  /\ Done
  /\ UNCHANGED <<listVars, objVars, pc, taken>>

----------------------------------------------------------------------------
(* The threads of the port                                                 *)

\* InitObj. Its result is not looked at, and CreateIoCompletionPort returns NULL when it
\* fails, which is not tested for: the threads are made, or some of them, all the same.
InitPort ==
  /\ port = "none"
  /\ port' \in {"open", "null"}
  /\ processing' = TRUE
  /\ \E T \in SUBSET Threads : pc' = [t \in Threads |-> IF t \in T THEN "loop" ELSE "none"]
  /\ UNCHANGED <<listVars, objVars, todo, taken>>

\* while (m_bProcessing).
Loop(t) ==
  /\ pc[t] = "loop"
  /\ pc' = [pc EXCEPT ![t] = IF processing THEN "wait" ELSE "end"]
  /\ UNCHANGED <<listVars, objVars, todo, processing, port, taken>>

\* GetQueuedCompletionStatus returns a packet. That of an object that was stopped may
\* still be a datagram, received before.
Dequeue(t) ==
  /\ pc[t] = "wait" /\ port = "open"
  /\ \E o \in Objects :
       /\ io[o]
       /\ io' = [io EXCEPT ![o] = FALSE]
       /\ taken' = [taken EXCEPT ![t] = o]
  /\ pc' = [pc EXCEPT ![t] = "report"]
  /\ UNCHANGED <<listVars, stat, file, buffered, todo, processing, port>>

\* ReportResult, and what ConsumeReq comes to: a datagram is put in the writer's buffer,
\* unless its file is closed, and an object that runs posts the next operation.
ReportResult(t) ==
  /\ pc[t] = "report"
  /\ \E data \in {b \in BOOLEAN : b => taken[t] \in Range(files) /\ file[taken[t]] = "open"} :
       buffered' = [buffered EXCEPT ![taken[t]] = @ \/ data]
  /\ io' = [io EXCEPT ![taken[t]] = stat[taken[t]] = "running"]
  /\ taken' = [taken EXCEPT ![t] = NoObject]
  /\ pc' = [pc EXCEPT ![t] = "loop"]
  /\ UNCHANGED <<listVars, stat, file, todo, processing, port>>

\* The port was closed under a thread that waits, or is no port: errors 735 and 6.
BreakLoop(t) ==
  /\ pc[t] = "wait" /\ port # "open"
  /\ pc' = [pc EXCEPT ![t] = "end"]
  /\ UNCHANGED <<listVars, objVars, todo, processing, port, taken>>

----------------------------------------------------------------------------

Init ==
  /\ list = [k \in {"recv", "tcp", "client"} |-> <<>>] /\ files = <<>>
  /\ rows = [k \in {"recv", "tcp", "client"} |-> <<>>]
  /\ selected = [k \in {"recv", "tcp", "client"} |-> {}]
  /\ made = 0
  /\ stat = [o \in Objects |-> "none"] /\ file = [o \in Objects |-> "none"]
  /\ buffered = [o \in Objects |-> FALSE] /\ io = [o \in Objects |-> FALSE]
  /\ todo = <<>> /\ processing = FALSE /\ port = "none"
  /\ pc = [t \in Threads |-> "none"] /\ taken = [t \in Threads |-> NoObject]

Buttons ==
  \/ AddReceiver \/ AddListener \/ AddClient \/ OnTimer \/ DelReceiver \/ DelListener
  \/ DeleteAllClients \/ Close \/ \E k \in Kinds : Select(k)
  \/ StartReceiver \/ StartListener \/ StartAllReceivers \/ StartAllClients
  \/ StopReceiver \/ StopListener \/ StopAllReceivers \/ StopAllClients

Calls == Start \/ Stop \/ Delete \/ Erase \/ Clear \/ CloseFile \/ EraseFile \/ ClosePort
Thread(t) == Loop(t) \/ Dequeue(t) \/ ReportResult(t) \/ BreakLoop(t)

Next == InitPort \/ Buttons \/ Calls \/ \E t \in Threads : Thread(t)

Spec == Init /\ [][Next]_vars

\* A handler goes on until it ends, and so does a thread.
FairSpec == Spec /\ WF_vars(Calls) /\ \A t \in Threads : WF_vars(Thread(t))

----------------------------------------------------------------------------
(* Properties                                                              *)

TypeOK ==
  /\ Range(files) \subseteq 1 .. made
  /\ \A k \in DOMAIN list : Range(list[k]) \subseteq 1 .. made /\ Len(rows[k]) = Len(list[k])
  /\ made \in 0 .. MaxObjects
  /\ stat \in [Objects -> {"none", "stopped", "running", "deleted"}]
  /\ file \in [Objects -> {"none", "open", "failed", "closed"}]
  /\ buffered \in [Objects -> BOOLEAN] /\ io \in [Objects -> BOOLEAN]
  /\ processing \in BOOLEAN /\ port \in {"none", "open", "null", "closed"}
  /\ pc \in [Threads -> {"none", "loop", "wait", "report", "end"}]
  /\ taken \in [Threads -> 0 .. MaxObjects]

\* A row shows the numbers of the object it was made for, and of the writer of that one,
\* after any sequence of additions and deletions: three lists, kept in step by position
\* only (TestUdpReceiverDlg.cpp:328, 347, 374, 387, 472-491).
RowsHonest ==
  \A k \in DOMAIN rows : \A i \in 1 .. Len(rows[k]) :
    rows[k][i].shows = rows[k][i].of /\ rows[k][i].fileShows = rows[k][i].of

\* Outside a handler no list holds an object that was deleted, and no writer's file is
\* closed while the receiver that feeds it is listed (360-394, 737-751).
ListsLive ==
  Idle => /\ \A k \in DOMAIN list : \A o \in Range(list[k]) : stat[o] # "deleted"
          /\ \A o \in Range(list["recv"]) : file[o] # "closed"

\* A file is closed after its receiver was stopped, by the Del button and at the end of
\* the program, so that the flush of Stop finds it open (64-75, 371-385).
ClosedAfterStop == \A o \in Objects : file[o] = "closed" => stat[o] \in {"stopped", "deleted"}

\* Receivers, writers and rows, three lists that only their positions relate, stay in step;
\* no deleted object is listed, and no file is closed before its receiver was stopped
\* (TestUdpReceiverDlg.cpp:64-75, 328-394, 472-491, 737-751).
ListsInStep == RowsHonest /\ ListsLive /\ ClosedAfterStop

\* Every thread ends after the port was closed, one that waits and one that was
\* processing a packet, though nobody waits for it (IOCompletionPortCenter.cpp:54-75, 101-123).
ThreadsEnd == (port # "none" /\ ~processing) ~> \A t \in Threads : pc[t] \in {"none", "end"}

============================================================================
