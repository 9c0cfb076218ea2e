# TestIOCP: a TLA+ verification project

TestIOCP is a set of Windows (MFC, C++) experiments with I/O completion ports:
an echo server (`src/TestIOCPServer`), a multicast receiver with a TCP listener,
an outgoing connection, an RTSP parser and a lock-free list
(`src/TestUdpReceiver`), and a few stubs.  The modules in this directory model
the code that keeps state across threads, TLC checks them on small instances,
and TLAPS proves the properties that matter most for every value of the
constants.  Line numbers below refer to the files under `src/`.

- [1. Inventory](#1-inventory)
- [2. What is modelled, module by module](#2-what-is-modelled-module-by-module)
- [3. Abstractions](#3-abstractions)
- [4. The runs](#4-the-runs)
- [5. Fairness](#5-fairness)
- [6. The proofs](#6-the-proofs)
- [7. What the code does that it should perhaps not](#7-what-the-code-does-that-it-should-perhaps-not)
- [8. Not modelled](#8-not-modelled)
- [9. Running it](#9-running-it)

## 1. Inventory

### TestIOCPServer, the echo server

| Part | State | Operations | Called by |
|---|---|---|---|
| `CTcpIOCPClientManager` | `m_FreeClientList` (FIFO of stubs), `m_RealClientList` (map of stubs in use), `m_BigClientList` (blocks of 1000 stubs, never freed while the server lives), one lock for each of the first two | `GetFreeClient`, `AddRealClient`, `RemoveRealClient`, `CloseAllClient` | accept thread, workers, dialog thread |
| `CTcpIOCPClientStub` | `m_Socket`, `m_nStatus`, `m_RecvList` and `m_SendList` (maps of operation nodes), one lock for all | `InitClient`, `RecvData`, `SendData`, `ReleaseOperData`, `CloseClient` | same |
| `CTcpIOCPTool` | `m_FreeList` (FIFO of `IO_OPER_DATA` nodes), `m_BigList` (blocks of 1000); static, shared by all servers | `GetIOOperData`, `ReleaseIOOperData` | every stub, `StopService`, workers |
| `CTcpIOCPServerImp` | listening socket, event, completion port, `m_bAcceptRunning`, thread handles | `StartService`, `StopService`, `CloseClient`; `AcceptThread` (one), `WorkThread` (`m_nThreadNums`) | dialog thread; own threads |
| `CTestIOCPServerDlg` | implements the consumer: `ClientStatusNotify`, `OperateNotify`, called in the server's threads; the Start/Stop button | `RecvData`, `SendData`, `CloseClient` of the server | accept thread, workers, dialog thread |
| `CMemCache` | 32 size classes, a free list each | `GetMemBlock`, `ReleaseMemBlock` | dialog's handlers |

How they interact.  The accept thread polls the event for 50 ms, accepts a
connection, takes a stub, stores the socket in it, enters it in the map,
associates the socket with the completion port under the stub's address, and
notifies the dialog, whose handler posts the first read.  Each worker takes a
packet from the port, gives the operation node back (`ReleaseOperData`) and calls
`OperateNotify`; that handler echoes a message (`SendData`), reads on (`RecvData`)
or closes the client.  Every failing post closes the client too.  Stop clears the
flag, joins the accept thread, posts one exit message per worker, joins the
workers, closes the clients that are left, and closes the port.

What is hard: a node is posted before it is listed; closing a client gives back
nodes that the system still owns; a stub and a node are recycled while packets
that name them are still queued; several threads may close one client; the
notification handlers call back into the server and wait for the dialog's thread,
which waits for them in `StopService`.

What makes it correct: a stub and a node have one owner; a socket is closed once
and never after its handle went to another connection; a connection that is not
closed always has a read outstanding; a memory block is in one place; the port and
the listening socket outlive the threads that use them, whichever step of a start
fails; the stop ends, and leaves nothing open.

### TestUdpReceiver

| Part | State | What can go wrong | Correct when |
|---|---|---|---|
| `CNoLockBiList` | `phead`, `ptail`, the `pnext` of the nodes; no lock, `InterlockedCompareExchangePointer` | each of `PopHead`, `PushTail`, `PopNullHead`, `PushNullTail` reads shared fields several times between two exchanges | every node pushed is popped once, in order; no thread spins for ever |
| `CTcpListenerBase`, `CTcpListener` | status, listening socket, lists of buffers, requests, accept sockets and worker objects | `Stop` and `Start` in the dialog's thread while the port's threads are between an accept and the next `AcceptEx` | a listener that runs has an `AcceptEx` outstanding; everything comes back after a stop |
| `CTcpWorker` | `m_nRecvNum`, `m_nSendNum`, `m_nErrorNum` and two more, `m_TcpSocket`, its own lists | counters written after the post and read by `IsOver` in other threads; the object is reused | an object is released once, with nothing outstanding, and always in the end |
| `CUdpReceiver` | status, socket, buffers with a reference count, the observers and their lock | the count is raised one observer at a time; `Stop` walks the observers without the lock | a buffer is in one place, and its count is the number of its users; a receiver that runs reads |
| `CFileWriter` | the buffer that is filled, the list of the others, the file | a flush from the dialog's thread beside an import; a write that fails at once | the file gets every datagram whole, once and in order |
| `CTcpConnecter` | status, connected, five counters, lists | `Start`, `Stop` and the timer's `Write` in the dialog's thread beside `ConsumeReq` and its `Stop` | the counters account for every operation; after a stop all comes back |
| `CRtspServer` | line buffer, phase, state, header, Transport and Range fields; survives the session | a line, or a request, in two packets; reuse | requests are processed in order, each with its own CSeq; what a header says is what is read |
| `ffutils.cpp` | none | times near the limits, clocks that are not clocks | a time is what its text says, or nothing |
| `CIOCompletionPortCenter` | the port, `m_bProcessing`, its threads | `UninitObject` waits for nobody | the threads end |
| `CTestUdpReceiverDlg` | lists of receivers, writers, listeners and connections, a row for each | three lists are kept in step by position; the order of stop, close and delete | rows show their object; nothing listed is deleted; files are closed after their receivers stopped |
| `IOReq` classes | one record per operation | | |

They share one completion port: each operation is an `IOReq` whose `ConsumeReq`
the port's threads call, whatever its class.  A receiver hands its buffers to the
observers, and gets them back through `ReturnBuf`.

### The rest

`TestUdpSend` is a dialog whose Add button is a TODO, with two empty classes, `unittestprj` a
generated project with one empty test, `G-Sockets…` two demos of a closed-source
library used to load the server, `突破最大连接办法` notes on a registry setting.

## 2. What is modelled, module by module

| Module | Models | Uses |
|---|---|---|
| `ClientManager` | `TcpIOCPClientManager.cpp`; `InitClient` and the socket and status part of `CloseClient` of the stub | |
| `ClientOperations` | `CTcpIOCPTool`; the stub's two lists and the four methods that touch them; the completion port; how a worker treats a packet | |
| `TcpIOCPServer` | the accept thread, the workers, the dialog's handlers, `StopService` | both, as `M` and `O` |
| `ServiceStart` | `StartService`, `InitSocket`, `StopService` with every step failing, and the button | |
| `MemCache` | `CMemCache` and the blocks that the dialog's handlers pass | |
| `FifoQueue` | what the lock-free list should be to its callers | |
| `NoLockBiList` | `nolockbilist.cpp`: `PopHead`, `PushTail` and, with the same actions, `PopNullHead`, `PushNullTail` | `FifoQueue`, as `F` |
| `TcpListener` | `CTcpListenerBase` and `CTcpListener::ConsumeReq` | |
| `TcpWorker` | `CTcpWorker`, and what the listener does with its objects | |
| `UdpReceiver` | `CUdpReceiver`; of its observers, what they do to the buffers | |
| `FileWriter` | `CFileWriter` | |
| `TcpConnecter` | `CTcpConnecter`, with the buttons and the timer | |
| `ReceiverDialog` | the handlers of the dialog that add, start, stop and delete; `CIOCompletionPortCenter` | |
| `RtspServer` | reading of lines, the methods, the session's state, the answers | |
| `RtspTransport` | `rtsp_parse_transport`, with `get_word_sep` and `rtsp_parse_range` | |
| `RtspRange` | `rtsp_parse_range_npt`, `av_parse_time` for durations, `av_small_strptime`, `date_get_num` | |
| `FreeListLemmas` | facts about FIFO free lists, for the proofs | |
| `…Proofs` | the theorems of the module of that name; `SessionProofs` those of `TcpListener`, `TcpWorker` and `RtspServer`, `ReceiverProofs` those of `UdpReceiver`, `FileWriter`, `TcpConnecter` and `ReceiverDialog`, `ServiceProofs` those of `ServiceStart`, `MemCache`, `RtspTransport` and `RtspRange` | the modules |
| `MC…` | what TLC needs: symmetry sets, finite inputs; and, where several modules are checked in one run, their composition. Its `Parts` says which; where a part of it is bounded more than its module (`ConnectionBounds`, `RtspBounds`) another part is not, so that the theorems hold of the whole module | |

A composition of that kind has one more variable, `part`, chosen at the start: in each
behaviour one of the parts moves and the others stay as they began.  It is no
product: what one part does to the other is in the actions of both (the writer's
`ReturnBuf` in `UdpReceiver`, the listener's `ReleaseObject` in `TcpWorker`, the
worker's use of an accepted socket in `TcpListener`).

`ClientManager` and `ClientOperations` are *open*: any thread may make any call
that its type allows, at any time, with any stub it could know.  What they ask of
their callers is little and is written in their `Next`: that `CloseAllClient`
runs alone (it pushes to the free list without the lock), that one exit message
is posted for each worker, and that the port is closed when the threads have
ended.  `TcpIOCPServer` keeps the control of the threads and makes only the
calls that the program makes; that it satisfies the two contracts is checked and
proved as a refinement (`ManagerContract`, `OperationsContract`).  So what is proved
of the two open modules holds of the server.

State and code:

| Variable | Code |
|---|---|
| `freeClients`, `realClients`, `clientCount` | `m_FreeClientList`, keys of `m_RealClientList`, stubs in `m_BigClientList` |
| `socket`, `status` | `m_Socket`, `m_nStatus` of every stub |
| `opened` | the handles that the system holds open; a closed handle may be given out again |
| `mgr[t]` | the critical sections of the manager and stub between which thread `t` is, with `pclient` and the accepted socket |
| `freeOpers`, `operCount`, `operType` | `m_FreeList`, nodes in `m_BigList`, `oper_type` of every node |
| `pending[<<c, READ>>]`, `pending[<<c, WRITE>>]` | `m_RecvList`, `m_SendList` of stub `c` |
| `io` | the bag of operations that the system has accepted and not delivered |
| `call[t]` | the step of `RecvData`, `SendData`, `WorkThread`, `ReleaseOperData` at which `t` is, with its locals |
| `exits` | how far the loop of `StopService` is that posts the exit messages |
| `pc[t]`, `ret[t]`, `client[t]`, `sock[t]` | next step of `t`, what follows the call it is in, `pclient`, and `m_Socket` as `RecvData`/`SendData` read it |
| `head`, `tail` | `phead` and `pnullhead`, `ptail` and `pnulltail` |
| `next`, `ele`, `nodeCount` | `pnext` and `ele` of every node, the nodes allocated |
| `call[t]` (`NoLockBiList`) | the next shared access of call `t`, and its locals |
| `contents` | auxiliary: the nodes of each list, in order; no guard reads it but the bound of `CallPush` |
| `ui`, `acceptRunning` | where the dialog's thread is (`"loop"`: in its message loop), `m_bAcceptRunning` |
| `iocp`, `listen`, `thread` (`ServiceStart`) | `m_hIOCP`, `m_ListenSocket`, `m_pThreadHandle` |
| `owner` | what the system has open under each handle number; `alive`, `kills`: the threads that run, the exit messages in the port |
| `refused`, `short` | auxiliary: `InitSocket` failed, a worker is missing |
| `freeList`, `areas` (`MemCache`) | `m_FreeList`, the blocks in `m_BigList` |
| `reads`, `writes`, `hand`, `lost` | the blocks under operations, in handlers, and of packets that nobody took |
| `pools` or `bufs`, `reqs` | lists of buffers, requests, accept sockets: how many were made, how many are in the list |
| `io` (TestUdpReceiver) | the operations that the system holds: of each object and kind, of each listening socket, or the buffers or writes themselves |
| `n` | the five counters of a worker or connection |
| `socket`, `status`, `res` (`TcpWorker`) | `m_TcpSocket` (the number of the session), `m_nStatus`, `res` of each object |
| `freeWorkers`, `acceptNum`, `obj[t]` | `m_WorkerList`, `m_nAcceptNum`, the object thread `t` works for |
| `suspect`, `silent` | auxiliary: objects that started with errors or two of whose packets were processed at once; objects whose last packet was a write's success |
| `sock`, `opened` (`TcpListener`) | `m_TcpSocket`, the listening sockets that are open |
| `broken` | auxiliary: an `AcceptEx` of the present socket failed |
| `count`, `lock` (`UdpReceiver`) | the reference count before each buffer, `m_ObserverLock` |
| `buf[t]`, `size[t]`, `at[t]` | buffer, bytes and observer of thread `t` |
| `late`, `dropped`, `doubled` | auxiliary: a read failed before its success was noted; buffers never returned, returned twice |
| `cur`, `fill`, `data`, `file` (`FileWriter`) | `m_pCurBuf`, `m_nCurSize`, contents of the buffers, what was given to the system to write |
| `raced`, `failed` | auxiliary: a flush ran beside an import, a write failed |
| `connected`, `valid`, `associated`, `ret[t]` (`TcpConnecter`) | `m_bConnected`, whether `m_TcpSocket` is valid, whether the port knows it, where a thread's `Stop` returns to |
| `early` | auxiliary: a packet ended the connection before `Start` noted its success |
| `list`, `files`, `rows` (`ReceiverDialog`) | the lists of objects and writers, and the rows of the controls: each with the object it was made for (`of`) and those it shows |
| `stat`, `file`, `buffered` | state of an object, of its writer's file, and whether the writer holds data |
| `todo` | the calls that the running handler has still to make |
| `processing`, `port` | `m_bProcessing`, `m_hCompletionPort` |
| `anaPhase`, `rtspState`, `methodcode`, `header` | the fields of `CRtspServer` and of the request's header |
| `temp`, `line`, `seen`, `pkt`, `wire` | `m_pTempDataBuf`, the line that is put together, `breturn` and `bnext`, the rest of the packet, what the client sent |
| `transports`, `nb`; `start`, `end` | the Transport fields and their number; `range_start`, `range_end` |
| `text`, `p`, `t`, `micro`, `unit` | what is left of a header; the locals of `av_parse_time` |

Actions are critical sections or system calls, one action each, named after the
function when there is one: `RecvData` is `FillRecv` (node taken, typed, socket
read), `PostPends` or `PostFails`, `InsertPending`; `ReleaseOperData` is
`MarkOper` (the type is read and reset *outside* the lock), then `EraseOper` or
up to two `FindOper`s; `CloseClient` of the server is `RemoveRealClient`,
`CloseSocket`, `ReleaseRecv`, `ReleaseSend`, `PushFreeClient`, `Notify`.

In `NoLockBiList` a process is a call in progress, and an action one access to a
field that other threads may use: a reading, a compare-exchange, an assignment.
`PopHead` takes a node from the list in use and puts it in the list of nodes
without an element, `PushTail` does the reverse (or allocates a node); the two halves
are the same code twice in the source, and in the model the same actions with
`From(t)` and `To(t)`.  A compare-exchange that fails has a branch of its own, back to
the loop's start.  `IsFifo` maps the list to `FifoQueue`: a push takes effect when
its node becomes the tail (`SetTail`, `CasEnd`), a pop when the tail or the head is
exchanged (`CasTail`, `CasHead`) or a NULL tail is read (`ReadTail`).

In the TestUdpReceiver modules an action is what one thread does between two steps
of others that could matter: a post and the counter after it are two actions
(`Post`, `CountPosted`), and so are setting the status and closing the socket in `Stop`,
looking at the counters and releasing the object, and the loop over the observers
observer by observer.  `ReceiverDialog` gives each handler as a sequence of calls
(`Handle`) that `Calls` makes one by one, while the threads go on.

## 3. Abstractions

Steps that the code makes in several and the model in one:

- `closesocket` and the assignment of `INVALID_SOCKET` (one critical section).
  `RecvData` reads `m_Socket` without the lock; the model keeps that reading as a
  step of its own (`sock[t]`), so a post on a handle that was closed, or closed
  and reused, since is in the model.
- `WSAAccept` and `GetFreeClient`: the new handle is a local variable of the accept
  thread until `InitClient`, and no other thread looks at it.
- `GetIOOperData`, `memset` and the assignment of the type: the node is in one
  thread's hands.
- erasing a node from a list and pushing it to the pool (two locks, in between
  only this thread has it).
- in `CloseAllClient` the three parts of `CloseClient` for each client: the
  contract is that it runs alone.

- in the list of `NoLockBiList`, the element is read or stored in the step before or after which only
  this call has the node; `pprev`, `m_nEleNum` and `m_nNodeNum` are written and never
  read.

Data left out:

- Memory blocks and byte counts.  A result is `ok` (what
  `GetQueuedCompletionStatus` returned) and `data` (whether the number of bytes is
  positive): `OperateNotify` tells nothing else apart.  Who owns a block is
  `MemCache`'s question, which takes a packet to name the block it was posted with.
- The result of an operation is left open until its packet is dequeued, and packets
  are dequeued in any order: a bag, not a queue.  The code does not order the
  completions of different operations and several workers race for them.
- The completion key of an operation is the stub that holds the handle when the
  operation is posted; a handle is associated once, by the thread that accepted it.
- Peer addresses, times, log lines, text.
- The lists of the TestUdpReceiver objects are taken to be what `IsFifo` says, although
  the program does not keep to what that needs (section 7): what the objects do with a
  list that works is a question of its own.
- `new` gives an object.  Making a listening or connecting socket succeeds or, what
  was made being closed again, fails.
- The writer's buffers have room for few units; a datagram is its number, as often as it
  has units.  `TcpListener`, `TcpWorker` and `TcpConnecter` count buffers, for nothing
  looks into them; `UdpReceiver` and `FileWriter` name them.
- RTSP text is a sequence of tokens.  Words are never as long as the parsers' buffers
  (they would be cut), a `+` sign and blanks inside a time are not sent.

Bounds: `MaxClients`, `MaxOpers` bound what is allocated, `MaxPackets` what is
outstanding, `MaxAccepts`, `MaxReceives`, `MaxTraffic` what peers do, `UserStops` whether the
user clicks.  `InitClients`, `ClientBlock`, `InitOpers`, `OperBlock` are 1000 in
the code and 1 or 2 in the runs, so that the free lists run empty.  The other
modules name theirs in the comments of their `CONSTANTS`: each bounds what is
allocated, or what peers and the user do.

Branches not modelled: those of `WorkThread` for a port that is closed under it
(294–300, 312–318) are not in `TcpIOCPServer`, where the port is closed after the
join; `ServiceStart` has them, for there a worker that could not be created makes
the join fail at once.  The list of observers is never empty when a datagram comes.

## 4. The runs

| Run | Instance | Checks | Shows |
|---|---|---|---|
| `manager` | 3 threads, 3 sockets, 4 stubs in blocks of 2; 11 k states | `StubOwnership`, `SocketOwnership` | Whatever three threads close, and whenever: a stub is free, real or in one thread's hands, never two of them and never none; a handle has one stub; nothing is closed twice or left open. |
| `operations` | a worker and another thread, 2 stubs, 2 nodes, 2 outstanding; 709 k states | `OperOwnership` | Until the stop begins a node has one owner, although packets arrive before their node is listed, after it was given away, or on somebody else's stub. |
| `server_run` | 2 workers, 2 sockets, 2 stubs, 6 nodes, 2 connections, 1 message, no stop; 1.55 M states | `NoneDeaf` | Until a client is closed, each connection has a read outstanding that a worker will recognise, or a thread about to post one. |
| `server_stop` | 2 workers, and 2 connections or 1 with a message; the user may stop in any state; 166 k states | `StopIsClean`, `ManagerContract`, `OperationsContract`, `StopEnds` | The threads call the manager and the operations as those modules require; after the stop every socket is closed and every stub free once; and the stop ends, unless a thread of the server is at `SetDlgItemInt`. |
| `server_oper_type` | as `server_run` | `DocumentedType`, violated | A worker hands −1 to the consumer as the type of an operation. |
| `list` | one `PushTail` and one `PopHead` at a time, 2 elements, 3 nodes; 71 k states | `NodeOwnership`, `ListIntact`, `IsFifo`, `CallsReturn` | With one call of each kind at a time the two linked lists stay whole at every interleaving, the callers see a FIFO queue, and every call returns. |
| `list_two_poppers` | one `PushTail`, two `PopHead`s at a time, 2 nodes | `NoCrash`, violated | A `PopHead` that is overtaken between its readings of `ptail` and `phead` follows NULL. |
| `service` | 5 handle numbers, 2 workers of at most 2 that can be waited for, 3 starts; blocks: 2 threads, areas of 2, at most 4 blocks, 2 starts; 36 k states | `TypeOK`, `HandlesOwned`, `OutliveThreads`, `OnePlace`, `FreedAtRest`, `StopReturns` | Whichever step of a start fails: what is open is held by one field, port and listening socket outlive their threads (but for the cases of section 7), and the stop returns. A block is in one place, and the areas are freed when nobody uses them. |
| `sessions` | 2 threads and the dialog's, 3 listening sockets, 3 clients; sessions: 2 objects, 2 sessions, 1 message; RTSP: lines of at most 4 tokens, 2 requests, 2 connections (`OPTIONS`), or one (three methods); 363 k states | `TypesOK`, `ListsWhole`, `Listening`, `ReleasedClean`, `NeverLeavesIdle`, `Faithful`, `Drains`, `Released` | Nothing leaks over stops and starts; a listener that runs hears until an `AcceptEx` fails; an object is released once, with nothing outstanding, and in the end. Requests are cut at every place: what is not cut is processed in order with its own CSeq, and the session stays idle. |
| `receiver` | 2 threads and the dialog's, 4 buffers, 2 sockets, 2 datagrams, empty ones too, one observer whose writes may fail; writer: buffers of 3 units, 5 of them, 3 datagrams of 1 or 2 units, 2 flushes; 234 k states | `TypesOK`, `BufsWhole`, `Reading`, `NothingLost`, `LockReleased` | A buffer is in one place and its count right; a receiver that runs reads; the file gets datagrams whole, once and in order; nobody keeps the observers' lock. |
| `dialog` | all three kinds of objects, 2 of them, 1 thread; a connection with 2 threads that reads, and one with 1 thread that also writes; 273 k states | `TypesOK`, `ListsInStep`, `Accounted`, `Alive`, `ThreadsEnd`, `ComesToRest` | Lists and rows stay in step over any sequence of additions and deletions; the counters account for every operation at every interleaving; after a stop all comes back; the threads end. |
| `rtsp` | 2 places for transports, lists of up to 3, junk of 4 tokens; times in every form, with seconds of 100 parts; 87 k states | `Ends`, `Parsed`, `Exact` | A Transport header of any text is parsed to its end, within the array; and a Transport or Range header is read as what it was written from. |

Where several modules have a type invariant in one run they are one property
(`TypesOK`); those of the first three modules, of the list and of the server are proved
instead of run.  `ListsWhole`, `BufsWhole`, `ListsInStep`, `Accounted`, `Parsed`,
`Exact` and `OnePlace` are conjunctions of the parts that the modules name.

Why the bounds are enough.  The interesting cases need two threads on one stub
(two closers, or a stale packet and the new owner), a free list that runs empty, a
handle that is reused, and a node that is reused while its old packet is out.
All occur: with two sockets and three accepts, or two stubs and two connections,
recycling happens.  It was confirmed by reachability that a stale worker closes
a new connection's socket before the accept thread associates it; that `RecvData`
posts on a handle that another stub owns by then; that a node is outstanding
twice; and that a packet arrives whose node is in no list.  In `server_run` no
second worker or connection beyond the two is needed for `NoneDeaf`, whose
violation needs only one connection and one worker.

The stop is checked with less traffic than the service (`MaxTraffic`): two
connections without a message, or one with a message, which is what it takes to have both workers and the accept thread in handlers when it is
clicked.

The newer runs were sized in the same way, by the case that needs most.  `service`:
a number that was closed and is given to a new server's handle while the old field
still has it, for which five numbers and three starts are enough; the block that is
lost and the one that is reused are both in areas of two.  `sessions`: an object that
is reused while a packet of its last session is outstanding needs two sessions and
two threads; the third socket of the listener is that of a restart after a restart.
`receiver`: two threads with a datagram each while `Stop` and `Start` make a second
socket; a writer's buffer of three units is full, has room for one datagram and not
for another, or is flushed half full.  `dialog`: deletion of the first of two
objects moves the second, in every list; the counters' errors need two threads in one
object at most.  RTSP: a line that is too long, one that is cut, a request after a
cut one, a second connection after a released one.  `rtsp`: three transports for two places;
numbers on both sides of every limit of the time parser.

For the list the cases are: empty, one node, and more than one (where a node is
taken by another branch than the only one), in either linked list, with a call half
way in it.  Three nodes give them all, with a node in each call's hands, and every
node is reused.  Two elements tell a wrong order from the right one.

Deadlock is checked in the two open modules and the list.  It is not in the other runs: the
peers and the user are bounded, so the program comes to rest, and a stopped
service, or an ended program, is its proper end.

## 5. Fairness

`FairSpec` assumes weak fairness of each thread: the accept thread
(`AcceptThread`, which polls with a timeout of 50 ms), each worker
(`WorkThread`, in `GetQueuedCompletionStatus`), each thread inside a handler
(`Handler(t)`), and the stop (`StopService`).  Each is one disjunction per thread,
so it says that a thread that can go on does, not which branch it takes.  That a
particular packet is delivered is not assumed: when only exit messages are left
in the port a worker can but take one, and the bounded peers send no more.
Nothing is assumed of peers, of the user, or of calls that may fail.  A thread
that waits in `SetDlgItemInt` is disabled until the dialog's thread is back in its
message loop, so no fairness helps it; hence the exception in `StopEnds`.

In the other modules the same is assumed of each thread: a thread of the completion
port goes on with its handler and takes a packet when there is one
(`TcpListener`, `TcpWorker`, `UdpReceiver`, `TcpConnecter`, `ReceiverDialog`), the
dialog's thread comes to the end of a handler that it began, the accept thread sees
its flag (it waits 50 ms at most) and a worker its exit message (`ServiceStart`).  An
operation that is outstanding comes back, well or not, and the code gives the
system reason to: the socket is closed, or a peer answers.  Nothing is assumed of
buttons, peers and failures.  `FileWriter`, `MemCache` and the three RTSP modules have
no liveness property and no fairness; `Ends` shows the end of the parser's loops with a
count that every round lowers.

In the list a call that has begun goes on (weak fairness of `Access(t)`: the system
schedules its thread); nobody has to call.  `CallsReturn` then says that the loops
of the four functions wait only for the other call's next step.

## 6. The proofs

All are checked by TLAPS for every value of the constants that satisfies the
named assumptions: `NoSocket` is not a socket and `NoClient` not a client, block
sizes are positive naturals, the bounds are naturals, the workers are finitely
many threads.

- `ClientManagerProofs`: `TypeCorrect`, `StubsOwned`, `SocketsOwned`.  The
  inductive invariant is `TypeOK`, `Exclusive`, `NoneLost` and `Sockets0`, which
  strengthens `SocketOwnership` by what is known of each step: a stub in the hands
  of a thread at `"got"` has no socket yet and the thread holds a handle that is
  open or `NoSocket`; from `"closed"` on a stub has none.  Without it
  `SocketOwnership` is not inductive: nothing would forbid `InitClient` to store a
  handle over another one.
- `ClientOperationsProofs`: `TypeCorrect`, `OpersOwned`.  The strengthening is
  `Locals` (a thread that is posting has an allocated node, a stub and a kind) and
  `Owned`: while `exits = 0` the nodes are owned *and* no thread has exited, no
  node is typed as an exit message and none is in the port.  This last part is why
  the theorem ends at the first exit message: after it a stale packet whose node
  was reused for the exit message makes the worker release the node a second time.
  Five lemmas say what each kind of step does to the three places where a node
  can be (`TakeInHand`, `DropFromHand`, `SameHands`, `NodeListed`,
  `NodeUnlisted`); each action's step cites the one that fits.
- `FreeListLemmas`, used by all of them: head and tail, append, and concatenation of injective
  sequences, with their sets of elements; blocks of new numbers.

- `NoLockBiListProofs`: `TypeCorrect`, `NodesOwned`, `ListsIntact`, `QueueIsFifo`, under the
  hypothesis `OneAtATime` (at most one call in `Pushers` and one in `Poppers`).  It
  is a hypothesis of the theorems, not an assumption of the module, because the run
  `list_two_poppers` needs a second popper.  The properties are not inductive: that the
  compare-exchange of the head is safe depends on what the call has learnt since it
  read it.  `Known` says this for every step of a call: `TakeInv`, what the call that
  takes a node knows of its list (after a tail was seen the list is not empty, and
  stays so; at the compare-exchange of the head the successor it read is still
  the second node), and `PutInv`, what the one that puts it knows of its own.  The argument is
  that the two calls take from opposite lists (`Roles`), so each list has one
  call that takes and one that puts.  One lemma for each step; `LocalStep` serves
  those that only read.

- `SessionProofs`: of the run `sessions`, `SessionTypes`, `ListenerListens`,
  `ListsAreWhole`, `ReleasedIsClean`, `SessionStaysIdle`, `SessionIsFaithful`, over the
  composition `MCSpec`
  (`EachSpec`: a behaviour of it is one of the listener's, one of the worker's and one of an
  RTSP session's, that move or stay).
  *Listener.*  `LInv` adds to the properties what each step of a thread knows
  (`LSteps`: at `"post"` it holds one accept socket, one buffer, one request) and, for
  `Listening`, that the chain is whole (`LChain`).  *Worker.*  `WInv` is the balance of the
  counters at every step of the one thread that works for an object: `m_nRecvNum` is
  what is outstanding and what this thread posted and has still to count, and so on
  for the five; `IsOver` is true of a balanced object only when nothing is outstanding.
  Neither property is inductive without it: the counters are written after the post,
  so that for a while they are wrong by what a thread has in hand.  Objects in `suspect` are
  outside of it, for there two threads are at work.  `AcceptSum`: the objects that are
  used, free or being started are all that were made.
  *RTSP.*  `SessionStaysIdle` (an RTSP session never leaves the idle state: PLAY,
  PAUSE, RECORD and TEARDOWN are never accepted, and SETUP never answered).  The strengthening is that within a request the method is ANNOUNCE or
  OPTIONS: the check of the method comes with the first line, the change of the
  state with the last, and any number of packets in between.
  `SessionIsFaithful` is about two histories, and its invariant connects them: while no line
  was cut, what was read of a line, the rest of the packet and what is still to come are
  together the lines of the requests from some place on (`Stream`; `Lies` and `Laid` say
  which lines lie where in a stream of tokens); the parser's phase, method and CSeq are
  those of that place, and what was processed are the accepted ones among the requests
  before it (`Phase`).  `LineRead` is the step that matters: when the parser sees the
  end of a line, its buffer is the line of that place, neither more nor less, and the rest
  is the stream of the next one.  That no OPTIONS is answered twice holds even when lines are
  cut, where no place can be named: there the tokens that begin an OPTIONS command are
  counted wherever they are, on the wire, in the packet or in the buffer, and each
  answer uses up one (`CInv`).
- `ReceiverProofs`: of the runs `receiver` and `dialog`, over the composition of their four
  modules, `ReceiverTypes`, `BufsAreWhole`, `ReceiverStaysReading`, `NothingIsLost`; of the
  connection, `ConnecterAccounted`, `ConnecterAlive`.  A receiver's buffer is the matter of the
  thread that has it: its count is what the loop over the observers has raised so far, less
  what they returned.  For the writer the file followed by the buffer is
  a sequence of whole datagrams, and the invariant says what each step of
  `ImportData` has already put there and what is left to put.  For the connection the counters
  balance as for a worker, but with several threads in one object: the balance is over
  all of them.  Of the dialog, `ListsStayInStep`: while a handler
  runs its lists are out of step, a receiver erased whose writer still is listed, so that
  the invariant `Plan` is what the handler has still to call, one form for each
  kind of handler (`NoDeletion`, `DeletesReceiver`, `DeletesListener`,
  `DeletesClients`, `Ends`), and what holds of the lists before each of those calls.
  Each call is proved to take a plan to its rest, the last one to `NoDeletion`.
- `ServiceProofs`: `TypeCorrect`, `HandlesKept`, `ThreadsOutlived`, and, of the
  blocks, `BlocksInOnePlace`, `BlocksFreedAtRest`.  The
  properties need what the flags and handles are at each step: `Started` and
  `Stopped` for the steps of the start and of the stop, `AcceptKnown` and
  `WorkersKnown` for which threads there are, `PortOwned` and `ThreadsOwned` for
  whose the handle numbers are, without which a number that was given out again
  could be anybody's.  A block is named in one of four places; each path of the
  handlers takes it out of one and puts it in another.
  Of the run `rtsp`, `HeadersEnd` and `TimesFit`, for texts of any tokens.
  `HeadersEnd` states `Ends`: the array of transports keeps its bound and its fields their
  form, and the parser needs no more rounds than three for each token and one.  `HInv` adds
  that `nb` is below the array's size wherever the parser may store, which the code
  tests at the end of a round of the outer loop only, and that every round lowers what is left
  to do: it takes something of the text, as a protocol does even if it is none that is known
  (`ProtocolTaken`), and a parameter with what separates it from the next (`WordTaken`,
  `ParameterPast`), or it leaves one of the two loops.  `TimesFit` is the type invariant of `RtspRange`, which is
  not obvious there: the digits of a fraction are summed with falling weights in a loop without a
  test, and the sum stays below a second because the sum and ten times the weight
  of the next digit do (`PartSums`); the time of a clock that does not fit is no value
  (`TimeFits`); and no time is negative, for a minus never reaches `av_parse_time`:
  `get_word_sep` has cut the text at it.
- `TcpIOCPServerProofs`: `ManagerKept` and `OperationsKept`, that every step of the
  server is a step of `ClientManager` and of `ClientOperations` or changes nothing
  of theirs; `StopClean`; `NeverDeaf`; `TypeCorrect`.  The invariant `Inv` is the ownership of
  both modules, which their proof modules give step by step, with what the server
  knows of its threads: `Calling`, a thread is inside a call of the manager or of the
  operations only at the steps of that call; `LegalStack`, what each step may return
  to; `Stopping`, what each step of the stop tells: which threads have ended, and
  how many exit messages were posted.  A step is proved to keep it in three parts:
  it is a step of the manager, a step of the operations, and keeps the server's own
  part.  `StopIsClean` then follows: `CloseAllClient` runs when all threads have
  ended, so no stub is in anybody's hands, and what it does not find is free.
  `NeverDeaf` states `NoneDeaf`.  `Hears` adds to `Inv` what a connection's read goes through:
  as long as no client was closed, a packet finds its node as it was posted (`Fresh`), the
  node of a thread's call is of the connection that the thread works for (`Placed`), whose
  completion key is its stub (`Keyed`), and every connection of the map has a read
  outstanding, a packet of one, or a thread on the way to post one (`Heard`).  The connections
  that were accepted are those in the map and those on their way there, unless one was
  closed (`Counted`), and none is closed before the stop reaches the clients (`Open`).  One
  lemma for each step (`HearsOn` joins them).

How much is outstanding is a sum over objects and kinds.  There is no library of
proved facts about sums, so `Outstanding` is a set of units (one for each operation that a counter
stands for) and the proofs use facts on finite cardinality: `UnitMore` and `UnitLess` of
`FreeListLemmas`, for an operation posted and one that came back.

Sequences of any length are handled by induction without the library's induction
theorems, which take an operator: a set of naturals that is not empty has a least element
(`LeastNumber` of `FreeListLemmas`, from the well-foundedness of `<`), so that a set with 0 and
the successor of each of its numbers has all (`Counting`), and a set of sequences with the empty one
and every extension of one of its own has all of them (`Growing`).  For a loop that carries a
value from round to round this gives that the function it computes exists (`RoundsMade`) and
stays in a set that every round stays in (`RoundsTyped`).  `SessionProofs` uses
it for `Of`, the requests of a history with one of the given methods, which is a recursive
function in `RtspServer` for that reason: the provers know nothing of `SelectSeq`.

Model-checked only: liveness under fairness (`ThreadsEnd`, `ComesToRest` and the
other `~>` of the table in §4), for ENABLED is out of the prover's reach; `Parsed` and
`Exact` of the RTSP texts, which compare what a parser computes from a text with what the text
was written from.

## 7. What the code does that it should perhaps not

- `DocumentedType` (run `server_oper_type`): `CommParam.h:16` lists 0, 1 and 100 as
  the values of `oper_type`; a failed operation of a client that was closed reaches
  the consumer with −1, whose answer is "Error oper_type".
- `NoneDeaf` holds only until a client is closed.  `CloseClient` gives away nodes
  that are outstanding; the old packet then marks the node's new operation as
  released, and the packet of that one is dropped by the `default` of
  `WorkThread`: a connection that reads no more.  The property states the part that
  holds and its comment says so.
- A packet of a connection that is gone carries its stub; the handler closes the
  connection that owns the stub now.  Ownership stays consistent (that is what
  the properties say), the peer loses its connection.
- `CreateIoCompletionPort` can fail because a stale worker closed the new
  socket: the accept thread ends, and no other connection is accepted.
- The list is safe for one `PushTail` and one `PopHead` at a time, and no more.  With
  two `PopHead`s one may follow a NULL `phead` (line 65 of `nolockbilist.cpp`, run
  `list_two_poppers`); with two `PushTail`s the same happens in `PopNullHead` (line
  138), whose code is the same.  The program does not keep to this: the threads of
  the completion port share the lists of all sessions.
- Stop waits for ever if a thread is at `SetDlgItemInt` when it is clicked, or
  comes there.
- `TcpIOCPServerImp.cpp:128`: after a failed `InitSocket` `m_hIOCP` keeps the number of
  a closed handle, which `StopService` closes again (`HandlesOwned` excepts it:
  `refused`).  Line 143 tests the accept thread's handle instead of the worker's: a
  worker that could not be created goes unnoticed, the join fails at once, and the port
  is closed under the others (`OutliveThreads` excepts it: `short`).  The dialog ignores
  the result of `StartService` (`TestIOCPServerDlg.cpp:292`).
- `TcpWorker.cpp:118`: two packets of one session that are processed at once may both
  find it over and release the object twice; or, because operations are counted after
  they were posted (289), once too early.  Line 198: `Start` does not reset
  `m_nErrorNum`, so a reused object is over too early.  (`ReleasedClean` excepts both:
  `suspect`.)  Line 70: a write's success never asks whether the session is over, so if it
  is the last packet the object is not released (`Released` excepts it: `silent`).
- `TcpListener.h:93`: an `AcceptEx` that fails ends the chain; the listener shows that it
  runs and hears nothing, and `Start` refuses (`Listening` excepts it: `broken`).
- `UdpReceiver.cpp:207` and `TcpConnecter.cpp:303`: the running status is set after the
  first operation was posted, over the failure of that one (`late`, `early`).
- `UdpReceiver.cpp:404`: with two observers the first may return a buffer to the list
  before the second was counted; the program has one.  Line 226: the flush of `Stop` may
  run beside an import (`raced`).
- `FileWriter.cpp:129`: a datagram without data is taken for a flush and its buffer not
  returned (`dropped`).  Lines 232 and 258: when `WriteFile` fails at once the buffer is
  returned twice (`doubled`).
- `RtspServer.cpp:70`, `257`: OPTIONS advertises methods that are not answered.  Lines
  135–137: a line in two packets loses its first part.  Line 9: the phase is set by the
  constructor only, so an object that was released within a request starts its next
  connection within it.  (`Faithful` speaks of what was not cut, and of the number of
  answers in any case.)  Line 433: `mode_record` is always 1.
- `TestUdpReceiverDlg.cpp:385`: Del flushes and closes the writer, while a thread may
  still import a last datagram.

## 8. Not modelled

- What runs when the program ends and everything has stopped: `UninitObj` of the node
  pool, the six `ReleaseAllList` of the dialog's destructor, `UninitObject` of the
  listener.  They free memory whose use by threads that were not joined no code
  excludes; a model would have nothing to compare them with.
- The threads of a server whose `StopService` did not wait for them (`short`), once the
  dialog made the next server: `ServiceStart` forgets them as the dialog does.
- The number of connections that the dialog shows (`TestIOCPServerDlg.cpp:207`): it is
  read before `SetDlgItemInt` waits, so an old one may stay on the screen.
- `av_url_split`, whose results nothing uses; the dates of `av_parse_time`, which no
  caller asks for; the headers of a request that are read and used by nothing.
- In `NoLockBiList` the counters `m_nEleNum` and `m_nNodeNum` and the field `pprev`.
- `TestUdpSend`, `unittestprj` and the two G-Sockets demos: dialogs and stubs without
  state of their own, or of a closed library.

The objects of TestUdpReceiver are not composed with `NoLockBiList`, whose lists they
share between the threads of the port: `list_two_poppers` shows that the list itself
fails with two `PopHead`s at a time, so that no property of its users would hold.

## 9. Running it

    tlc -workers 2 -config ClientManager.cfg MCClientManager.tla
    tlapm ClientManagerProofs.tla

and likewise for the other configurations and proof modules; `server_stop` is
`TcpIOCPServerStop.cfg`, `server_oper_type` `TcpIOCPServerType.cfg`, both with
`MCTcpIOCPServer`; `receiver` is `Receiver.cfg` and `dialog` `Dialog.cfg`, both with
`MCReceiver`; and `list_two_poppers` is `NoLockBiListTwo.cfg`.  `PROJECT.json`
lists the runs with their properties, for every property a mutant of the code
that breaks it (a dropped test of `erase`'s result, a loop that runs once too
often, a wait with a timeout, …), the source lines of every definition, the
hazards, and the theorems.  A definition named `…Faulty` is such a mutant; no
action uses it.
