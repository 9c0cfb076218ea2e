---------------------------- MODULE MCService ----------------------------
(* ServiceStart and MemCache for TLC, one or the other in each behaviour.  *)
EXTENDS ServiceStart, TLC

CONSTANTS h1, h2, h3, h4, h5, h6, t1, t2, n1, n2, Threads, Nodes, NoNode, MaxPackets,
          NoBlock, BlockSize, Num, MaxBlocks, MaxStarts
MCHandles == {h1, h2, h3, h4, h5, h6}
MCThreads == {t1, t2}
MCNodes   == {n1, n2}

VARIABLES part, freeList, areas, pool, type, buf, listed, io, cpc, hand, node, kind,
          server, starts, lost, stale, spoiled

C == INSTANCE MemCache WITH pc <- cpc, rounds <- starts, MaxRounds <- MaxStarts

cvars  == <<freeList, areas, pool, type, buf, listed, io, cpc, hand, node, kind,
            server, starts, lost, stale, spoiled>>
mcvars == <<part, vars, cvars>>

ASSUME BlocksAssumption == C!MemCacheAssumption

MCInit == part \in {"service", "blocks"} /\ Init /\ C!Init
MCNext == \/ part = "service" /\ Next /\ UNCHANGED <<part, cvars>>
          \/ part = "blocks" /\ C!Next /\ UNCHANGED <<part, vars>>

\* Threads go on, as in FairSpec.
Service(A) == part = "service" /\ A /\ UNCHANGED <<part, cvars>>
MCSpec == /\ MCInit /\ [][MCNext]_mcvars
          /\ WF_mcvars(Service(Starting \/ Stopping)) /\ WF_mcvars(Service(AcceptAsked))
          /\ \A i \in Workers : WF_mcvars(Service(WorkerEnds(i)))

\* Every block is in the free list, under one operation, in one handler or lost to a stop,
\* but for those that a packet was mistaken for or forgot (TestIOCPServerDlg.cpp:191-280;
\* TcpIOCPServerImp.cpp:305-333, 346); and only the class of the size that the handlers
\* ask for is ever used (MemCache.cpp:34).
OnePlace == C!TypeOK /\ C!OnePlace
\* No packet is mistaken for another's block as long as no client is closed over an
\* operation of its own (TcpIOCPClientStub.cpp:37-93, 154-190).
OwnBlock == C!OwnBlock
============================================================================
