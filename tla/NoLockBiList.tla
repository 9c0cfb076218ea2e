---------------------------- MODULE NoLockBiList ---------------------------
(***************************************************************************)
(* The list without locks of TestUdpReceiver, CNoLockBiList                *)
(* (nolockbilist.cpp), in which its parts keep their free buffers, request *)
(* records, sockets and sessions.                                          *)
(*                                                                         *)
(* There are two linked lists of nodes: phead/ptail, the nodes in use, and *)
(* pnullhead/pnulltail, those without an element.  PopHead takes a node    *)
(* from the first and puts it in the second, PushTail takes one from the   *)
(* second (or a new one) and puts it in the first; the code of the two     *)
(* halves is the same for both.  One action is one access to memory that   *)
(* other threads may use; call[t].at is the next access of call t.         *)
(*                                                                         *)
(* A list is empty when its tail is NULL; a head without a tail is the     *)
(* trace of a call that is half way.  pprev, m_nEleNum and m_nNodeNum are  *)
(* written and never read, and left out.                                   *)
(***************************************************************************)
EXTENDS Integers, Sequences, FiniteSets, SequencesExt

CONSTANTS
  Pushers,    (* the calls of PushTail that may be in progress at a time   *)
  Poppers,    (* the calls of PopHead that may be in progress at a time    *)
  Elements,   (* what is pushed                                            *)
  NoElement,  (* NULL, as an element                                       *)
  MaxNodes    (* BOUND on the nodes ever allocated                         *)

ASSUME CallAssumption == Pushers \cap Poppers = {}

ASSUME ElementAssumption == NoElement \notin Elements

ASSUME NodeAssumption == MaxNodes \in Nat

Calls == Pushers \cup Poppers
Lists == {"list", "nulls"}
Nodes == 1 .. MaxNodes
NULL  == 0

VARIABLES
  head,       (* phead and pnullhead                                       *)
  tail,       (* ptail and pnulltail                                       *)
  next,       (* pnext of every node                                       *)
  ele,        (* ele of every node                                         *)
  nodeCount,  (* nodes allocated so far                                    *)
  call,       (* the local variables of every call                         *)
  contents,   (* AUXILIARY: the nodes of each list, in order               *)
  overlapped  (* AUXILIARY: calls have overlapped in one half of one list  *)

vars == <<head, tail, next, ele, nodeCount, call, contents, overlapped>>

\* The list from which call t takes a node, and the one in which it puts it.
From(t) == IF t \in Poppers THEN "list" ELSE "nulls"
To(t)   == IF t \in Poppers THEN "nulls" ELSE "list"

Idle == [at |-> "idle", node |-> NULL, tail |-> NULL, head |-> NULL, next |-> NULL,
         ele |-> NoElement]

\* The local variables of call t become c, or only its next step changes.
Becomes(t, c) == call' = [call EXCEPT ![t] = c]
GoTo(t, step) == Becomes(t, [call[t] EXCEPT !.at = step])

\* Node n enters list l, and the first node leaves it.
Entered(l, n) == contents' = [contents EXCEPT ![l] = Append(@, n)]
Left(l) == contents' = [contents EXCEPT ![l] = IF @ = <<>> THEN @ ELSE Tail(@)]

\* Call t is between the first access that decides which node it takes and the
\* one that leaves the list behind in order, or the same for putting its node.
Taking(t)  == call[t].at \in {"readhead", "castail", "readnext", "cashead", "clearhead"}
Putting(t) == call[t].at \in {"casempty", "settail", "casend", "link"}

\* Two calls take from one list at a time, or two put in one list. Two calls of
\* one kind may be in progress without that, and nothing in the code forbids it.
Overlap == \E s, t \in Calls :
  /\ s # t
  /\ \/ Taking(s) /\ Taking(t) /\ From(s) = From(t)
     \/ Putting(s) /\ Putting(t) /\ To(s) = To(t)

----------------------------------------------------------------------------

\* The calls of PushTail that have no node yet.
Waiting == {t \in Pushers : call[t].at \in {"readtail", "readhead", "castail", "readnext",
                                            "cashead", "newnode"}}

\* The bound: a call of PushTail begins when there will be a node for it.
CallPush(t, e) ==
  /\ call[t] = Idle
  /\ Cardinality(Waiting) < (MaxNodes - nodeCount) + Len(contents["nulls"])
  /\ Becomes(t, [Idle EXCEPT !.at = "readtail", !.ele = e])
  /\ UNCHANGED <<head, tail, next, ele, nodeCount, contents, overlapped>>

CallPop(t) ==
  /\ call[t] = Idle
  /\ GoTo(t, "readtail")
  /\ UNCHANGED <<head, tail, next, ele, nodeCount, contents, overlapped>>

----------------------------------------------------------------------------
(* PopHead and PopNullHead                                                 *)

ReadTail(t) ==
  /\ call[t].at = "readtail"
  /\ Becomes(t, [call[t] EXCEPT !.at = "readhead", !.tail = tail[From(t)]])
  /\ UNCHANGED <<head, tail, next, ele, nodeCount, contents>>

\* The head is read after the tail. Without a tail there is nothing to take.
ReadHead(t) ==
  /\ call[t].at = "readhead"
  /\ \/ /\ call[t].tail = NULL
        /\ GoTo(t, IF t \in Poppers THEN "return" ELSE "newnode")
     \/ /\ call[t].tail # NULL
        /\ LET h == head[From(t)] IN
           Becomes(t, [call[t] EXCEPT !.at = IF h = call[t].tail THEN "castail" ELSE "readnext",
                                      !.head = h])
  /\ UNCHANGED <<head, tail, next, ele, nodeCount, contents>>

\* The compare-exchange of the tail succeeds. (Faulty: an assignment.)
SameTailFaulty(l, n) == TRUE
SameTail(l, n)       == tail[l] = n

\* The only node is taken: first the tail is exchanged for NULL,
CasTail(t) ==
  /\ call[t].at = "castail"
  /\ \/ /\ SameTail(From(t), call[t].tail)
        /\ tail' = [tail EXCEPT ![From(t)] = NULL]
        /\ Becomes(t, [call[t] EXCEPT !.at = "clearhead", !.node = call[t].tail])
        /\ Left(From(t))
     \/ /\ ~SameTail(From(t), call[t].tail)
        /\ GoTo(t, "readtail")
        /\ UNCHANGED <<tail, contents>>
  /\ UNCHANGED <<head, next, ele, nodeCount>>

\* The head of the list from which a node was taken. (Faulty: it is left.)
ClearedFaulty(l) == head[l]
Cleared(l)       == NULL

\* PopHead reads the element of the node n that it has taken.
Taken(t, n)       == IF t \in Poppers THEN ele[n] ELSE call[t].ele

\* and then the head is set to NULL.
ClearHead(t) ==
  /\ call[t].at = "clearhead"
  /\ head' = [head EXCEPT ![From(t)] = Cleared(From(t))]
  /\ Becomes(t, [call[t] EXCEPT !.at = "reset", !.ele = Taken(t, call[t].node)])
  /\ UNCHANGED <<tail, next, ele, nodeCount, contents>>

\* One of several nodes: the successor of the head is read, through a pointer
\* that is NULL if the list has been emptied since its tail was read,
ReadNext(t) ==
  /\ call[t].at = "readnext"
  /\ \/ /\ call[t].head = NULL
        /\ GoTo(t, "crashed")
     \/ /\ call[t].head # NULL
        /\ LET n == next[call[t].head] IN
           Becomes(t, [call[t] EXCEPT !.at = IF n = NULL THEN "readtail" ELSE "cashead",
                                      !.next = n])
  /\ UNCHANGED <<head, tail, next, ele, nodeCount, contents>>

\* and the head is exchanged for it.
CasHead(t) ==
  /\ call[t].at = "cashead"
  /\ \/ /\ head[From(t)] = call[t].head
        /\ head' = [head EXCEPT ![From(t)] = call[t].next]
        /\ Becomes(t, [call[t] EXCEPT !.at = "reset", !.node = call[t].head,
                                      !.ele = Taken(t, call[t].head)])
        /\ Left(From(t))
     \/ /\ head[From(t)] # call[t].head
        /\ GoTo(t, "readtail")
        /\ UNCHANGED <<head, contents>>
  /\ UNCHANGED <<tail, next, ele, nodeCount>>

\* PushTail allocates a node when PopNullHead returns NULL.
NewNode(t) ==
  /\ call[t].at = "newnode"
  /\ nodeCount < MaxNodes
  /\ nodeCount' = nodeCount + 1
  /\ Becomes(t, [call[t] EXCEPT !.at = "reset", !.node = nodeCount + 1])
  /\ UNCHANGED <<head, tail, next, ele, contents>>

----------------------------------------------------------------------------
(* PushTail and PushNullTail                                               *)

\* The node is in this call's hands only; PushTail stores the element in it.
Reset(t) ==
  /\ call[t].at = "reset"
  /\ next' = [next EXCEPT ![call[t].node] = NULL]
  /\ ele' = IF t \in Pushers THEN [ele EXCEPT ![call[t].node] = call[t].ele] ELSE ele
  /\ GoTo(t, "readend")
  /\ UNCHANGED <<head, tail, nodeCount, contents>>

ReadEnd(t) ==
  /\ call[t].at = "readend"
  /\ Becomes(t, [call[t] EXCEPT !.at = IF tail[To(t)] = NULL THEN "casempty" ELSE "casend",
                                !.tail = tail[To(t)]])
  /\ UNCHANGED <<head, tail, next, ele, nodeCount, contents>>

\* The compare-exchange of a NULL head succeeds. (Faulty: an assignment.)
NoHeadFaulty(l) == TRUE
NoHead(l)       == head[l] = NULL

\* The list was empty: the head is exchanged for the node,
CasEmpty(t) ==
  /\ call[t].at = "casempty"
  /\ \/ /\ NoHead(To(t))
        /\ head' = [head EXCEPT ![To(t)] = call[t].node]
        /\ GoTo(t, "settail")
     \/ /\ ~NoHead(To(t))
        /\ GoTo(t, "readend")
        /\ UNCHANGED head
  /\ UNCHANGED <<tail, next, ele, nodeCount, contents>>

\* and then the tail is set to it.
SetTail(t) ==
  /\ call[t].at = "settail"
  /\ tail' = [tail EXCEPT ![To(t)] = call[t].node]
  /\ Entered(To(t), call[t].node)
  /\ GoTo(t, "return")
  /\ UNCHANGED <<head, next, ele, nodeCount>>

\* The list was not empty: the tail is exchanged for the node,
CasEnd(t) ==
  /\ call[t].at = "casend"
  /\ \/ /\ SameTail(To(t), call[t].tail)
        /\ tail' = [tail EXCEPT ![To(t)] = call[t].node]
        /\ Entered(To(t), call[t].node)
        /\ GoTo(t, "link")
     \/ /\ ~SameTail(To(t), call[t].tail)
        /\ GoTo(t, "readend")
        /\ UNCHANGED <<tail, contents>>
  /\ UNCHANGED <<head, next, ele, nodeCount>>

\* and then the old tail is linked to it.
Link(t) ==
  /\ call[t].at = "link"
  /\ next' = [next EXCEPT ![call[t].tail] = call[t].node]
  /\ GoTo(t, "return")
  /\ UNCHANGED <<head, tail, ele, nodeCount, contents>>

Return(t) ==
  /\ call[t].at = "return"
  /\ Becomes(t, Idle)
  /\ UNCHANGED <<head, tail, next, ele, nodeCount, contents>>

----------------------------------------------------------------------------

Init ==
  /\ head = [l \in Lists |-> NULL]
  /\ tail = [l \in Lists |-> NULL]
  /\ next = [n \in Nodes |-> NULL]
  /\ ele = [n \in Nodes |-> NoElement]
  /\ nodeCount = 0
  /\ call = [t \in Calls |-> Idle]
  /\ contents = [l \in Lists |-> <<>>]
  /\ overlapped = FALSE

\* The next access of a call.
Access(t) ==
  /\ \/ ReadTail(t) \/ ReadHead(t) \/ CasTail(t) \/ ClearHead(t) \/ ReadNext(t) \/ CasHead(t)
     \/ NewNode(t) \/ Reset(t) \/ ReadEnd(t) \/ CasEmpty(t) \/ SetTail(t) \/ CasEnd(t) \/ Link(t)
     \/ Return(t)
  /\ overlapped' = (overlapped \/ Overlap')

Next ==
  \/ \E t \in Pushers, e \in Elements : CallPush(t, e)
  \/ \E t \in Poppers : CallPop(t)
  \/ \E t \in Calls : Access(t)

Spec == Init /\ [][Next]_vars

\* A call that has begun keeps running. Nobody has to call.
FairSpec == Spec /\ \A t \in Calls : WF_vars(Access(t))

----------------------------------------------------------------------------

Steps == {"idle", "readtail", "readhead", "castail", "clearhead", "readnext", "cashead", "newnode",
          "reset", "readend", "casempty", "settail", "casend", "link", "return", "crashed"}

Locals == [at : Steps, node : Nodes \cup {NULL}, tail : Nodes \cup {NULL}, head : Nodes \cup {NULL},
           next : Nodes \cup {NULL}, ele : Elements \cup {NoElement}]

\* The type of every variable.
TypeOK ==
  /\ head \in [Lists -> Nodes \cup {NULL}]
  /\ tail \in [Lists -> Nodes \cup {NULL}]
  /\ next \in [Nodes -> Nodes \cup {NULL}]
  /\ ele \in [Nodes -> Elements \cup {NoElement}]
  /\ nodeCount \in 0 .. MaxNodes
  /\ call \in [Calls -> Locals]
  /\ contents \in [Lists -> Seq(Nodes)]
  /\ overlapped \in BOOLEAN

\* The calls that have taken a node and not yet put it in the other list.
Holding == {t \in Calls : call[t].at \in {"clearhead", "reset", "readend", "casempty", "settail",
                                          "casend"}}

OwnedOnce ==
  /\ \A l \in Lists : IsInjective(contents[l])
  /\ ToSet(contents["list"]) \cap ToSet(contents["nulls"]) = {}
  /\ \A t \in Holding, l \in Lists : call[t].node \notin ToSet(contents[l])
  /\ \A t, u \in Holding : call[t].node = call[u].node => t = u
  /\ {call[t].node : t \in Holding} \cup UNION {ToSet(contents[l]) : l \in Lists} = 1 .. nodeCount

\* As long as the calls have not overlapped, every node is in one list or in the
\* hands of one call, once (nolockbilist.cpp:30-122, 241-289).
NodeOwnership == ~overlapped => OwnedOnce

\* Whether a call has still to link node n of a list to its successor.
LinkPending(n) == \E t \in Calls : call[t].at = "link" /\ call[t].tail = n

\* The pointers of list l lead from its first node to its last one.
Intact(l) ==
  LET nodes == contents[l] IN
  IF nodes = <<>>
  THEN /\ tail[l] = NULL
       /\ head[l] # NULL => \E t \in Calls :
            /\ call[t].node = head[l]
            /\ \/ call[t].at = "clearhead" /\ From(t) = l
               \/ call[t].at = "settail" /\ To(t) = l
  ELSE /\ head[l] = nodes[1]
       /\ tail[l] = nodes[Len(nodes)]
       /\ \A i \in 1 .. Len(nodes) - 1 :
            \/ next[nodes[i]] = nodes[i + 1]
            \/ next[nodes[i]] = NULL /\ LinkPending(nodes[i])
       /\ next[nodes[Len(nodes)]] = NULL

\* No call follows a NULL pointer. The threads of the completion port (as many
\* as IOCompletionPortCenter.cpp:38-44 starts) call PopHead of the same lists
\* with no lock around it.
NoCrash == \A t \in Calls : call[t].at # "crashed"

Unbroken == NoCrash /\ \A l \in Lists : Intact(l)

\* As long as the calls have not overlapped, both lists are intact whatever the
\* calls are doing: no node is cut off or linked into the wrong list, and no call
\* follows a NULL pointer.
ListIntact == ~overlapped => Unbroken

----------------------------------------------------------------------------

\* What the calls have done so far, as FifoQueue sees it: a push is done when
\* its node has entered the list, a pop when its node has left it or when it has
\* read a NULL tail.
PushDone(t) == call[t].at \in {"link", "return"}
PopDone(t) ==
  \/ call[t].at \in {"clearhead", "reset", "readend", "casempty", "settail", "casend", "link",
                     "return"}
  \/ call[t].at = "readhead" /\ call[t].tail = NULL

Done(t) == IF t \in Pushers THEN PushDone(t) ELSE PopDone(t)

Phase(t) == IF call[t].at = "idle" THEN "idle" ELSE IF Done(t) THEN "done" ELSE "called"

Result(t) == IF call[t].at = "clearhead" THEN Taken(t, call[t].node) ELSE call[t].ele

F == INSTANCE FifoQueue WITH
  queue <- [i \in 1 .. Len(contents["list"]) |-> ele[contents["list"][i]]],
  op    <- [t \in Calls |-> [phase |-> Phase(t), ele |-> Result(t)]]

\* As long as the calls have not overlapped, the list is a first-in first-out
\* queue: a pop returns what was pushed first, and NULL only if the list was
\* empty at a moment of the call.
IsFifo == F!Init /\ [][F!Next \/ overlapped']_(F!vars)

\* Every call returns unless it meets another one of its kind: a push that finds
\* a half-emptied list, and a pop that finds a node not linked yet, spin only
\* until the other call has gone on.
Met(t) == \E u \in Calls : u # t /\ From(u) = From(t) /\ call[u].at # "idle"
CallsReturn == \A t \in Calls : call[t].at = "readtail" ~> (call[t].at = "idle" \/ Met(t) \/ overlapped)
============================================================================
