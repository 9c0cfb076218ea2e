------------------------- MODULE NoLockBiListProofs ------------------------
(***************************************************************************)
(* What holds of the list of NoLockBiList for every number of calls, nodes *)
(* and elements.  As long as no two calls take from one list at a time and *)
(* no two put in one, the nodes and the pointers are in order and the list *)
(* is a first-in first-out queue; the calls may be as many as they want,   *)
(* and overlap in any other way.  The proof rests on what each call knows  *)
(* of the list at each of its steps, which only a call in the same half of *)
(* its work on the same list could make false.                             *)
(***************************************************************************)
EXTENDS NoLockBiList, FreeListLemmas, TLAPS

\* What call t knows of the list it takes from, at each of its steps,
TakeInv(t) ==
  LET c == call[t]
      l == From(t)
      s == contents[l]
  IN /\ c.at = "readhead" /\ c.tail # NULL => s # <<>>
     /\ c.at = "castail" => s # <<>> /\ c.tail = s[1]
     /\ c.at = "readnext" => s # <<>> /\ c.head = s[1]
     /\ c.at = "cashead" => /\ Len(s) >= 2
                            /\ c.head = s[1]
                            /\ c.next = s[2]
                            /\ next[c.head] = c.next
     /\ c.at = "clearhead" => s = <<>> /\ head[l] = c.node

\* and of the list it puts its node in.
PutInv(t) ==
  LET c == call[t]
      l == To(t)
      s == contents[l]
  IN /\ c.at \in {"readend", "casempty", "settail", "casend"} => next[c.node] = NULL
     /\ c.at = "casempty" => s = <<>>
     /\ c.at = "settail" => s = <<>> /\ head[l] = c.node
     /\ c.at = "casend" => c.tail # NULL /\ (s # <<>> => tail[l] = c.tail)
     /\ c.at = "link" => /\ Len(s) >= 2
                         /\ c.node = s[Len(s)]
                         /\ c.tail = s[Len(s) - 1]
                         /\ next[c.tail] = NULL

Known == \A t \in Calls : TakeInv(t) /\ PutInv(t)

\* What holds until calls overlap.
IInv == TypeOK /\ OwnedOnce /\ Unbroken /\ Known

----------------------------------------------------------------------------
(* The two calls, and the nodes                                            *)

\* A call takes from one list and puts in the other, and another call does the
\* same or the opposite.
LEMMA Roles ==
  ASSUME NEW t \in Calls
  PROVE  /\ From(t) \in Lists /\ To(t) \in Lists /\ From(t) # To(t)
         /\ \A l \in Lists : l = From(t) \/ l = To(t)
         /\ \A u \in Calls : \/ From(u) = To(t) /\ To(u) = From(t)
                             \/ From(u) = From(t) /\ To(u) = To(t)
BY CallAssumption DEF Calls, Lists, From, To

\* The nodes of a list, by their places.
LEMMA Places ==
  ASSUME TypeOK, OwnedOnce, NEW l \in Lists
  PROVE  /\ contents[l] \in Seq(Nodes) /\ Len(contents[l]) \in Nat
         /\ \A i \in 1 .. Len(contents[l]) :
              /\ contents[l][i] \in Nodes
              /\ contents[l][i] # NULL
              /\ contents[l][i] \in 1 .. nodeCount
              /\ contents[l][i] \in ToSet(contents[l])
         /\ \A i, j \in 1 .. Len(contents[l]) : contents[l][i] = contents[l][j] => i = j
<1>1. /\ contents[l] \in Seq(Nodes) /\ Len(contents[l]) \in Nat
      /\ DOMAIN contents[l] = 1 .. Len(contents[l])
      /\ \A i \in 1 .. Len(contents[l]) : contents[l][i] \in Nodes
  BY DEF TypeOK
<1>2. \A i \in 1 .. Len(contents[l]) : contents[l][i] \in ToSet(contents[l])
  BY <1>1 DEF ToSet
<1>3. ToSet(contents[l]) \subseteq 1 .. nodeCount
  BY DEF OwnedOnce
<1>4. \A i, j \in 1 .. Len(contents[l]) : contents[l][i] = contents[l][j] => i = j
  BY <1>1 DEF OwnedOnce, IsInjective
<1> QED
  BY <1>1, <1>2, <1>3, <1>4, NodeAssumption DEF Nodes, NULL

\* A list without its first node, by places.
LEMMA Rest ==
  ASSUME NEW S, NEW s \in Seq(S), s # <<>>
  PROVE  /\ Len(s) \in Nat \ {0} /\ Head(s) = s[1] /\ s[1] \in S
         /\ Tail(s) \in Seq(S) /\ Len(Tail(s)) = Len(s) - 1
         /\ Tail(s) = <<>> <=> Len(s) = 1
         /\ \A i \in 1 .. Len(s) - 1 : Tail(s)[i] = s[i + 1]
         /\ Len(s) > 1 => Tail(s)[Len(Tail(s))] = s[Len(s)]
         /\ Len(s) > 2 => Tail(s)[Len(Tail(s)) - 1] = s[Len(s) - 1]
<1>1. /\ Len(s) \in Nat \ {0} /\ Head(s) = s[1] /\ s[1] \in S
      /\ Tail(s) \in Seq(S) /\ Len(Tail(s)) = Len(s) - 1
      /\ \A i \in 1 .. Len(s) - 1 : Tail(s)[i] = s[i + 1]
  OBVIOUS
<1>2. ASSUME NEW q \in Seq(S) PROVE q = <<>> <=> Len(q) = 0
  OBVIOUS
<1>3. ASSUME Len(s) > 1 PROVE Tail(s)[Len(Tail(s))] = s[Len(s)]
  <2>1. Len(s) - 1 \in 1 .. Len(s) - 1 /\ (Len(s) - 1) + 1 = Len(s)
    BY <1>1, <1>3
  <2> QED
    BY <1>1, <2>1
<1>4. ASSUME Len(s) > 2 PROVE Tail(s)[Len(Tail(s)) - 1] = s[Len(s) - 1]
  <2>1. Len(s) - 2 \in 1 .. Len(s) - 1 /\ (Len(s) - 2) + 1 = Len(s) - 1 /\ (Len(s) - 1) - 1 = Len(s) - 2
    BY <1>1, <1>4
  <2> QED
    BY <1>1, <2>1
<1>5. Tail(s) = <<>> <=> Len(s) = 1
  <2>1. Tail(s) = <<>> <=> Len(Tail(s)) = 0
    BY <1>1, <1>2
  <2>2. Len(Tail(s)) = 0 <=> Len(s) = 1
    BY <1>1
  <2> QED
    BY <2>1, <2>2
<1> QED
  BY <1>1, <1>3, <1>4, <1>5

\* A node in the hands of a call is an allocated node of no list.
LEMMA Held ==
  ASSUME TypeOK, OwnedOnce, NEW t \in Holding
  PROVE  /\ call[t].node \in Nodes
         /\ call[t].node \in 1 .. nodeCount
         /\ call[t].node # NULL
         /\ \A l \in Lists : call[t].node \notin ToSet(contents[l])
<1>1. call[t].node \in 1 .. nodeCount
  BY DEF OwnedOnce
<1> QED
  BY <1>1, NodeAssumption DEF TypeOK, OwnedOnce, Nodes, NULL

\* No node is in both lists.
LEMMA Apart ==
  ASSUME OwnedOnce, NEW l \in Lists, NEW m \in Lists, l # m, NEW n \in ToSet(contents[l])
  PROVE  n \notin ToSet(contents[m])
BY DEF OwnedOnce, Lists

----------------------------------------------------------------------------
(* Ownership of the nodes                                                  *)

\* A step that leaves the lists alone, and the hands of every call.
LEMMA SameOwners ==
  ASSUME OwnedOnce, UNCHANGED <<contents, nodeCount>>,
         Holding' = Holding, \A u \in Holding : call'[u].node = call[u].node
  PROVE  OwnedOnce'
<1>1. {call'[u].node : u \in Holding'} = {call[u].node : u \in Holding}
  OBVIOUS
<1> QED
  BY <1>1 DEF OwnedOnce

\* The first node of list l goes to the hands of call t.
LEMMA TakeOwner ==
  ASSUME TypeOK, OwnedOnce, NEW t \in Calls, NEW l \in Lists, contents[l] # <<>>,
         contents' = [contents EXCEPT ![l] = Tail(@)], nodeCount' = nodeCount,
         t \notin Holding, Holding' = Holding \cup {t}, call'[t].node = Head(contents[l]),
         \A u \in Holding : call'[u].node = call[u].node
  PROVE  OwnedOnce'
<1> DEFINE n == Head(contents[l])
<1>1. /\ ToSet(contents[l]) = {n} \cup ToSet(Tail(contents[l]))
      /\ IsInjective(Tail(contents[l])) /\ n \notin ToSet(Tail(contents[l]))
  BY PopFront DEF TypeOK, OwnedOnce
<1>2. /\ contents'[l] = Tail(contents[l])
      /\ \A m \in Lists : m # l => contents'[m] = contents[m]
  BY DEF TypeOK
<1>3. {call'[u].node : u \in Holding'} = {call[u].node : u \in Holding} \cup {n}
  OBVIOUS
<1>4. /\ \A m \in Lists : ToSet(contents'[m]) \subseteq ToSet(contents[m]) \ {n}
      /\ \A m \in Lists : IsInjective(contents'[m])
  BY <1>1, <1>2, Apart DEF OwnedOnce
<1>5. UNION {ToSet(contents[m]) : m \in Lists} = {n} \cup UNION {ToSet(contents'[m]) : m \in Lists}
  BY <1>1, <1>2
<1>6. \A u \in Holding : call[u].node # n
  BY <1>1 DEF OwnedOnce
<1> HIDE DEF n
<1>7. {call'[u].node : u \in Holding'} \cup UNION {ToSet(contents'[m]) : m \in Lists} = 1 .. nodeCount
  BY <1>3, <1>5 DEF OwnedOnce
<1>8. ToSet(contents'["list"]) \cap ToSet(contents'["nulls"]) = {}
  BY <1>4 DEF OwnedOnce, Lists
<1>9. \A u \in Holding', m \in Lists : call'[u].node \notin ToSet(contents'[m])
  BY <1>4 DEF OwnedOnce, n
<1>10. \A u, v \in Holding' : call'[u].node = call'[v].node => u = v
  BY <1>6 DEF OwnedOnce, n
<1> QED
  BY <1>4, <1>7, <1>8, <1>9, <1>10 DEF OwnedOnce

\* The node in the hands of call t goes to the end of list l.
LEMMA PutOwner ==
  ASSUME TypeOK, OwnedOnce, NEW t \in Holding, NEW l \in Lists,
         contents' = [contents EXCEPT ![l] = Append(@, call[t].node)], nodeCount' = nodeCount,
         Holding' = Holding \ {t}, \A u \in Holding' : call'[u].node = call[u].node
  PROVE  OwnedOnce'
<1> DEFINE n == call[t].node
<1>0. n \in Nodes /\ \A m \in Lists : n \notin ToSet(contents[m])
  BY Held
<1>1. /\ ToSet(Append(contents[l], n)) = ToSet(contents[l]) \cup {n}
      /\ IsInjective(Append(contents[l], n))
  BY <1>0, PushBack DEF TypeOK, OwnedOnce
<1>2. /\ contents'[l] = Append(contents[l], n)
      /\ \A m \in Lists : m # l => contents'[m] = contents[m]
  BY DEF TypeOK
<1>3. {call[u].node : u \in Holding} = {call'[u].node : u \in Holding'} \cup {n}
  OBVIOUS
<1>4. UNION {ToSet(contents'[m]) : m \in Lists} = {n} \cup UNION {ToSet(contents[m]) : m \in Lists}
  BY <1>1, <1>2
<1>5. \A u \in Holding' : call'[u].node # n
  BY DEF OwnedOnce
<1>6. \A m \in Lists : /\ IsInjective(contents'[m])
                       /\ ToSet(contents'[m]) \subseteq ToSet(contents[m]) \cup {n}
                       /\ m # l => ToSet(contents'[m]) = ToSet(contents[m])
  BY <1>1, <1>2 DEF OwnedOnce
<1> HIDE DEF n
<1>7. {call'[u].node : u \in Holding'} \cup UNION {ToSet(contents'[m]) : m \in Lists} = 1 .. nodeCount
  BY <1>3, <1>4 DEF OwnedOnce
<1>8. ToSet(contents'["list"]) \cap ToSet(contents'["nulls"]) = {}
  BY <1>0, <1>6 DEF OwnedOnce, Lists
<1>9. \A u \in Holding', m \in Lists : call'[u].node \notin ToSet(contents'[m])
  BY <1>5, <1>6 DEF OwnedOnce
<1>10. \A u, v \in Holding' : call'[u].node = call'[v].node => u = v
  BY DEF OwnedOnce
<1> QED
  BY <1>6, <1>7, <1>8, <1>9, <1>10 DEF OwnedOnce

\* A new node goes to the hands of call t.
LEMMA NewOwner ==
  ASSUME TypeOK, OwnedOnce, NEW t \in Calls, UNCHANGED contents,
         nodeCount' = nodeCount + 1, t \notin Holding, Holding' = Holding \cup {t},
         call'[t].node = nodeCount + 1, \A u \in Holding : call'[u].node = call[u].node
  PROVE  OwnedOnce'
<1>1. {call'[u].node : u \in Holding'} = {call[u].node : u \in Holding} \cup {nodeCount + 1}
  OBVIOUS
<1>2. 1 .. nodeCount' = (1 .. nodeCount) \cup {nodeCount + 1} /\ nodeCount + 1 \notin 1 .. nodeCount
  BY NodeAssumption DEF TypeOK
<1>3. /\ \A l \in Lists : nodeCount + 1 \notin ToSet(contents[l])
      /\ \A u \in Holding : call[u].node # nodeCount + 1
  BY <1>2 DEF OwnedOnce
<1>4. {call'[u].node : u \in Holding'} \cup UNION {ToSet(contents'[l]) : l \in Lists} = 1 .. nodeCount'
  BY <1>1, <1>2 DEF OwnedOnce
<1>5. \A u \in Holding', l \in Lists : call'[u].node \notin ToSet(contents'[l])
  BY <1>3 DEF OwnedOnce
<1>6. \A u, v \in Holding' : call'[u].node = call'[v].node => u = v
  BY <1>3 DEF OwnedOnce
<1> QED
  BY <1>4, <1>5, <1>6 DEF OwnedOnce

----------------------------------------------------------------------------
(* The local variables of the calls                                        *)

\* The new local variables of a call.
LEMMA Becoming ==
  ASSUME TypeOK, NEW t \in Calls, NEW c \in Locals, Becomes(t, c)
  PROVE  /\ call' \in [Calls -> Locals]
         /\ call'[t] = c
         /\ \A u \in Calls : u # t => call'[u] = call[u]
BY DEF Becomes, TypeOK

\* A call that only goes on keeps its other local variables.
LEMMA Going ==
  ASSUME TypeOK, NEW t \in Calls, NEW step \in Steps, GoTo(t, step)
  PROVE  /\ call' \in [Calls -> Locals]
         /\ \A u \in Calls : u # t => call'[u] = call[u]
         /\ call'[t].at = step /\ call'[t].node = call[t].node /\ call'[t].tail = call[t].tail
         /\ call'[t].head = call[t].head /\ call'[t].next = call[t].next
         /\ call'[t].ele = call[t].ele
<1> DEFINE c == [call[t] EXCEPT !.at = step]
<1>1. /\ c \in Locals
      /\ c.at = step /\ c.node = call[t].node /\ c.tail = call[t].tail
      /\ c.head = call[t].head /\ c.next = call[t].next /\ c.ele = call[t].ele
  BY DEF TypeOK, Locals
<1>2. Becomes(t, c)
  BY DEF GoTo
<1> QED
  BY <1>1, <1>2, Becoming

\* A call that is not in progress.
LEMMA Idling ==
  Idle \in Locals /\ Idle.at = "idle"
BY DEF Idle, Locals, Steps

----------------------------------------------------------------------------
(* The types                                                               *)

\* The local variables c of a call name a node where the code has checked that
\* they do.
Fit(c) ==
  /\ c.at \in {"clearhead", "reset", "readend", "casempty", "settail", "casend"} => c.node \in Nodes
  /\ c.at = "castail" => c.tail \in Nodes
  /\ c.at = "cashead" => c.head \in Nodes

Types == TypeOK /\ \A t \in Calls : Fit(call[t])

\* A call with new local variables,
LEMMA FitLocals ==
  ASSUME Types, NEW t \in Calls, NEW c \in Locals, Fit(c), Becomes(t, c)
  PROVE  call' \in [Calls -> Locals] /\ \A u \in Calls : Fit(call[u])'
<1>1. /\ call' \in [Calls -> Locals] /\ call'[t] = c
      /\ \A u \in Calls : u # t => call'[u] = call[u]
  BY Becoming DEF Types
<1> QED
  BY <1>1 DEF Types, Fit

\* and one that only goes on.
LEMMA FitStep ==
  ASSUME Types, NEW t \in Calls, NEW step \in Steps \ {"castail", "cashead"}, GoTo(t, step),
         step \in {"clearhead", "reset", "readend", "casempty", "settail", "casend"}
           => call[t].node \in Nodes
  PROVE  call' \in [Calls -> Locals] /\ \A u \in Calls : Fit(call[u])'
<1>1. /\ call' \in [Calls -> Locals] /\ call'[t].at = step /\ call'[t].node = call[t].node
      /\ \A u \in Calls : u # t => call'[u] = call[u]
  BY Going DEF Types
<1> QED
  BY <1>1 DEF Types, Fit

\* Every access keeps the types, however many calls there are and whatever they
\* do at the same time.
LEMMA AccessTypes ==
  ASSUME Types, NEW t \in Calls, Access(t)
  PROVE  Types'
<1>0. /\ TypeOK /\ Fit(call[t]) /\ call[t] \in Locals
      /\ From(t) \in Lists /\ To(t) \in Lists
      /\ overlapped' \in BOOLEAN /\ NULL \notin Nodes
  BY Roles, NodeAssumption DEF Types, TypeOK, Access, Nodes, NULL
<1>1. CASE ReadTail(t)
  <2> DEFINE c == [call[t] EXCEPT !.at = "readhead", !.tail = tail[From(t)]]
  <2>1. c \in Locals /\ Fit(c)
    BY <1>0 DEF TypeOK, Locals, Steps, Fit
  <2> QED
    BY <1>0, <1>1, <2>1, FitLocals DEF ReadTail, Types, TypeOK
<1>2. CASE ReadHead(t)
  <2>1. CASE call[t].tail = NULL
    <3>1. PICK step \in {"return", "newnode"} : GoTo(t, step)
      BY <1>2, <2>1 DEF ReadHead
    <3>2. step \in Steps \ {"castail", "cashead"}
      BY DEF Steps
    <3> QED
      BY <1>0, <1>2, <3>1, <3>2, FitStep DEF ReadHead, Types, TypeOK
  <2>2. CASE call[t].tail # NULL
    <3> DEFINE h == head[From(t)]
               c == [call[t] EXCEPT !.at = IF h = call[t].tail THEN "castail" ELSE "readnext",
                                    !.head = h]
    <3>1. c \in Locals /\ c.tail = call[t].tail /\ c.at \in {"castail", "readnext"}
      BY ZenonT(60), <1>0 DEF TypeOK, Locals, Steps
    <3>2. Becomes(t, c)
      BY <1>2, <2>2 DEF ReadHead
    <3> HIDE DEF c
    <3>3. Fit(c)
      BY <1>0, <2>2, <3>1 DEF Fit, Locals
    <3> QED
      BY <1>0, <1>2, <3>1, <3>2, <3>3, FitLocals DEF ReadHead, Types, TypeOK
  <2> QED
    BY <2>1, <2>2
<1>3. CASE CasTail(t)
  <2>1. CASE SameTail(From(t), call[t].tail)
    <3> DEFINE c == [call[t] EXCEPT !.at = "clearhead", !.node = call[t].tail]
    <3>1. /\ call[t].tail \in Nodes /\ Becomes(t, c) /\ Left(From(t))
          /\ UNCHANGED <<head, next, ele, nodeCount>> /\ tail' = [tail EXCEPT ![From(t)] = NULL]
      BY <1>0, <1>3, <2>1 DEF CasTail, Fit
    <3>2. c \in Locals /\ Fit(c)
      BY <1>0, <3>1 DEF TypeOK, Locals, Steps, Fit
    <3> HIDE DEF c
    <3>3. contents' \in [Lists -> Seq(Nodes)] /\ tail' \in [Lists -> Nodes \cup {NULL}]
      BY <1>0, <3>1 DEF Left, TypeOK
    <3> QED
      BY <1>0, <3>1, <3>2, <3>3, FitLocals DEF Types, TypeOK
  <2>2. CASE ~SameTail(From(t), call[t].tail)
    BY <1>0, <1>3, <2>2, FitStep DEF CasTail, Types, TypeOK, Steps
  <2> QED
    BY <2>1, <2>2
<1>4. CASE ClearHead(t)
  <2> DEFINE c == [call[t] EXCEPT !.at = "reset", !.ele = Taken(t, call[t].node)]
  <2>1. /\ call[t].node \in Nodes /\ Becomes(t, c)
        /\ UNCHANGED <<tail, next, ele, nodeCount, contents>> /\ head' \in [Lists -> Nodes \cup {NULL}]
    BY <1>0, <1>4 DEF ClearHead, Fit, Cleared, TypeOK
  <2>2. c \in Locals /\ c.at = "reset" /\ c.node = call[t].node
    BY ZenonT(60), <1>0, <2>1 DEF TypeOK, Locals, Steps, Taken
  <2> HIDE DEF c
  <2>3. Fit(c)
    BY <2>1, <2>2 DEF Fit
  <2> QED
    BY <1>0, <2>1, <2>2, <2>3, FitLocals DEF Types, TypeOK
<1>5. CASE ReadNext(t)
  <2>1. CASE call[t].head = NULL
    BY <1>0, <1>5, <2>1, FitStep DEF ReadNext, Types, TypeOK, Steps
  <2>2. CASE call[t].head # NULL
    <3> DEFINE n == next[call[t].head]
               c == [call[t] EXCEPT !.at = IF n = NULL THEN "readtail" ELSE "cashead", !.next = n]
    <3>1. call[t].head \in Nodes /\ Becomes(t, c)
      BY <1>0, <1>5, <2>2 DEF ReadNext, Locals
    <3>2. c \in Locals /\ c.head = call[t].head /\ c.at \in {"readtail", "cashead"}
      BY ZenonT(60), <1>0, <3>1 DEF TypeOK, Locals, Steps
    <3> HIDE DEF c
    <3>3. Fit(c)
      BY <3>1, <3>2 DEF Fit
    <3> QED
      BY <1>0, <1>5, <3>1, <3>2, <3>3, FitLocals DEF ReadNext, Types, TypeOK
  <2> QED
    BY <2>1, <2>2
<1>6. CASE CasHead(t)
  <2>1. CASE head[From(t)] = call[t].head
    <3> DEFINE n == call[t].head
               c == [call[t] EXCEPT !.at = "reset", !.node = n, !.ele = Taken(t, n)]
    <3>1. /\ n \in Nodes /\ Becomes(t, c) /\ Left(From(t))
          /\ UNCHANGED <<tail, next, ele, nodeCount>>
          /\ head' = [head EXCEPT ![From(t)] = call[t].next] /\ call[t].next \in Nodes \cup {NULL}
      BY <1>0, <1>6, <2>1 DEF CasHead, Fit, Locals
    <3>2. c \in Locals /\ c.at = "reset" /\ c.node = n
      BY ZenonT(60), <1>0, <3>1 DEF TypeOK, Locals, Steps, Taken
    <3> HIDE DEF c
    <3>3. Fit(c)
      BY <3>1, <3>2 DEF Fit
    <3>4. contents' \in [Lists -> Seq(Nodes)] /\ head' \in [Lists -> Nodes \cup {NULL}]
      BY <1>0, <3>1 DEF Left, TypeOK
    <3> QED
      BY <1>0, <3>1, <3>2, <3>3, <3>4, FitLocals DEF Types, TypeOK
  <2>2. CASE head[From(t)] # call[t].head
    BY <1>0, <1>6, <2>2, FitStep DEF CasHead, Types, TypeOK, Steps
  <2> QED
    BY <2>1, <2>2
<1>7. CASE NewNode(t)
  <2> DEFINE c == [call[t] EXCEPT !.at = "reset", !.node = nodeCount + 1]
  <2>1. /\ nodeCount + 1 \in Nodes /\ nodeCount' \in 0 .. MaxNodes /\ Becomes(t, c)
        /\ UNCHANGED <<head, tail, next, ele, contents>>
    BY <1>0, <1>7, NodeAssumption DEF NewNode, TypeOK, Nodes
  <2>2. c \in Locals /\ c.at = "reset" /\ c.node = nodeCount + 1
    BY ZenonT(60), <1>0, <2>1 DEF TypeOK, Locals, Steps
  <2> HIDE DEF c
  <2>3. Fit(c)
    BY <2>1, <2>2 DEF Fit
  <2> QED
    BY <1>0, <2>1, <2>2, <2>3, FitLocals DEF Types, TypeOK
<1>8. CASE Reset(t)
  <2>1. call[t].node \in Nodes /\ GoTo(t, "readend") /\ UNCHANGED <<head, tail, nodeCount, contents>>
    BY <1>0, <1>8 DEF Reset, Fit
  <2>2. /\ next' \in [Nodes -> Nodes \cup {NULL}]
        /\ ele' \in [Nodes -> Elements \cup {NoElement}]
    BY <1>0, <1>8 DEF Reset, TypeOK, Locals
  <2> QED
    BY <1>0, <2>1, <2>2, FitStep DEF Types, TypeOK, Steps
<1>9. CASE ReadEnd(t)
  <2> DEFINE c == [call[t] EXCEPT !.at = IF tail[To(t)] = NULL THEN "casempty" ELSE "casend",
                                  !.tail = tail[To(t)]]
  <2>1. call[t].node \in Nodes /\ Becomes(t, c)
    BY <1>0, <1>9 DEF ReadEnd, Fit
  <2>2. c \in Locals /\ c.node = call[t].node /\ c.at \in {"casempty", "casend"}
    BY ZenonT(60), <1>0 DEF TypeOK, Locals, Steps
  <2> HIDE DEF c
  <2>3. Fit(c)
    BY <2>1, <2>2 DEF Fit
  <2> QED
    BY <1>0, <1>9, <2>1, <2>2, <2>3, FitLocals DEF ReadEnd, Types, TypeOK
<1>10. CASE CasEmpty(t)
  <2>1. PICK step \in {"settail", "readend"} : GoTo(t, step)
    BY <1>10 DEF CasEmpty
  <2>2. step \in Steps \ {"castail", "cashead"} /\ call[t].node \in Nodes
    BY <1>0, <1>10 DEF CasEmpty, Fit, Steps
  <2>3. head' \in [Lists -> Nodes \cup {NULL}]
    BY <1>0, <1>10, <2>2 DEF CasEmpty, TypeOK
  <2> QED
    BY <1>0, <1>10, <2>1, <2>2, <2>3, FitStep DEF CasEmpty, Types, TypeOK
<1>11. CASE SetTail(t) \/ CasEnd(t)
  <2>1. PICK step \in {"return", "link", "readend"} : GoTo(t, step)
    BY <1>11 DEF SetTail, CasEnd
  <2>2. step \in Steps \ {"castail", "cashead"} /\ call[t].node \in Nodes
    BY <1>0, <1>11 DEF SetTail, CasEnd, Fit, Steps
  <2>3. tail' \in [Lists -> Nodes \cup {NULL}] /\ contents' \in [Lists -> Seq(Nodes)]
    <3>1. /\ tail' = tail \/ tail' = [tail EXCEPT ![To(t)] = call[t].node]
          /\ contents' = contents \/ Entered(To(t), call[t].node)
      BY <1>11 DEF SetTail, CasEnd
    <3>2. contents' \in [Lists -> Seq(Nodes)]
      <4>1. Append(contents[To(t)], call[t].node) \in Seq(Nodes)
        BY <1>0, <2>2 DEF TypeOK
      <4> QED
        BY <1>0, <3>1, <4>1 DEF Entered, TypeOK
    <3> QED
      BY <1>0, <2>2, <3>1, <3>2 DEF TypeOK
  <2>4. UNCHANGED <<head, next, ele, nodeCount>>
    BY <1>11 DEF SetTail, CasEnd
  <2> QED
    BY <1>0, <2>1, <2>2, <2>3, <2>4, FitStep DEF Types, TypeOK
<1>12. CASE Link(t)
  <2>1. next' \in [Nodes -> Nodes \cup {NULL}]
    BY <1>0, <1>12 DEF Link, TypeOK, Locals
  <2> QED
    BY <1>0, <1>12, <2>1, FitStep DEF Link, Types, TypeOK, Steps
<1>13. CASE Return(t)
  <2>1. Fit(Idle)
    BY Idling DEF Fit
  <2> QED
    BY <1>0, <1>13, <2>1, Idling, FitLocals DEF Return, Types, TypeOK
<1> QED
  BY <1>1, <1>2, <1>3, <1>4, <1>5, <1>6, <1>7, <1>8, <1>9, <1>10, <1>11, <1>12, <1>13 DEF Access

\* So does every step.
LEMMA NextTypes ==
  ASSUME Types, [Next]_vars
  PROVE  Types'
<1>1. ASSUME NEW t \in Pushers, NEW e \in Elements, CallPush(t, e) PROVE Types'
  <2> DEFINE c == [Idle EXCEPT !.at = "readtail", !.ele = e]
  <2>1. t \in Calls /\ c \in Locals /\ Fit(c) /\ Becomes(t, c)
    BY <1>1 DEF CallPush, Idle, Locals, Steps, Calls, Fit
  <2> HIDE DEF c
  <2> QED
    BY <1>1, <2>1, FitLocals DEF CallPush, Types, TypeOK
<1>2. ASSUME NEW t \in Poppers, CallPop(t) PROVE Types'
  BY <1>2, FitStep DEF CallPop, Types, TypeOK, Steps, Calls
<1>3. CASE UNCHANGED vars
  BY <1>3 DEF vars, Types, TypeOK, Fit
<1> QED
  BY <1>1, <1>2, <1>3, AccessTypes DEF Next

----------------------------------------------------------------------------
(* What a step leaves as it was                                            *)

\* A call in the same half of its work on the same list as call t would overlap
\* with it; one in the other half knows nothing of what call t changes.
LEMMA OtherTakes ==
  ASSUME IInv, ~Overlap, NEW t \in Calls, Taking(t), NEW u \in Calls, u # t,
         From(u) = From(t), To(u) = To(t), call'[u] = call[u], next' = next,
         contents'[To(t)] = contents[To(t)], head'[To(t)] = head[To(t)], tail'[To(t)] = tail[To(t)]
  PROVE  TakeInv(u)' /\ PutInv(u)'
<1>1. ~Taking(u)
  BY DEF Overlap
<1>2. From(u)' = From(u) /\ To(u)' = To(t)
  BY DEF From, To
<1>3. TakeInv(u)'
  BY <1>1 DEF Taking, TakeInv
<1>4. PutInv(u)'
  BY <1>2 DEF IInv, Known, PutInv
<1> QED
  BY <1>3, <1>4

LEMMA OtherPuts ==
  ASSUME IInv, ~Overlap, NEW t \in Calls, Putting(t), NEW u \in Calls, u # t,
         From(u) = From(t), To(u) = To(t), call'[u] = call[u],
         \A n \in Nodes : n \in ToSet(contents[To(t)]) \/ next'[n] = next[n],
         contents'[From(t)] = contents[From(t)], head'[From(t)] = head[From(t)]
  PROVE  TakeInv(u)' /\ PutInv(u)'
<1>1. ~Putting(u)
  BY DEF Overlap
<1>2. From(u)' = From(t) /\ To(u)' = To(u) /\ From(t) \in Lists /\ To(t) \in Lists
      /\ From(t) # To(t)
  BY Roles DEF From, To
<1>3. ASSUME call[u].at = "cashead"
      PROVE  next'[call[u].head] = next[call[u].head]
  <2>1. Len(contents[From(t)]) >= 2 /\ call[u].head = contents[From(t)][1]
    BY <1>3 DEF IInv, Known, TakeInv
  <2>2. 1 \in 1 .. Len(contents[From(t)])
    BY <1>2, <2>1, Places DEF IInv
  <2>3. call[u].head \in Nodes /\ call[u].head \in ToSet(contents[From(t)])
    BY <1>2, <2>1, <2>2, Places DEF IInv
  <2> QED
    BY <1>2, <2>3, Apart DEF IInv
<1>4. ASSUME call[u].at = "readend"
      PROVE  next'[call[u].node] = NULL
  <2>1. u \in Holding /\ next[call[u].node] = NULL
    BY <1>4 DEF Holding, IInv, Known, PutInv
  <2> QED
    BY <1>2, <2>1, Held DEF IInv
<1>5. TakeInv(u)'
  BY <1>2, <1>3 DEF IInv, Known, TakeInv
<1>6. PutInv(u)'
  BY <1>1, <1>4 DEF Putting, PutInv
<1> QED
  BY <1>5, <1>6

\* List l, if a step changes neither its pointers nor the calls that are half
\* way in it.
LEMMA StillIntact ==
  ASSUME TypeOK, OwnedOnce, NEW l \in Lists, Intact(l),
         contents'[l] = contents[l], head'[l] = head[l], tail'[l] = tail[l],
         \A n \in ToSet(contents[l]) : next'[n] = next[n],
         \A u \in Calls : /\ call[u].at = "clearhead" => From(u) # l \/ call'[u] = call[u]
                          /\ call[u].at = "settail" => To(u) # l \/ call'[u] = call[u]
                          /\ call[u].at = "link" =>
                               call[u].tail \notin ToSet(contents[l]) \/ call'[u] = call[u]
  PROVE  Intact(l)'
<1>1. /\ Len(contents[l]) \in Nat
      /\ \A i \in 1 .. Len(contents[l]) : contents[l][i] \in ToSet(contents[l])
  BY Places
<1>2. CASE contents[l] = <<>>
  BY <1>2 DEF Intact, From, To
<1>3. CASE contents[l] # <<>>
  <2>1. Len(contents[l]) \in 1 .. Len(contents[l])
    BY <1>1, <1>3 DEF TypeOK
  <2>2. \A i \in 1 .. Len(contents[l]) - 1 :
          LinkPending(contents[l][i]) => LinkPending(contents[l][i])'
    BY <1>1 DEF LinkPending
  <2> QED
    BY <1>1, <1>3, <2>1, <2>2 DEF Intact
<1> QED
  BY <1>2, <1>3

\* Everything, if a step changes nothing but the local variables of call t.
LEMMA LocalStep ==
  ASSUME IInv, NEW t \in Calls, UNCHANGED <<head, tail, next, ele, contents, nodeCount>>,
         call' \in [Calls -> Locals], \A u \in Calls : u # t => call'[u] = call[u],
         call[t].at \notin {"clearhead", "settail", "link"}, call'[t].at # "crashed",
         (t \in Holding)' = (t \in Holding), t \in Holding => call'[t].node = call[t].node,
         TakeInv(t)', PutInv(t)', TypeOK'
  PROVE  IInv'
<1>1. Holding' = Holding /\ \A u \in Holding : call'[u].node = call[u].node
  BY DEF Holding
<1>2. OwnedOnce'
  BY <1>1, SameOwners DEF IInv
<1>3. \A l \in Lists : Intact(l)'
  BY StillIntact DEF IInv, Unbroken
<1>4. NoCrash'
  BY DEF IInv, Unbroken, NoCrash
<1>5. ASSUME NEW u \in Calls PROVE TakeInv(u)' /\ PutInv(u)'
  <2>1. CASE u = t
    BY <2>1
  <2>2. CASE u # t
    BY <2>2 DEF IInv, Known, TakeInv, PutInv, From, To
  <2> QED
    BY <2>1, <2>2
<1> QED
  BY <1>2, <1>3, <1>4, <1>5 DEF IInv, Unbroken, Known

----------------------------------------------------------------------------
(* The steps that change local variables only                              *)

\* A call of PushTail begins.
LEMMA CallPushStep ==
  ASSUME IInv, NEW t \in Pushers, NEW e \in Elements, CallPush(t, e), TypeOK'
  PROVE  IInv'
<1> DEFINE c == [Idle EXCEPT !.at = "readtail", !.ele = e]
<1>1. t \in Calls /\ c \in Locals /\ c.at = "readtail"
  BY DEF Idle, Locals, Steps, Calls
<1>2. /\ call' \in [Calls -> Locals] /\ call'[t] = c
      /\ \A u \in Calls : u # t => call'[u] = call[u]
  BY <1>1, Becoming DEF CallPush, IInv
<1> HIDE DEF c
<1> QED
  BY <1>1, <1>2, Idling, LocalStep DEF CallPush, Holding, TakeInv, PutInv

\* A call of PopHead begins.
LEMMA CallPopStep ==
  ASSUME IInv, NEW t \in Poppers, CallPop(t), TypeOK'
  PROVE  IInv'
<1>1. t \in Calls /\ "readtail" \in Steps
  BY DEF Steps, Calls
<1>2. /\ call' \in [Calls -> Locals] /\ call'[t].at = "readtail"
      /\ \A u \in Calls : u # t => call'[u] = call[u]
  BY <1>1, Going DEF CallPop, IInv
<1> QED
  BY <1>1, <1>2, Idling, LocalStep DEF CallPop, Holding, TakeInv, PutInv

\* The tail is read: if there is one, the list is not empty, and stays so, since
\* only this call takes from it.
LEMMA ReadTailStep ==
  ASSUME IInv, NEW t \in Calls, ReadTail(t), TypeOK'
  PROVE  IInv'
<1> DEFINE c == [call[t] EXCEPT !.at = "readhead", !.tail = tail[From(t)]]
<1>0. From(t) \in Lists
  BY Roles
<1>1. c \in Locals /\ c.at = "readhead" /\ c.tail = tail[From(t)]
  BY <1>0 DEF IInv, TypeOK, Locals, Steps
<1>2. /\ call' \in [Calls -> Locals] /\ call'[t] = c
      /\ \A u \in Calls : u # t => call'[u] = call[u]
  BY <1>1, Becoming DEF ReadTail, IInv
<1> HIDE DEF c
<1>3. tail[From(t)] # NULL => contents[From(t)] # <<>>
  BY <1>0 DEF IInv, Unbroken, Intact
<1>4. TakeInv(t)' /\ PutInv(t)'
  BY <1>1, <1>2, <1>3 DEF ReadTail, TakeInv, PutInv, From
<1> QED
  BY <1>1, <1>2, <1>4, LocalStep DEF ReadTail, Holding

\* The head is read: it is the first node.
LEMMA ReadHeadStep ==
  ASSUME IInv, NEW t \in Calls, ReadHead(t), TypeOK'
  PROVE  IInv'
<1>0. From(t) \in Lists
  BY Roles
<1>1. CASE call[t].tail = NULL
  <2>1. PICK step \in {"return", "newnode"} : GoTo(t, step)
    BY <1>1 DEF ReadHead
  <2>2. /\ call' \in [Calls -> Locals] /\ call'[t].at = step
        /\ \A u \in Calls : u # t => call'[u] = call[u]
    BY <2>1, Going DEF IInv, Steps
  <2> QED
    BY <2>1, <2>2, LocalStep DEF ReadHead, Holding, TakeInv, PutInv
<1>2. CASE call[t].tail # NULL
  <2> DEFINE h == head[From(t)]
             c == [call[t] EXCEPT !.at = IF h = call[t].tail THEN "castail" ELSE "readnext",
                                  !.head = h]
  <2>1. /\ c \in Locals /\ c.tail = call[t].tail /\ c.head = h
        /\ c.at = IF h = call[t].tail THEN "castail" ELSE "readnext"
    BY ZenonT(60), <1>0 DEF IInv, TypeOK, Locals, Steps
  <2>2. /\ call' \in [Calls -> Locals] /\ call'[t] = c
        /\ \A u \in Calls : u # t => call'[u] = call[u]
    BY <1>2, <2>1, Becoming DEF ReadHead, IInv
  <2> HIDE DEF c
  <2>3. contents[From(t)] # <<>> /\ h = contents[From(t)][1]
    BY <1>0, <1>2 DEF ReadHead, IInv, Known, TakeInv, Unbroken, Intact
  <2>4. TakeInv(t)' /\ PutInv(t)'
    BY <2>1, <2>2, <2>3 DEF ReadHead, TakeInv, PutInv, From
  <2> QED
    BY <2>1, <2>2, <2>4, LocalStep DEF ReadHead, Holding
<1> QED
  BY <1>1, <1>2

\* The successor of the head is read: it is the second node, or not linked yet.
LEMMA ReadNextStep ==
  ASSUME IInv, NEW t \in Calls, ReadNext(t), TypeOK'
  PROVE  IInv'
<1> DEFINE l == From(t)
           s == contents[l]
           n == next[call[t].head]
           c == [call[t] EXCEPT !.at = IF n = NULL THEN "readtail" ELSE "cashead", !.next = n]
<1>0. l \in Lists
  BY Roles
<1>1. s # <<>> /\ call[t].head = s[1]
  BY DEF ReadNext, IInv, Known, TakeInv
<1>2. /\ Len(s) \in Nat \ {0}
      /\ s[1] \in Nodes /\ s[1] # NULL
  BY <1>0, <1>1, Places DEF IInv, TypeOK
<1>3. /\ c \in Locals /\ c.head = call[t].head /\ c.next = n
      /\ c.at = IF n = NULL THEN "readtail" ELSE "cashead"
  BY ZenonT(60), <1>1, <1>2 DEF IInv, TypeOK, Locals, Steps
<1>4. /\ call' \in [Calls -> Locals] /\ call'[t] = c
      /\ \A u \in Calls : u # t => call'[u] = call[u]
  BY <1>1, <1>2, <1>3, Becoming DEF ReadNext, IInv
<1> HIDE DEF c
<1>5. n # NULL => Len(s) >= 2 /\ n = s[2]
  BY <1>0, <1>1, <1>2 DEF IInv, Unbroken, Intact
<1>6. TakeInv(t)' /\ PutInv(t)'
  BY <1>1, <1>3, <1>4, <1>5 DEF ReadNext, TakeInv, PutInv, From
<1> QED
  BY <1>3, <1>4, <1>6, LocalStep DEF ReadNext, Holding

\* The tail is read by the call that puts a node after it.
LEMMA ReadEndStep ==
  ASSUME IInv, NEW t \in Calls, ReadEnd(t), TypeOK'
  PROVE  IInv'
<1> DEFINE l == To(t)
           c == [call[t] EXCEPT !.at = IF tail[l] = NULL THEN "casempty" ELSE "casend",
                                !.tail = tail[l]]
<1>0. l \in Lists
  BY Roles
<1>1. /\ c \in Locals /\ c.node = call[t].node /\ c.tail = tail[l]
      /\ c.at = IF tail[l] = NULL THEN "casempty" ELSE "casend"
  BY ZenonT(60), <1>0 DEF IInv, TypeOK, Locals, Steps
<1>2. /\ call' \in [Calls -> Locals] /\ call'[t] = c
      /\ \A u \in Calls : u # t => call'[u] = call[u]
  BY <1>1, Becoming DEF ReadEnd, IInv
<1> HIDE DEF c
<1>3. tail[l] = NULL => contents[l] = <<>>
  <2>1. CASE contents[l] # <<>>
    <3>1. Len(contents[l]) \in 1 .. Len(contents[l])
      BY <1>0, <2>1, Places DEF IInv, TypeOK
    <3> QED
      BY <1>0, <2>1, <3>1, Places DEF IInv, Unbroken, Intact
  <2> QED
    BY <2>1
<1>4. next[call[t].node] = NULL
  BY DEF ReadEnd, IInv, Known, PutInv
<1>5. TakeInv(t)' /\ PutInv(t)'
  BY <1>1, <1>2, <1>3, <1>4 DEF ReadEnd, TakeInv, PutInv, To
<1> QED
  BY <1>1, <1>2, <1>5, LocalStep DEF ReadEnd, Holding

\* A compare-exchange that fails: the call begins again.
LEMMA TakeAgain ==
  ASSUME IInv, NEW t \in Calls, call[t].at \in {"castail", "cashead"},
         GoTo(t, "readtail"), UNCHANGED <<head, tail, next, ele, contents, nodeCount>>, TypeOK'
  PROVE  IInv'
<1>1. /\ call' \in [Calls -> Locals] /\ call'[t].at = "readtail"
      /\ \A u \in Calls : u # t => call'[u] = call[u]
  BY Going DEF IInv, Steps
<1> QED
  BY <1>1, LocalStep DEF Holding, TakeInv, PutInv

\* The same for the call that puts a node.
LEMMA PutAgain ==
  ASSUME IInv, NEW t \in Calls, call[t].at \in {"casempty", "casend"},
         GoTo(t, "readend"), UNCHANGED <<head, tail, next, ele, contents, nodeCount>>, TypeOK'
  PROVE  IInv'
<1>1. /\ call' \in [Calls -> Locals] /\ call'[t].at = "readend" /\ call'[t].node = call[t].node
      /\ \A u \in Calls : u # t => call'[u] = call[u]
  BY Going DEF IInv, Steps
<1>2. next[call[t].node] = NULL
  BY DEF IInv, Known, PutInv
<1> QED
  BY <1>1, <1>2, LocalStep DEF Holding, TakeInv, PutInv

\* A call ends.
LEMMA ReturnStep ==
  ASSUME IInv, NEW t \in Calls, Return(t), TypeOK'
  PROVE  IInv'
<1>1. /\ call' \in [Calls -> Locals] /\ call'[t] = Idle
      /\ \A u \in Calls : u # t => call'[u] = call[u]
  BY Idling, Becoming DEF Return, IInv
<1> QED
  BY <1>1, Idling, LocalStep DEF Return, Holding, TakeInv, PutInv

----------------------------------------------------------------------------
(* The steps that take a node                                              *)

\* The only node of its list.
LEMMA TakeOnly ==
  ASSUME IInv, ~Overlap, NEW t \in Calls, CasTail(t), SameTail(From(t), call[t].tail), TypeOK'
  PROVE  IInv'
<1>0. PICK l \in Lists, m \in Lists :
        /\ l = From(t) /\ m = To(t) /\ l # m /\ \A k \in Lists : k = l \/ k = m
        /\ \A u \in Calls : (From(u) = m /\ To(u) = l) \/ (From(u) = l /\ To(u) = m)
  BY Roles
<1> DEFINE n == call[t].tail
           c == [call[t] EXCEPT !.at = "clearhead", !.node = n]
<1>1. call[t].at = "castail" /\ contents[l] # <<>> /\ n = contents[l][1]
  BY <1>0 DEF CasTail, IInv, Known, TakeInv
<1>2. tail[l] = n /\ head[l] = n
  BY <1>0, <1>1 DEF SameTail, IInv, Unbroken, Intact
<1>3. /\ contents[l] \in Seq(Nodes) /\ Len(contents[l]) = 1
      /\ n \in Nodes /\ n # NULL
  <2>1. Len(contents[l]) \in Nat \ {0} /\ contents[l] \in Seq(Nodes)
    BY <1>0, <1>1 DEF IInv, TypeOK
  <2>2. contents[l][Len(contents[l])] = contents[l][1]
    BY <1>0, <1>1, <1>2 DEF IInv, Unbroken, Intact
  <2>3. 1 \in 1 .. Len(contents[l]) /\ Len(contents[l]) \in 1 .. Len(contents[l])
    BY <2>1
  <2> QED
    BY <1>0, <1>1, <2>1, <2>2, <2>3, Places DEF IInv
<1>4. Tail(contents[l]) = <<>> /\ Head(contents[l]) = n
  BY <1>1, <1>3, Rest
<1>5. /\ c \in Locals /\ c.at = "clearhead" /\ c.node = n
  BY <1>0, <1>3 DEF IInv, TypeOK, Locals, Steps
<1>6. /\ call' \in [Calls -> Locals] /\ call'[t] = c
      /\ \A u \in Calls : u # t => call'[u] = call[u]
  BY <1>0, <1>5, Becoming DEF CasTail, IInv
<1> HIDE DEF c
<1>7. /\ contents' = [contents EXCEPT ![l] = Tail(@)]
      /\ contents'[l] = <<>> /\ contents'[m] = contents[m]
  BY <1>0, <1>1, <1>4 DEF CasTail, Left, IInv, TypeOK
<1>8. /\ tail' \in [Lists -> Nodes \cup {NULL}] /\ tail'[l] = NULL /\ tail'[m] = tail[m]
      /\ UNCHANGED <<head, next, ele, nodeCount>>
  BY <1>0 DEF CasTail, IInv, TypeOK
<1>9. OwnedOnce'
  <2>1. t \notin Holding /\ Holding' = Holding \cup {t}
    BY <1>1, <1>5, <1>6 DEF Holding
  <2>2. call'[t].node = Head(contents[l])
    BY <1>4, <1>5, <1>6
  <2>3. \A u \in Holding : call'[u].node = call[u].node
    BY <1>6, <2>1 DEF Holding
  <2> QED
    BY <1>1, <1>7, <1>8, <2>1, <2>2, <2>3, TakeOwner DEF IInv
<1>10. Intact(l)'
  <2>1. call'[t].at = "clearhead" /\ call'[t].node = head'[l] /\ From(t)' = l
    BY <1>0, <1>2, <1>5, <1>6, <1>8 DEF From
  <2> QED
    BY <1>0, <1>7, <1>8, <2>1 DEF Intact
<1>11. Intact(m)'
  BY <1>0, <1>1, <1>6, <1>7, <1>8, StillIntact DEF IInv, Unbroken
<1>12. TakeInv(t)' /\ PutInv(t)'
  BY <1>0, <1>2, <1>5, <1>6, <1>7, <1>8 DEF TakeInv, PutInv, From
<1>13. ASSUME NEW u \in Calls, u # t PROVE TakeInv(u)' /\ PutInv(u)'
  <2>0. CASE From(u) = l /\ To(u) = m
    BY <1>0, <1>1, <1>6, <1>7, <1>8, <1>13, <2>0, OtherTakes DEF Taking
  <2> SUFFICES ASSUME From(u) = m /\ To(u) = l PROVE TakeInv(u)' /\ PutInv(u)'
    BY <1>0, <2>0
  <2>1. /\ From(u) = m /\ To(u) = l /\ From(u)' = m /\ To(u)' = l /\ call'[u] = call[u]
    BY <1>0, <1>6, <1>13 DEF From, To
  <2>2. TakeInv(u)'
    BY <1>0, <1>7, <1>8, <2>1 DEF IInv, Known, TakeInv
  <2>3. PutInv(u)'
    BY <1>0, <1>1, <1>3, <1>7, <1>8, <2>1 DEF IInv, Known, PutInv
  <2> QED
    BY <2>2, <2>3
<1>14. NoCrash'
  BY <1>0, <1>5, <1>6 DEF IInv, Unbroken, NoCrash
<1> QED
  BY <1>0, <1>9, <1>10, <1>11, <1>12, <1>13, <1>14 DEF IInv, Unbroken, Known

\* The head that the only node has left is set to NULL.
LEMMA ClearHeadStep ==
  ASSUME IInv, ~Overlap, NEW t \in Calls, ClearHead(t), TypeOK'
  PROVE  IInv'
<1>0. PICK l \in Lists, m \in Lists :
        /\ l = From(t) /\ m = To(t) /\ l # m /\ \A k \in Lists : k = l \/ k = m
        /\ \A u \in Calls : (From(u) = m /\ To(u) = l) \/ (From(u) = l /\ To(u) = m)
  BY Roles
<1> DEFINE c == [call[t] EXCEPT !.at = "reset", !.ele = Taken(t, call[t].node)]
<1>1. call[t].at = "clearhead" /\ contents[l] = <<>> /\ head[l] = call[t].node
  BY <1>0 DEF ClearHead, IInv, Known, TakeInv
<1>2. t \in Holding /\ call[t].node \in Nodes
  BY <1>0, <1>1, Held DEF Holding, IInv
<1>3. c \in Locals /\ c.at = "reset" /\ c.node = call[t].node
  BY ZenonT(60), <1>0, <1>2 DEF IInv, TypeOK, Locals, Steps, Taken
<1>4. /\ call' \in [Calls -> Locals] /\ call'[t] = c
      /\ \A u \in Calls : u # t => call'[u] = call[u]
  BY <1>0, <1>3, Becoming DEF ClearHead, IInv
<1> HIDE DEF c
<1>5. /\ head' \in [Lists -> Nodes \cup {NULL}] /\ head'[l] = NULL /\ head'[m] = head[m]
      /\ UNCHANGED <<tail, next, ele, contents, nodeCount>>
  BY <1>0 DEF ClearHead, Cleared, IInv, TypeOK
<1>6. OwnedOnce'
  <2>1. Holding' = Holding /\ \A u \in Holding : call'[u].node = call[u].node
    BY <1>2, <1>3, <1>4 DEF Holding
  <2> QED
    BY <1>0, <1>5, <2>1, SameOwners DEF IInv
<1>7. Intact(l)'
  BY <1>0, <1>1, <1>5 DEF IInv, Unbroken, Intact
<1>8. Intact(m)'
  BY <1>0, <1>1, <1>4, <1>5, StillIntact DEF IInv, Unbroken
<1>9. TakeInv(t)' /\ PutInv(t)'
  BY <1>0, <1>3, <1>4 DEF TakeInv, PutInv
<1>10. ASSUME NEW u \in Calls, u # t PROVE TakeInv(u)' /\ PutInv(u)'
  <2>0. CASE From(u) = l /\ To(u) = m
    BY <1>0, <1>1, <1>4, <1>5, <1>10, <2>0, OtherTakes DEF Taking
  <2> SUFFICES ASSUME From(u) = m /\ To(u) = l PROVE TakeInv(u)' /\ PutInv(u)'
    BY <1>0, <2>0
  <2>1. From(u) = m /\ To(u) = l /\ From(u)' = m /\ To(u)' = l /\ call'[u] = call[u]
    BY <1>0, <1>4, <1>10 DEF From, To
  <2>2. call[u].at = "settail" => call[u].node # call[t].node
    BY <1>0, <1>2, <1>10 DEF IInv, OwnedOnce, Holding
  <2>3. TakeInv(u)'
    BY <1>0, <1>5, <2>1 DEF IInv, Known, TakeInv
  <2>4. PutInv(u)'
    BY <1>0, <1>1, <1>5, <2>1, <2>2 DEF IInv, Known, PutInv
  <2> QED
    BY <2>3, <2>4
<1>11. NoCrash'
  BY <1>0, <1>3, <1>4 DEF IInv, Unbroken, NoCrash
<1> QED
  BY <1>0, <1>6, <1>7, <1>8, <1>9, <1>10, <1>11 DEF IInv, Unbroken, Known

\* The first of several nodes.
LEMMA TakeFirst ==
  ASSUME IInv, ~Overlap, NEW t \in Calls, CasHead(t), head[From(t)] = call[t].head, TypeOK'
  PROVE  IInv'
<1>0. PICK l \in Lists, m \in Lists :
        /\ l = From(t) /\ m = To(t) /\ l # m /\ \A k \in Lists : k = l \/ k = m
        /\ \A u \in Calls : (From(u) = m /\ To(u) = l) \/ (From(u) = l /\ To(u) = m)
  BY Roles
<1>s. PICK s \in Seq(Nodes) : s = contents[l]
  BY <1>0, Places DEF IInv
<1> DEFINE n == call[t].head
           c == [call[t] EXCEPT !.at = "reset", !.node = n, !.ele = Taken(t, n)]
<1>1. /\ call[t].at = "cashead" /\ Len(s) >= 2 /\ n = s[1] /\ call[t].next = s[2]
      /\ next[n] = s[2]
  BY <1>0, <1>s DEF CasHead, IInv, Known, TakeInv
<1>2. /\ Len(s) \in Nat /\ s # <<>>
      /\ n \in Nodes /\ s[2] \in Nodes /\ s[2] # NULL
  BY <1>0, <1>1, <1>s, Places DEF IInv
<1>3. /\ Head(s) = n /\ Tail(s) # <<>> /\ Tail(s) \in Seq(Nodes) /\ Len(Tail(s)) = Len(s) - 1
      /\ \A i \in 1 .. Len(s) - 1 : Tail(s)[i] = s[i + 1]
      /\ Tail(s)[Len(Tail(s))] = s[Len(s)]
      /\ Len(s) > 2 => Tail(s)[Len(Tail(s)) - 1] = s[Len(s) - 1]
  BY <1>1, <1>2, Rest
<1>4. c \in Locals /\ c.at = "reset" /\ c.node = n
  BY ZenonT(60), <1>0, <1>2 DEF IInv, TypeOK, Locals, Steps, Taken
<1>5. /\ call' \in [Calls -> Locals] /\ call'[t] = c
      /\ \A u \in Calls : u # t => call'[u] = call[u]
  BY <1>0, <1>4, Becoming DEF CasHead, IInv
<1> HIDE DEF c
<1>6. /\ contents' = [contents EXCEPT ![l] = Tail(@)]
      /\ contents'[l] = Tail(s) /\ contents'[m] = contents[m]
  BY <1>0, <1>2, <1>s DEF CasHead, Left, IInv, TypeOK
<1>7. /\ head' \in [Lists -> Nodes \cup {NULL}] /\ head'[l] = s[2] /\ head'[m] = head[m]
      /\ UNCHANGED <<tail, next, ele, nodeCount>>
  BY <1>0, <1>1, <1>2 DEF CasHead, IInv, TypeOK
<1>8. OwnedOnce'
  <2>1. t \notin Holding /\ Holding' = Holding \cup {t}
    BY <1>1, <1>4, <1>5 DEF Holding
  <2>2. call'[t].node = Head(contents[l]) /\ contents[l] # <<>>
    BY <1>2, <1>3, <1>4, <1>5, <1>s
  <2>3. \A u \in Holding : call'[u].node = call[u].node
    BY <1>5, <2>1 DEF Holding
  <2> QED
    BY <1>6, <1>7, <2>1, <2>2, <2>3, TakeOwner DEF IInv
<1>9. Intact(l)'
  <2>1. /\ tail[l] = s[Len(s)]
        /\ next[s[Len(s)]] = NULL
        /\ \A i \in 1 .. Len(s) - 1 :
             \/ next[s[i]] = s[i + 1]
             \/ next[s[i]] = NULL /\ LinkPending(s[i])
    BY <1>0, <1>2, <1>s DEF IInv, Unbroken, Intact
  <2>2. \A i \in 1 .. Len(s) : LinkPending(s[i]) => LinkPending(s[i])'
    BY <1>1, <1>5 DEF LinkPending
  <2>3. Tail(s)[1] = s[2] /\ Tail(s)[Len(Tail(s))] = s[Len(s)]
    BY <1>1, <1>2, <1>3
  <2>4. \A i \in 1 .. Len(Tail(s)) - 1 :
          \/ next[Tail(s)[i]] = Tail(s)[i + 1]
          \/ next[Tail(s)[i]] = NULL /\ LinkPending(Tail(s)[i])'
    <3> TAKE i \in 1 .. Len(Tail(s)) - 1
    <3>1. i \in 1 .. Len(s) - 1 /\ i + 1 \in 1 .. Len(s) - 1 /\ i + 1 \in 1 .. Len(s)
      BY <1>2, <1>3
    <3>2. Tail(s)[i] = s[i + 1] /\ Tail(s)[i + 1] = s[(i + 1) + 1]
      BY <1>3, <3>1
    <3> QED
      BY <2>1, <2>2, <3>1, <3>2
  <2> QED
    BY ZenonT(60), <1>0, <1>3, <1>6, <1>7, <2>1, <2>3, <2>4 DEF Intact
<1>10. Intact(m)'
  BY <1>0, <1>1, <1>5, <1>6, <1>7, StillIntact DEF IInv, Unbroken
<1>11. TakeInv(t)' /\ PutInv(t)'
  BY <1>0, <1>4, <1>5 DEF TakeInv, PutInv
<1>12. ASSUME NEW u \in Calls, u # t PROVE TakeInv(u)' /\ PutInv(u)'
  <2>0. CASE From(u) = l /\ To(u) = m
    BY <1>0, <1>1, <1>5, <1>6, <1>7, <1>12, <2>0, OtherTakes DEF Taking
  <2> SUFFICES ASSUME From(u) = m /\ To(u) = l PROVE TakeInv(u)' /\ PutInv(u)'
    BY <1>0, <2>0
  <2>1. From(u) = m /\ To(u) = l /\ From(u)' = m /\ To(u)' = l /\ call'[u] = call[u]
    BY <1>0, <1>5, <1>12 DEF From, To
  <2>2. TakeInv(u)'
    BY <1>0, <1>6, <1>7, <2>1 DEF IInv, Known, TakeInv
  <2>3. CASE call[u].at = "link"
    <3>1. /\ call[u].node = s[Len(s)] /\ call[u].tail = s[Len(s) - 1] /\ next[call[u].tail] = NULL
      BY <1>0, <1>s, <2>1, <2>3 DEF IInv, Known, PutInv
    <3>2. Len(s) > 2
      BY <1>1, <1>2, <3>1
    <3>3. Tail(s)[Len(Tail(s))] = s[Len(s)] /\ Tail(s)[Len(Tail(s)) - 1] = s[Len(s) - 1]
      BY <1>2, <1>3, <3>2
    <3>4. Len(Tail(s)) >= 2
      BY <1>2, <1>3, <3>2
    <3>5. PutInv(u)'
      BY <1>6, <1>7, <2>1, <2>3, <3>1, <3>3, <3>4 DEF PutInv
    <3> QED
      BY <2>2, <3>5
  <2>4. CASE call[u].at # "link"
    BY <1>0, <1>2, <1>6, <1>7, <1>s, <2>1, <2>2, <2>4 DEF IInv, Known, PutInv
  <2> QED
    BY <2>2, <2>3, <2>4
<1>13. NoCrash'
  BY <1>0, <1>4, <1>5 DEF IInv, Unbroken, NoCrash
<1> QED
  BY <1>0, <1>8, <1>9, <1>10, <1>11, <1>12, <1>13 DEF IInv, Unbroken, Known

\* A node for a push that has found none.
LEMMA NewNodeStep ==
  ASSUME IInv, NEW t \in Calls, NewNode(t), TypeOK'
  PROVE  IInv'
<1> DEFINE c == [call[t] EXCEPT !.at = "reset", !.node = nodeCount + 1]
<1>1. /\ call[t].at = "newnode" /\ nodeCount + 1 \in Nodes
      /\ nodeCount' = nodeCount + 1 /\ nodeCount' \in 0 .. MaxNodes
      /\ UNCHANGED <<head, tail, next, ele, contents>>
  BY NodeAssumption DEF NewNode, IInv, TypeOK, Nodes
<1>2. c \in Locals /\ c.at = "reset" /\ c.node = nodeCount + 1
  BY ZenonT(60), <1>1 DEF IInv, TypeOK, Locals, Steps
<1>3. /\ call' \in [Calls -> Locals] /\ call'[t] = c
      /\ \A u \in Calls : u # t => call'[u] = call[u]
  BY <1>2, Becoming DEF NewNode, IInv
<1> HIDE DEF c
<1>4. OwnedOnce'
  <2>1. t \notin Holding /\ Holding' = Holding \cup {t}
    BY <1>1, <1>2, <1>3 DEF Holding
  <2>2. call'[t].node = nodeCount + 1
    BY <1>2, <1>3
  <2>3. \A u \in Holding : call'[u].node = call[u].node
    BY <1>3, <2>1 DEF Holding
  <2> QED
    BY <1>1, <2>1, <2>2, <2>3, NewOwner DEF IInv
<1>5. \A l \in Lists : Intact(l)'
  BY <1>1, <1>3, StillIntact DEF IInv, Unbroken
<1>6. ASSUME NEW u \in Calls PROVE TakeInv(u)' /\ PutInv(u)'
  <2>1. CASE u = t
    BY <1>2, <1>3, <2>1 DEF TakeInv, PutInv
  <2>2. CASE u # t
    BY <1>1, <1>3, <2>2 DEF IInv, Known, TakeInv, PutInv, From, To
  <2> QED
    BY <2>1, <2>2
<1>7. NoCrash'
  BY <1>2, <1>3 DEF IInv, Unbroken, NoCrash
<1> QED
  BY <1>4, <1>5, <1>6, <1>7 DEF IInv, Unbroken, Known

----------------------------------------------------------------------------
(* The steps that put a node in the other list                             *)

\* The node in the hands of a call gets its element, and no successor.
LEMMA ResetStep ==
  ASSUME IInv, NEW t \in Calls, Reset(t), TypeOK'
  PROVE  IInv'
<1> DEFINE n == call[t].node
<1>1. t \in Holding /\ call[t].at = "reset"
  BY DEF Reset, Holding
<1>2. n \in Nodes /\ \A l \in Lists : n \notin ToSet(contents[l])
  BY <1>1, Held DEF IInv
<1>3. /\ call' \in [Calls -> Locals] /\ call'[t].at = "readend" /\ call'[t].node = n
      /\ \A u \in Calls : u # t => call'[u] = call[u]
  BY Going DEF Reset, IInv, Steps
<1>4. /\ next' \in [Nodes -> Nodes \cup {NULL}] /\ next'[n] = NULL
      /\ \A k \in Nodes : k # n => next'[k] = next[k]
      /\ UNCHANGED <<head, tail, contents, nodeCount>>
  BY <1>2 DEF Reset, IInv, TypeOK
<1>5. OwnedOnce'
  <2>1. Holding' = Holding /\ \A u \in Holding : call'[u].node = call[u].node
    BY <1>1, <1>3 DEF Holding
  <2> QED
    BY <1>4, <2>1, SameOwners DEF IInv
<1>6. ASSUME NEW l \in Lists PROVE Intact(l)'
  <2>1. \A k \in ToSet(contents[l]) : k \in Nodes
    BY DEF IInv, TypeOK, ToSet
  <2>2. \A k \in ToSet(contents[l]) : next'[k] = next[k]
    BY <1>2, <1>4, <2>1
  <2> QED
    BY <1>1, <1>3, <1>4, <2>2, StillIntact DEF IInv, Unbroken
<1>7. ASSUME NEW u \in Calls PROVE TakeInv(u)' /\ PutInv(u)'
  <2>1. CASE u = t
    BY <1>3, <1>4, <2>1 DEF TakeInv, PutInv
  <2>2. CASE u # t
    <3>1. call'[u] = call[u] /\ From(u)' = From(u) /\ To(u)' = To(u) /\ From(u) \in Lists
      BY <1>3, <2>2, Roles DEF From, To
    <3>2. call[u].at = "cashead" => call[u].head \in Nodes /\ call[u].head # n
      <4>1. ASSUME call[u].at = "cashead"
            PROVE  Len(contents[From(u)]) >= 2 /\ call[u].head = contents[From(u)][1]
        BY <4>1 DEF IInv, Known, TakeInv
      <4> QED
        BY <1>2, <3>1, <4>1, Places DEF IInv
    <3>3. TakeInv(u)'
      BY <1>4, <3>1, <3>2 DEF IInv, Known, TakeInv
    <3>4. \A k \in Nodes : next[k] = NULL => next'[k] = NULL
      BY <1>4
    <3>5. call[u].at \in {"readend", "casempty", "settail", "casend"} => call[u].node \in Nodes
      BY Held DEF IInv, Holding
    <3>6. call[u].at = "link" => call[u].tail \in Nodes
      <4>1. To(u) \in Lists
        BY Roles
      <4>2. ASSUME call[u].at = "link"
            PROVE  Len(contents[To(u)]) >= 2 /\ call[u].tail = contents[To(u)][Len(contents[To(u)]) - 1]
        BY <4>2 DEF IInv, Known, PutInv
      <4> QED
        BY <4>1, <4>2, Places DEF IInv
    <3>7. PutInv(u)'
      BY <1>4, <3>1, <3>4, <3>5, <3>6 DEF IInv, Known, PutInv
    <3> QED
      BY <3>3, <3>7
  <2> QED
    BY <2>1, <2>2
<1>8. NoCrash'
  BY <1>3 DEF IInv, Unbroken, NoCrash
<1> QED
  BY <1>5, <1>6, <1>7, <1>8 DEF IInv, Unbroken, Known

\* The head of an empty list.
LEMMA PutHead ==
  ASSUME IInv, ~Overlap, NEW t \in Calls, CasEmpty(t), NoHead(To(t)), TypeOK'
  PROVE  IInv'
<1>0. PICK l \in Lists, m \in Lists :
        /\ l = From(t) /\ m = To(t) /\ l # m /\ \A k \in Lists : k = l \/ k = m
        /\ \A u \in Calls : (From(u) = m /\ To(u) = l) \/ (From(u) = l /\ To(u) = m)
  BY Roles
<1>1. /\ call[t].at = "casempty" /\ contents[m] = <<>> /\ head[m] = NULL
      /\ next[call[t].node] = NULL
  BY <1>0 DEF CasEmpty, NoHead, IInv, Known, PutInv
<1>2. t \in Holding /\ call[t].node \in Nodes /\ call[t].node # NULL
  BY <1>1, Held DEF Holding, IInv
<1>3. /\ call' \in [Calls -> Locals] /\ call'[t].at = "settail" /\ call'[t].node = call[t].node
      /\ \A u \in Calls : u # t => call'[u] = call[u]
  BY Going DEF CasEmpty, IInv, Steps
<1>4. /\ head' \in [Lists -> Nodes \cup {NULL}] /\ head'[m] = call[t].node /\ head'[l] = head[l]
      /\ UNCHANGED <<tail, next, ele, contents, nodeCount>>
  BY <1>0, <1>2 DEF CasEmpty, IInv, TypeOK
<1>5. OwnedOnce'
  <2>1. Holding' = Holding /\ \A u \in Holding : call'[u].node = call[u].node
    BY <1>2, <1>3 DEF Holding
  <2> QED
    BY <1>4, <2>1, SameOwners DEF IInv
<1>6. Intact(m)'
  <2>1. tail[m] = NULL
    BY <1>1 DEF IInv, Unbroken, Intact
  <2>2. To(t)' = m
    BY <1>0 DEF To
  <2> QED
    BY <1>1, <1>3, <1>4, <2>1, <2>2 DEF Intact
<1>7. Intact(l)'
  BY <1>0, <1>1, <1>3, <1>4, StillIntact DEF IInv, Unbroken
<1>8. TakeInv(t)' /\ PutInv(t)'
  BY <1>0, <1>1, <1>3, <1>4 DEF TakeInv, PutInv, To
<1>9. ASSUME NEW u \in Calls, u # t PROVE TakeInv(u)' /\ PutInv(u)'
  <2>0. CASE From(u) = l /\ To(u) = m
    BY <1>0, <1>1, <1>3, <1>4, <1>9, <2>0, OtherPuts DEF Putting
  <2> SUFFICES ASSUME From(u) = m /\ To(u) = l PROVE TakeInv(u)' /\ PutInv(u)'
    BY <1>0, <2>0
  <2>1. From(u) = m /\ To(u) = l /\ From(u)' = m /\ To(u)' = l /\ call'[u] = call[u]
    BY <1>0, <1>3, <1>9 DEF From, To
  <2>2. call[u].at # "clearhead"
    <3>1. call[u].at = "clearhead" => u \in Holding /\ head[m] = call[u].node
      BY <2>1 DEF IInv, Known, TakeInv, Holding
    <3> QED
      BY <1>1, <3>1, Held DEF IInv
  <2>3. TakeInv(u)'
    BY <1>4, <2>1, <2>2 DEF IInv, Known, TakeInv
  <2>4. PutInv(u)'
    BY <1>4, <2>1 DEF IInv, Known, PutInv
  <2> QED
    BY <2>3, <2>4
<1>10. NoCrash'
  BY <1>3 DEF IInv, Unbroken, NoCrash
<1> QED
  BY <1>0, <1>5, <1>6, <1>7, <1>8, <1>9, <1>10 DEF IInv, Unbroken, Known

\* The tail of an empty list.
LEMMA SetTailStep ==
  ASSUME IInv, ~Overlap, NEW t \in Calls, SetTail(t), TypeOK'
  PROVE  IInv'
<1>0. PICK l \in Lists, m \in Lists :
        /\ l = From(t) /\ m = To(t) /\ l # m /\ \A k \in Lists : k = l \/ k = m
        /\ \A u \in Calls : (From(u) = m /\ To(u) = l) \/ (From(u) = l /\ To(u) = m)
  BY Roles
<1>n. PICK n \in Nodes : n = call[t].node /\ t \in Holding
  BY Held DEF SetTail, Holding, IInv
<1>1. call[t].at = "settail" /\ contents[m] = <<>> /\ head[m] = n /\ next[n] = NULL
  BY <1>0, <1>n DEF SetTail, IInv, Known, PutInv
<1>2. /\ call' \in [Calls -> Locals] /\ call'[t].at = "return" /\ call'[t].node = n
      /\ \A u \in Calls : u # t => call'[u] = call[u]
  BY <1>n, Going DEF SetTail, IInv, Steps
<1>3. /\ tail' \in [Lists -> Nodes \cup {NULL}] /\ tail'[m] = n /\ tail'[l] = tail[l]
      /\ UNCHANGED <<head, next, ele, nodeCount>>
  BY <1>0, <1>n DEF SetTail, IInv, TypeOK
<1>4. /\ contents' = [contents EXCEPT ![m] = Append(@, n)]
      /\ contents'[m] = <<n>> /\ contents'[l] = contents[l]
      /\ contents' \in [Lists -> Seq(Nodes)]
  BY <1>0, <1>n, <1>1 DEF SetTail, Entered, IInv, TypeOK
<1>5. OwnedOnce'
  <2>1. Holding' = Holding \ {t}
    BY <1>n, <1>2 DEF Holding
  <2>2. \A u \in Holding' : call'[u].node = call[u].node
    BY <1>2, <2>1 DEF Holding
  <2> QED
    BY <1>n, <1>3, <1>4, <2>1, <2>2, PutOwner DEF IInv
<1>6. Intact(m)'
  BY <1>1, <1>3, <1>4 DEF Intact
<1>7. Intact(l)'
  BY <1>0, <1>1, <1>2, <1>3, <1>4, StillIntact DEF IInv, Unbroken
<1>8. TakeInv(t)' /\ PutInv(t)'
  BY <1>2 DEF TakeInv, PutInv
<1>9. ASSUME NEW u \in Calls, u # t PROVE TakeInv(u)' /\ PutInv(u)'
  <2>0. CASE From(u) = l /\ To(u) = m
    BY <1>0, <1>1, <1>2, <1>3, <1>4, <1>9, <2>0, OtherPuts DEF Putting
  <2> SUFFICES ASSUME From(u) = m /\ To(u) = l PROVE TakeInv(u)' /\ PutInv(u)'
    BY <1>0, <2>0
  <2>1. From(u) = m /\ To(u) = l /\ From(u)' = m /\ To(u)' = l /\ call'[u] = call[u]
    BY <1>0, <1>2, <1>9 DEF From, To
  <2>2. call[u].at # "clearhead"
    <3>1. call[u].at = "clearhead" => u \in Holding /\ call[u].node = call[t].node
      BY <1>n, <1>1, <2>1 DEF IInv, Known, TakeInv, Holding
    <3> QED
      BY <1>n, <1>9, <3>1 DEF IInv, OwnedOnce
  <2>3. call[u].at \notin {"castail", "readnext", "cashead"}
    BY <1>1, <2>1 DEF IInv, Known, TakeInv
  <2>4. TakeInv(u)'
    BY <1>4, <2>1, <2>2, <2>3 DEF TakeInv
  <2>5. PutInv(u)'
    BY <1>3, <1>4, <2>1 DEF IInv, Known, PutInv
  <2> QED
    BY <2>4, <2>5
<1>10. NoCrash'
  BY <1>2 DEF IInv, Unbroken, NoCrash
<1> QED
  BY <1>0, <1>5, <1>6, <1>7, <1>8, <1>9, <1>10 DEF IInv, Unbroken, Known

\* A list with one more node, by places.
LEMMA OneMore ==
  ASSUME NEW S, NEW s \in Seq(S), NEW x \in S, s # <<>>
  PROVE  /\ Len(s) \in Nat \ {0} /\ Append(s, x) \in Seq(S) /\ Append(s, x) # <<>>
         /\ Len(Append(s, x)) = Len(s) + 1
         /\ \A i \in 1 .. Len(s) : Append(s, x)[i] = s[i]
         /\ Append(s, x)[Len(s) + 1] = x
         /\ Append(s, x)[1] = s[1]
         /\ Len(s) >= 2 => Append(s, x)[2] = s[2]
<1>1. /\ Len(s) \in Nat \ {0}
      /\ Append(s, x) \in Seq(S) /\ Len(Append(s, x)) = Len(s) + 1
      /\ Append(s, x)[Len(s) + 1] = x
  <2>1. Len(s) \in Nat /\ (Len(s) = 0 => s = <<>>)
    OBVIOUS
  <2> QED
    BY <2>1
<1>4. \A i \in 1 .. Len(s) : Append(s, x)[i] = s[i]
  OBVIOUS
<1>2. Append(s, x) # <<>>
  BY <1>1
<1>3. 1 \in 1 .. Len(s) /\ (Len(s) >= 2 => 2 \in 1 .. Len(s))
  BY <1>1
<1> QED
  BY <1>1, <1>2, <1>3, <1>4

\* A node after the last one.
LEMMA PutLast ==
  ASSUME IInv, ~Overlap, NEW t \in Calls, CasEnd(t), SameTail(To(t), call[t].tail), TypeOK'
  PROVE  IInv'
<1>0. PICK l \in Lists, m \in Lists :
        /\ l = From(t) /\ m = To(t) /\ l # m /\ \A k \in Lists : k = l \/ k = m
        /\ \A u \in Calls : (From(u) = m /\ To(u) = l) \/ (From(u) = l /\ To(u) = m)
  BY Roles
<1>n. PICK n \in Nodes : n = call[t].node /\ t \in Holding
  BY Held DEF CasEnd, Holding, IInv
<1>s. PICK s \in Seq(Nodes) : s = contents[m]
  BY <1>0, Places DEF IInv
<1>1. /\ call[t].at = "casend" /\ next[n] = NULL /\ tail[m] = call[t].tail
      /\ s # <<>> /\ head[m] = s[1] /\ call[t].tail = s[Len(s)] /\ next[s[Len(s)]] = NULL
  <2>1. /\ call[t].at = "casend" /\ next[n] = NULL /\ tail[m] = call[t].tail /\ tail[m] # NULL
    BY <1>0, <1>n DEF CasEnd, SameTail, IInv, Known, PutInv
  <2> QED
    BY <1>0, <1>s, <2>1 DEF IInv, Unbroken, Intact
<1>2. /\ call' \in [Calls -> Locals] /\ call'[t].at = "link" /\ call'[t].node = n
      /\ call'[t].tail = s[Len(s)]
      /\ \A u \in Calls : u # t => call'[u] = call[u]
  <2>1. GoTo(t, "link") /\ "link" \in Steps
    BY <1>0, <1>1 DEF CasEnd, Steps
  <2> QED
    BY <1>n, <1>1, <2>1, Going DEF IInv
<1>3. /\ tail' \in [Lists -> Nodes \cup {NULL}] /\ tail'[m] = n /\ tail'[l] = tail[l]
      /\ UNCHANGED <<head, next, ele, nodeCount>>
  BY <1>0, <1>n DEF CasEnd, IInv, TypeOK
<1>q. PICK q \in Seq(Nodes) : q = Append(s, n)
  BY <1>1, OneMore
<1>4. /\ Len(s) \in Nat \ {0} /\ q # <<>> /\ Len(q) = Len(s) + 1 /\ q[1] = s[1]
      /\ \A i \in 1 .. Len(s) : q[i] = s[i]
      /\ q[Len(s) + 1] = n
      /\ Len(s) >= 2 => q[2] = s[2]
  BY <1>1, <1>q, OneMore
<1>5. /\ contents' = [contents EXCEPT ![m] = Append(@, n)]
      /\ contents'[m] = q /\ contents'[l] = contents[l]
      /\ contents' \in [Lists -> Seq(Nodes)]
  BY ZenonT(60), <1>0, <1>n, <1>s, <1>q DEF CasEnd, Entered, IInv, TypeOK
<1>6. OwnedOnce'
  <2>1. Holding' = Holding \ {t}
    BY <1>n, <1>2 DEF Holding
  <2>2. \A u \in Holding' : call'[u].node = call[u].node
    BY <1>2, <2>1 DEF Holding
  <2> QED
    BY <1>n, <1>3, <1>5, <2>1, <2>2, PutOwner DEF IInv
<1>7. Intact(m)'
  <2>1. \A i \in 1 .. Len(s) - 1 :
          \/ next[s[i]] = s[i + 1]
          \/ next[s[i]] = NULL /\ LinkPending(s[i])
    BY <1>0, <1>s, <1>1 DEF IInv, Unbroken, Intact
  <2>2. \A k : LinkPending(k) => LinkPending(k)'
    BY <1>1, <1>2 DEF LinkPending
  <2>3. LinkPending(s[Len(s)])'
    BY <1>2 DEF LinkPending
  <2>4. \A i \in 1 .. Len(q) - 1 :
          \/ next[q[i]] = q[i + 1]
          \/ next[q[i]] = NULL /\ LinkPending(q[i])'
    <3> TAKE i \in 1 .. Len(q) - 1
    <3>1. CASE i = Len(s)
      BY <1>1, <1>4, <2>3, <3>1
    <3>2. CASE i # Len(s)
      <4>1. i \in 1 .. Len(s) - 1 /\ i \in 1 .. Len(s) /\ i + 1 \in 1 .. Len(s)
        BY <1>4, <3>2
      <4>2. q[i] = s[i] /\ q[i + 1] = s[i + 1]
        BY <1>4, <4>1
      <4> QED
        BY <2>1, <2>2, <4>1, <4>2
    <3> QED
      BY <3>1, <3>2
  <2>5. head[m] = q[1] /\ tail'[m] = q[Len(q)] /\ next[q[Len(q)]] = NULL
    BY <1>1, <1>3, <1>4
  <2> QED
    BY ZenonT(60), <1>3, <1>4, <1>5, <2>4, <2>5 DEF Intact
<1>8. Intact(l)'
  BY <1>0, <1>1, <1>2, <1>3, <1>5, StillIntact DEF IInv, Unbroken
<1>9. TakeInv(t)' /\ PutInv(t)'
  <2>1. Len(q) >= 2 /\ n = q[Len(q)] /\ s[Len(s)] = q[Len(q) - 1]
    BY <1>4
  <2> QED
    BY <1>0, <1>1, <1>2, <1>3, <1>5, <2>1 DEF TakeInv, PutInv, To
<1>10. ASSUME NEW u \in Calls, u # t PROVE TakeInv(u)' /\ PutInv(u)'
  <2>0. CASE From(u) = l /\ To(u) = m
    BY <1>0, <1>1, <1>2, <1>3, <1>5, <1>10, <2>0, OtherPuts DEF Putting
  <2> SUFFICES ASSUME From(u) = m /\ To(u) = l PROVE TakeInv(u)' /\ PutInv(u)'
    BY <1>0, <2>0
  <2>1. From(u) = m /\ To(u) = l /\ From(u)' = m /\ To(u)' = l /\ call'[u] = call[u]
    BY <1>0, <1>2, <1>10 DEF From, To
  <2>2. call[u].at # "clearhead"
    BY <1>s, <1>1, <2>1 DEF IInv, Known, TakeInv
  <2>3. Len(s) >= 2 => Len(q) >= 2
    BY <1>4
  <2>4. TakeInv(u)'
    BY <1>s, <1>3, <1>4, <1>5, <2>1, <2>2, <2>3 DEF IInv, Known, TakeInv
  <2>5. PutInv(u)'
    BY <1>3, <1>5, <2>1 DEF IInv, Known, PutInv
  <2> QED
    BY <2>4, <2>5
<1>11. NoCrash'
  BY <1>2 DEF IInv, Unbroken, NoCrash
<1> QED
  BY <1>0, <1>6, <1>7, <1>8, <1>9, <1>10, <1>11 DEF IInv, Unbroken, Known

\* The last node but one is linked to the last one.
LEMMA LinkStep ==
  ASSUME IInv, ~Overlap, NEW t \in Calls, Link(t), TypeOK'
  PROVE  IInv'
<1>0. PICK l \in Lists, m \in Lists :
        /\ l = From(t) /\ m = To(t) /\ l # m /\ \A k \in Lists : k = l \/ k = m
        /\ \A u \in Calls : (From(u) = m /\ To(u) = l) \/ (From(u) = l /\ To(u) = m)
  BY Roles
<1>s. PICK s \in Seq(Nodes) : s = contents[m]
  BY <1>0, Places DEF IInv
<1>1. /\ call[t].at = "link" /\ Len(s) \in Nat /\ Len(s) >= 2
      /\ call[t].node = s[Len(s)] /\ call[t].tail = s[Len(s) - 1]
      /\ next[call[t].tail] = NULL
  BY <1>0, <1>s DEF Link, IInv, Known, PutInv
<1>2. /\ \A i \in 1 .. Len(s) : s[i] \in Nodes /\ s[i] # NULL /\ s[i] \in ToSet(contents[m])
      /\ \A i, j \in 1 .. Len(s) : s[i] = s[j] => i = j
  BY <1>s, Places DEF IInv
<1>3. Len(s) \in 1 .. Len(s) /\ Len(s) - 1 \in 1 .. Len(s) /\ Len(s) # Len(s) - 1
      /\ 1 \in 1 .. Len(s) /\ 2 \in 1 .. Len(s)
  BY <1>1
<1>n. PICK n \in Nodes : n = call[t].tail /\ n = s[Len(s) - 1] /\ n \in ToSet(contents[m])
  BY <1>1, <1>2, <1>3
<1>4. /\ call' \in [Calls -> Locals] /\ call'[t].at = "return"
      /\ \A u \in Calls : u # t => call'[u] = call[u]
  BY Going DEF Link, IInv, Steps
<1>5. /\ next' \in [Nodes -> Nodes \cup {NULL}] /\ next'[n] = s[Len(s)]
      /\ \A k \in Nodes : k # n => next'[k] = next[k]
      /\ UNCHANGED <<head, tail, ele, contents, nodeCount>>
  BY <1>1, <1>2, <1>3, <1>n DEF Link, IInv, TypeOK
<1>6. OwnedOnce'
  <2>1. Holding' = Holding /\ \A u \in Holding : call'[u].node = call[u].node
    BY <1>1, <1>4 DEF Holding
  <2> QED
    BY <1>5, <2>1, SameOwners DEF IInv
<1>7. Intact(m)'
  <2>1. /\ s # <<>> /\ head[m] = s[1] /\ tail[m] = s[Len(s)] /\ next[s[Len(s)]] = NULL
        /\ \A i \in 1 .. Len(s) - 1 :
             \/ next[s[i]] = s[i + 1]
             \/ next[s[i]] = NULL /\ LinkPending(s[i])
    BY <1>s, <1>1 DEF IInv, Unbroken, Intact
  <2>2. next'[s[Len(s)]] = NULL
    BY <1>2, <1>3, <1>5, <1>n, <2>1
  <2>3. \A i \in 1 .. Len(s) - 1 :
          \/ next'[s[i]] = s[i + 1]
          \/ next'[s[i]] = NULL /\ LinkPending(s[i])'
    <3> TAKE i \in 1 .. Len(s) - 1
    <3>1. CASE i = Len(s) - 1
      BY <1>1, <1>5, <1>n, <3>1
    <3>2. CASE i # Len(s) - 1
      <4>1. i \in 1 .. Len(s)
        BY <1>1
      <4>2. s[i] # n
        BY <1>2, <1>3, <1>n, <3>2, <4>1
      <4>3. next'[s[i]] = next[s[i]]
        BY <1>2, <1>5, <4>1, <4>2
      <4>4. LinkPending(s[i]) => LinkPending(s[i])'
        BY <1>4, <1>n, <4>2 DEF LinkPending
      <4> QED
        BY <2>1, <4>3, <4>4
    <3> QED
      BY <3>1, <3>2
  <2> QED
    BY <1>s, <1>5, <2>1, <2>2, <2>3 DEF Intact
<1>8. \A k \in ToSet(contents[l]) : k \in Nodes /\ k # n /\ next'[k] = next[k]
  <2>1. \A k \in ToSet(contents[l]) : k \in Nodes
    BY DEF IInv, TypeOK, ToSet
  <2>2. n \notin ToSet(contents[l])
    BY <1>0, <1>n, Apart DEF IInv
  <2> QED
    BY <1>5, <2>1, <2>2
<1>9. Intact(l)'
  BY <1>0, <1>1, <1>n, <1>4, <1>5, <1>8, StillIntact DEF IInv, Unbroken
<1>10. TakeInv(t)' /\ PutInv(t)'
  BY <1>4 DEF TakeInv, PutInv
<1>11. ASSUME NEW u \in Calls, u # t PROVE TakeInv(u)' /\ PutInv(u)'
  <2>0. CASE From(u) = l /\ To(u) = m
    BY <1>0, <1>1, <1>n, <1>4, <1>5, <1>11, <2>0, OtherPuts DEF Putting
  <2> SUFFICES ASSUME From(u) = m /\ To(u) = l PROVE TakeInv(u)' /\ PutInv(u)'
    BY <1>0, <2>0
  <2>1. From(u) = m /\ To(u) = l /\ From(u)' = m /\ To(u)' = l /\ call'[u] = call[u]
    BY <1>0, <1>4, <1>11 DEF From, To
  <2>2. call[u].at = "cashead" => call[u].head \in Nodes /\ call[u].head # n
    <3>1. call[u].at = "cashead" => call[u].head = s[1] /\ next[call[u].head] = s[2]
      BY <1>s, <2>1 DEF IInv, Known, TakeInv
    <3> QED
      BY <1>1, <1>2, <1>3, <1>n, <3>1
  <2>3. TakeInv(u)'
    BY <1>5, <2>1, <2>2 DEF IInv, Known, TakeInv
  <2>4. call[u].at \in {"readend", "casempty", "settail", "casend"}
          => call[u].node \in Nodes /\ call[u].node # n
    BY <1>n, Held DEF IInv, Holding
  <2>5. call[u].at = "link" => call[u].tail \in Nodes /\ call[u].tail # n
    <3>1. ASSUME call[u].at = "link" PROVE call[u].tail \in ToSet(contents[l])
      <4>1. Len(contents[l]) >= 2 /\ call[u].tail = contents[l][Len(contents[l]) - 1]
        BY <2>1, <3>1 DEF IInv, Known, PutInv
      <4>2. Len(contents[l]) - 1 \in 1 .. Len(contents[l])
        BY <4>1, Places DEF IInv
      <4> QED
        BY <4>1, <4>2, Places DEF IInv
    <3> QED
      BY <1>8, <3>1
  <2>6. PutInv(u)'
    BY <1>5, <2>1, <2>4, <2>5 DEF IInv, Known, PutInv
  <2> QED
    BY <2>3, <2>6
<1>12. NoCrash'
  BY <1>4 DEF IInv, Unbroken, NoCrash
<1> QED
  BY <1>0, <1>6, <1>7, <1>9, <1>10, <1>11, <1>12 DEF IInv, Unbroken, Known

----------------------------------------------------------------------------
(* The invariant                                                           *)

\* The invariant holds of two empty lists.
LEMMA InitInv ==
  ASSUME Init
  PROVE  IInv
<1>1. TypeOK
  <2>1. 0 \in 0 .. MaxNodes
    BY NodeAssumption
  <2>2. overlapped \in BOOLEAN
    BY DEF Init
  <2> QED
    BY <2>1, <2>2, Idling DEF Init, TypeOK
<1>2. \A t \in Calls : call[t].at = "idle"
  BY Idling DEF Init
<1>3. OwnedOnce
  <2>1. Holding = {} /\ \A l \in Lists : ToSet(contents[l]) = {} /\ IsInjective(contents[l])
    BY <1>2 DEF Init, Holding, ToSet, IsInjective
  <2>2. 1 .. nodeCount = {}
    BY DEF Init
  <2> QED
    BY <2>1, <2>2 DEF OwnedOnce, Lists
<1>4. Unbroken
  BY <1>2 DEF Init, Unbroken, NoCrash, Intact
<1>5. Known
  BY <1>2 DEF Known, TakeInv, PutInv
<1> QED
  BY <1>1, <1>3, <1>4, <1>5 DEF IInv

\* Every access of a call keeps it,
LEMMA AccessStep ==
  ASSUME IInv, ~Overlap, NEW t \in Calls, Access(t), TypeOK'
  PROVE  IInv'
<1>1. CASE ReadTail(t)
  BY <1>1, ReadTailStep
<1>2. CASE ReadHead(t)
  BY <1>2, ReadHeadStep
<1>3. CASE CasTail(t)
  BY <1>3, TakeOnly, TakeAgain DEF CasTail
<1>4. CASE ClearHead(t)
  BY <1>4, ClearHeadStep
<1>5. CASE ReadNext(t)
  BY <1>5, ReadNextStep
<1>6. CASE CasHead(t)
  BY <1>6, TakeFirst, TakeAgain DEF CasHead
<1>7. CASE NewNode(t)
  BY <1>7, NewNodeStep
<1>8. CASE Reset(t)
  BY <1>8, ResetStep
<1>9. CASE ReadEnd(t)
  BY <1>9, ReadEndStep
<1>10. CASE CasEmpty(t)
  BY <1>10, PutHead, PutAgain DEF CasEmpty
<1>11. CASE SetTail(t)
  BY <1>11, SetTailStep
<1>12. CASE CasEnd(t)
  BY <1>12, PutLast, PutAgain DEF CasEnd
<1>13. CASE Link(t)
  BY <1>13, LinkStep
<1>14. CASE Return(t)
  BY <1>14, ReturnStep
<1> QED
  BY <1>1, <1>2, <1>3, <1>4, <1>5, <1>6, <1>7, <1>8, <1>9, <1>10, <1>11, <1>12, <1>13, <1>14 DEF Access

\* and so does every step.
LEMMA NextInv ==
  ASSUME IInv, ~Overlap, [Next]_vars, TypeOK'
  PROVE  IInv'
<1>1. CASE Next
  BY <1>1, CallPushStep, CallPopStep, AccessStep DEF Next
<1>2. CASE UNCHANGED vars
  <2>1. NoCrash'
    BY <1>2 DEF vars, IInv, Unbroken, NoCrash
  <2>2. OwnedOnce'
    BY <1>2, SameOwners DEF vars, IInv, Holding
  <2>3. \A l \in Lists : Intact(l)'
    BY <1>2, StillIntact DEF vars, IInv, Unbroken
  <2>4. Known'
    BY <1>2 DEF vars, IInv, Known, TakeInv, PutInv, From, To
  <2> QED
    BY <2>1, <2>2, <2>3, <2>4 DEF IInv, Unbroken
<1> QED
  BY <1>1, <1>2

\* A call that begins overlaps with none, and what an access makes overlap is seen.
LEMMA Watched ==
  ASSUME TypeOK, overlapped \/ ~Overlap, [Next]_vars
  PROVE  (overlapped => overlapped') /\ (overlapped' \/ ~Overlap')
<1>1. ASSUME NEW t \in Calls, Access(t)
      PROVE  (overlapped => overlapped') /\ (overlapped' \/ ~Overlap')
  BY <1>1 DEF Access, TypeOK
<1>2. ASSUME NEW t \in Calls, call'[t].at = "readtail", overlapped' = overlapped,
             \A u \in Calls : u # t => call'[u] = call[u]
      PROVE  (overlapped => overlapped') /\ (overlapped' \/ ~Overlap')
  <2>1. ASSUME NEW u \in Calls
        PROVE  /\ Taking(u)' => Taking(u)
               /\ Putting(u)' => Putting(u)
               /\ From(u)' = From(u) /\ To(u)' = To(u)
    BY <1>2 DEF Taking, Putting, From, To
  <2>2. ASSUME Overlap' PROVE Overlap
    <3>1. PICK s \in Calls, u \in Calls :
            /\ s # u
            /\ \/ Taking(s)' /\ Taking(u)' /\ From(s)' = From(u)'
               \/ Putting(s)' /\ Putting(u)' /\ To(s)' = To(u)'
      BY <2>2 DEF Overlap
    <3>2. \/ Taking(s) /\ Taking(u) /\ From(s) = From(u)
          \/ Putting(s) /\ Putting(u) /\ To(s) = To(u)
      BY <2>1, <3>1
    <3> QED
      BY <3>1, <3>2 DEF Overlap
  <2> QED
    BY <1>2, <2>2
<1>3. ASSUME NEW t \in Pushers, NEW e \in Elements, CallPush(t, e)
      PROVE  (overlapped => overlapped') /\ (overlapped' \/ ~Overlap')
  <2> DEFINE c == [Idle EXCEPT !.at = "readtail", !.ele = e]
  <2>1. t \in Calls /\ c \in Locals /\ c.at = "readtail" /\ Becomes(t, c)
    BY <1>3 DEF CallPush, Idle, Locals, Steps, Calls
  <2> HIDE DEF c
  <2>2. call'[t] = c /\ \A u \in Calls : u # t => call'[u] = call[u]
    BY <2>1, Becoming
  <2> QED
    BY <1>2, <1>3, <2>1, <2>2 DEF CallPush
<1>4. ASSUME NEW t \in Poppers, CallPop(t)
      PROVE  (overlapped => overlapped') /\ (overlapped' \/ ~Overlap')
  <2>1. t \in Calls /\ "readtail" \in Steps /\ GoTo(t, "readtail")
    BY <1>4 DEF CallPop, Steps, Calls
  <2>2. call'[t].at = "readtail" /\ \A u \in Calls : u # t => call'[u] = call[u]
    BY <2>1, Going
  <2> QED
    BY <1>2, <1>4, <2>1, <2>2 DEF CallPop
<1>5. CASE UNCHANGED vars
  BY <1>5 DEF vars, Overlap, Taking, Putting, From, To
<1> QED
  BY <1>1, <1>3, <1>4, <1>5 DEF Next

\* The whole invariant: the types, and until calls overlap what each of them knows.
Inv == Types /\ (overlapped \/ (~Overlap /\ IInv))

LEMMA InvStep ==
  ASSUME Inv, [Next]_vars
  PROVE  Inv' /\ (overlapped => overlapped')
<1>1. Types' /\ TypeOK /\ TypeOK'
  BY NextTypes DEF Inv, Types
<1>2. (overlapped => overlapped') /\ (overlapped' \/ ~Overlap')
  BY <1>1, Watched DEF Inv
<1>3. overlapped' \/ IInv'
  BY <1>1, <1>2, NextInv DEF Inv
<1> QED
  BY <1>1, <1>2, <1>3 DEF Inv

LEMMA InvInit ==
  ASSUME Init
  PROVE  Inv /\ ~overlapped
<1>1. \A t \in Calls : call[t].at = "idle"
  BY Idling DEF Init
<1>2. ~Overlap /\ \A t \in Calls : Fit(call[t])
  BY <1>1 DEF Overlap, Taking, Putting, Fit
<1> QED
  BY <1>2, InitInv DEF Init, Inv, Types, IInv

THEOREM Invariance ==
  Spec => []Inv
<1>1. Init => Inv
  BY InvInit
<1>2. Inv /\ [Next]_vars => Inv'
  BY InvStep
<1> QED
  BY <1>1, <1>2, PTL DEF Spec

\* The type of every variable, whatever the calls do: where a call uses a node, it
\* has one, but for the NULL pointer on which it crashes.
THEOREM TypeCorrect ==
  Spec => []TypeOK
<1>1. Inv => TypeOK
  BY DEF Inv, Types
<1> QED
  BY <1>1, Invariance, PTL

\* As long as no two calls take from one list at a time and no two put in one,
\* every node is in one list or in the hands of one call.
THEOREM NodesOwned ==
  Spec => []NodeOwnership
<1>1. Inv => NodeOwnership
  BY DEF Inv, IInv, NodeOwnership
<1> QED
  BY <1>1, Invariance, PTL

\* As long as no two calls take from one list at a time and no two put in one, the
\* pointers of both lists lead from the first node to the last one, and no call
\* uses a NULL pointer.
THEOREM ListsIntact ==
  Spec => []ListIntact
<1>1. Inv => ListIntact
  BY DEF Inv, IInv, ListIntact
<1> QED
  BY <1>1, Invariance, PTL

----------------------------------------------------------------------------
(* The list is a first-in first-out queue                                  *)

\* What the refinement knows of every call besides: only a push makes a node, a
\* pop has no element before it has taken a node, and a push has stored its
\* element in the node that it puts in the list.
Carried ==
  \A t \in Calls :
    /\ call[t].at = "newnode" => t \in Pushers
    /\ t \in Poppers /\ call[t].at \in {"readtail", "readhead", "castail", "readnext", "cashead"}
         => call[t].ele = NoElement
    /\ t \in Pushers /\ call[t].at \in {"readend", "casempty", "settail", "casend"}
         => ele[call[t].node] = call[t].ele

\* The queue and the calls of FifoQueue.
AbsQueue == [i \in 1 .. Len(contents["list"]) |-> ele[contents["list"][i]]]
AbsOp    == [t \in Calls |-> [phase |-> Phase(t), ele |-> Result(t)]]

\* The calls that take no step look the same.
LEMMA OtherCalls ==
  ASSUME TypeOK, OwnedOnce, NEW t \in Calls, \A u \in Calls : u # t => call'[u] = call[u],
         \/ ele' = ele
         \/ t \in Holding /\ \A n \in Nodes : n # call[t].node => ele'[n] = ele[n]
  PROVE  /\ \A u \in Calls : u # t => Phase(u)' = Phase(u) /\ Result(u)' = Result(u)
         /\ AbsOp' = [AbsOp EXCEPT ![t] = [phase |-> Phase(t)', ele |-> Result(t)']]
<1>1. ASSUME NEW u \in Calls, u # t PROVE Phase(u)' = Phase(u)
  BY <1>1 DEF Phase, Done, PushDone, PopDone
<1>2. ASSUME NEW u \in Calls, u # t PROVE Result(u)' = Result(u)
  <2>1. CASE call[u].at # "clearhead"
    BY <1>2, <2>1 DEF Result
  <2>2. CASE call[u].at = "clearhead"
    <3>1. u \in Holding
      BY <2>2 DEF Holding
    <3>2. call[u].node \in Nodes /\ (t \in Holding => call[t].node # call[u].node)
      BY <1>2, <3>1, Held DEF OwnedOnce
    <3>3. ele'[call[u].node] = ele[call[u].node]
      BY <3>2
    <3> QED
      BY <1>2, <2>2, <3>3 DEF Result, Taken
  <2> QED
    BY <2>1, <2>2
<1> QED
  BY <1>1, <1>2 DEF AbsOp

\* The queue is the same when its nodes and their elements are.
LEMMA SameQueue ==
  ASSUME TypeOK, OwnedOnce, contents'["list"] = contents["list"],
         \A n \in ToSet(contents["list"]) : ele'[n] = ele[n]
  PROVE  AbsQueue' = AbsQueue
<1>1. \A i \in 1 .. Len(contents["list"]) : contents["list"][i] \in ToSet(contents["list"])
  BY Places DEF Lists
<1> QED
  BY <1>1 DEF AbsQueue

\* A step that neither begins nor ends anything is a stutter of the queue.
LEMMA Unseen ==
  ASSUME TypeOK, OwnedOnce, NEW t \in Calls, \A u \in Calls : u # t => call'[u] = call[u],
         ele' = ele, contents'["list"] = contents["list"],
         Phase(t)' = Phase(t), Result(t)' = Result(t)
  PROVE  UNCHANGED F!vars
<1>1. AbsQueue' = AbsQueue
  BY SameQueue
<1>2. AbsOp' = AbsOp
  BY OtherCalls DEF AbsOp
<1> QED
  BY <1>1, <1>2 DEF F!vars, AbsQueue, AbsOp

\* What a step must keep of Carried: the rest concerns the call that takes it.
LEMMA CarriedOn ==
  ASSUME TypeOK, OwnedOnce, Carried, NEW t \in Calls,
         \A u \in Calls : u # t => call'[u] = call[u],
         \/ ele' = ele
         \/ t \in Holding /\ \A n \in Nodes : n # call[t].node => ele'[n] = ele[n],
         call'[t].at = "newnode" => t \in Pushers,
         t \in Poppers /\ call'[t].at \in {"readtail", "readhead", "castail", "readnext", "cashead"}
           => call'[t].ele = NoElement,
         t \in Pushers /\ call'[t].at \in {"readend", "casempty", "settail", "casend"}
           => ele'[call'[t].node] = call'[t].ele
  PROVE  Carried'
<1>1. ASSUME NEW u \in Calls, u # t, u \in Pushers,
             call[u].at \in {"readend", "casempty", "settail", "casend"}
      PROVE  ele'[call[u].node] = ele[call[u].node]
  <2>1. u \in Holding
    BY <1>1 DEF Holding
  <2> QED
    BY <1>1, <2>1, Held DEF OwnedOnce
<1> QED
  BY <1>1 DEF Carried

----------------------------------------------------------------------------
(* The steps                                                               *)

\* A call begins.
LEMMA CallPushFifo ==
  ASSUME IInv, Carried, NEW t \in Pushers, NEW e \in Elements, CallPush(t, e)
  PROVE  Carried' /\ F!CallPush(t, e)
<1> DEFINE c == [Idle EXCEPT !.at = "readtail", !.ele = e]
<1>1. t \in Calls /\ t \notin Poppers
  BY CallAssumption DEF Calls
<1>2. c \in Locals /\ c.at = "readtail" /\ c.ele = e
  BY DEF Idle, Locals, Steps
<1>3. TypeOK /\ OwnedOnce /\ call[t] = Idle /\ Becomes(t, c)
      /\ UNCHANGED <<head, tail, next, ele, nodeCount, contents>>
  BY DEF IInv, CallPush
<1> HIDE DEF c
<1>4. call'[t] = c /\ \A u \in Calls : u # t => call'[u] = call[u]
  BY <1>1, <1>2, <1>3, Becoming
<1>5. Carried'
  BY <1>1, <1>2, <1>3, <1>4, CarriedOn
<1>6. Phase(t) = "idle" /\ Result(t) = NoElement
  BY <1>1, <1>3 DEF Idle, Result, Phase
<1>7. Phase(t)' = "called" /\ Result(t)' = e
  BY <1>1, <1>2, <1>4 DEF Phase, Done, PushDone, Result
<1>8. AbsOp' = [AbsOp EXCEPT ![t] = [phase |-> "called", ele |-> e]] /\ AbsQueue' = AbsQueue
  BY <1>1, <1>3, <1>4, <1>7, OtherCalls, SameQueue
<1>9. AbsOp[t] = [phase |-> "idle", ele |-> NoElement]
  BY <1>1, <1>6 DEF AbsOp
<1> QED
  BY <1>5, <1>8, <1>9 DEF F!CallPush, F!Idle, AbsOp, AbsQueue

LEMMA CallPopFifo ==
  ASSUME IInv, Carried, NEW t \in Poppers, CallPop(t)
  PROVE  Carried' /\ F!CallPop(t)
<1>1. t \in Calls /\ t \notin Pushers
  BY CallAssumption DEF Calls
<1>2. TypeOK /\ OwnedOnce /\ call[t] = Idle /\ GoTo(t, "readtail")
      /\ UNCHANGED <<head, tail, next, ele, nodeCount, contents>>
  BY DEF IInv, CallPop
<1>3. /\ call'[t].at = "readtail" /\ call'[t].ele = NoElement
      /\ \A u \in Calls : u # t => call'[u] = call[u]
  BY <1>1, <1>2, Going DEF Steps, Idle
<1>4. Carried'
  BY <1>1, <1>2, <1>3, CarriedOn
<1>5. Phase(t) = "idle" /\ Result(t) = NoElement
  BY <1>1, <1>2 DEF Idle, Result, Phase
<1>6. Phase(t)' = "called" /\ Result(t)' = NoElement
  BY <1>1, <1>3 DEF Phase, Done, PopDone, Result
<1>7. AbsOp' = [AbsOp EXCEPT ![t] = [phase |-> "called", ele |-> NoElement]] /\ AbsQueue' = AbsQueue
  BY <1>1, <1>2, <1>3, <1>6, OtherCalls, SameQueue
<1>8. AbsOp[t] = [phase |-> "idle", ele |-> NoElement]
  BY <1>1, <1>5 DEF AbsOp
<1> QED
  BY <1>4, <1>7, <1>8 DEF F!CallPop, F!Idle, AbsOp, AbsQueue

\* A call returns.
LEMMA ReturnFifo ==
  ASSUME IInv, Carried, NEW t \in Calls, Return(t)
  PROVE  Carried' /\ F!Return(t)
<1>1. TypeOK /\ OwnedOnce /\ call[t].at = "return" /\ Becomes(t, Idle)
      /\ UNCHANGED <<head, tail, next, ele, nodeCount, contents>>
  BY DEF IInv, Return
<1>2. call'[t] = Idle /\ \A u \in Calls : u # t => call'[u] = call[u]
  BY <1>1, Becoming, Idling
<1>3. Carried'
  BY <1>1, <1>2, CarriedOn DEF Idle
<1>4. Phase(t) = "done"
  BY <1>1 DEF Calls, Phase, Done, PushDone, PopDone
<1>5. Phase(t)' = "idle" /\ Result(t)' = NoElement
  BY <1>2 DEF Idle, Result, Phase
<1>6. AbsOp' = [AbsOp EXCEPT ![t] = [phase |-> "idle", ele |-> NoElement]] /\ AbsQueue' = AbsQueue
  BY <1>1, <1>2, <1>5, OtherCalls, SameQueue
<1>7. AbsOp[t].phase = "done"
  BY <1>4 DEF AbsOp
<1> QED
  BY <1>3, <1>6, <1>7 DEF F!Return, F!Idle, AbsOp, AbsQueue

\* The local variables after a step, by their fields.
LEMMA Moved ==
  ASSUME TypeOK, NEW t \in Calls, NEW c, Becomes(t, c)
  PROVE  call'[t] = c /\ \A u \in Calls : u # t => call'[u] = call[u]
BY DEF TypeOK, Becomes

\* A call that neither takes nor puts goes from a step to another of the same
\* phase, and nothing that FifoQueue sees changes.
LEMMA QuietStep ==
  ASSUME IInv, Carried, NEW t \in Calls, \A u \in Calls : u # t => call'[u] = call[u],
         ele' = ele, contents'["list"] = contents["list"],
         Phase(t)' = Phase(t), Result(t)' = Result(t),
         call'[t].at = "newnode" => t \in Pushers,
         t \in Poppers /\ call'[t].at \in {"readtail", "readhead", "castail", "readnext", "cashead"}
           => call'[t].ele = NoElement,
         t \in Pushers /\ call'[t].at \in {"readend", "casempty", "settail", "casend"}
           => ele[call'[t].node] = call'[t].ele
  PROVE  Carried' /\ UNCHANGED F!vars
<1>1. TypeOK /\ OwnedOnce
  BY DEF IInv
<1>2. Carried'
  BY <1>1, CarriedOn
<1> QED
  BY <1>1, <1>2, Unseen

\* The same, when the call goes on with the element and the node it has.
LEMMA QuietGoing ==
  ASSUME IInv, Carried, NEW t \in Calls, \A u \in Calls : u # t => call'[u] = call[u],
         ele' = ele, contents'["list"] = contents["list"], call'[t].ele = call[t].ele,
         call[t].at \notin {"idle", "clearhead"}, call'[t].at \notin {"idle", "clearhead"},
         Done(t)' <=> Done(t),
         call'[t].at = "newnode" => t \in Pushers,
         t \in Poppers /\ call'[t].at \in {"readtail", "readhead", "castail", "readnext", "cashead"}
           => call[t].at \in {"readtail", "readhead", "castail", "readnext", "cashead"},
         t \in Pushers /\ call'[t].at \in {"readend", "casempty", "settail", "casend"}
           => /\ call[t].at \in {"readend", "casempty", "settail", "casend"}
              /\ call'[t].node = call[t].node
  PROVE  Carried' /\ UNCHANGED F!vars
<1>1. Phase(t)' = Phase(t) /\ Result(t)' = Result(t)
  BY DEF Phase, Result
<1> QED
  BY <1>1, QuietStep DEF Carried

\* A pop takes effect: its result is res, and the queue becomes q.
LEMMA PopEffect ==
  ASSUME IInv, Carried, NEW t \in Poppers, \A u \in Calls : u # t => call'[u] = call[u],
         ele' = ele, call[t].at \in {"readtail", "castail", "cashead"},
         call'[t].at \in {"readhead", "clearhead", "reset"}, Done(t)',
         call'[t].at = "readhead" => call'[t].ele = NoElement
  PROVE  /\ Carried'
         /\ AbsOp[t].phase = "called"
         /\ AbsOp' = [AbsOp EXCEPT ![t] = [phase |-> "done", ele |-> Result(t)']]
<1>1. t \in Calls /\ t \notin Pushers /\ TypeOK /\ OwnedOnce
  BY CallAssumption DEF IInv, Calls
<1>2. Carried'
  BY <1>1, CarriedOn
<1>3. Phase(t) = "called" /\ Phase(t)' = "done"
  BY <1>1 DEF Phase, Done, PopDone
<1> QED
  BY <1>1, <1>2, <1>3, OtherCalls DEF AbsOp

\* A push takes effect: its node is the new end of the list.
LEMMA PushEffect ==
  ASSUME IInv, Carried, NEW t \in Pushers, \A u \in Calls : u # t => call'[u] = call[u],
         ele' = ele, Entered("list", call[t].node), call[t].at \in {"settail", "casend"},
         call'[t].at \in {"link", "return"}, call'[t].ele = call[t].ele
  PROVE  Carried' /\ F!Push(t)
<1>1. t \in Calls /\ t \notin Poppers /\ TypeOK /\ OwnedOnce /\ t \in Holding
  BY CallAssumption DEF IInv, Calls, Holding
<1>2. Carried'
  BY <1>1, CarriedOn
<1>3. Phase(t) = "called" /\ Phase(t)' = "done"
  BY <1>1 DEF Phase, Done, PushDone
<1>4. Result(t) = call[t].ele /\ Result(t)' = call[t].ele
  BY DEF Result
<1>5. AbsOp' = [AbsOp EXCEPT ![t] = [phase |-> "done", ele |-> call[t].ele]]
  BY <1>1, <1>3, <1>4, OtherCalls
<1>6. PICK s \in Seq(Nodes) : s = contents["list"]
  BY <1>1, Places DEF Lists
<1>7. call[t].node \in Nodes /\ ele[call[t].node] = call[t].ele
  BY <1>1, Held DEF Carried
<1>8. contents'["list"] = Append(s, call[t].node)
  BY <1>1, <1>6 DEF Entered, TypeOK, Lists
<1>9. AbsQueue' = Append(AbsQueue, call[t].ele)
  <2>1. /\ Len(contents'["list"]) = Len(s) + 1
        /\ \A i \in 1 .. Len(s) : contents'["list"][i] = s[i]
        /\ contents'["list"][Len(s) + 1] = call[t].node
    BY <1>6, <1>7, <1>8
  <2>2. AbsQueue' = [i \in 1 .. Len(s) + 1 |-> ele[contents'["list"][i]]]
    BY <2>1 DEF AbsQueue
  <2>3. AbsQueue = [i \in 1 .. Len(s) |-> ele[s[i]]]
    BY <1>6 DEF AbsQueue
  <2> QED
    BY <1>6, <1>7, <2>1, <2>2, <2>3
<1>10. AbsOp[t] = [phase |-> "called", ele |-> call[t].ele]
  BY <1>1, <1>3, <1>4 DEF AbsOp
<1>11. F!Push(t) <=> /\ AbsOp[t].phase = "called"
                     /\ AbsQueue' = Append(AbsQueue, AbsOp[t].ele)
                     /\ AbsOp' = [AbsOp EXCEPT ![t] = [phase |-> "done", ele |-> AbsOp[t].ele]]
  BY DEF F!Push, AbsOp, AbsQueue
<1> QED
  BY <1>2, <1>5, <1>9, <1>10, <1>11

\* The queue without its first element.
LEMMA QueueTail ==
  ASSUME TypeOK, OwnedOnce, contents["list"] # <<>>, Left("list"), ele' = ele
  PROVE  /\ AbsQueue # <<>> /\ Head(AbsQueue) = ele[contents["list"][1]]
         /\ AbsQueue' = Tail(AbsQueue)
<1>1. PICK s \in Seq(Nodes) : s = contents["list"] /\ s # <<>>
  BY Places DEF Lists
<1>2. contents'["list"] = Tail(s)
  BY <1>1 DEF Left, TypeOK, Lists
<1>3. /\ Len(s) \in Nat \ {0} /\ Tail(s) \in Seq(Nodes) /\ Len(Tail(s)) = Len(s) - 1
      /\ \A i \in 1 .. Len(s) - 1 : Tail(s)[i] = s[i + 1]
  BY <1>1, Rest
<1>4. AbsQueue = [i \in 1 .. Len(s) |-> ele[s[i]]]
  BY <1>1 DEF AbsQueue
<1>5. AbsQueue' = [i \in 1 .. Len(s) - 1 |-> ele[Tail(s)[i]]]
  BY <1>2, <1>3 DEF AbsQueue
<1>6. AbsQueue' = [i \in 1 .. Len(s) - 1 |-> ele[s[i + 1]]]
  BY <1>3, <1>5
<1>7. Len(AbsQueue) = Len(s) /\ \A i \in 1 .. Len(s) : AbsQueue[i] = ele[s[i]]
  BY <1>3, <1>4
<1> QED
  BY <1>1, <1>3, <1>4, <1>6, <1>7

----------------------------------------------------------------------------
(* The accesses                                                            *)

\* A pop that reads a NULL tail has found the queue empty.
LEMMA ReadTailFifo ==
  ASSUME IInv, Carried, NEW t \in Calls, ReadTail(t)
  PROVE  Carried' /\ (UNCHANGED F!vars \/ (t \in Poppers /\ F!PopNothing(t)))
<1> DEFINE c == [call[t] EXCEPT !.at = "readhead", !.tail = tail[From(t)]]
<1>0. TypeOK /\ OwnedOnce
  BY DEF IInv
<1>1. call'[t] = c /\ \A u \in Calls : u # t => call'[u] = call[u]
  BY <1>0, Moved DEF ReadTail
<1>2. c.at = "readhead" /\ c.tail = tail[From(t)] /\ c.ele = call[t].ele
  BY <1>0 DEF TypeOK, Locals
<1> HIDE DEF c
<1>3. CASE t \in Poppers /\ tail["list"] = NULL
  <2>1. call[t].ele = NoElement /\ From(t) = "list"
    BY <1>3 DEF Carried, ReadTail, From
  <2>2. Done(t)'
    BY <1>1, <1>2, <1>3, <2>1, CallAssumption DEF Done, PopDone
  <2>3. /\ Carried' /\ AbsOp[t].phase = "called"
        /\ AbsOp' = [AbsOp EXCEPT ![t] = [phase |-> "done", ele |-> Result(t)']]
    BY <1>1, <1>2, <1>3, <2>1, <2>2, PopEffect DEF ReadTail
  <2>4. Result(t)' = NoElement
    BY <1>1, <1>2, <2>1 DEF Result
  <2>5. contents["list"] = <<>>
    <3>1. CASE contents["list"] # <<>>
      <4>1. Len(contents["list"]) \in 1 .. Len(contents["list"])
        BY <1>0, <3>1, Places DEF TypeOK, Lists
      <4> QED
        BY <1>0, <1>3, <3>1, <4>1, Places DEF IInv, Unbroken, Intact, Lists
    <3> QED
      BY <3>1
  <2>6. AbsQueue = <<>> /\ AbsQueue' = AbsQueue
    BY <2>5 DEF AbsQueue, ReadTail
  <2>7. F!PopNothing(t) <=> /\ AbsOp[t].phase = "called"
                            /\ AbsQueue = <<>>
                            /\ AbsOp' = [AbsOp EXCEPT ![t] = [phase |-> "done", ele |-> NoElement]]
                            /\ AbsQueue' = AbsQueue
    BY DEF F!PopNothing, AbsOp, AbsQueue
  <2> QED
    BY <1>3, <2>3, <2>4, <2>6, <2>7
<1>4. CASE ~(t \in Poppers /\ tail["list"] = NULL)
  <2>1. Done(t)' <=> Done(t)
    BY <1>1, <1>2, <1>4 DEF Done, PushDone, PopDone, ReadTail, From, Calls
  <2> QED
    BY <1>1, <1>2, <2>1, QuietGoing DEF ReadTail
<1> QED
  BY <1>3, <1>4

LEMMA ReadHeadFifo ==
  ASSUME IInv, Carried, NEW t \in Calls, ReadHead(t)
  PROVE  Carried' /\ UNCHANGED F!vars
<1>0. TypeOK
  BY DEF IInv
<1>1. CASE call[t].tail = NULL
  <2> DEFINE step == IF t \in Poppers THEN "return" ELSE "newnode"
  <2>1. step \in Steps /\ GoTo(t, step)
    BY <1>1 DEF ReadHead, Steps
  <2>2. /\ call'[t].at = step /\ call'[t].ele = call[t].ele
        /\ \A u \in Calls : u # t => call'[u] = call[u]
    BY <1>0, <2>1, Going
  <2>3. Done(t)' <=> Done(t)
    BY <1>1, <2>2, CallAssumption DEF Done, PushDone, PopDone, ReadHead, Calls
  <2> QED
    BY <2>2, <2>3, QuietGoing DEF ReadHead, Calls
<1>2. CASE call[t].tail # NULL
  <2> DEFINE h == head[From(t)]
             c == [call[t] EXCEPT !.at = IF h = call[t].tail THEN "castail" ELSE "readnext",
                                  !.head = h]
  <2>1. call'[t] = c /\ \A u \in Calls : u # t => call'[u] = call[u]
    BY <1>0, <1>2, Moved DEF ReadHead
  <2>2. c.at \in {"castail", "readnext"} /\ c.ele = call[t].ele
    BY <1>0 DEF TypeOK, Locals
  <2> HIDE DEF c
  <2>3. Done(t)' <=> Done(t)
    BY <1>2, <2>1, <2>2 DEF Done, PushDone, PopDone, ReadHead
  <2> QED
    BY <2>1, <2>2, <2>3, QuietGoing DEF ReadHead
<1> QED
  BY <1>1, <1>2

\* A call that begins again, or goes on, with only its step changed.
LEMMA GoingFifo ==
  ASSUME IInv, Carried, NEW t \in Calls, NEW step \in Steps, GoTo(t, step), ele' = ele,
         contents' = contents,
         \/ call[t].at \in {"castail", "readnext", "cashead"} /\ step = "readtail"
         \/ call[t].at \in {"casempty", "casend"} /\ step = "readend"
         \/ call[t].at = "casempty" /\ step = "settail"
         \/ call[t].at = "link" /\ step = "return"
  PROVE  Carried' /\ UNCHANGED F!vars
<1>1. /\ call'[t].at = step /\ call'[t].ele = call[t].ele /\ call'[t].node = call[t].node
      /\ \A u \in Calls : u # t => call'[u] = call[u]
  BY Going DEF IInv
<1>2. Done(t)' <=> Done(t)
  BY <1>1 DEF Done, PushDone, PopDone
<1> QED
  BY <1>1, <1>2, QuietGoing

\* The step that takes the only node takes the element as well.
LEMMA CasTailFifo ==
  ASSUME IInv, Carried, NEW t \in Calls, CasTail(t)
  PROVE  Carried' /\ (UNCHANGED F!vars \/ (t \in Poppers /\ F!Pop(t)))
<1> DEFINE l == From(t)
           c == [call[t] EXCEPT !.at = "clearhead", !.node = call[t].tail]
<1>0. TypeOK /\ OwnedOnce /\ l \in Lists
  BY Roles DEF IInv
<1>1. CASE ~SameTail(l, call[t].tail)
  BY <1>1, GoingFifo DEF CasTail, Steps
<1>2. CASE SameTail(l, call[t].tail)
  <2>1. call'[t] = c /\ \A u \in Calls : u # t => call'[u] = call[u]
    BY <1>0, <1>2, Moved DEF CasTail
  <2>2. c.at = "clearhead" /\ c.node = call[t].tail /\ c.ele = call[t].ele
    BY <1>0 DEF TypeOK, Locals
  <2> HIDE DEF c
  <2>3. contents[l] # <<>> /\ call[t].tail = contents[l][1] /\ Left(l)
    BY <1>2 DEF CasTail, IInv, Known, TakeInv
  <2>4. CASE t \in Poppers
    <3>1. l = "list"
      BY <2>4 DEF From
    <3>2. Done(t)'
      BY <2>1, <2>2, <2>4, CallAssumption DEF Done, PopDone
    <3>3. /\ Carried' /\ AbsOp[t].phase = "called"
          /\ AbsOp' = [AbsOp EXCEPT ![t] = [phase |-> "done", ele |-> Result(t)']]
      BY <2>1, <2>2, <2>4, <3>2, PopEffect DEF CasTail
    <3>4. Result(t)' = ele[contents["list"][1]]
      BY <2>1, <2>2, <2>3, <2>4, <3>1 DEF Result, Taken, CasTail
    <3>5. /\ AbsQueue # <<>> /\ Head(AbsQueue) = ele[contents["list"][1]]
          /\ AbsQueue' = Tail(AbsQueue)
      BY <1>0, <2>3, <3>1, QueueTail DEF CasTail
    <3>6. F!Pop(t) <=> /\ AbsOp[t].phase = "called"
                       /\ AbsQueue # <<>>
                       /\ AbsQueue' = Tail(AbsQueue)
                       /\ AbsOp' = [AbsOp EXCEPT ![t] = [phase |-> "done", ele |-> Head(AbsQueue)]]
      BY DEF F!Pop, AbsOp, AbsQueue
    <3> QED
      BY <2>4, <3>3, <3>4, <3>5, <3>6
  <2>5. CASE t \notin Poppers
    <3>1. t \in Pushers /\ contents'["list"] = contents["list"]
      BY <1>0, <2>3, <2>5 DEF Calls, From, Left, TypeOK, Lists
    <3>2. Phase(t)' = Phase(t) /\ Result(t)' = Result(t)
      BY <2>1, <2>2, <2>5, <3>1 DEF Phase, Done, PushDone, Result, Taken, CasTail
    <3> QED
      BY <2>1, <2>2, <2>5, <3>1, <3>2, QuietStep DEF CasTail
  <2> QED
    BY <2>4, <2>5
<1> QED
  BY <1>1, <1>2

\* The step that takes the first of several nodes.
LEMMA CasHeadFifo ==
  ASSUME IInv, Carried, NEW t \in Calls, CasHead(t)
  PROVE  Carried' /\ (UNCHANGED F!vars \/ (t \in Poppers /\ F!Pop(t)))
<1> DEFINE l == From(t)
           c == [call[t] EXCEPT !.at = "reset", !.node = call[t].head,
                                !.ele = Taken(t, call[t].head)]
<1>0. TypeOK /\ OwnedOnce /\ l \in Lists
  BY Roles DEF IInv
<1>1. CASE head[l] # call[t].head
  BY <1>1, GoingFifo DEF CasHead, Steps
<1>2. CASE head[l] = call[t].head
  <2>1. call'[t] = c /\ \A u \in Calls : u # t => call'[u] = call[u]
    BY <1>0, <1>2, Moved DEF CasHead
  <2>2. c.at = "reset" /\ c.node = call[t].head /\ c.ele = Taken(t, call[t].head)
    BY <1>0 DEF TypeOK, Locals
  <2> HIDE DEF c
  <2>3. call[t].head = contents[l][1] /\ contents[l] # <<>> /\ Left(l)
    BY <1>0, <1>2 DEF CasHead, IInv, Known, TakeInv, TypeOK
  <2>4. CASE t \in Poppers
    <3>1. l = "list"
      BY <2>4 DEF From
    <3>2. Done(t)'
      BY <2>1, <2>2, <2>4, CallAssumption DEF Done, PopDone
    <3>3. /\ Carried' /\ AbsOp[t].phase = "called"
          /\ AbsOp' = [AbsOp EXCEPT ![t] = [phase |-> "done", ele |-> Result(t)']]
      BY <2>1, <2>2, <2>4, <3>2, PopEffect DEF CasHead
    <3>4. Result(t)' = ele[contents["list"][1]]
      BY <2>1, <2>2, <2>3, <2>4, <3>1 DEF Result, Taken
    <3>5. /\ AbsQueue # <<>> /\ Head(AbsQueue) = ele[contents["list"][1]]
          /\ AbsQueue' = Tail(AbsQueue)
      BY <1>0, <2>3, <3>1, QueueTail DEF CasHead
    <3>6. F!Pop(t) <=> /\ AbsOp[t].phase = "called"
                       /\ AbsQueue # <<>>
                       /\ AbsQueue' = Tail(AbsQueue)
                       /\ AbsOp' = [AbsOp EXCEPT ![t] = [phase |-> "done", ele |-> Head(AbsQueue)]]
      BY DEF F!Pop, AbsOp, AbsQueue
    <3> QED
      BY <2>4, <3>3, <3>4, <3>5, <3>6
  <2>5. CASE t \notin Poppers
    <3>1. t \in Pushers /\ contents'["list"] = contents["list"]
      BY <1>0, <2>3, <2>5 DEF Calls, From, Left, TypeOK, Lists
    <3>2. Phase(t)' = Phase(t) /\ Result(t)' = Result(t)
      BY <2>1, <2>2, <2>5, <3>1 DEF Phase, Done, PushDone, Result, Taken, CasHead
    <3> QED
      BY <2>1, <2>2, <2>5, <3>1, <3>2, QuietStep DEF CasHead
  <2> QED
    BY <2>4, <2>5
<1> QED
  BY <1>1, <1>2

\* A pop that has the only node reads its element: no other call has the node.
LEMMA ClearHeadFifo ==
  ASSUME IInv, Carried, NEW t \in Calls, ClearHead(t)
  PROVE  Carried' /\ UNCHANGED F!vars
<1> DEFINE c == [call[t] EXCEPT !.at = "reset", !.ele = Taken(t, call[t].node)]
<1>0. TypeOK
  BY DEF IInv
<1>1. call'[t] = c /\ \A u \in Calls : u # t => call'[u] = call[u]
  BY <1>0, Moved DEF ClearHead
<1>2. c.at = "reset" /\ c.ele = Taken(t, call[t].node)
  BY <1>0 DEF TypeOK, Locals
<1> HIDE DEF c
<1>3. Phase(t)' = Phase(t) /\ Result(t)' = Result(t)
  BY <1>1, <1>2 DEF Phase, Done, PushDone, PopDone, Result, ClearHead, Calls
<1> QED
  BY <1>1, <1>2, <1>3, QuietStep DEF ClearHead

LEMMA ReadNextFifo ==
  ASSUME IInv, Carried, NEW t \in Calls, ReadNext(t)
  PROVE  Carried' /\ UNCHANGED F!vars
<1> DEFINE n == next[call[t].head]
           c == [call[t] EXCEPT !.at = IF n = NULL THEN "readtail" ELSE "cashead", !.next = n]
<1>0. TypeOK /\ OwnedOnce /\ From(t) \in Lists
  BY Roles DEF IInv
<1>1. call[t].head # NULL
  <2>1. contents[From(t)] # <<>> /\ call[t].head = contents[From(t)][1]
    BY DEF ReadNext, IInv, Known, TakeInv
  <2>2. 1 \in 1 .. Len(contents[From(t)])
    BY <1>0, <2>1 DEF TypeOK
  <2> QED
    BY <1>0, <2>1, <2>2, Places
<1>2. call'[t] = c /\ \A u \in Calls : u # t => call'[u] = call[u]
  BY <1>0, <1>1, Moved DEF ReadNext
<1>3. c.at \in {"readtail", "cashead"} /\ c.ele = call[t].ele
  BY <1>0 DEF TypeOK, Locals
<1> HIDE DEF c
<1>4. Done(t)' <=> Done(t)
  BY <1>2, <1>3 DEF Done, PushDone, PopDone, ReadNext
<1> QED
  BY <1>2, <1>3, <1>4, QuietGoing DEF ReadNext

\* Only a push makes a node.
LEMMA NewNodeFifo ==
  ASSUME IInv, Carried, NEW t \in Calls, NewNode(t)
  PROVE  Carried' /\ UNCHANGED F!vars
<1> DEFINE c == [call[t] EXCEPT !.at = "reset", !.node = nodeCount + 1]
<1>0. TypeOK /\ t \in Pushers
  BY DEF IInv, Carried, NewNode
<1>1. call'[t] = c /\ \A u \in Calls : u # t => call'[u] = call[u]
  BY <1>0, Moved DEF NewNode
<1>2. c.at = "reset" /\ c.ele = call[t].ele
  BY <1>0 DEF TypeOK, Locals
<1> HIDE DEF c
<1>3. Done(t)' <=> Done(t)
  BY <1>0, <1>1, <1>2 DEF Done, PushDone, NewNode
<1> QED
  BY <1>0, <1>1, <1>2, <1>3, QuietGoing DEF NewNode

\* A push stores its element in its own node, which is not in the list.
LEMMA ResetFifo ==
  ASSUME IInv, Carried, NEW t \in Calls, Reset(t)
  PROVE  Carried' /\ UNCHANGED F!vars
<1> DEFINE n == call[t].node
<1>0. TypeOK /\ OwnedOnce /\ t \in Holding
  BY DEF IInv, Reset, Holding
<1>1. n \in Nodes /\ \A l \in Lists : n \notin ToSet(contents[l])
  BY <1>0, Held
<1>2. /\ call'[t].at = "readend" /\ call'[t].ele = call[t].ele /\ call'[t].node = n
      /\ \A u \in Calls : u # t => call'[u] = call[u]
  BY <1>0, Going DEF Reset, Steps
<1>3. \A m \in Nodes : m # n => ele'[m] = ele[m]
  BY <1>0 DEF Reset, TypeOK
<1>4. t \in Pushers => ele'[n] = call[t].ele
  BY <1>0, <1>1 DEF Reset, TypeOK
<1>5. Carried'
  BY <1>0, <1>2, <1>3, <1>4, CarriedOn
<1>6. Phase(t)' = Phase(t) /\ Result(t)' = Result(t)
  BY <1>2 DEF Phase, Done, PushDone, PopDone, Result, Reset, Calls
<1>7. AbsOp' = AbsOp
  BY <1>0, <1>2, <1>3, <1>6, OtherCalls DEF AbsOp
<1>8. AbsQueue' = AbsQueue
  <2>1. ToSet(contents["list"]) \subseteq Nodes
    BY <1>0 DEF TypeOK, ToSet, Lists
  <2> QED
    BY <1>0, <1>1, <1>3, <2>1, SameQueue DEF Reset, Lists
<1> QED
  BY <1>5, <1>7, <1>8 DEF F!vars, AbsOp, AbsQueue

LEMMA ReadEndFifo ==
  ASSUME IInv, Carried, NEW t \in Calls, ReadEnd(t)
  PROVE  Carried' /\ UNCHANGED F!vars
<1> DEFINE c == [call[t] EXCEPT !.at = IF tail[To(t)] = NULL THEN "casempty" ELSE "casend",
                                !.tail = tail[To(t)]]
<1>0. TypeOK
  BY DEF IInv
<1>1. call'[t] = c /\ \A u \in Calls : u # t => call'[u] = call[u]
  BY <1>0, Moved DEF ReadEnd
<1>2. c.at \in {"casempty", "casend"} /\ c.ele = call[t].ele /\ c.node = call[t].node
  BY <1>0 DEF TypeOK, Locals
<1> HIDE DEF c
<1>3. Done(t)' <=> Done(t)
  BY <1>1, <1>2 DEF Done, PushDone, PopDone, ReadEnd
<1> QED
  BY <1>1, <1>2, <1>3, QuietGoing DEF ReadEnd

\* The step that puts a node in the empty list, or at its end, is the push; a
\* pop only gives its node back.
LEMMA EnterFifo ==
  ASSUME IInv, Carried, NEW t \in Calls, NEW step \in {"link", "return"},
         call[t].at \in {"settail", "casend"}, GoTo(t, step), ele' = ele,
         Entered(To(t), call[t].node)
  PROVE  Carried' /\ (UNCHANGED F!vars \/ (t \in Pushers /\ F!Push(t)))
<1>0. TypeOK
  BY DEF IInv
<1>1. /\ call'[t].at = step /\ call'[t].ele = call[t].ele
      /\ \A u \in Calls : u # t => call'[u] = call[u]
  BY <1>0, Going DEF Steps
<1>2. CASE t \in Pushers
  <2>1. To(t) = "list"
    BY <1>2, CallAssumption DEF To
  <2> QED
    BY <1>1, <1>2, <2>1, PushEffect
<1>3. CASE t \notin Pushers
  <2>1. t \in Poppers /\ contents'["list"] = contents["list"]
    BY <1>0, <1>3 DEF Calls, To, Entered, TypeOK, Lists
  <2>2. Done(t)' <=> Done(t)
    BY <1>1, <1>3 DEF Done, PopDone
  <2> QED
    BY <1>1, <1>3, <2>1, <2>2, QuietGoing
<1> QED
  BY <1>2, <1>3

LEMMA CasEmptyFifo ==
  ASSUME IInv, Carried, NEW t \in Calls, CasEmpty(t)
  PROVE  Carried' /\ UNCHANGED F!vars
BY GoingFifo DEF CasEmpty, Steps

LEMMA SetTailFifo ==
  ASSUME IInv, Carried, NEW t \in Calls, SetTail(t)
  PROVE  Carried' /\ (UNCHANGED F!vars \/ (t \in Pushers /\ F!Push(t)))
BY EnterFifo DEF SetTail

LEMMA CasEndFifo ==
  ASSUME IInv, Carried, NEW t \in Calls, CasEnd(t)
  PROVE  Carried' /\ (UNCHANGED F!vars \/ (t \in Pushers /\ F!Push(t)))
BY EnterFifo, GoingFifo DEF CasEnd, Steps

LEMMA LinkFifo ==
  ASSUME IInv, Carried, NEW t \in Calls, Link(t)
  PROVE  Carried' /\ UNCHANGED F!vars
BY GoingFifo DEF Link, Steps

\* Every step of a call is one of the queue, or none.
LEMMA NextFifo ==
  ASSUME IInv, Carried, [Next]_vars
  PROVE  Carried' /\ [F!Next]_(F!vars)
<1>1. CASE UNCHANGED vars
  <2>1. Carried'
    BY <1>1 DEF vars, Carried
  <2>2. UNCHANGED F!vars
    BY <1>1 DEF vars, F!vars, Phase, Done, PushDone, PopDone, Result, Taken
  <2> QED
    BY <2>1, <2>2
<1>2. ASSUME NEW t \in Pushers, NEW e \in Elements, CallPush(t, e) PROVE Carried' /\ F!Next
  BY <1>2, CallPushFifo DEF F!Next
<1>3. ASSUME NEW t \in Poppers, CallPop(t) PROVE Carried' /\ F!Next
  BY <1>3, CallPopFifo DEF F!Next
<1>4. ASSUME NEW t \in Calls, Access(t) PROVE Carried' /\ [F!Next]_(F!vars)
  <2>1. CASE ReadTail(t) \/ CasTail(t) \/ CasHead(t)
    <3>1. Carried' /\ (UNCHANGED F!vars \/ (t \in Poppers /\ (F!Pop(t) \/ F!PopNothing(t))))
      BY <2>1, ReadTailFifo, CasTailFifo, CasHeadFifo
    <3> QED
      BY <3>1 DEF F!Next
  <2>2. CASE SetTail(t) \/ CasEnd(t)
    <3>1. Carried' /\ (UNCHANGED F!vars \/ (t \in Pushers /\ F!Push(t)))
      BY <2>2, SetTailFifo, CasEndFifo
    <3> QED
      BY <3>1 DEF F!Next
  <2>3. CASE Return(t)
    <3>1. Carried' /\ F!Return(t)
      BY <2>3, ReturnFifo
    <3> QED
      BY <3>1 DEF F!Next, F!Calls, Calls
  <2>4. CASE ReadHead(t) \/ ClearHead(t) \/ ReadNext(t) \/ NewNode(t) \/ Reset(t) \/ ReadEnd(t)
             \/ CasEmpty(t) \/ Link(t)
    BY <2>4, ReadHeadFifo, ClearHeadFifo, ReadNextFifo, NewNodeFifo, ResetFifo, ReadEndFifo,
       CasEmptyFifo, LinkFifo
  <2> QED
    BY <1>4, <2>1, <2>2, <2>3, <2>4 DEF Access
<1> QED
  BY <1>1, <1>2, <1>3, <1>4 DEF Next

LEMMA InitFifo ==
  ASSUME Init
  PROVE  Carried /\ F!Init
<1>1. \A t \in Calls : call[t] = Idle
  BY DEF Init
<1>2. Carried
  BY <1>1 DEF Carried, Idle
<1>3. AbsOp = [t \in Calls |-> F!Idle]
  BY <1>1 DEF AbsOp, Phase, Result, Idle, F!Idle
<1>4. AbsQueue = <<>>
  BY DEF AbsQueue, Init, Lists
<1> QED
  BY <1>2, <1>3, <1>4 DEF F!Init, F!Calls, Calls, AbsOp, AbsQueue

\* As long as no two calls take from one list at a time and no two put in one, the
\* list is a first-in first-out queue: a push appends its element at one moment
\* between its beginning and its return, a pop takes the first element, and
\* returns NULL only if the list was empty at a moment of the call.
THEOREM QueueIsFifo ==
  Spec => IsFifo
<1> DEFINE FInv == Inv /\ (overlapped \/ Carried)
<1>1. Init => FInv /\ F!Init
  BY InvInit, InitFifo
<1>2. FInv /\ [Next]_vars => FInv' /\ [F!Next \/ overlapped']_(F!vars)
  <2> SUFFICES ASSUME FInv, [Next]_vars PROVE FInv' /\ [F!Next \/ overlapped']_(F!vars)
    OBVIOUS
  <2>1. Inv' /\ (overlapped => overlapped')
    BY InvStep
  <2>2. CASE overlapped
    BY <2>1, <2>2
  <2>3. CASE ~overlapped
    <3>1. Carried' /\ [F!Next]_(F!vars)
      BY <2>3, NextFifo DEF Inv
    <3> QED
      BY <2>1, <3>1
  <2> QED
    BY <2>2, <2>3
<1> QED
  BY <1>1, <1>2, PTL DEF Spec, IsFifo
============================================================================
