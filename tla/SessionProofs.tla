--------------------------- MODULE SessionProofs ---------------------------
(***************************************************************************)
(* The listener of the TestUdpReceiver program and the sessions that it    *)
(* accepts, for every number of threads, sockets, objects, connections and *)
(* messages.  Part by part:                                                *)
(*                                                                         *)
(* - the listener: no buffer or request is lost, and no accept socket      *)
(*   until it is handed on or closed; a listener that shows the running    *)
(*   status can be connected to;                                           *)
(* - the sessions: no buffer or request is lost, m_nAcceptNum is the       *)
(*   number of the objects in use, and an object that is given back has    *)
(*   nothing outstanding.  The last needs to know what the counters of an  *)
(*   object and the threads that work for it, one or several, say together *)
(*   from the first Read of a session on;                                  *)
(* - an RTSP session: it stays idle, no line outgrows its buffer, and the  *)
(*   requests are processed and answered in order and once.  Where lines   *)
(*   end inside a packet, what was read of a line, the packet and what is  *)
(*   to come are together the lines of the requests from some place on,    *)
(*   and the phase of the parser is the one of that place.                 *)
(***************************************************************************)
EXTENDS MCSessions, FreeListLemmas, SequenceTheorems, WellFoundedInduction, TLAPS

----------------------------------------------------------------------------
(* The listener                                                            *)

\* Where the callers are, and what the dialog's thread then knows of the listener.
LSteps ==
  /\ \A t \in Threads : pc[t] \in {"idle", "take", "post"}
  /\ pc[UI] # "idle" => status # "run"
  /\ pc[UI] \in {"associate", "take", "post", "run"} => sock \in opened
  /\ status = "run" => sock \in opened
  /\ \A s \in Sockets : s > sockets => io[s] = 0

\* Listening, which holds from the moment at which Start posted its AcceptEx.
LChain ==
  (status = "run" \/ pc[UI] = "run") /\ ~broken =>
    io[sock] > 0 \/ \E t \in Threads : pc[t] \in {"take", "post"}

LInv == TypeOK /\ LSteps /\ LChain /\ PoolsWhole /\ IsFiniteSet(Outstanding)

\* A caller goes to a step: how many are posting then.
LEMMA PostingStep ==
  ASSUME LInv, NEW t \in Callers, NEW s \in {"idle", "associate", "take", "post", "run", "stop", "close"},
         GoTo(t, s)
  PROVE  /\ Cardinality(Posting) \in Nat /\ Cardinality(Posting') \in Nat
         /\ pc[t] # "post" /\ s = "post" => Cardinality(Posting') = Cardinality(Posting) + 1
         /\ pc[t] = "post" /\ s # "post" => Cardinality(Posting') = Cardinality(Posting) - 1
         /\ (pc[t] = "post" <=> s = "post") => Cardinality(Posting') = Cardinality(Posting)
         /\ pc' \in [Callers -> {"idle", "associate", "take", "post", "run", "stop", "close"}]
         /\ pc'[t] = s /\ \A u \in Callers : u # t => pc'[u] = pc[u]
         /\ UI \in Callers /\ UI \notin Threads /\ Threads \subseteq Callers
<1>1. IsFiniteSet(Callers) /\ UI \in Callers /\ UI \notin Threads /\ Threads \subseteq Callers
  BY ListenerAssumption, FS_AddElement DEF Callers
<1>2. /\ pc' \in [Callers -> {"idle", "associate", "take", "post", "run", "stop", "close"}]
      /\ pc'[t] = s /\ \A u \in Callers : u # t => pc'[u] = pc[u]
  BY DEF GoTo, LInv, TypeOK
<1>3. PICK A : A = Posting
  OBVIOUS
<1>4. PICK B : B = Posting'
  OBVIOUS
<1>5. /\ A \in SUBSET Callers /\ B \in SUBSET Callers /\ A \ {t} = B \ {t}
      /\ t \in A <=> pc[t] = "post"
      /\ t \in B <=> s = "post"
  BY <1>2, <1>3, <1>4 DEF Posting
<1>6. /\ Cardinality(A) \in Nat /\ Cardinality(B) \in Nat
      /\ t \in A /\ t \notin B => Cardinality(B) = Cardinality(A) - 1
      /\ t \notin A /\ t \in B => Cardinality(B) = Cardinality(A) + 1
      /\ (t \in A <=> t \in B) => Cardinality(B) = Cardinality(A)
  BY <1>1, <1>5, OneElement
<1> QED
  BY <1>1, <1>2, <1>3, <1>4, <1>5, <1>6

\* The sum over the sockets, when nothing or one thing changes.
LEMMA SameOut == ASSUME LInv, UNCHANGED io
                 PROVE  /\ Outstanding' = Outstanding /\ IsFiniteSet(Outstanding')
                        /\ Cardinality(Outstanding) \in Nat
BY FS_CardinalityType DEF Outstanding, LInv

LEMMA MoreOut ==
  ASSUME LInv, NEW s \in Sockets, io' = [io EXCEPT ![s] = @ + 1]
  PROVE  /\ IsFiniteSet(Outstanding') /\ Cardinality(Outstanding) \in Nat
         /\ Cardinality(Outstanding') = Cardinality(Outstanding) + 1
<1>1. PICK g : g = io'
  OBVIOUS
<1>2. io[s] \in Nat /\ g[s] = io[s] + 1 /\ \A e \in Sockets : e # s => g[e] = io[e]
  BY <1>1 DEF LInv, TypeOK
<1>3. Outstanding = Units(io, Sockets) /\ Outstanding' = Units(g, Sockets)
  BY <1>1 DEF Outstanding, Units
<1>4. IsFiniteSet(Units(io, Sockets))
  BY <1>3 DEF LInv
<1> QED
  BY <1>2, <1>3, <1>4, UnitMore

LEMMA LessOut ==
  ASSUME LInv, NEW s \in Sockets, io[s] > 0, io' = [io EXCEPT ![s] = @ - 1]
  PROVE  /\ IsFiniteSet(Outstanding') /\ Cardinality(Outstanding) \in Nat \ {0}
         /\ Cardinality(Outstanding') = Cardinality(Outstanding) - 1
<1>1. PICK g : g = io'
  OBVIOUS
<1>2. io[s] \in Nat /\ g[s] = io[s] - 1 /\ \A e \in Sockets : e # s => g[e] = io[e]
  BY <1>1 DEF LInv, TypeOK
<1>3. Outstanding = Units(io, Sockets) /\ Outstanding' = Units(g, Sockets)
  BY <1>1 DEF Outstanding, Units
<1>4. IsFiniteSet(Units(io, Sockets))
  BY <1>3 DEF LInv
<1> QED
  BY <1>2, <1>3, <1>4, UnitLess

\* The numbers of a list after an element was taken, given back, or both.
LEMMA PoolStep ==
  ASSUME NEW p \in [Lists -> [made : Nat, free : Nat]], NEW l \in Lists
  PROVE  /\ Taken(p, l) \in [Lists -> [made : Nat, free : Nat]]
         /\ Taken(p, l)[l].made - Taken(p, l)[l].free = p[l].made - p[l].free + 1
         /\ \A k \in Lists : k # l => Taken(p, l)[k] = p[k]
         /\ Back(p, l) \in [Lists -> [made : Nat, free : Nat]]
         /\ Back(p, l)[l].made - Back(p, l)[l].free = p[l].made - p[l].free - 1
         /\ \A k \in Lists : k # l => Back(p, l)[k] = p[k]
<1>1. p[l] \in [made : Nat, free : Nat]
  OBVIOUS
<1>2. /\ Back(p, l) = [p EXCEPT ![l] = [p[l] EXCEPT !.free = p[l].free + 1]]
      /\ Back(p, l)[l].made = p[l].made /\ Back(p, l)[l].free = p[l].free + 1
  BY <1>1 DEF Back
<1>3. CASE p[l].free > 0
  <2>1. Taken(p, l) = [p EXCEPT ![l] = [p[l] EXCEPT !.free = p[l].free - 1]]
    BY <1>3 DEF Taken
  <2> QED
    BY <1>1, <1>2, <1>3, <2>1
<1>4. CASE ~(p[l].free > 0)
  <2>1. Taken(p, l) = [p EXCEPT ![l] = [p[l] EXCEPT !.made = p[l].made + 1]]
    BY <1>4 DEF Taken
  <2> QED
    BY <1>1, <1>2, <1>4, <2>1
<1> QED
  BY <1>3, <1>4

\* The steps of the dialog's thread, none of which touches a list or an operation.
LEMMA ListenerDialogInv == ASSUME LInv, Dialog PROVE LInv'
<1>0. UI \in Callers /\ UI \notin Threads /\ Threads \subseteq Callers
  BY ListenerAssumption DEF Callers
<1>1. PICK s \in {"idle", "associate", "take", "run", "stop", "close"} : GoTo(UI, s) /\ pc[UI] # "post"
  BY DEF Dialog, StartClick, Associate, Running, StopStatus, StopSocket
<1>2. /\ Cardinality(Posting') = Cardinality(Posting)
      /\ pc' \in [Callers -> {"idle", "associate", "take", "post", "run", "stop", "close"}]
      /\ pc'[UI] = s /\ \A u \in Callers : u # UI => pc'[u] = pc[u]
  BY <1>0, <1>1, PostingStep
<1>3. UNCHANGED <<io, pools, clients, closed>>
  BY DEF Dialog, StartClick, Associate, Running, StopStatus, StopSocket
<1>4. PoolsWhole' /\ IsFiniteSet(Outstanding')
  BY <1>2, <1>3, SameOut DEF PoolsWhole, LInv
<1>5. CASE StartClick
  <2>1. /\ pc[UI] = "idle" /\ status # "run" /\ MakeTcpServerSocket /\ broken' = FALSE
        /\ sock' = NoSocket => pc'[UI] = "stop" /\ status' = "error"
        /\ sock' # NoSocket => pc'[UI] = "associate" /\ status' = status
    BY <1>0, <1>5 DEF StartClick, MayStart, GoTo, LInv, TypeOK
  <2>2. /\ sockets' \in 0 .. MaxSockets /\ sockets <= sockets' /\ opened' \subseteq 1 .. sockets'
        /\ sock' \in 0 .. sockets'
        /\ sock' # NoSocket => sock' \in opened'
    <3>1. MaxSockets \in Nat /\ sockets \in 0 .. MaxSockets /\ opened \subseteq 1 .. sockets
      BY ListenerAssumption DEF LInv, TypeOK
    <3>2. CASE sock' = NoSocket /\ UNCHANGED <<opened, sockets>>
      BY <3>1, <3>2 DEF NoSocket
    <3>3. CASE sockets < MaxSockets /\ sockets' = sockets + 1 /\ sock' = sockets' /\ opened' = opened \cup {sock'}
      BY <3>1, <3>3 DEF NoSocket
    <3> QED
      BY <2>1, <3>2, <3>3 DEF MakeTcpServerSocket
  <2>3. TypeOK'
    BY <1>2, <1>3, <2>1, <2>2 DEF LInv, TypeOK
  <2>4. LSteps'
    <3>1. sockets \in Nat /\ \A s1 \in Sockets : s1 \in Nat
      BY ListenerAssumption DEF LInv, TypeOK, Sockets
    <3>2. \A s1 \in Sockets : s1 > sockets' => io'[s1] = 0
      BY <1>3, <2>2, <3>1 DEF LInv, LSteps
    <3> QED
      BY <1>0, <1>2, <2>1, <2>2, <3>2 DEF LInv, LSteps, NoSocket
  <2>5. LChain'
    BY <2>1 DEF LChain
  <2> QED
    BY <1>4, <2>3, <2>4, <2>5 DEF LInv
<1>6. CASE Associate
  <2>1. /\ pc[UI] = "associate" /\ UNCHANGED <<sock, opened, sockets, broken>>
        /\ \/ pc'[UI] = "take" /\ status' = status
           \/ pc'[UI] = "stop" /\ status' = "error"
    BY <1>0, <1>6 DEF Associate, GoTo, LInv, TypeOK
  <2>3. TypeOK'
    BY <1>2, <1>3, <2>1 DEF LInv, TypeOK
  <2>4. LSteps'
    BY <1>0, <1>2, <1>3, <2>1 DEF LInv, LSteps
  <2>5. LChain'
    BY <2>1 DEF LChain, LInv, LSteps
  <2> QED
    BY <1>4, <2>3, <2>4, <2>5 DEF LInv
<1>7. CASE Running
  <2>1. /\ pc[UI] = "run" /\ UNCHANGED <<sock, opened, sockets, broken>> /\ pc'[UI] = "idle" /\ status' = "run"
    BY <1>0, <1>7 DEF Running, GoTo, LInv, TypeOK
  <2>3. TypeOK'
    BY <1>2, <1>3, <2>1 DEF LInv, TypeOK
  <2>4. LSteps'
    BY <1>0, <1>2, <1>3, <2>1 DEF LInv, LSteps
  <2>5. LChain'
    BY <1>0, <1>2, <1>3, <2>1 DEF LChain, LInv
  <2> QED
    BY <1>4, <2>3, <2>4, <2>5 DEF LInv
<1>8. CASE StopStatus \/ StopSocket
  <2>1. /\ UNCHANGED <<sockets, broken>> /\ sock' \in {sock, NoSocket} /\ opened' \subseteq opened
        /\ pc'[UI] \in {"idle", "close"} /\ status' # "run" /\ status' \in {"stop", status}
    BY <1>0, <1>8 DEF StopStatus, StopSocket, GoTo, LInv, TypeOK, LSteps
  <2>3. TypeOK'
    BY <1>2, <1>3, <2>1 DEF LInv, TypeOK, NoSocket
  <2>4. LSteps'
    BY <1>0, <1>2, <1>3, <2>1 DEF LInv, LSteps
  <2>5. LChain'
    BY <2>1 DEF LChain
  <2> QED
    BY <1>4, <2>3, <2>4, <2>5 DEF LInv
<1> QED
  BY <1>5, <1>6, <1>7, <1>8 DEF Dialog

\* A buffer, an accept socket and a request are taken.
LEMMA TakeAcceptInv == ASSUME LInv, NEW t \in Callers, TakeAccept(t) PROVE LInv'
<1>1. /\ pc[t] = "take" /\ GoTo(t, "post") /\ pools' = Taken(Taken(Taken(pools, "buf"), "sock"), "req")
      /\ UNCHANGED <<status, sock, opened, sockets, io, clients, closed, broken>>
  BY DEF TakeAccept
<1>2. /\ Cardinality(Posting) \in Nat /\ Cardinality(Posting') = Cardinality(Posting) + 1
      /\ pc' \in [Callers -> {"idle", "associate", "take", "post", "run", "stop", "close"}]
      /\ pc'[t] = "post" /\ \A u \in Callers : u # t => pc'[u] = pc[u]
      /\ UI \in Callers /\ UI \notin Threads /\ Threads \subseteq Callers
  BY <1>1, PostingStep
<1>3. /\ pools' \in [Lists -> [made : Nat, free : Nat]]
      /\ \A l \in Lists : pools'[l].made - pools'[l].free = pools[l].made - pools[l].free + 1
  <2>1. pools \in [Lists -> [made : Nat, free : Nat]] /\ {"buf", "sock", "req"} = Lists
    BY DEF LInv, TypeOK, Lists
  <2>2. PICK p : p = Taken(pools, "buf")
    OBVIOUS
  <2>3. PICK q : q = Taken(p, "sock")
    OBVIOUS
  <2>4. PICK r : r = Taken(q, "req")
    OBVIOUS
  <2>5. /\ p \in [Lists -> [made : Nat, free : Nat]]
        /\ p["buf"].made - p["buf"].free = pools["buf"].made - pools["buf"].free + 1
        /\ p["sock"] = pools["sock"] /\ p["req"] = pools["req"]
    BY <2>1, <2>2, PoolStep
  <2>6. /\ q \in [Lists -> [made : Nat, free : Nat]]
        /\ q["sock"].made - q["sock"].free = p["sock"].made - p["sock"].free + 1
        /\ q["buf"] = p["buf"] /\ q["req"] = p["req"]
    BY <2>1, <2>3, <2>5, PoolStep
  <2>7. /\ r \in [Lists -> [made : Nat, free : Nat]]
        /\ r["req"].made - r["req"].free = q["req"].made - q["req"].free + 1
        /\ r["buf"] = q["buf"] /\ r["sock"] = q["sock"]
    BY <2>1, <2>4, <2>6, PoolStep
  <2>8. pools' = r
    BY <1>1, <2>2, <2>3, <2>4
  <2> QED
    BY <2>1, <2>5, <2>6, <2>7, <2>8
<1>4. PoolsWhole' /\ IsFiniteSet(Outstanding')
  <2>1. /\ Cardinality(Outstanding') = Cardinality(Outstanding) /\ Cardinality(Outstanding) \in Nat
        /\ IsFiniteSet(Outstanding')
    BY <1>1, SameOut
  <2>2. \A l \in Lists : pools[l] \in [made : Nat, free : Nat] /\ pools'[l] \in [made : Nat, free : Nat]
    BY <1>3 DEF LInv, TypeOK
  <2> QED
    BY <1>1, <1>2, <1>3, <2>1, <2>2 DEF LInv, TypeOK, PoolsWhole, Lists
<1>5. TypeOK'
  BY <1>1, <1>2, <1>3 DEF LInv, TypeOK
<1>6. LSteps'
  BY <1>1, <1>2 DEF LInv, LSteps, Callers
<1>7. LChain'
  BY <1>1, <1>2 DEF LInv, LChain, LSteps, Callers
<1> QED
  BY <1>4, <1>5, <1>6, <1>7 DEF LInv

\* Where a call of Accept returns to.
LEMMA ReturnStep ==
  ASSUME LInv, NEW t \in Callers, NEW ok \in BOOLEAN, Return(t, ok)
  PROVE  \E s \in {"idle", "run", "stop"} :
           GoTo(t, s) /\ (t # UI => s = "idle") /\ (t = UI => s = IF ok THEN "run" ELSE "stop")
<1>1. CASE t # UI
  BY <1>1 DEF Return
<1>2. CASE t = UI /\ ok
  BY <1>2 DEF Return
<1>3. CASE t = UI /\ ~ok
  BY <1>3 DEF Return
<1> QED
  BY <1>1, <1>2, <1>3

\* WSASocket fails: what was taken is given back.
LEMMA NoAcceptSocketInv == ASSUME LInv, NEW t \in Callers, NoAcceptSocket(t) PROVE LInv'
<1>1. /\ pc[t] = "take" /\ status' = "error" /\ broken' = (broken \/ t # UI)
      /\ Return(t, FALSE) /\ pools' = Back(Taken(pools, "buf"), "buf")
      /\ UNCHANGED <<sock, opened, sockets, io, clients, closed>>
  BY DEF NoAcceptSocket, Cut
<1>2. PICK s \in {"idle", "run", "stop"} :
        GoTo(t, s) /\ (t # UI => s = "idle") /\ (t = UI => s = "stop")
  BY <1>1, ReturnStep
<1>3. /\ Cardinality(Posting) \in Nat /\ Cardinality(Posting') = Cardinality(Posting)
      /\ pc' \in [Callers -> {"idle", "associate", "take", "post", "run", "stop", "close"}]
      /\ pc'[t] = s /\ \A u \in Callers : u # t => pc'[u] = pc[u]
      /\ UI \in Callers /\ UI \notin Threads /\ Threads \subseteq Callers
  BY <1>1, <1>2, PostingStep
<1>4. /\ pools' \in [Lists -> [made : Nat, free : Nat]]
      /\ \A l \in Lists : pools'[l].made - pools'[l].free = pools[l].made - pools[l].free
  <2>1. pools \in [Lists -> [made : Nat, free : Nat]] /\ "buf" \in Lists
    BY DEF LInv, TypeOK, Lists
  <2>2. PICK p : p = Taken(pools, "buf")
    OBVIOUS
  <2>3. PICK q : q = Back(p, "buf")
    OBVIOUS
  <2>4. /\ p \in [Lists -> [made : Nat, free : Nat]]
        /\ p["buf"].made - p["buf"].free = pools["buf"].made - pools["buf"].free + 1
        /\ \A k \in Lists : k # "buf" => p[k] = pools[k]
    BY <2>1, <2>2, PoolStep
  <2>5. /\ q \in [Lists -> [made : Nat, free : Nat]]
        /\ q["buf"].made - q["buf"].free = p["buf"].made - p["buf"].free - 1
        /\ \A k \in Lists : k # "buf" => q[k] = p[k]
    BY <2>1, <2>3, <2>4, PoolStep
  <2>6. \A l \in Lists : /\ pools[l] \in [made : Nat, free : Nat] /\ p[l] \in [made : Nat, free : Nat]
                          /\ q[l] \in [made : Nat, free : Nat]
    BY <2>1, <2>4, <2>5
  <2>7. pools' = q
    BY <1>1, <2>2, <2>3
  <2> QED
    BY <2>4, <2>5, <2>6, <2>7
<1>5. PoolsWhole' /\ IsFiniteSet(Outstanding')
  <2>1. /\ Cardinality(Outstanding') = Cardinality(Outstanding) /\ Cardinality(Outstanding) \in Nat
        /\ IsFiniteSet(Outstanding')
    BY <1>1, SameOut
  <2>2. \A l \in Lists : pools[l] \in [made : Nat, free : Nat] /\ pools'[l] \in [made : Nat, free : Nat]
    BY <1>4 DEF LInv, TypeOK
  <2> QED
    BY <1>1, <1>3, <1>4, <2>1, <2>2 DEF LInv, TypeOK, PoolsWhole, Lists
<1>6. TypeOK'
  BY <1>1, <1>3, <1>4 DEF LInv, TypeOK
<1>7. LSteps'
  BY <1>1, <1>2, <1>3 DEF LInv, LSteps, Callers
<1>8. LChain'
  BY <1>1, <1>2, <1>3 DEF LInv, LChain, LSteps, Callers
<1> QED
  BY <1>5, <1>6, <1>7, <1>8 DEF LInv

\* AcceptEx pends on the listening socket.
LEMMA AcceptPendsInv == ASSUME LInv, NEW t \in Callers, AcceptPends(t) PROVE LInv'
<1>1. /\ pc[t] = "post" /\ sock \in opened /\ io' = [io EXCEPT ![sock] = @ + 1] /\ Return(t, TRUE)
      /\ UNCHANGED <<status, sock, opened, sockets, pools, clients, closed, broken>>
  BY DEF AcceptPends
<1>2. PICK s \in {"idle", "run", "stop"} :
        GoTo(t, s) /\ (t # UI => s = "idle") /\ (t = UI => s = "run")
  BY <1>1, ReturnStep
<1>3. /\ Cardinality(Posting) \in Nat /\ Cardinality(Posting') = Cardinality(Posting) - 1
      /\ pc' \in [Callers -> {"idle", "associate", "take", "post", "run", "stop", "close"}]
      /\ pc'[t] = s /\ \A u \in Callers : u # t => pc'[u] = pc[u]
      /\ UI \in Callers /\ UI \notin Threads /\ Threads \subseteq Callers
      /\ Cardinality(Posting') \in Nat
  BY <1>1, <1>2, PostingStep
<1>4. sock \in Sockets /\ sock <= sockets /\ sockets \in Nat
  BY <1>1, ListenerAssumption DEF LInv, TypeOK, Sockets
<1>5. /\ io' \in [Sockets -> Nat] /\ io'[sock] > 0
      /\ \A e \in Sockets : e > sockets => io'[e] = 0
  BY <1>1, <1>4 DEF LInv, TypeOK, LSteps
<1>6. /\ IsFiniteSet(Outstanding') /\ Cardinality(Outstanding) \in Nat
      /\ Cardinality(Outstanding') = Cardinality(Outstanding) + 1
  BY <1>1, <1>4, MoreOut
<1>7. PoolsWhole'
  BY <1>1, <1>3, <1>6 DEF LInv, PoolsWhole
<1>8. TypeOK'
  BY <1>1, <1>3, <1>5 DEF LInv, TypeOK
<1>9. LSteps'
  BY <1>1, <1>2, <1>3, <1>5 DEF LInv, LSteps, Callers
<1>10. LChain'
  BY <1>1, <1>5 DEF LChain
<1> QED
  BY <1>6, <1>7, <1>8, <1>9, <1>10 DEF LInv

\* AcceptEx fails: everything is given back.
LEMMA AcceptFailsInv == ASSUME LInv, NEW t \in Callers, AcceptFails(t) PROVE LInv'
<1>1. /\ pc[t] = "post" /\ status' = "error" /\ broken' = (broken \/ t # UI) /\ Return(t, FALSE)
      /\ pools' = Back(Back(Back(pools, "buf"), "sock"), "req")
      /\ UNCHANGED <<sock, opened, sockets, io, clients, closed>>
  BY DEF AcceptFails, Cut
<1>2. PICK s \in {"idle", "run", "stop"} :
        GoTo(t, s) /\ (t # UI => s = "idle") /\ (t = UI => s = "stop")
  BY <1>1, ReturnStep
<1>3. /\ Cardinality(Posting) \in Nat /\ Cardinality(Posting') = Cardinality(Posting) - 1
      /\ pc' \in [Callers -> {"idle", "associate", "take", "post", "run", "stop", "close"}]
      /\ pc'[t] = s /\ \A u \in Callers : u # t => pc'[u] = pc[u]
      /\ UI \in Callers /\ UI \notin Threads /\ Threads \subseteq Callers
      /\ Cardinality(Posting') \in Nat
  BY <1>1, <1>2, PostingStep
<1>4. /\ pools' \in [Lists -> [made : Nat, free : Nat]]
      /\ \A l \in Lists : pools'[l].made - pools'[l].free = pools[l].made - pools[l].free - 1
  <2>1. pools \in [Lists -> [made : Nat, free : Nat]] /\ {"buf", "sock", "req"} = Lists
    BY DEF LInv, TypeOK, Lists
  <2>2. PICK p : p = Back(pools, "buf")
    OBVIOUS
  <2>3. PICK q : q = Back(p, "sock")
    OBVIOUS
  <2>4. PICK r : r = Back(q, "req")
    OBVIOUS
  <2>5. /\ p \in [Lists -> [made : Nat, free : Nat]]
        /\ p["buf"].made - p["buf"].free = pools["buf"].made - pools["buf"].free - 1
        /\ p["sock"] = pools["sock"] /\ p["req"] = pools["req"]
    BY <2>1, <2>2, PoolStep
  <2>6. /\ q \in [Lists -> [made : Nat, free : Nat]]
        /\ q["sock"].made - q["sock"].free = p["sock"].made - p["sock"].free - 1
        /\ q["buf"] = p["buf"] /\ q["req"] = p["req"]
    BY <2>1, <2>3, <2>5, PoolStep
  <2>7. /\ r \in [Lists -> [made : Nat, free : Nat]]
        /\ r["req"].made - r["req"].free = q["req"].made - q["req"].free - 1
        /\ r["buf"] = q["buf"] /\ r["sock"] = q["sock"]
    BY <2>1, <2>4, <2>6, PoolStep
  <2>8. pools' = r
    BY <1>1, <2>2, <2>3, <2>4
  <2> QED
    BY <2>1, <2>5, <2>6, <2>7, <2>8
<1>5. PoolsWhole' /\ IsFiniteSet(Outstanding')
  <2>1. /\ Cardinality(Outstanding') = Cardinality(Outstanding) /\ Cardinality(Outstanding) \in Nat
        /\ IsFiniteSet(Outstanding')
    BY <1>1, SameOut
  <2>2. \A l \in Lists : pools[l] \in [made : Nat, free : Nat] /\ pools'[l] \in [made : Nat, free : Nat]
    BY <1>4 DEF LInv, TypeOK
  <2> QED
    BY <1>1, <1>3, <1>4, <2>1, <2>2 DEF LInv, TypeOK, PoolsWhole, Lists
<1>6. TypeOK'
  BY <1>1, <1>3, <1>4 DEF LInv, TypeOK
<1>7. LSteps'
  BY <1>1, <1>2, <1>3 DEF LInv, LSteps, Callers
<1>8. LChain'
  BY <1>1, <1>2, <1>3 DEF LInv, LChain, LSteps, Callers
<1> QED
  BY <1>5, <1>6, <1>7, <1>8 DEF LInv

\* A packet: its buffer and its request go back.
LEMMA ReturnPacketStep ==
  ASSUME LInv, ReturnPacket
  PROVE  /\ pools' \in [Lists -> [made : Nat, free : Nat]] /\ pools'["sock"] = pools["sock"]
         /\ \A l \in {"buf", "req"} : pools'[l].made - pools'[l].free = pools[l].made - pools[l].free - 1
<1>1. pools \in [Lists -> [made : Nat, free : Nat]] /\ {"buf", "sock", "req"} = Lists
  BY DEF LInv, TypeOK, Lists
<1>2. PICK p : p = Back(pools, "buf")
  OBVIOUS
<1>3. PICK q : q = Back(p, "req")
  OBVIOUS
<1>4. /\ p \in [Lists -> [made : Nat, free : Nat]]
      /\ p["buf"].made - p["buf"].free = pools["buf"].made - pools["buf"].free - 1
      /\ p["sock"] = pools["sock"] /\ p["req"] = pools["req"]
  BY <1>1, <1>2, PoolStep
<1>5. /\ q \in [Lists -> [made : Nat, free : Nat]]
      /\ q["req"].made - q["req"].free = p["req"].made - p["req"].free - 1
      /\ q["sock"] = p["sock"] /\ q["buf"] = p["buf"]
  BY <1>1, <1>3, <1>4, PoolStep
<1>6. pools' = q
  BY <1>2, <1>3 DEF ReturnPacket
<1> QED
  BY <1>1, <1>4, <1>5, <1>6

\* A connection was accepted, and the thread goes on to post the next AcceptEx.
LEMMA AcceptedInv == ASSUME LInv, NEW t \in Threads, NEW s \in Sockets, Accepted(t, s) PROVE LInv'
<1>1. /\ pc[t] = "idle" /\ io[s] > 0 /\ clients < MaxClients /\ io' = [io EXCEPT ![s] = @ - 1]
      /\ clients' = clients + 1 /\ ReturnPacket /\ GoTo(t, "take")
      /\ UNCHANGED <<status, sock, opened, sockets, closed, broken>>
  BY DEF Accepted
<1>2. t \in Callers /\ t # UI
  BY ListenerAssumption DEF Callers
<1>3. /\ Cardinality(Posting) \in Nat /\ Cardinality(Posting') = Cardinality(Posting)
      /\ pc' \in [Callers -> {"idle", "associate", "take", "post", "run", "stop", "close"}]
      /\ pc'[t] = "take" /\ \A u \in Callers : u # t => pc'[u] = pc[u]
      /\ UI \in Callers /\ UI \notin Threads /\ Threads \subseteq Callers
  BY <1>1, <1>2, PostingStep
<1>4. /\ pools' \in [Lists -> [made : Nat, free : Nat]] /\ pools'["sock"] = pools["sock"]
      /\ \A l \in {"buf", "req"} : pools'[l].made - pools'[l].free = pools[l].made - pools[l].free - 1
  BY <1>1, ReturnPacketStep
<1>5. io' \in [Sockets -> Nat] /\ \A e \in Sockets : e > sockets => io'[e] = 0
  <2>1. io[s] \in Nat /\ io \in [Sockets -> Nat] /\ \A e \in Sockets : e > sockets => io[e] = 0
    BY DEF LInv, TypeOK, LSteps
  <2> QED
    BY <1>1, <2>1
<1>6. /\ IsFiniteSet(Outstanding') /\ Cardinality(Outstanding) \in Nat
      /\ Cardinality(Outstanding') = Cardinality(Outstanding) - 1
  BY <1>1, LessOut
<1>7. PoolsWhole'
  <2>1. \A l \in Lists : pools[l] \in [made : Nat, free : Nat] /\ pools'[l] \in [made : Nat, free : Nat]
    BY <1>4 DEF LInv, TypeOK
  <2>2. clients \in Nat /\ closed \in Nat
    BY ListenerAssumption DEF LInv, TypeOK
  <2> QED
    <3>1. PICK a : a = Cardinality(Outstanding) + Cardinality(Posting)
      OBVIOUS
    <3>2. a \in Int /\ Cardinality(Outstanding') + Cardinality(Posting') = a - 1
      BY <1>3, <1>6, <3>1
    <3>3. \A l \in {"buf", "req"} : pools'[l].made = pools'[l].free + (a - 1)
      <4>1. \A l \in {"buf", "req"} : pools[l].made = pools[l].free + a /\ l \in Lists
        BY <3>1 DEF LInv, PoolsWhole, Lists
      <4>2. \A l \in {"buf", "req"} : pools[l].made \in Nat /\ pools[l].free \in Nat
                                        /\ pools'[l].made \in Nat /\ pools'[l].free \in Nat
        BY <2>1, <4>1
      <4> QED
        BY <1>4, <3>2, <4>1, <4>2
    <3>4. pools'["sock"].made = pools'["sock"].free + (a - 1) + clients' + closed'
      BY <1>1, <1>4, <2>1, <2>2, <3>1, <3>2 DEF LInv, PoolsWhole, Lists
    <3> QED
      BY <3>2, <3>3, <3>4 DEF PoolsWhole
<1>8. TypeOK'
  <2>1. clients' \in 0 .. MaxClients
    BY <1>1, ListenerAssumption DEF LInv, TypeOK
  <2> QED
    BY <1>1, <1>3, <1>4, <1>5, <2>1 DEF LInv, TypeOK
<1>9. LSteps'
  BY <1>1, <1>2, <1>3, <1>5 DEF LInv, LSteps
<1>10. LChain'
  BY <1>3 DEF LChain
<1> QED
  BY <1>6, <1>7, <1>8, <1>9, <1>10 DEF LInv

\* An AcceptEx failed.
LEMMA AcceptFailedInv == ASSUME LInv, NEW t \in Threads, NEW s \in Sockets, Failed(t, s) PROVE LInv'
<1>1. /\ pc[t] = "idle" /\ io[s] > 0 /\ io' = [io EXCEPT ![s] = @ - 1]
      /\ closed' = closed + 1 /\ ReturnPacket /\ broken' = (broken \/ s = sock)
      /\ UNCHANGED <<status, sock, opened, sockets, clients, pc>>
  BY DEF Failed
<1>2. UNCHANGED Posting /\ Cardinality(Posting) \in Nat
  <2>1. IsFiniteSet(Callers) /\ Posting \subseteq Callers
    BY ListenerAssumption, FS_AddElement DEF Callers, Posting
  <2> QED
    BY <1>1, <2>1, FS_Subset, FS_CardinalityType DEF Posting
<1>4. /\ pools' \in [Lists -> [made : Nat, free : Nat]] /\ pools'["sock"] = pools["sock"]
      /\ \A l \in {"buf", "req"} : pools'[l].made - pools'[l].free = pools[l].made - pools[l].free - 1
  BY <1>1, ReturnPacketStep
<1>5. /\ io' \in [Sockets -> Nat] /\ \A e \in Sockets : e > sockets => io'[e] = 0
      /\ \A e \in Sockets : e # s => io'[e] = io[e]
  <2>1. io[s] \in Nat /\ io \in [Sockets -> Nat] /\ \A e \in Sockets : e > sockets => io[e] = 0
    BY DEF LInv, TypeOK, LSteps
  <2> QED
    BY <1>1, <2>1
<1>6. /\ IsFiniteSet(Outstanding') /\ Cardinality(Outstanding) \in Nat
      /\ Cardinality(Outstanding') = Cardinality(Outstanding) - 1
  BY <1>1, LessOut
<1>7. PoolsWhole'
  <2>1. \A l \in Lists : pools[l] \in [made : Nat, free : Nat] /\ pools'[l] \in [made : Nat, free : Nat]
    BY <1>4 DEF LInv, TypeOK
  <2>2. clients \in Nat /\ closed \in Nat
    BY ListenerAssumption DEF LInv, TypeOK
  <2>3. PICK a : a = Cardinality(Outstanding) + Cardinality(Posting)
    OBVIOUS
  <2>4. a \in Int /\ Cardinality(Outstanding') + Cardinality(Posting') = a - 1
    BY <1>2, <1>6, <2>3
  <2>5. \A l \in {"buf", "req"} : pools'[l].made = pools'[l].free + (a - 1)
    <3>1. \A l \in {"buf", "req"} : pools[l].made = pools[l].free + a /\ l \in Lists
      BY <2>3 DEF LInv, PoolsWhole, Lists
    <3>2. \A l \in {"buf", "req"} : pools[l].made \in Nat /\ pools[l].free \in Nat
                                      /\ pools'[l].made \in Nat /\ pools'[l].free \in Nat
      BY <2>1, <3>1
    <3> QED
      BY <1>4, <2>4, <3>1, <3>2
  <2>6. pools'["sock"].made = pools'["sock"].free + (a - 1) + clients' + closed'
    <3>1. pools["sock"].made = pools["sock"].free + a + clients + closed
      BY <2>3 DEF LInv, PoolsWhole
    <3>2. pools["sock"].made \in Nat /\ pools["sock"].free \in Nat
      BY <2>1 DEF Lists
    <3> QED
      BY <1>1, <1>4, <2>2, <2>4, <3>1, <3>2
  <2> QED
    BY <2>4, <2>5, <2>6 DEF PoolsWhole
<1>8. TypeOK'
  BY <1>1, <1>4, <1>5 DEF LInv, TypeOK
<1>9. LSteps'
  BY <1>1, <1>5 DEF LInv, LSteps
<1>10. LChain'
  <2>1. (status = "run" \/ pc[UI] = "run") => sock \in Sockets
    BY ListenerAssumption DEF LInv, LSteps, TypeOK, Sockets
  <2> QED
    BY <1>1, <1>5, <2>1 DEF LInv, LChain
<1> QED
  BY <1>6, <1>7, <1>8, <1>9, <1>10 DEF LInv

LEMMA ListenerInit == ASSUME Init PROVE LInv
<1>0. UI \in Callers /\ Threads \subseteq Callers
  BY DEF Callers
<1>1. TypeOK
  <2>1. pools \in [Lists -> [made : Nat, free : Nat]]
    <3>1. InitSockets \in Nat /\ 1 \in Nat
      BY ListenerAssumption
    <3>2. \A l \in Lists : pools[l] \in [made : Nat, free : Nat]
      BY <3>1 DEF Init
    <3> QED
      BY <3>2 DEF Init
  <2> QED
    <3>1. /\ status \in {"stop", "run", "error"} /\ sock \in 0 .. sockets /\ sockets \in 0 .. MaxSockets
          /\ opened \subseteq 1 .. sockets /\ clients \in 0 .. MaxClients /\ closed \in Nat
      BY ListenerAssumption DEF Init, NoSocket
    <3>2. /\ io \in [Sockets -> Nat] /\ broken \in BOOLEAN
          /\ pc \in [Callers -> {"idle", "associate", "take", "post", "run", "stop", "close"}]
      BY DEF Init
    <3> QED
      BY <2>1, <3>1, <3>2 DEF TypeOK
<1>2. LSteps
  BY <1>0, ListenerAssumption DEF Init, LSteps
<1>3. LChain
  BY <1>0 DEF Init, LChain
<1>4. Outstanding = {} /\ Posting = {}
  BY DEF Init, Outstanding, Posting
<1>5. PoolsWhole
  <2>1. Cardinality(Outstanding) = 0 /\ Cardinality(Posting) = 0
    BY <1>4, FS_EmptySet
  <2>2. \A l \in Lists : pools[l].made = pools[l].free /\ pools[l].free \in Nat
    <3>1. \A l \in Lists : pools[l].made = pools[l].free
      BY DEF Init
    <3> QED
      BY <1>1, <3>1 DEF TypeOK
  <2> QED
    BY <2>1, <2>2 DEF Init, PoolsWhole, Lists
<1> QED
  BY <1>1, <1>2, <1>3, <1>4, <1>5, FS_EmptySet DEF LInv

\* The invariant of the listener.
LEMMA ListenerInvariant == Spec => []LInv
<1>1. ASSUME LInv, [Next]_vars PROVE LInv'
  <2>0. UI \in Callers /\ Threads \subseteq Callers
    BY DEF Callers
  <2>1. CASE Dialog
    BY <1>1, <2>1, ListenerDialogInv
  <2>2. ASSUME NEW t \in Callers, Accept(t) PROVE LInv'
    BY <1>1, <2>2, TakeAcceptInv, NoAcceptSocketInv, AcceptPendsInv, AcceptFailsInv DEF Accept
  <2>3. ASSUME NEW t \in Threads, NEW s \in Sockets, Accepted(t, s) \/ Failed(t, s) PROVE LInv'
    BY <1>1, <2>3, AcceptedInv, AcceptFailedInv
  <2>4. CASE UNCHANGED vars
    <3>1. UNCHANGED <<status, sock, opened, sockets, io, pools, clients, closed, pc, broken>>
      BY <2>4 DEF vars
    <3> QED
      BY <1>1, <3>1 DEF LInv, TypeOK, LSteps, LChain, PoolsWhole, Outstanding, Posting
  <2> QED
    BY <1>1, <2>0, <2>1, <2>2, <2>3, <2>4 DEF Next
<1>2. Init => LInv
  BY ListenerInit
<1> QED
  BY <1>1, <1>2, PTL DEF Spec

----------------------------------------------------------------------------
(* The sessions                                                            *)

\* Thread t works for object w; it no longer does when all that is left is to count the
\* session as accepted.
On(t, w) == obj[t] = w /\ wpc[t] # "accepted"

Quiet(i)    == i["read"] = 0 /\ i["write"] = 0
IsFree(w)   == \E j \in DOMAIN freeWorkers : freeWorkers[j] = w
OnceFree(w) == \A j, k \in DOMAIN freeWorkers : freeWorkers[j] = w /\ freeWorkers[k] = w => j = k

\* The steps of a thread before the first operation of a session is posted, and those after
\* which it asks whether the session is over.
Early == {"start", "sread", "refuse"}
Late  == {"error", "over"}
\* A thread that posted an operation and has not counted it, and one that took a failed
\* operation and has not counted it.
PostedSteps == {"scount", "wcount", "rcount"}
FailedSteps == {"fail", "error"}
Posteds(w)  == {t \in Threads : On(t, w) /\ wpc[t] \in PostedSteps}
Faileds(w)  == {t \in Threads : On(t, w) /\ wpc[t] \in FailedSteps}
One(b)      == IF b THEN 1 ELSE 0

\* By how much the counters c of an object differ from its operations i, and what the
\* threads that work for it have still to count: the sum is 0 from the first Read of a
\* session on, however many threads work for the object.
Level(c, i) == c["recv"] + c["write"] - c["recved"] - c["writed"] - c["error"] - i["read"] - i["write"]
Debt(w)     == Cardinality(Posteds(w)) - Cardinality(Faileds(w))
Counted(w) == ~IsFree(w) /\ \A t \in Threads : On(t, w) => wpc[t] \notin {"start", "refuse"}

\* An object that is in the list has nothing outstanding, nobody who works for it and no
\* socket but a refused session's. One that is in use has one thread and nothing outstanding
\* before its first Read, and counters that are right from then on.
Good(w) ==
  /\ OnceFree(w)
  /\ IsFree(w) => /\ Quiet(wio[w]) /\ (socket[w] = 0 \/ socket[w] \in refused)
                  /\ \A t \in Threads : ~On(t, w)
  /\ \A t \in Threads : On(t, w) /\ wpc[t] \in Early =>
       /\ Quiet(wio[w]) /\ \A u \in Threads : On(u, w) => u = t
       /\ wpc[t] = "start" => n[w]["error"] = 0
  /\ \A t \in Threads : On(t, w) /\ wpc[t] \in Late => socket[w] = 0
  /\ Counted(w) => Level(n[w], wio[w]) + Debt(w) = 0

AcceptSum == acceptNum + Len(freeWorkers) + Cardinality(W!Starting) = made
Unused    == \A w \in W!Workers : w > made => Quiet(wio[w]) /\ socket[w] = 0
Held      == suspect = {} => \A x \in wopened : x \in refused \/ \E w \in W!Workers : socket[w] = x

WInv ==
  /\ W!TypeOK /\ W!PoolsWhole /\ IsFiniteSet(W!Outstanding)
  /\ AcceptSum /\ Unused /\ Held /\ \A w \in (1 .. made) \ suspect : Good(w)

----------------------------------------------------------------------------
(* One object                                                              *)

\* An object that the step does not touch.
LEMMA SameGood ==
  ASSUME NEW w, Good(w), n'[w] = n[w], wio'[w] = wio[w], socket'[w] = socket[w],
         refused \subseteq refused',
         \A t \in Threads : /\ On(t, w)' <=> On(t, w)
                            /\ On(t, w) => wpc'[t] = wpc[t],
         IsFree(w)' <=> IsFree(w), OnceFree(w)'
  PROVE  Good(w)'
<1>1. IsFree(w)' => /\ Quiet(wio[w])' /\ (socket'[w] = 0 \/ socket'[w] \in refused')
                    /\ \A t \in Threads : ~On(t, w)'
  BY DEF Good, Quiet
<1>2. ASSUME NEW t \in Threads, On(t, w)', wpc'[t] \in Early
      PROVE  /\ Quiet(wio[w])' /\ \A u \in Threads : On(u, w)' => u = t
             /\ wpc'[t] = "start" => n'[w]["error"] = 0
  BY <1>2 DEF Good, Quiet
<1>3. ASSUME NEW t \in Threads, On(t, w)', wpc'[t] \in Late PROVE socket'[w] = 0
  BY <1>3 DEF Good
<1>4. ASSUME Counted(w)' PROVE Level(n[w], wio[w])' + Debt(w)' = 0
  <2>1. Counted(w)
    BY <1>4 DEF Counted
  <2>2. Posteds(w)' = Posteds(w) /\ Faileds(w)' = Faileds(w)
    BY DEF Posteds, Faileds
  <2>3. Debt(w)' = Debt(w) /\ Level(n[w], wio[w])' = Level(n[w], wio[w])
    BY <2>2 DEF Debt, Level
  <2> QED
    BY <2>1, <2>3 DEF Good
<1> QED
  BY <1>1, <1>2, <1>3, <1>4 DEF Good

LEMMA ToFree ==
  ASSUME NEW S, freeWorkers \in Seq(S), NEW x, freeWorkers' = Append(freeWorkers, x)
  PROVE  /\ \A w : IsFree(w)' <=> IsFree(w) \/ w = x
         /\ \A w : w # x => (OnceFree(w) => OnceFree(w)')
         /\ ~IsFree(x) => OnceFree(x)'
<1>1. /\ Len(freeWorkers) \in Nat /\ DOMAIN freeWorkers = 1 .. Len(freeWorkers)
      /\ DOMAIN freeWorkers' = 1 .. Len(freeWorkers) + 1 /\ freeWorkers'[Len(freeWorkers) + 1] = x
      /\ \A j \in 1 .. Len(freeWorkers) : freeWorkers'[j] = freeWorkers[j]
  OBVIOUS
<1>2. \A j : j \in 1 .. Len(freeWorkers) + 1 <=> j \in 1 .. Len(freeWorkers) \/ j = Len(freeWorkers) + 1
  BY <1>1
<1>3. \A w : IsFree(w)' <=> IsFree(w) \/ w = x
  BY <1>1, <1>2 DEF IsFree
<1>4. \A w : w # x => (OnceFree(w) => OnceFree(w)')
  BY <1>1, <1>2 DEF OnceFree
<1>5. ~IsFree(x) => OnceFree(x)'
  BY <1>1, <1>2 DEF OnceFree, IsFree
<1> QED
  BY <1>3, <1>4, <1>5

LEMMA FromFree ==
  ASSUME NEW S, freeWorkers \in Seq(S), freeWorkers # <<>>, freeWorkers' = Tail(freeWorkers)
  PROVE  /\ \A w : w # Head(freeWorkers) => (IsFree(w)' <=> IsFree(w))
         /\ \A w : OnceFree(w) => OnceFree(w)'
         /\ IsFree(Head(freeWorkers))
         /\ \A h : h = Head(freeWorkers) /\ OnceFree(h) => ~IsFree(h)'
<1>1. /\ Len(freeWorkers) \in Nat \ {0} /\ DOMAIN freeWorkers = 1 .. Len(freeWorkers)
      /\ DOMAIN freeWorkers' = 1 .. Len(freeWorkers) - 1 /\ Head(freeWorkers) = freeWorkers[1]
      /\ \A j \in 1 .. Len(freeWorkers) - 1 : freeWorkers'[j] = freeWorkers[j + 1]
  OBVIOUS
<1>2. \A j \in 1 .. Len(freeWorkers) : j = 1 \/ (j - 1 \in 1 .. Len(freeWorkers) - 1 /\ (j - 1) + 1 = j)
  BY <1>1
<1>3. \A j \in 1 .. Len(freeWorkers) - 1 : j + 1 \in 1 .. Len(freeWorkers) /\ j + 1 # 1
  BY <1>1
<1>4. \A w : w # Head(freeWorkers) => (IsFree(w)' <=> IsFree(w))
  <2>1. ASSUME NEW w, IsFree(w)' PROVE IsFree(w)
    BY <1>1, <1>3, <2>1 DEF IsFree
  <2>2. ASSUME NEW w, w # Head(freeWorkers), IsFree(w) PROVE IsFree(w)'
    <3>1. PICK j \in 1 .. Len(freeWorkers) : freeWorkers[j] = w
      BY <1>1, <2>2 DEF IsFree
    <3>2. freeWorkers'[j - 1] = w /\ j - 1 \in DOMAIN freeWorkers'
      BY <1>1, <1>2, <2>2, <3>1
    <3> QED
      BY <3>2 DEF IsFree
  <2> QED
    BY <2>1, <2>2
<1>5. ASSUME NEW w, OnceFree(w) PROVE OnceFree(w)'
  <2> SUFFICES ASSUME NEW j \in 1 .. Len(freeWorkers) - 1, NEW k \in 1 .. Len(freeWorkers) - 1,
                      freeWorkers'[j] = w, freeWorkers'[k] = w
               PROVE  j = k
    BY <1>1 DEF OnceFree
  <2>1. j + 1 = k + 1
    BY <1>1, <1>3, <1>5 DEF OnceFree
  <2> QED
    BY <2>1
<1>6. IsFree(Head(freeWorkers))
  BY <1>1 DEF IsFree
<1>7. ASSUME NEW h, h = Head(freeWorkers), OnceFree(h) PROVE ~IsFree(h)'
  <2>2. ASSUME NEW j \in 1 .. Len(freeWorkers) - 1, freeWorkers'[j] = h PROVE FALSE
    BY <1>1, <1>3, <1>7, <2>2 DEF OnceFree
  <2> QED
    BY <1>1, <2>2 DEF IsFree
<1> QED
  BY <1>4, <1>5, <1>6, <1>7

----------------------------------------------------------------------------
(* The counters and the lists                                              *)

Counters == {"recv", "recved", "write", "writed", "error"}
Places   == W!Workers \X W!Kinds

\* A thread goes to a step: how many hold a packet's buffer then, and how many start a session.
LEMMA GoesTo ==
  ASSUME WorkerAssumption, W!TypeOK, NEW t \in Threads, wpc[t] # "idle", NEW s \in W!Steps, W!GoTo(t, s)
  PROVE  /\ wpc' \in [Threads -> W!Steps] /\ obj' \in [Threads -> 0 .. made]
         /\ \A u \in Threads : (obj'[u] = 0) <=> (wpc'[u] = "idle")
         /\ wpc'[t] = s /\ (s # "idle" => obj'[t] = obj[t]) /\ (s = "idle" => obj'[t] = 0)
         /\ \A u \in Threads : u # t => wpc'[u] = wpc[u] /\ obj'[u] = obj[u]
         /\ obj[t] \in 1 .. made /\ obj[t] \in W!Workers
<1>1. /\ wpc \in [Threads -> W!Steps] /\ obj \in [Threads -> 0 .. made] /\ made \in 0 .. MaxWorkers
      /\ \A u \in Threads : (obj[u] = 0) <=> (wpc[u] = "idle")
  BY DEF W!TypeOK, W!NoWorker
<1>2. /\ wpc' = [wpc EXCEPT ![t] = s]
      /\ obj' = [obj EXCEPT ![t] = IF s = "idle" THEN 0 ELSE obj[t]]
  BY DEF W!GoTo, W!NoWorker
<1>3. MaxWorkers \in Nat
  BY WorkerAssumption DEF W!WorkerAssumption
<1> QED
  BY <1>1, <1>2, <1>3 DEF W!Workers

LEMMA ThreadCounts ==
  ASSUME WorkerAssumption, NEW t \in Threads, \A u \in Threads : u # t => wpc'[u] = wpc[u]
  PROVE  /\ Cardinality(W!InHand) \in Nat /\ Cardinality(W!InHand') \in Nat
         /\ t \in W!InHand /\ t \notin W!InHand' => Cardinality(W!InHand') = Cardinality(W!InHand) - 1
         /\ t \notin W!InHand /\ t \in W!InHand' => Cardinality(W!InHand') = Cardinality(W!InHand) + 1
         /\ (t \in W!InHand <=> t \in W!InHand') => Cardinality(W!InHand') = Cardinality(W!InHand)
         /\ Cardinality(W!Starting) \in Nat /\ Cardinality(W!Starting') \in Nat
         /\ t \in W!Starting /\ t \notin W!Starting' => Cardinality(W!Starting') = Cardinality(W!Starting) - 1
         /\ t \notin W!Starting /\ t \in W!Starting' => Cardinality(W!Starting') = Cardinality(W!Starting) + 1
         /\ (t \in W!Starting <=> t \in W!Starting') => Cardinality(W!Starting') = Cardinality(W!Starting)
<1>1. IsFiniteSet(Threads)
  BY WorkerAssumption DEF W!WorkerAssumption, W!IsFiniteSet, IsFiniteSet
<1>2. PICK A : A = W!InHand
  OBVIOUS
<1>3. PICK B : B = W!InHand'
  OBVIOUS
<1>4. A \in SUBSET Threads /\ B \in SUBSET Threads /\ A \ {t} = B \ {t}
  BY <1>2, <1>3 DEF W!InHand
<1>5. /\ Cardinality(A) \in Nat /\ Cardinality(B) \in Nat
      /\ t \in A /\ t \notin B => Cardinality(B) = Cardinality(A) - 1
      /\ t \notin A /\ t \in B => Cardinality(B) = Cardinality(A) + 1
      /\ (t \in A <=> t \in B) => Cardinality(B) = Cardinality(A)
  BY <1>1, <1>4, OneElement
<1>6. PICK C : C = W!Starting
  OBVIOUS
<1>7. PICK D : D = W!Starting'
  OBVIOUS
<1>8. C \in SUBSET Threads /\ D \in SUBSET Threads /\ C \ {t} = D \ {t}
  BY <1>6, <1>7 DEF W!Starting
<1>9. /\ Cardinality(C) \in Nat /\ Cardinality(D) \in Nat
      /\ t \in C /\ t \notin D => Cardinality(D) = Cardinality(C) - 1
      /\ t \notin C /\ t \in D => Cardinality(D) = Cardinality(C) + 1
      /\ (t \in C <=> t \in D) => Cardinality(D) = Cardinality(C)
  BY <1>1, <1>8, OneElement
<1> QED
  BY <1>2, <1>3, <1>5, <1>6, <1>7, <1>9

\* What the system holds, as a sum over the objects and the kinds of operation.
LEMMA AsUnits ==
  ASSUME NEW q
  PROVE  \E f : /\ f = [p \in Places |-> q[p[1]][p[2]]]
                /\ Units(f, Places) = UNION {{p} \X (1 .. q[p[1]][p[2]]) : p \in W!Workers \X W!Kinds}
<1>1. PICK f : f = [p \in Places |-> q[p[1]][p[2]]]
  OBVIOUS
<1>2. \A p \in Places : f[p] = q[p[1]][p[2]]
  BY <1>1
<1>3. \A x : x \in Units(f, Places) <=> \E p \in Places : x \in {p} \X (1 .. f[p])
  BY DEF Units
<1>4. \A x : x \in UNION {{p} \X (1 .. q[p[1]][p[2]]) : p \in Places}
             <=> \E p \in Places : x \in {p} \X (1 .. q[p[1]][p[2]])
  OBVIOUS
<1>5. \A x : x \in Units(f, Places) <=> x \in UNION {{p} \X (1 .. q[p[1]][p[2]]) : p \in Places}
  BY <1>2, <1>3, <1>4
<1>6. Units(f, Places) = UNION {{p} \X (1 .. q[p[1]][p[2]]) : p \in Places}
  BY <1>5, Zenon
<1> QED
  BY <1>1, <1>6 DEF Places

\* One more operation, and one less.
LEMMA MoreHeld ==
  ASSUME W!TypeOK, IsFiniteSet(W!Outstanding), NEW w \in W!Workers, NEW k \in W!Kinds,
         wio' = [wio EXCEPT ![w][k] = @ + 1]
  PROVE  /\ wio' \in [W!Workers -> [W!Kinds -> Nat]] /\ wio'[w][k] = wio[w][k] + 1
         /\ \A v \in W!Workers : v # w => wio'[v] = wio[v]
         /\ \A m \in W!Kinds : m # k => wio'[w][m] = wio[w][m]
         /\ IsFiniteSet(W!Outstanding') /\ Cardinality(W!Outstanding) \in Nat
         /\ Cardinality(W!Outstanding') = Cardinality(W!Outstanding) + 1
<1>0. wio \in [W!Workers -> [W!Kinds -> Nat]] /\ wio[w] \in [W!Kinds -> Nat] /\ wio[w][k] \in Nat
  BY DEF W!TypeOK
<1>1. wio' = [wio EXCEPT ![w] = [wio[w] EXCEPT ![k] = wio[w][k] + 1]]
  BY <1>0
<1>2. /\ wio' \in [W!Workers -> [W!Kinds -> Nat]] /\ wio'[w][k] = wio[w][k] + 1
      /\ \A v \in W!Workers : v # w => wio'[v] = wio[v]
      /\ \A m \in W!Kinds : m # k => wio'[w][m] = wio[w][m]
  BY <1>0, <1>1
<1>3. PICK f : /\ f = [p \in Places |-> wio[p[1]][p[2]]] /\ W!Outstanding = Units(f, Places)
  <2>1. W!Outstanding = UNION {{p} \X (1 .. wio[p[1]][p[2]]) : p \in W!Workers \X W!Kinds}
    BY DEF W!Outstanding
  <2>2. PICK f : /\ f = [p \in Places |-> wio[p[1]][p[2]]]
                 /\ Units(f, Places) = UNION {{p} \X (1 .. wio[p[1]][p[2]]) : p \in W!Workers \X W!Kinds}
    BY AsUnits
  <2> QED
    BY <2>1, <2>2
<1>4. PICK g : /\ g = [p \in Places |-> wio'[p[1]][p[2]]] /\ W!Outstanding' = Units(g, Places)
  <2>1. PICK q : q = wio'
    OBVIOUS
  <2>2. W!Outstanding' = UNION {{p} \X (1 .. q[p[1]][p[2]]) : p \in W!Workers \X W!Kinds}
    BY <2>1 DEF W!Outstanding
  <2>3. PICK g : /\ g = [p \in Places |-> q[p[1]][p[2]]]
                 /\ Units(g, Places) = UNION {{p} \X (1 .. q[p[1]][p[2]]) : p \in W!Workers \X W!Kinds}
    BY AsUnits
  <2> QED
    BY <2>1, <2>2, <2>3
<1>5. PICK D : D = Places
  OBVIOUS
<1>6. PICK d \in Places : d = <<w, k>>
  BY DEF Places
<1>7. f[d] \in Nat /\ g[d] = f[d] + 1
  BY <1>0, <1>2, <1>3, <1>4, <1>6
<1>8. \A e \in Places : e # d => g[e] = f[e]
  <2> SUFFICES ASSUME NEW e \in Places, e # d PROVE g[e] = f[e]
    OBVIOUS
  <2>1. PICK v \in W!Workers, m \in W!Kinds : e = <<v, m>>
    BY DEF Places
  <2>2. g[e] = wio'[v][m] /\ f[e] = wio[v][m] /\ (v # w \/ m # k)
    BY <1>3, <1>4, <1>6, <2>1
  <2> QED
    BY <1>2, <2>2
<1>9. IsFiniteSet(Units(f, D))
  BY <1>3, <1>5 DEF W!IsFiniteSet, IsFiniteSet
<1>10. /\ IsFiniteSet(Units(g, D)) /\ Cardinality(Units(f, D)) \in Nat
       /\ Cardinality(Units(g, D)) = Cardinality(Units(f, D)) + 1
  BY <1>5, <1>6, <1>7, <1>8, <1>9, UnitMore
<1> QED
  BY <1>2, <1>3, <1>4, <1>5, <1>10

LEMMA LessHeld ==
  ASSUME W!TypeOK, IsFiniteSet(W!Outstanding), NEW w \in W!Workers, NEW k \in W!Kinds, wio[w][k] > 0,
         wio' = [wio EXCEPT ![w][k] = @ - 1]
  PROVE  /\ wio' \in [W!Workers -> [W!Kinds -> Nat]] /\ wio'[w][k] = wio[w][k] - 1
         /\ \A v \in W!Workers : v # w => wio'[v] = wio[v]
         /\ \A m \in W!Kinds : m # k => wio'[w][m] = wio[w][m]
         /\ IsFiniteSet(W!Outstanding') /\ Cardinality(W!Outstanding) \in Nat
         /\ Cardinality(W!Outstanding') = Cardinality(W!Outstanding) - 1
<1>0. wio \in [W!Workers -> [W!Kinds -> Nat]] /\ wio[w] \in [W!Kinds -> Nat] /\ wio[w][k] \in Nat
  BY DEF W!TypeOK
<1>1. wio' = [wio EXCEPT ![w] = [wio[w] EXCEPT ![k] = wio[w][k] - 1]]
  BY <1>0
<1>2. /\ wio' \in [W!Workers -> [W!Kinds -> Nat]] /\ wio'[w][k] = wio[w][k] - 1
      /\ \A v \in W!Workers : v # w => wio'[v] = wio[v]
      /\ \A m \in W!Kinds : m # k => wio'[w][m] = wio[w][m]
  BY <1>0, <1>1
<1>3. PICK f : /\ f = [p \in Places |-> wio[p[1]][p[2]]] /\ W!Outstanding = Units(f, Places)
  <2>1. W!Outstanding = UNION {{p} \X (1 .. wio[p[1]][p[2]]) : p \in W!Workers \X W!Kinds}
    BY DEF W!Outstanding
  <2>2. PICK f : /\ f = [p \in Places |-> wio[p[1]][p[2]]]
                 /\ Units(f, Places) = UNION {{p} \X (1 .. wio[p[1]][p[2]]) : p \in W!Workers \X W!Kinds}
    BY AsUnits
  <2> QED
    BY <2>1, <2>2
<1>4. PICK g : /\ g = [p \in Places |-> wio'[p[1]][p[2]]] /\ W!Outstanding' = Units(g, Places)
  <2>1. PICK q : q = wio'
    OBVIOUS
  <2>2. W!Outstanding' = UNION {{p} \X (1 .. q[p[1]][p[2]]) : p \in W!Workers \X W!Kinds}
    BY <2>1 DEF W!Outstanding
  <2>3. PICK g : /\ g = [p \in Places |-> q[p[1]][p[2]]]
                 /\ Units(g, Places) = UNION {{p} \X (1 .. q[p[1]][p[2]]) : p \in W!Workers \X W!Kinds}
    BY AsUnits
  <2> QED
    BY <2>1, <2>2, <2>3
<1>5. PICK D : D = Places
  OBVIOUS
<1>6. PICK d \in Places : d = <<w, k>>
  BY DEF Places
<1>7. f[d] \in Nat /\ f[d] > 0 /\ g[d] = f[d] - 1
  BY <1>0, <1>2, <1>3, <1>4, <1>6
<1>8. \A e \in Places : e # d => g[e] = f[e]
  <2> SUFFICES ASSUME NEW e \in Places, e # d PROVE g[e] = f[e]
    OBVIOUS
  <2>1. PICK v \in W!Workers, m \in W!Kinds : e = <<v, m>>
    BY DEF Places
  <2>2. g[e] = wio'[v][m] /\ f[e] = wio[v][m] /\ (v # w \/ m # k)
    BY <1>3, <1>4, <1>6, <2>1
  <2> QED
    BY <1>2, <2>2
<1>9. IsFiniteSet(Units(f, D))
  BY <1>3, <1>5 DEF W!IsFiniteSet, IsFiniteSet
<1>10. /\ IsFiniteSet(Units(g, D)) /\ Cardinality(Units(f, D)) \in Nat
       /\ Cardinality(Units(g, D)) = Cardinality(Units(f, D)) - 1
  BY <1>5, <1>6, <1>7, <1>8, <1>9, UnitLess
<1> QED
  BY <1>2, <1>3, <1>4, <1>5, <1>10

LEMMA SameHeld ==
  ASSUME IsFiniteSet(W!Outstanding), UNCHANGED wio
  PROVE  W!Outstanding' = W!Outstanding /\ Cardinality(W!Outstanding) \in Nat
BY FS_CardinalityType DEF W!Outstanding

\* One counter of one object is one more.
LEMMA CountStep ==
  ASSUME W!TypeOK, NEW w \in W!Workers, NEW c \in Counters, W!Count(w, c)
  PROVE  /\ n' \in [W!Workers -> [Counters -> Int]] /\ n'[w][c] = n[w][c] + 1
         /\ \A v \in W!Workers : v # w => n'[v] = n[v]
         /\ \A d \in Counters : d # c => n'[w][d] = n[w][d]
         /\ n[w] \in [Counters -> Int]
<1>0. n \in [W!Workers -> [Counters -> Int]] /\ n[w] \in [Counters -> Int] /\ n[w][c] \in Int
  <2>1. W!TypeOK => n \in [W!Workers -> [{"recv", "recved", "write", "writed", "error"} -> Int]]
    BY DEF W!TypeOK
  <2>2. n \in [W!Workers -> [Counters -> Int]]
    BY <2>1 DEF Counters
  <2> QED
    BY <2>2
<1>1. n' = [n EXCEPT ![w] = [n[w] EXCEPT ![c] = n[w][c] + 1]]
  BY <1>0 DEF W!Count
<1> QED
  BY <1>0, <1>1

\* A list of buffers or requests.
LEMMA ListNumbers ==
  ASSUME NEW p \in [made : Nat, free : Nat]
  PROVE  /\ W!Taken(p) \in [made : Nat, free : Nat] /\ W!Taken(p).made - W!Taken(p).free = p.made - p.free + 1
         /\ W!Back(p) \in [made : Nat, free : Nat] /\ W!Back(p).made - W!Back(p).free = p.made - p.free - 1
<1>1. W!Back(p) \in [made : Nat, free : Nat] /\ W!Back(p).made - W!Back(p).free = p.made - p.free - 1
  BY DEF W!Back
<1>2. CASE p.free > 0
  BY <1>1, <1>2 DEF W!Taken
<1>3. CASE ~(p.free > 0)
  BY <1>1, <1>3 DEF W!Taken
<1> QED
  BY <1>2, <1>3

----------------------------------------------------------------------------
(* What the threads have still to count                                    *)

\* What one thread's step s has still to count.
Weight(s) == One(s \in PostedSteps) - One(s \in FailedSteps)

LEMMA Weights ==
  /\ \A s : Weight(s) \in {0, 1, -1}
  /\ \A s : s \in PostedSteps => Weight(s) = 1
  /\ \A s : s \in FailedSteps => Weight(s) = -1
  /\ \A s : s \notin PostedSteps \cup FailedSteps => Weight(s) = 0
BY DEF Weight, One, PostedSteps, FailedSteps

\* The sum changes with the share of the thread that makes the step, and is that share
\* when nobody else works for the object.
LEMMA DebtStep ==
  ASSUME WorkerAssumption, NEW t \in Threads, NEW v, NEW a, NEW b,
         \A u \in Threads : u # t => wpc'[u] = wpc[u] /\ obj'[u] = obj[u],
         a = (IF obj[t] = v THEN Weight(wpc[t]) ELSE 0),
         b = (IF obj'[t] = v THEN Weight(wpc'[t]) ELSE 0)
  PROVE  /\ a \in Int /\ b \in Int /\ Debt(v) \in Int /\ Debt(v)' \in Int
         /\ Debt(v)' - b = Debt(v) - a
         /\ (\A u \in Threads : u # t => ~On(u, v)) => Debt(v) = a
         /\ (\A u \in Threads : u # t => ~On(u, v)') => Debt(v)' = b
<1>1. IsFiniteSet(Threads)
  BY WorkerAssumption DEF W!WorkerAssumption, W!IsFiniteSet, IsFiniteSet
<1>2. PICK P : P = Posteds(v)
  OBVIOUS
<1>3. PICK Q : Q = Posteds(v)'
  OBVIOUS
<1>4. PICK F : F = Faileds(v)
  OBVIOUS
<1>5. PICK G : G = Faileds(v)'
  OBVIOUS
<1>6. /\ P \in SUBSET Threads /\ Q \in SUBSET Threads /\ P \ {t} = Q \ {t}
      /\ F \in SUBSET Threads /\ G \in SUBSET Threads /\ F \ {t} = G \ {t}
  BY <1>2, <1>3, <1>4, <1>5 DEF Posteds, Faileds, On
<1>7. /\ Cardinality(P) \in Nat /\ Cardinality(Q) \in Nat
      /\ t \in P /\ t \notin Q => Cardinality(Q) = Cardinality(P) - 1
      /\ t \notin P /\ t \in Q => Cardinality(Q) = Cardinality(P) + 1
      /\ (t \in P <=> t \in Q) => Cardinality(Q) = Cardinality(P)
  BY <1>1, <1>6, OneElement
<1>8. /\ Cardinality(F) \in Nat /\ Cardinality(G) \in Nat
      /\ t \in F /\ t \notin G => Cardinality(G) = Cardinality(F) - 1
      /\ t \notin F /\ t \in G => Cardinality(G) = Cardinality(F) + 1
      /\ (t \in F <=> t \in G) => Cardinality(G) = Cardinality(F)
  BY <1>1, <1>6, OneElement
<1>9. a = One(t \in P) - One(t \in F) /\ b = One(t \in Q) - One(t \in G)
  <2>1. /\ t \in P <=> obj[t] = v /\ wpc[t] \in PostedSteps
        /\ t \in F <=> obj[t] = v /\ wpc[t] \in FailedSteps
        /\ t \in Q <=> obj'[t] = v /\ wpc'[t] \in PostedSteps
        /\ t \in G <=> obj'[t] = v /\ wpc'[t] \in FailedSteps
    BY <1>2, <1>3, <1>4, <1>5 DEF Posteds, Faileds, On, PostedSteps, FailedSteps
  <2> QED
    BY <2>1 DEF Weight, One
<1>10. /\ Debt(v) = Cardinality(P) - Cardinality(F)
       /\ Debt(v)' = Cardinality(Q) - Cardinality(G)
  BY <1>2, <1>3, <1>4, <1>5 DEF Debt
<1>11. /\ Cardinality(Q) - One(t \in Q) = Cardinality(P) - One(t \in P)
       /\ Cardinality(G) - One(t \in G) = Cardinality(F) - One(t \in F)
  BY <1>7, <1>8 DEF One
<1>12. \A S : S \subseteq {t} => Cardinality(S) = One(t \in S)
  <2> SUFFICES ASSUME NEW S, S \subseteq {t} PROVE Cardinality(S) = One(t \in S)
    OBVIOUS
  <2>1. CASE t \in S
    <3>1. S = {t} /\ Cardinality({t}) = 1
      BY <2>1, FS_Singleton
    <3> QED
      BY <2>1, <3>1 DEF One
  <2>2. CASE t \notin S
    <3>1. S = {} /\ Cardinality({}) = 0
      BY <2>2, FS_EmptySet
    <3> QED
      BY <2>2, <3>1 DEF One
  <2> QED
    BY <2>1, <2>2
<1>13. ASSUME \A u \in Threads : u # t => ~On(u, v) PROVE Debt(v) = a
  <2>1. P \subseteq {t} /\ F \subseteq {t}
    BY <1>2, <1>4, <1>13 DEF Posteds, Faileds
  <2>2. Cardinality(P) = One(t \in P) /\ Cardinality(F) = One(t \in F)
    BY <1>12, <2>1
  <2> QED
    BY <1>9, <1>10, <2>2
<1>14. ASSUME \A u \in Threads : u # t => ~On(u, v)' PROVE Debt(v)' = b
  <2>1. Q \subseteq {t} /\ G \subseteq {t}
    BY <1>3, <1>5, <1>14 DEF Posteds, Faileds
  <2>2. Cardinality(Q) = One(t \in Q) /\ Cardinality(G) = One(t \in G)
    BY <1>12, <2>1
  <2> QED
    BY <1>9, <1>10, <2>2
<1>15. One(t \in P) \in Int /\ One(t \in Q) \in Int /\ One(t \in F) \in Int /\ One(t \in G) \in Int
  BY DEF One
<1>16. Debt(v) \in Int /\ Debt(v)' \in Int /\ a \in Int /\ b \in Int
  BY <1>7, <1>8, <1>9, <1>10, <1>15
<1>17. Debt(v)' - b = Debt(v) - a
  BY <1>7, <1>8, <1>9, <1>10, <1>11, <1>15
<1> QED
  BY <1>13, <1>14, <1>16, <1>17

----------------------------------------------------------------------------
(* The steps                                                               *)

\* A thread that works for object w goes from step a to step s: what the invariant wants of
\* the object's counters, operations and socket.
Step(w, a, s) ==
  /\ a \notin {"idle", "accepted", "refuse"} /\ s # "start"
  /\ s \in Early => a \in Early /\ wio'[w] = wio[w]
  /\ s \in Late => a \in Late \/ socket'[w] = 0
  /\ socket'[w] \in {socket[w], 0}
  /\ a # "start" /\ s # "refuse" =>
       Level(n'[w], wio'[w]) + Weight(s) = Level(n[w], wio[w]) + Weight(a)
  /\ a = "start" /\ s # "refuse" /\ Quiet(wio[w]) /\ n[w]["error"] = 0 =>
       s = "sread" /\ Level(n'[w], wio'[w]) = 0

LEMMA LevelInt ==
  ASSUME NEW c \in [Counters -> Int], NEW i \in [W!Kinds -> Nat]
  PROVE  Level(c, i) \in Int
BY DEF Level, Counters, W!Kinds

\* One operation more or less.
LEMMA OperationLevel ==
  ASSUME NEW c \in [Counters -> Int], NEW i \in [W!Kinds -> Nat], NEW j \in [W!Kinds -> Nat],
         NEW k \in W!Kinds, NEW x \in {1, -1}, j[k] = i[k] + x, \A m \in W!Kinds : m # k => j[m] = i[m]
  PROVE  Level(c, j) = Level(c, i) - x
<1>1. PICK x1, x2, x3, x4, x5 :
        x1 = c["recv"] /\ x2 = c["write"] /\ x3 = c["recved"] /\ x4 = c["writed"] /\ x5 = c["error"]
  OBVIOUS
<1>2. PICK i1, i2, j1, j2 : i1 = i["read"] /\ i2 = i["write"] /\ j1 = j["read"] /\ j2 = j["write"]
  OBVIOUS
<1>3. /\ x1 \in Int /\ x2 \in Int /\ x3 \in Int /\ x4 \in Int /\ x5 \in Int
      /\ i1 \in Int /\ i2 \in Int /\ j1 \in Int /\ j2 \in Int
  BY <1>1, <1>2 DEF Counters, W!Kinds
<1>4. j1 + j2 = i1 + i2 + x
  <2>1. CASE k = "read"
    BY <1>2, <1>3, <2>1 DEF W!Kinds
  <2>2. CASE k = "write"
    BY <1>2, <1>3, <2>2 DEF W!Kinds
  <2> QED
    BY <2>1, <2>2 DEF W!Kinds
<1>5. Level(c, j) = x1 + x2 - x3 - x4 - x5 - j1 - j2
  BY <1>1, <1>2 DEF Level
<1>6. Level(c, i) = x1 + x2 - x3 - x4 - x5 - i1 - i2
  BY <1>1, <1>2 DEF Level
<1> QED
  BY <1>3, <1>4, <1>5, <1>6

\* The object that the thread works for.
LEMMA CallGood ==
  ASSUME WorkerAssumption, NEW t \in Threads, NEW w, w # 0, obj[t] = w, NEW s, Good(w),
         \A u \in Threads : u # t => wpc'[u] = wpc[u] /\ obj'[u] = obj[u],
         wpc'[t] = s, s # "idle" => obj'[t] = w, s = "idle" => obj'[t] = 0,
         UNCHANGED <<freeWorkers, refused>>, Step(w, wpc[t], s),
         n[w] \in [Counters -> Int], n'[w] \in [Counters -> Int],
         wio[w] \in [W!Kinds -> Nat], wio'[w] \in [W!Kinds -> Nat]
  PROVE  Good(w)'
<1>1. /\ On(t, w) /\ ~IsFree(w) /\ OnceFree(w)
      /\ \A u \in Threads : u # t => (On(u, w)' <=> On(u, w))
      /\ On(t, w)' <=> s \notin {"idle", "accepted"}
  BY DEF On, Step, Good
<1>2. ~IsFree(w)' /\ OnceFree(w)'
  BY <1>1 DEF IsFree, OnceFree
<1>3. ASSUME NEW u \in Threads, On(u, w)', wpc'[u] \in Early
      PROVE  /\ Quiet(wio[w])' /\ \A x \in Threads : On(x, w)' => x = u
             /\ wpc'[u] = "start" => n'[w]["error"] = 0
  <2>1. u = t
    <3>1. CASE u # t
      <4>1. On(u, w) /\ wpc[u] \in Early
        BY <1>1, <1>3, <3>1
      <4> QED
        BY <1>1, <3>1, <4>1 DEF Good
    <3> QED
      BY <3>1
  <2>2. wpc[t] \in Early /\ wio'[w] = wio[w] /\ s # "start"
    BY <1>3, <2>1 DEF Step
  <2>3. Quiet(wio[w]) /\ \A x \in Threads : On(x, w) => x = t
    BY <1>1, <2>2 DEF Good
  <2> QED
    BY <1>1, <2>1, <2>2, <2>3 DEF Quiet
<1>4. ASSUME NEW u \in Threads, On(u, w)', wpc'[u] \in Late PROVE socket'[w] = 0
  <2>1. CASE u = t
    BY <1>1, <1>4, <2>1 DEF Good, Step
  <2>2. CASE u # t
    BY <1>1, <1>4, <2>2 DEF Good, Step
  <2> QED
    BY <2>1, <2>2
<1>5. ASSUME Counted(w)' PROVE Level(n[w], wio[w])' + Debt(w)' = 0
  <2>1. s # "refuse"
    BY <1>1, <1>5 DEF Counted
  <2>2. PICK a : a = Weight(wpc[t])
    OBVIOUS
  <2>3. PICK b : b = Weight(s)
    OBVIOUS
  <2>4. /\ a = (IF obj[t] = w THEN Weight(wpc[t]) ELSE 0)
        /\ b = (IF obj'[t] = w THEN Weight(wpc'[t]) ELSE 0)
    <3>1. s = "idle" => Weight(s) = 0
      BY Weights DEF PostedSteps, FailedSteps
    <3> QED
      BY <2>2, <2>3, <3>1
  <2>5. /\ a \in Int /\ b \in Int /\ Debt(w) \in Int /\ Debt(w)' \in Int
        /\ Debt(w)' - b = Debt(w) - a
        /\ (\A u \in Threads : u # t => ~On(u, w)') => Debt(w)' = b
    BY <2>4, DebtStep
  <2>6. PICK l : l = Level(n[w], wio[w])
    OBVIOUS
  <2>7. PICK m : m = Level(n'[w], wio'[w])
    OBVIOUS
  <2>8. l \in Int /\ m \in Int
    BY <2>6, <2>7, LevelInt
  <2>9. CASE Counted(w)
    <3>1. wpc[t] # "start"
      BY <1>1, <2>9 DEF Counted
    <3>2. m + b = l + a
      BY <2>1, <2>2, <2>3, <2>6, <2>7, <3>1 DEF Step
    <3>3. l + Debt(w) = 0
      BY <2>6, <2>9 DEF Good
    <3>4. m + Debt(w)' = 0
      BY <2>5, <2>8, <3>2, <3>3
    <3> QED
      BY <2>7, <3>4 DEF Level
  <2>10. CASE ~Counted(w)
    <3>1. PICK u \in Threads : On(u, w) /\ wpc[u] \in {"start", "refuse"}
      BY <1>1, <2>10 DEF Counted
    <3>2. u = t /\ wpc[t] \in Early
      BY <1>1, <3>1 DEF Good, Early
    <3>3. wpc[t] = "start" /\ Quiet(wio[w]) /\ n[w]["error"] = 0 /\ \A x \in Threads : On(x, w) => x = t
      BY <1>1, <3>1, <3>2 DEF Good, Step
    <3>4. s = "sread" /\ m = 0
      BY <2>1, <2>7, <3>3 DEF Step
    <3>5. Debt(w)' = b /\ b = 0
      <4>1. b = 0
        BY <2>3, <3>4, Weights DEF PostedSteps, FailedSteps
      <4> QED
        BY <1>1, <2>5, <3>3, <4>1
    <3> QED
      BY <2>7, <3>4, <3>5 DEF Level
  <2> QED
    BY <2>9, <2>10
<1> QED
  BY <1>2, <1>3, <1>4, <1>5 DEF Good

\* Another object.
LEMMA OtherGood ==
  ASSUME NEW t \in Threads, NEW v, v # 0, obj[t] # v, obj'[t] # v, Good(v),
         \A u \in Threads : u # t => wpc'[u] = wpc[u] /\ obj'[u] = obj[u],
         n'[v] = n[v], wio'[v] = wio[v], socket'[v] = socket[v], refused \subseteq refused',
         IsFree(v)' <=> IsFree(v), OnceFree(v)'
  PROVE  Good(v)'
<1>1. \A u \in Threads : (On(u, v)' <=> On(u, v)) /\ (On(u, v) => wpc'[u] = wpc[u])
  BY DEF On
<1> QED
  BY <1>1, SameGood

\* Nothing of another object changes.
OnlyOf(w) == \A v \in W!Workers : v # w => n'[v] = n[v] /\ wio'[v] = wio[v] /\ socket'[v] = socket[v]
\* The types of what a step gives an object.
ObjectTypes ==
  /\ socket' \in [W!Workers -> 0 .. MaxSessions]
  /\ wstatus' \in [W!Workers -> {"stop", "run", "error"}]
  /\ res' \in [W!Workers -> {0, -4}]
  /\ n' \in [W!Workers -> [Counters -> Int]]
  /\ wio' \in [W!Workers -> [W!Kinds -> Nat]]
  /\ bufs' \in [made : Nat, free : Nat] /\ reqs' \in [made : Nat, free : Nat]
  /\ todo' \in [Threads -> 0 .. MaxAnswers] /\ wopened' \subseteq 1 .. MaxSessions

\* A step of a thread's call for its object that leaves the list of objects alone.
LEMMA CallStep ==
  ASSUME WorkerAssumption, WInv, NEW t \in Threads, NEW w, w = obj[t], wpc[t] # "idle",
         NEW s \in W!Steps, W!GoTo(t, s), t \in W!Starting <=> t \in W!Starting',
         UNCHANGED <<freeWorkers, made, acceptNum, sessions, messages, refused, suspect, silent>>,
         ObjectTypes, OnlyOf(w), Held', W!PoolsWhole', IsFiniteSet(W!Outstanding'),
         Step(w, wpc[t], s)
  PROVE  WInv'
<1>1. /\ wpc' \in [Threads -> W!Steps] /\ obj' \in [Threads -> 0 .. made]
      /\ \A u \in Threads : (obj'[u] = 0) <=> (wpc'[u] = "idle")
      /\ wpc'[t] = s /\ (s # "idle" => obj'[t] = obj[t]) /\ (s = "idle" => obj'[t] = 0)
      /\ \A u \in Threads : u # t => wpc'[u] = wpc[u] /\ obj'[u] = obj[u]
      /\ obj[t] \in 1 .. made /\ obj[t] \in W!Workers
  BY GoesTo DEF WInv
<1>2. W!TypeOK'
  BY <1>1 DEF WInv, W!TypeOK, ObjectTypes, Counters, W!NoWorker
<1>3. AcceptSum'
  <2>1. Cardinality(W!Starting') = Cardinality(W!Starting)
    BY <1>1, ThreadCounts
  <2> QED
    BY <2>1 DEF WInv, AcceptSum
<1>4. Unused'
  <2> SUFFICES ASSUME NEW v \in W!Workers, v > made PROVE Quiet(wio'[v]) /\ socket'[v] = 0
    BY DEF Unused, Quiet
  <2>1. v # w
    BY <1>1 DEF WInv, W!TypeOK
  <2> QED
    BY <2>1 DEF OnlyOf, WInv, Unused
<1>5. ASSUME NEW v \in (1 .. made) \ suspect PROVE Good(v)'
  <2>0. Good(v) /\ v \in W!Workers /\ v # 0
    BY WorkerAssumption DEF WInv, W!Workers, W!TypeOK, W!WorkerAssumption
  <2>1. CASE v # w
    <3>1. n'[v] = n[v] /\ wio'[v] = wio[v] /\ socket'[v] = socket[v]
      BY <2>0, <2>1 DEF OnlyOf
    <3>2. (IsFree(v)' <=> IsFree(v)) /\ OnceFree(v)' /\ obj[t] # v /\ obj'[t] # v
      BY <1>1, <2>0, <2>1 DEF IsFree, OnceFree, Good
    <3> QED
      BY <1>1, <2>0, <3>1, <3>2, OtherGood
  <2>2. CASE v = w
    <3>1. /\ n[w] \in [Counters -> Int] /\ n'[w] \in [Counters -> Int]
          /\ wio[w] \in [W!Kinds -> Nat] /\ wio'[w] \in [W!Kinds -> Nat]
      BY <1>1 DEF WInv, W!TypeOK, ObjectTypes, Counters
    <3> QED
      BY <1>1, <2>0, <2>2, <3>1, CallGood
  <2> QED
    BY <2>1, <2>2
<1>6. \A v \in (1 .. made') \ suspect' : Good(v)'
  BY <1>5
<1> QED
  BY <1>2, <1>3, <1>4, <1>6 DEF WInv

\* The numbers of the lists, when the operations, the packets in hand or neither change.
LEMMA ListsStay ==
  ASSUME W!PoolsWhole, UNCHANGED <<bufs, reqs>>, Cardinality(W!Outstanding') = Cardinality(W!Outstanding),
         Cardinality(W!InHand') = Cardinality(W!InHand)
  PROVE  W!PoolsWhole'
BY DEF W!PoolsWhole, W!Cardinality, Cardinality

LEMMA PoolNumbers ==
  /\ W!PoolsWhole <=>
       /\ bufs.made = bufs.free + (Cardinality(W!Outstanding) + Cardinality(W!InHand))
       /\ reqs.made = reqs.free + (Cardinality(W!Outstanding) + Cardinality(W!InHand))
  /\ W!PoolsWhole' <=>
       /\ bufs'.made = bufs'.free + (Cardinality(W!Outstanding') + Cardinality(W!InHand'))
       /\ reqs'.made = reqs'.free + (Cardinality(W!Outstanding') + Cardinality(W!InHand'))
BY DEF W!PoolsWhole, W!Cardinality, Cardinality

\* A step that neither posts nor dequeues, and takes or gives back nothing.
LEMMA PlainStep ==
  ASSUME WorkerAssumption, WInv, NEW t \in Threads, NEW w, w = obj[t], wpc[t] # "idle",
         NEW s \in W!Steps, W!GoTo(t, s), t \in W!Starting <=> t \in W!Starting',
         t \in W!InHand <=> t \in W!InHand', UNCHANGED <<wio, bufs, reqs>>,
         UNCHANGED <<freeWorkers, made, acceptNum, sessions, messages, refused, suspect, silent>>,
         ObjectTypes, OnlyOf(w), Held', Step(w, wpc[t], s)
  PROVE  WInv'
<1>1. \A u \in Threads : u # t => wpc'[u] = wpc[u]
  BY GoesTo DEF WInv
<1>2. Cardinality(W!InHand') = Cardinality(W!InHand)
  BY <1>1, ThreadCounts
<1>3. W!Outstanding' = W!Outstanding
  BY SameHeld DEF WInv
<1>4. W!PoolsWhole' /\ IsFiniteSet(W!Outstanding')
  BY <1>2, <1>3, ListsStay DEF WInv
<1> QED
  BY <1>4, CallStep

\* The open sockets, when nothing of them changes.
LEMMA HeldSame ==
  ASSUME Held, UNCHANGED <<socket, wopened, refused, suspect>>
  PROVE  Held'
BY DEF Held

\* What is known of the thread of a step of a call, before it.
LEMMA CallFacts ==
  ASSUME WorkerAssumption, WInv, NEW t \in Threads, wpc[t] # "idle"
  PROVE  /\ obj[t] \in W!Workers /\ obj[t] \in 1 .. made
         /\ socket \in [W!Workers -> 0 .. MaxSessions]
         /\ wstatus \in [W!Workers -> {"stop", "run", "error"}]
         /\ res \in [W!Workers -> {0, -4}] /\ res[obj[t]] \in {0, -4}
         /\ n \in [W!Workers -> [Counters -> Int]] /\ n[obj[t]] \in [Counters -> Int]
         /\ wio \in [W!Workers -> [W!Kinds -> Nat]] /\ wio[obj[t]] \in [W!Kinds -> Nat]
         /\ bufs \in [made : Nat, free : Nat] /\ reqs \in [made : Nat, free : Nat]
         /\ todo \in [Threads -> 0 .. MaxAnswers] /\ todo[t] \in 0 .. MaxAnswers
         /\ wopened \subseteq 1 .. MaxSessions /\ 0 \in 0 .. MaxSessions
<1>1. n \in [W!Workers -> [Counters -> Int]]
  <2>1. W!TypeOK => n \in [W!Workers -> [{"recv", "recved", "write", "writed", "error"} -> Int]]
    BY DEF W!TypeOK
  <2> QED
    BY <2>1 DEF Counters, WInv
<1>2. obj[t] \in W!Workers /\ obj[t] \in 1 .. made
  <2>1. /\ obj \in [Threads -> 0 .. made] /\ made \in 0 .. MaxWorkers
        /\ \A u \in Threads : (obj[u] = 0) <=> (wpc[u] = "idle")
    BY DEF WInv, W!TypeOK, W!NoWorker
  <2>2. MaxWorkers \in Nat
    BY WorkerAssumption DEF W!WorkerAssumption
  <2> QED
    BY <2>1, <2>2 DEF W!Workers
<1>3. /\ socket \in [W!Workers -> 0 .. MaxSessions]
      /\ wstatus \in [W!Workers -> {"stop", "run", "error"}]
      /\ res \in [W!Workers -> {0, -4}]
      /\ wio \in [W!Workers -> [W!Kinds -> Nat]]
      /\ bufs \in [made : Nat, free : Nat] /\ reqs \in [made : Nat, free : Nat]
      /\ todo \in [Threads -> 0 .. MaxAnswers] /\ wopened \subseteq 1 .. MaxSessions
  BY DEF WInv, W!TypeOK
<1>4. 0 \in 0 .. MaxSessions
  BY WorkerAssumption DEF W!WorkerAssumption
<1> QED
  BY <1>1, <1>2, <1>3, <1>4

LEMMA OneCounter ==
  \A f \in [Counters -> Int], d \in Counters :
    /\ [f EXCEPT ![d] = 0] \in [Counters -> Int] /\ [f EXCEPT ![d] = 0][d] = 0
    /\ \A e \in Counters : e # d => [f EXCEPT ![d] = 0][e] = f[e]
OBVIOUS


LEMMA StartInv == ASSUME WorkerAssumption, WInv, NEW t \in Threads, W!Start(t) PROVE WInv'
<1>1. PICK w : w = obj[t]
  OBVIOUS
<1>2. /\ wpc[t] = "start"
      /\ UNCHANGED <<socket, wstatus, res, wio, bufs, reqs, freeWorkers, made, acceptNum, todo,
                     wopened, sessions, messages, refused, suspect, silent>>
  BY DEF W!Start, W!objVars, W!poolVars, W!listVars, W!envVars, W!auxVars
<1>3. PICK s \in {"refuse", "sread"} :
        /\ W!GoTo(t, s)
        /\ s = "refuse" => n' = n
        /\ s = "sread" => n' = [n EXCEPT ![w] = W!Reset(n[w])]
  BY <1>1 DEF W!Start
<1>4. s \in W!Steps /\ s \notin {"idle", "accepted"}
  BY DEF W!Steps
<1>5. wpc'[t] = s
  BY <1>2, <1>3, <1>4, GoesTo DEF WInv
<1>6. (t \in W!Starting <=> t \in W!Starting') /\ (t \in W!InHand <=> t \in W!InHand')
  BY <1>2, <1>5 DEF W!Starting, W!InHand
<1>7. /\ w \in W!Workers /\ n \in [W!Workers -> [Counters -> Int]] /\ n[w] \in [Counters -> Int]
      /\ wio[w] \in [W!Kinds -> Nat]
  BY <1>1, <1>2, CallFacts
<1>8. /\ n' \in [W!Workers -> [Counters -> Int]] /\ \A v \in W!Workers : v # w => n'[v] = n[v]
      /\ n'[w]["error"] = n[w]["error"] /\ (s = "refuse" => n'[w] = n[w])
      /\ s = "sread" => n'[w]["recv"] = 0 /\ n'[w]["recved"] = 0 /\ n'[w]["write"] = 0 /\ n'[w]["writed"] = 0
  <2>1. CASE s = "refuse"
    BY <1>3, <1>7, <2>1
  <2>2. CASE s = "sread"
    <3>1. PICK r : r = W!Reset(n[w])
      OBVIOUS
    <3>2. /\ r \in [Counters -> Int] /\ r["error"] = n[w]["error"]
          /\ r["recv"] = 0 /\ r["recved"] = 0 /\ r["write"] = 0 /\ r["writed"] = 0
      <4>1. PICK c1 : c1 = [n[w] EXCEPT !["recv"] = 0]
        OBVIOUS
      <4>2. PICK c2 : c2 = [c1 EXCEPT !["recved"] = 0]
        OBVIOUS
      <4>3. PICK c3 : c3 = [c2 EXCEPT !["write"] = 0]
        OBVIOUS
      <4>4. r = [c3 EXCEPT !["writed"] = 0]
        BY <3>1, <4>1, <4>2, <4>3 DEF W!Reset
      <4>5. c1 \in [Counters -> Int] /\ c1["recv"] = 0 /\ c1["error"] = n[w]["error"]
        BY <1>7, <4>1, OneCounter DEF Counters
      <4>6. c2 \in [Counters -> Int] /\ c2["recved"] = 0 /\ c2["recv"] = 0 /\ c2["error"] = n[w]["error"]
        BY <4>2, <4>5, OneCounter DEF Counters
      <4>7. /\ c3 \in [Counters -> Int] /\ c3["write"] = 0
            /\ c3["recved"] = 0 /\ c3["recv"] = 0 /\ c3["error"] = n[w]["error"]
        BY <4>3, <4>6, OneCounter DEF Counters
      <4> QED
        BY <4>4, <4>7, OneCounter DEF Counters
    <3>3. n' = [n EXCEPT ![w] = r]
      BY <1>3, <2>2, <3>1
    <3> QED
      BY <1>7, <2>2, <3>2, <3>3
  <2> QED
    BY <2>1, <2>2
<1>9. ObjectTypes /\ OnlyOf(w) /\ Held'
  BY <1>2, <1>8, CallFacts, HeldSame DEF ObjectTypes, OnlyOf, WInv
<1>10. Step(w, wpc[t], s)
  <2>1. s = "sread" /\ Quiet(wio[w]) /\ n[w]["error"] = 0 => Level(n'[w], wio'[w]) = 0
    BY <1>2, <1>8 DEF Level, Quiet
  <2> QED
    BY <1>2, <1>3, <1>4, <2>1 DEF Step, Early, Late
<1> QED
  BY <1>1, <1>2, <1>3, <1>4, <1>6, <1>9, <1>10, PlainStep

\* A step that leaves the counters and the operations of the object alone.
LEMMA SameStep ==
  ASSUME NEW w, NEW a, NEW s, n'[w] = n[w], wio'[w] = wio[w], socket'[w] \in {socket[w], 0},
         a \notin {"idle", "accepted", "start", "refuse"}, s # "start",
         s \in Early => a \in Early, s \in Late => socket'[w] = 0,
         s # "refuse" => Weight(s) = Weight(a)
  PROVE  Step(w, a, s)
BY DEF Step, Level

LEMMA StartedInv == ASSUME WorkerAssumption, WInv, NEW t \in Threads, W!Started(t) PROVE WInv'
<1>1. PICK w : w = obj[t]
  OBVIOUS
<1>2. /\ wpc[t] = "started" /\ wstatus' = [wstatus EXCEPT ![w] = "run"] /\ W!GoTo(t, "accepted")
      /\ UNCHANGED <<socket, res, n, wio, bufs, reqs, freeWorkers, made, acceptNum, todo,
                     wopened, sessions, messages, refused, suspect, silent>>
  BY <1>1 DEF W!Started, W!poolVars, W!listVars, W!envVars, W!auxVars
<1>3. "accepted" \in W!Steps
  BY DEF W!Steps
<1>4. wpc'[t] = "accepted"
  BY <1>2, <1>3, GoesTo DEF WInv
<1>5. (t \in W!Starting <=> t \in W!Starting') /\ (t \in W!InHand <=> t \in W!InHand')
  BY <1>2, <1>4 DEF W!Starting, W!InHand
<1>6. ObjectTypes /\ OnlyOf(w) /\ Held'
  BY <1>1, <1>2, CallFacts, HeldSame DEF ObjectTypes, OnlyOf, WInv
<1>7. Step(w, wpc[t], "accepted")
  BY <1>2, SameStep, Weights DEF Early, Late, PostedSteps, FailedSteps
<1> QED
  BY <1>1, <1>2, <1>3, <1>5, <1>6, <1>7, PlainStep

LEMMA CountPostedInv == ASSUME WorkerAssumption, WInv, NEW t \in Threads, W!CountPosted(t) PROVE WInv'
<1>1. PICK w : w = obj[t]
  OBVIOUS
<1>2. PICK k \in DOMAIN W!Call :
        /\ wpc[t] = W!Call[k].posted
        /\ W!Count(w, IF W!Call[k].kind = "read" THEN "recv" ELSE "write")
        /\ res' = (IF k = "read" THEN [res EXCEPT ![w] = 0] ELSE res) /\ W!GoTo(t, W!Call[k].done)
        /\ UNCHANGED <<socket, wstatus, wio, bufs, reqs, freeWorkers, made, acceptNum, todo,
                       wopened, sessions, messages, refused, suspect, silent>>
  BY <1>1 DEF W!CountPosted, W!poolVars, W!listVars, W!envVars, W!auxVars
<1>3. PICK c \in {"recv", "write"}, s \in {"started", "rcheck", "write"} :
        /\ W!Count(w, c) /\ W!GoTo(t, s)
        /\ \/ wpc[t] = "scount" /\ s = "started"
           \/ wpc[t] = "rcount" /\ s = "rcheck"
           \/ wpc[t] = "wcount" /\ s = "write"
  <2>1. k \in {"sread", "read", "write"}
    BY <1>2 DEF W!Call
  <2>2. CASE k = "sread"
    BY <1>2, <2>2 DEF W!Call
  <2>3. CASE k = "read"
    BY <1>2, <2>3 DEF W!Call
  <2>4. CASE k = "write"
    BY <1>2, <2>4 DEF W!Call
  <2> QED
    BY <2>1, <2>2, <2>3, <2>4
<1>4. /\ s \in W!Steps /\ s \notin {"idle", "accepted", "start", "refuse"} /\ c \in Counters
      /\ wpc[t] \in PostedSteps /\ wpc[t] \notin {"idle", "accepted", "start", "refuse"}
      /\ s \notin Early /\ s \notin Late /\ Weight(s) = 0 /\ Weight(wpc[t]) = 1
  BY <1>3, Weights DEF W!Steps, Counters, Early, Late, PostedSteps, FailedSteps
<1>5. wpc'[t] = s
  BY <1>3, <1>4, GoesTo DEF WInv
<1>6. (t \in W!Starting <=> t \in W!Starting') /\ (t \in W!InHand <=> t \in W!InHand')
  BY <1>3, <1>5 DEF W!Starting, W!InHand
<1>7. /\ w \in W!Workers /\ res \in [W!Workers -> {0, -4}] /\ wio[w] \in [W!Kinds -> Nat]
  BY <1>1, <1>4, CallFacts
<1>8. /\ n' \in [W!Workers -> [Counters -> Int]] /\ n'[w][c] = n[w][c] + 1
      /\ \A v \in W!Workers : v # w => n'[v] = n[v]
      /\ \A d \in Counters : d # c => n'[w][d] = n[w][d]
      /\ n[w] \in [Counters -> Int]
  BY <1>3, <1>4, <1>7, CountStep DEF WInv
<1>9. ObjectTypes /\ OnlyOf(w) /\ Held'
  <2>1. res' \in [W!Workers -> {0, -4}]
    BY <1>2, <1>7
  <2> QED
    BY <1>2, <1>4, <1>7, <1>8, <2>1, CallFacts, HeldSame DEF ObjectTypes, OnlyOf, WInv
<1>10. Step(w, wpc[t], s)
  <2>1. n'[w]["recv"] + n'[w]["write"] = n[w]["recv"] + n[w]["write"] + 1
    BY <1>8 DEF Counters
  <2>2. n'[w]["recved"] = n[w]["recved"] /\ n'[w]["writed"] = n[w]["writed"] /\ n'[w]["error"] = n[w]["error"]
    BY <1>8 DEF Counters
  <2>3. Level(n'[w], wio'[w]) = Level(n[w], wio[w]) + 1
    BY <1>2, <1>7, <1>8, <2>1, <2>2 DEF Level, Counters, W!Kinds
  <2>4. Level(n[w], wio[w]) \in Int
    BY <1>7, <1>8, LevelInt
  <2> QED
    BY <1>2, <1>4, <2>3, <2>4 DEF Step
<1> QED
  BY <1>1, <1>2, <1>3, <1>4, <1>6, <1>9, <1>10, PlainStep

LEMMA CheckWriteInv == ASSUME WorkerAssumption, WInv, NEW t \in Threads, W!CheckWrite(t) PROVE WInv'
<1>1. PICK w : w = obj[t]
  OBVIOUS
<1>2. /\ wpc[t] = "wcheck"
      /\ UNCHANGED <<socket, wstatus, res, n, wio, bufs, reqs, freeWorkers, made, acceptNum, todo,
                     wopened, sessions, messages, refused, suspect, silent>>
  BY DEF W!CheckWrite, W!objVars, W!poolVars, W!listVars, W!envVars, W!auxVars
<1>3. PICK s \in {"stop", "read"} : W!GoTo(t, s)
  BY DEF W!CheckWrite
<1>4. s \in W!Steps
  BY DEF W!Steps
<1>5. wpc'[t] = s
  BY <1>2, <1>3, <1>4, GoesTo DEF WInv
<1>6. (t \in W!Starting <=> t \in W!Starting') /\ (t \in W!InHand <=> t \in W!InHand')
  BY <1>2, <1>5 DEF W!Starting, W!InHand
<1>7. ObjectTypes /\ OnlyOf(w) /\ Held'
  BY <1>2, CallFacts, HeldSame DEF ObjectTypes, OnlyOf, WInv
<1>8. Step(w, wpc[t], s)
  BY <1>2, SameStep, Weights DEF Early, Late, PostedSteps, FailedSteps
<1> QED
  BY <1>1, <1>2, <1>3, <1>4, <1>6, <1>7, <1>8, PlainStep

LEMMA CheckReadInv == ASSUME WorkerAssumption, WInv, NEW t \in Threads, W!CheckRead(t) PROVE WInv'
<1>1. PICK w : w = obj[t]
  OBVIOUS
<1>2. /\ wpc[t] = "rcheck"
      /\ UNCHANGED <<socket, wstatus, res, n, wio, bufs, reqs, freeWorkers, made, acceptNum, todo,
                     wopened, sessions, messages, refused, suspect, silent>>
  BY DEF W!CheckRead, W!objVars, W!poolVars, W!listVars, W!envVars, W!auxVars
<1>3. PICK s \in {"stop", "idle"} : W!GoTo(t, s)
  BY DEF W!CheckRead
<1>4. s \in W!Steps
  BY DEF W!Steps
<1>5. wpc'[t] = s
  BY <1>2, <1>3, <1>4, GoesTo DEF WInv
<1>6. (t \in W!Starting <=> t \in W!Starting') /\ (t \in W!InHand <=> t \in W!InHand')
  BY <1>2, <1>5 DEF W!Starting, W!InHand
<1>7. ObjectTypes /\ OnlyOf(w) /\ Held'
  BY <1>2, CallFacts, HeldSame DEF ObjectTypes, OnlyOf, WInv
<1>8. Step(w, wpc[t], s)
  BY <1>2, SameStep, Weights DEF Early, Late, PostedSteps, FailedSteps
<1> QED
  BY <1>1, <1>2, <1>3, <1>4, <1>6, <1>7, <1>8, PlainStep

LEMMA StopInv == ASSUME WorkerAssumption, WInv, NEW t \in Threads, W!Stop(t) PROVE WInv'
<1>1. PICK w : w = obj[t]
  OBVIOUS
<1>2. /\ wpc[t] \in {"stop", "fail"} /\ wpc[t] # "idle" /\ wpc[t] # "accepted"
      /\ wstatus' = [wstatus EXCEPT ![w] = "stop"] /\ socket' = [socket EXCEPT ![w] = 0]
      /\ wopened' = wopened \ {socket[w]}
      /\ UNCHANGED <<res, n, wio, bufs, reqs, freeWorkers, made, acceptNum, todo,
                     sessions, messages, refused, suspect, silent>>
  BY <1>1 DEF W!Stop, W!poolVars, W!listVars, W!envVars, W!auxVars, W!NoSocket
<1>3. PICK s \in {"over", "error"} : W!GoTo(t, s) /\ (wpc[t] = "stop" <=> s = "over")
  <2>1. CASE wpc[t] = "stop"
    BY <2>1 DEF W!Stop
  <2>2. CASE wpc[t] # "stop"
    BY <2>2 DEF W!Stop
  <2> QED
    BY <2>1, <2>2
<1>4. s \in W!Steps
  BY DEF W!Steps
<1>5. wpc'[t] = s
  BY <1>2, <1>3, <1>4, GoesTo DEF WInv
<1>6. (t \in W!Starting <=> t \in W!Starting') /\ (t \in W!InHand <=> t \in W!InHand')
  BY <1>2, <1>5 DEF W!Starting, W!InHand
<1>7. ObjectTypes /\ OnlyOf(w) /\ socket'[w] = 0
  BY <1>1, <1>2, CallFacts DEF ObjectTypes, OnlyOf
<1>8. Held'
  <2> SUFFICES ASSUME suspect = {}, NEW x \in wopened, x # socket[w], x \notin refused
               PROVE  \E v \in W!Workers : socket'[v] = x
    BY <1>2 DEF Held
  <2>1. PICK v \in W!Workers : socket[v] = x
    BY DEF WInv, Held
  <2>2. v # w
    BY <2>1
  <2> QED
    BY <1>7, <2>1, <2>2 DEF OnlyOf
<1>9. Step(w, wpc[t], s)
  BY <1>2, <1>3, <1>7, SameStep, Weights DEF Early, Late, PostedSteps, FailedSteps
<1> QED
  BY <1>1, <1>2, <1>3, <1>4, <1>6, <1>7, <1>8, <1>9, PlainStep

LEMMA CountErrorInv == ASSUME WorkerAssumption, WInv, NEW t \in Threads, W!CountError(t) PROVE WInv'
<1>1. PICK w : w = obj[t]
  OBVIOUS
<1>2. /\ wpc[t] = "error" /\ W!Count(w, "error") /\ W!GoTo(t, "over")
      /\ UNCHANGED <<socket, wstatus, res, wio, bufs, reqs, freeWorkers, made, acceptNum, todo,
                     wopened, sessions, messages, refused, suspect, silent>>
  BY <1>1 DEF W!CountError, W!objVars, W!poolVars, W!listVars, W!envVars, W!auxVars
<1>3. "over" \in W!Steps /\ "error" \in Counters
  BY DEF W!Steps, Counters
<1>4. wpc'[t] = "over"
  BY <1>2, <1>3, GoesTo DEF WInv
<1>5. (t \in W!Starting <=> t \in W!Starting') /\ (t \in W!InHand <=> t \in W!InHand')
  BY <1>2, <1>4 DEF W!Starting, W!InHand
<1>6. w \in W!Workers /\ wio[w] \in [W!Kinds -> Nat]
  BY <1>1, <1>2, CallFacts
<1>7. /\ n' \in [W!Workers -> [Counters -> Int]] /\ n'[w]["error"] = n[w]["error"] + 1
      /\ \A v \in W!Workers : v # w => n'[v] = n[v]
      /\ \A d \in Counters : d # "error" => n'[w][d] = n[w][d]
      /\ n[w] \in [Counters -> Int]
  BY <1>2, <1>3, <1>6, CountStep DEF WInv
<1>8. ObjectTypes /\ OnlyOf(w) /\ Held'
  BY <1>2, <1>7, CallFacts, HeldSame DEF ObjectTypes, OnlyOf, WInv
<1>9. Step(w, wpc[t], "over")
  <2>1. /\ n'[w]["recv"] = n[w]["recv"] /\ n'[w]["write"] = n[w]["write"]
        /\ n'[w]["recved"] = n[w]["recved"] /\ n'[w]["writed"] = n[w]["writed"]
    BY <1>7 DEF Counters
  <2>2. Level(n'[w], wio'[w]) = Level(n[w], wio[w]) - 1
    BY <1>2, <1>6, <1>7, <2>1 DEF Level, Counters, W!Kinds
  <2>3. Level(n[w], wio[w]) \in Int
    BY <1>6, <1>7, LevelInt
  <2>4. Weight("error") = -1 /\ Weight("over") = 0
    BY Weights DEF PostedSteps, FailedSteps
  <2> QED
    BY <1>2, <2>2, <2>3, <2>4 DEF Step, Early, Late
<1> QED
  BY <1>1, <1>2, <1>3, <1>5, <1>6, <1>8, <1>9, PlainStep


\* The three calls: where a thread is after the system call, and when it was counted or failed.
LEMMA CallSteps ==
  ASSUME NEW s \in DOMAIN W!Call
  PROVE  /\ W!Call[s].kind \in W!Kinds /\ W!Call[s].posted \in W!Steps /\ W!Call[s].failed \in W!Steps
         /\ \/ s = "sread" /\ W!Call[s].posted = "scount" /\ W!Call[s].failed = "refuse"
            \/ s = "read" /\ W!Call[s].posted = "rcount" /\ W!Call[s].failed = "rcheck"
            \/ s = "write" /\ W!Call[s].posted = "wcount" /\ W!Call[s].failed \in {"write", "wfailed"}
<1>1. s \in {"sread", "read", "write"}
  BY DEF W!Call
<1>2. CASE s = "sread"
  <2>1. W!Call[s] = [kind |-> "read", posted |-> "scount", done |-> "started", failed |-> "refuse"]
    BY <1>2 DEF W!Call
  <2>2. W!Call[s].kind = "read" /\ W!Call[s].posted = "scount" /\ W!Call[s].failed = "refuse"
    BY <2>1
  <2>3. "read" \in W!Kinds /\ "scount" \in W!Steps /\ "refuse" \in W!Steps
    BY DEF W!Steps, W!Kinds
  <2> QED
    BY <1>2, <2>2, <2>3
<1>3. CASE s = "read"
  <2>1. W!Call[s] = [kind |-> "read", posted |-> "rcount", done |-> "rcheck", failed |-> "rcheck"]
    BY <1>3 DEF W!Call
  <2>2. W!Call[s].kind = "read" /\ W!Call[s].posted = "rcount" /\ W!Call[s].failed = "rcheck"
    BY <2>1
  <2>3. "read" \in W!Kinds /\ "rcount" \in W!Steps /\ "rcheck" \in W!Steps
    BY DEF W!Steps, W!Kinds
  <2> QED
    BY <1>3, <2>2, <2>3
<1>4. CASE s = "write"
  <2>0. PICK f : f = IF Echo THEN "wfailed" ELSE "write"
    OBVIOUS
  <2>1. W!Call[s] = [kind |-> "write", posted |-> "wcount", done |-> "write", failed |-> f]
    BY <1>4, <2>0 DEF W!Call
  <2>2. W!Call[s].kind = "write" /\ W!Call[s].posted = "wcount" /\ W!Call[s].failed = f
    BY <2>1
  <2>3. "write" \in W!Kinds /\ "wcount" \in W!Steps /\ f \in W!Steps /\ f \in {"write", "wfailed"}
    BY <2>0 DEF W!Steps, W!Kinds
  <2> QED
    BY <1>4, <2>2, <2>3
<1> QED
  BY <1>1, <1>2, <1>3, <1>4

\* What is left to do, after a call.
LEMMA CallsTodo ==
  ASSUME WorkerAssumption, WInv, NEW t \in Threads, W!Calls(t)
  PROVE  wpc[t] \in DOMAIN W!Call /\ wpc[t] # "idle" /\ todo' \in [Threads -> 0 .. MaxAnswers]
<1>1. wpc[t] \in DOMAIN W!Call
  BY DEF W!Calls
<1>2. wpc[t] \in {"sread", "read", "write"}
  BY <1>1, CallSteps
<1>3. MaxAnswers \in Nat
  BY WorkerAssumption DEF W!WorkerAssumption
<1>4. todo \in [Threads -> 0 .. MaxAnswers] /\ todo[t] \in 0 .. MaxAnswers
  BY <1>2, CallFacts
<1>5. todo' \in [Threads -> 0 .. MaxAnswers]
  <2>1. CASE wpc[t] = "write"
    <3>1. todo[t] > 0 /\ todo' = [todo EXCEPT ![t] = todo[t] - 1]
      BY <2>1 DEF W!Calls
    <3>2. todo[t] - 1 \in 0 .. MaxAnswers
      BY <1>3, <1>4, <3>1
    <3> QED
      BY <1>4, <3>1, <3>2
  <2>2. CASE wpc[t] # "write"
    BY <1>4, <2>2 DEF W!Calls
  <2> QED
    BY <2>1, <2>2
<1> QED
  BY <1>1, <1>2, <1>5

LEMMA PostInv == ASSUME WorkerAssumption, WInv, NEW t \in Threads, W!Post(t) PROVE WInv'
<1>1. PICK w : w = obj[t]
  OBVIOUS
<1>2. PICK a, k, s :
        /\ a \in DOMAIN W!Call /\ wpc[t] = a /\ k = W!Call[a].kind /\ s = W!Call[a].posted
        /\ wio' = [wio EXCEPT ![w][k] = @ + 1] /\ W!GoTo(t, s)
        /\ bufs' = W!Taken(bufs) /\ reqs' = W!Taken(reqs)
        /\ UNCHANGED <<socket, wstatus, res, n, freeWorkers, made, acceptNum,
                       wopened, sessions, messages, refused, suspect, silent>>
        /\ W!Calls(t)
  BY <1>1 DEF W!Post, W!Calls, W!objVars, W!listVars, W!envVars, W!auxVars
<1>3. /\ k \in W!Kinds /\ s \in W!Steps /\ s \notin {"idle", "accepted"} /\ a \notin {"idle", "accepted"}
      /\ \/ a = "sread" /\ s = "scount"
         \/ a = "read" /\ s = "rcount"
         \/ a = "write" /\ s = "wcount"
  BY <1>2, CallSteps
<1>4. wpc'[t] = s /\ \A u \in Threads : u # t => wpc'[u] = wpc[u]
  BY <1>2, <1>3, GoesTo DEF WInv
<1>5. (t \in W!Starting <=> t \in W!Starting') /\ (t \in W!InHand <=> t \in W!InHand')
  BY <1>2, <1>3, <1>4 DEF W!Starting, W!InHand
<1>6. w \in W!Workers /\ n[w] \in [Counters -> Int] /\ wio[w] \in [W!Kinds -> Nat]
  BY <1>1, <1>2, <1>3, CallFacts
<1>7. /\ wio' \in [W!Workers -> [W!Kinds -> Nat]] /\ wio'[w][k] = wio[w][k] + 1
      /\ \A v \in W!Workers : v # w => wio'[v] = wio[v]
      /\ \A m \in W!Kinds : m # k => wio'[w][m] = wio[w][m]
      /\ IsFiniteSet(W!Outstanding') /\ Cardinality(W!Outstanding) \in Nat
      /\ Cardinality(W!Outstanding') = Cardinality(W!Outstanding) + 1
  BY ZenonT(60), <1>2, <1>3, <1>6, MoreHeld DEF WInv
<1>8. /\ bufs \in [made : Nat, free : Nat] /\ reqs \in [made : Nat, free : Nat]
      /\ bufs' \in [made : Nat, free : Nat] /\ reqs' \in [made : Nat, free : Nat]
      /\ bufs'.made - bufs'.free = bufs.made - bufs.free + 1
      /\ reqs'.made - reqs'.free = reqs.made - reqs.free + 1
  BY <1>2, <1>3, CallFacts, ListNumbers
<1>9. W!PoolsWhole'
  <2>1. Cardinality(W!InHand) \in Nat /\ Cardinality(W!InHand') = Cardinality(W!InHand)
    BY <1>4, <1>5, ThreadCounts
  <2>2. /\ bufs.made = bufs.free + (Cardinality(W!Outstanding) + Cardinality(W!InHand))
        /\ reqs.made = reqs.free + (Cardinality(W!Outstanding) + Cardinality(W!InHand))
    BY PoolNumbers DEF WInv
  <2>3. /\ bufs'.made = bufs'.free + (Cardinality(W!Outstanding') + Cardinality(W!InHand'))
        /\ reqs'.made = reqs'.free + (Cardinality(W!Outstanding') + Cardinality(W!InHand'))
    <3>1. PICK o : o = Cardinality(W!Outstanding)
      OBVIOUS
    <3>2. PICK h : h = Cardinality(W!InHand)
      OBVIOUS
    <3>3. o \in Nat /\ h \in Nat /\ Cardinality(W!Outstanding') = o + 1 /\ Cardinality(W!InHand') = h
      BY <1>7, <2>1, <3>1, <3>2
    <3>4. bufs.made = bufs.free + (o + h) /\ reqs.made = reqs.free + (o + h)
      BY <2>2, <3>1, <3>2
    <3>5. bufs'.made = bufs'.free + ((o + 1) + h) /\ reqs'.made = reqs'.free + ((o + 1) + h)
      BY <1>8, <3>3, <3>4
    <3> QED
      BY <3>3, <3>5
  <2> QED
    BY <2>3, PoolNumbers
<1>10. ObjectTypes /\ OnlyOf(w) /\ Held'
  BY <1>2, <1>3, <1>7, <1>8, CallFacts, CallsTodo, HeldSame DEF ObjectTypes, OnlyOf, WInv
<1>11. Step(w, wpc[t], s)
  <2>3. Level(n[w], wio'[w]) = Level(n[w], wio[w]) - 1
    <3>1. PICK i : i = wio[w]
      OBVIOUS
    <3>2. PICK j : j = wio'[w]
      OBVIOUS
    <3> QED
      BY <1>3, <1>6, <1>7, <3>1, <3>2, OperationLevel
  <2>4. Level(n[w], wio[w]) \in Int
    BY <1>6, LevelInt
  <2>5. Weight(a) = 0 /\ Weight(s) = 1 /\ s \notin Early /\ s \notin Late /\ a \notin {"start", "refuse"}
    BY <1>3, Weights DEF Early, Late, PostedSteps, FailedSteps
  <2> QED
    BY <1>2, <1>3, <2>3, <2>4, <2>5 DEF Step
<1> QED
  BY <1>1, <1>2, <1>3, <1>5, <1>7, <1>9, <1>10, <1>11, CallStep

LEMMA PostFailsInv == ASSUME WorkerAssumption, WInv, NEW t \in Threads, W!PostFails(t) PROVE WInv'
<1>1. PICK w : w = obj[t]
  OBVIOUS
<1>2. PICK a \in DOMAIN W!Call, s \in W!Steps :
        /\ wpc[t] = a /\ s = W!Call[a].failed /\ res' \in {res, [res EXCEPT ![w] = -4]} /\ W!GoTo(t, s)
        /\ wstatus' = [wstatus EXCEPT ![w] = "error"]
        /\ bufs' = W!Back(W!Taken(bufs)) /\ reqs' = W!Back(W!Taken(reqs))
        /\ UNCHANGED <<socket, n, wio, freeWorkers, made, acceptNum,
                       wopened, sessions, messages, refused, suspect, silent>>
        /\ W!Calls(t)
  <2>1. res' \in {res, [res EXCEPT ![w] = -4]}
    BY <1>1 DEF W!PostFails
  <2>2. /\ W!GoTo(t, W!Call[wpc[t]].failed) /\ wstatus' = [wstatus EXCEPT ![w] = "error"]
        /\ bufs' = W!Back(W!Taken(bufs)) /\ reqs' = W!Back(W!Taken(reqs))
        /\ UNCHANGED <<socket, n, wio, freeWorkers, made, acceptNum,
                       wopened, sessions, messages, refused, suspect, silent>>
        /\ W!Calls(t) /\ wpc[t] \in DOMAIN W!Call
    BY <1>1 DEF W!PostFails, W!Calls, W!listVars, W!envVars, W!auxVars
  <2> QED
    BY <2>1, <2>2, CallSteps
<1>3. /\ s \in W!Steps /\ s \notin {"idle", "accepted"} /\ a \notin {"idle", "accepted"}
      /\ \/ a = "sread" /\ s = "refuse"
         \/ a = "read" /\ s = "rcheck"
         \/ a = "write" /\ s \in {"write", "wfailed"}
  BY <1>2, CallSteps
<1>4. wpc'[t] = s /\ \A u \in Threads : u # t => wpc'[u] = wpc[u]
  BY <1>2, <1>3, GoesTo DEF WInv
<1>5. (t \in W!Starting <=> t \in W!Starting') /\ (t \in W!InHand <=> t \in W!InHand')
  BY <1>2, <1>3, <1>4 DEF W!Starting, W!InHand
<1>6. /\ bufs \in [made : Nat, free : Nat] /\ reqs \in [made : Nat, free : Nat]
      /\ bufs' \in [made : Nat, free : Nat] /\ reqs' \in [made : Nat, free : Nat]
      /\ bufs'.made - bufs'.free = bufs.made - bufs.free
      /\ reqs'.made - reqs'.free = reqs.made - reqs.free
  <2>1. PICK b, q : b = W!Taken(bufs) /\ q = W!Taken(reqs)
    OBVIOUS
  <2>2. /\ bufs \in [made : Nat, free : Nat] /\ reqs \in [made : Nat, free : Nat]
        /\ b \in [made : Nat, free : Nat] /\ b.made - b.free = bufs.made - bufs.free + 1
        /\ q \in [made : Nat, free : Nat] /\ q.made - q.free = reqs.made - reqs.free + 1
    BY <1>2, <1>3, <2>1, CallFacts, ListNumbers
  <2>3. /\ W!Back(b) \in [made : Nat, free : Nat] /\ W!Back(b).made - W!Back(b).free = b.made - b.free - 1
        /\ W!Back(q) \in [made : Nat, free : Nat] /\ W!Back(q).made - W!Back(q).free = q.made - q.free - 1
    BY <2>2, ListNumbers
  <2> QED
    BY <1>2, <2>1, <2>2, <2>3
<1>7. W!PoolsWhole' /\ IsFiniteSet(W!Outstanding')
  <2>1. /\ Cardinality(W!InHand) \in Nat /\ Cardinality(W!InHand') = Cardinality(W!InHand)
    BY <1>4, <1>5, ThreadCounts
  <2>2. W!Outstanding' = W!Outstanding /\ Cardinality(W!Outstanding) \in Nat
    BY <1>2, SameHeld DEF WInv
  <2> QED
    BY <1>6, <2>1, <2>2, PoolNumbers DEF WInv
<1>8. ObjectTypes /\ OnlyOf(w) /\ Held'
  <2>1. /\ socket \in [W!Workers -> 0 .. MaxSessions] /\ wstatus \in [W!Workers -> {"stop", "run", "error"}]
        /\ res \in [W!Workers -> {0, -4}] /\ n \in [W!Workers -> [Counters -> Int]]
        /\ wio \in [W!Workers -> [W!Kinds -> Nat]] /\ wopened \subseteq 1 .. MaxSessions
    BY <1>2, <1>3, CallFacts
  <2>2. res' \in [W!Workers -> {0, -4}] /\ wstatus' \in [W!Workers -> {"stop", "run", "error"}]
    BY <1>2, <2>1
  <2> QED
    BY <1>2, <1>6, <2>1, <2>2, CallsTodo, HeldSame DEF ObjectTypes, OnlyOf, WInv
<1>9. Step(w, wpc[t], s)
  BY <1>2, <1>3, SameStep, Weights DEF Early, Late, PostedSteps, FailedSteps
<1> QED
  BY <1>1, <1>2, <1>3, <1>5, <1>7, <1>8, <1>9, CallStep

LEMMA ProcessedInv == ASSUME WorkerAssumption, WInv, NEW t \in Threads, W!Processed(t) PROVE WInv'
<1>1. PICK w : w = obj[t]
  OBVIOUS
<1>2. /\ wpc[t] \in {"write", "wfailed"} /\ wpc[t] \notin {"idle", "accepted", "start", "refuse"}
      /\ W!GoTo(t, "wcheck") /\ bufs' = W!Back(bufs) /\ reqs' = W!Back(reqs)
      /\ res' \in {[res EXCEPT ![w] = 0], [res EXCEPT ![w] = -4]}
      /\ UNCHANGED <<socket, wstatus, n, wio, freeWorkers, made, acceptNum, todo,
                     wopened, sessions, messages, refused, suspect, silent>>
  BY <1>1 DEF W!Processed, W!GiveBack, W!listVars, W!envVars, W!auxVars
<1>3. "wcheck" \in W!Steps
  BY DEF W!Steps
<1>4. wpc'[t] = "wcheck" /\ \A u \in Threads : u # t => wpc'[u] = wpc[u]
  BY <1>2, <1>3, GoesTo DEF WInv
<1>5. (t \in W!Starting <=> t \in W!Starting') /\ t \in W!InHand /\ t \notin W!InHand'
  BY <1>2, <1>4 DEF W!Starting, W!InHand
<1>6. /\ bufs \in [made : Nat, free : Nat] /\ reqs \in [made : Nat, free : Nat]
      /\ bufs' \in [made : Nat, free : Nat] /\ reqs' \in [made : Nat, free : Nat]
      /\ bufs'.made - bufs'.free = bufs.made - bufs.free - 1
      /\ reqs'.made - reqs'.free = reqs.made - reqs.free - 1
  BY <1>2, CallFacts, ListNumbers
<1>7. W!PoolsWhole' /\ IsFiniteSet(W!Outstanding')
  <2>1. Cardinality(W!InHand) \in Nat /\ Cardinality(W!InHand') = Cardinality(W!InHand) - 1
    BY <1>4, <1>5, ThreadCounts
  <2>2. W!Outstanding' = W!Outstanding /\ Cardinality(W!Outstanding) \in Nat
    BY <1>2, SameHeld DEF WInv
  <2> QED
    BY <1>6, <2>1, <2>2, PoolNumbers DEF WInv
<1>8. ObjectTypes /\ OnlyOf(w) /\ Held'
  <2>1. /\ socket \in [W!Workers -> 0 .. MaxSessions] /\ wstatus \in [W!Workers -> {"stop", "run", "error"}]
        /\ res \in [W!Workers -> {0, -4}] /\ n \in [W!Workers -> [Counters -> Int]]
        /\ wio \in [W!Workers -> [W!Kinds -> Nat]] /\ wopened \subseteq 1 .. MaxSessions
        /\ todo \in [Threads -> 0 .. MaxAnswers]
    BY <1>2, CallFacts
  <2>2. res' \in [W!Workers -> {0, -4}]
    BY <1>2, <2>1
  <2> QED
    BY <1>2, <1>6, <2>1, <2>2, HeldSame DEF ObjectTypes, OnlyOf, WInv
<1>9. Step(w, wpc[t], "wcheck")
  BY <1>2, SameStep, Weights DEF Early, Late, PostedSteps, FailedSteps
<1> QED
  BY <1>1, <1>2, <1>3, <1>5, <1>7, <1>8, <1>9, CallStep

\* A thread puts its object in the list.
LEMMA ReleaseStep ==
  ASSUME WorkerAssumption, WInv, NEW t \in Threads, NEW w, w = obj[t],
         wpc[t] \in {"refuse", "over"}, W!GoTo(t, "idle"), freeWorkers' = Append(freeWorkers, w),
         UNCHANGED <<socket, wstatus, res, n, wio, bufs, reqs, made, todo, wopened, sessions, messages, silent>>,
         acceptNum' = IF wpc[t] = "refuse" THEN acceptNum ELSE acceptNum - 1,
         suspect \subseteq suspect', suspect' \subseteq suspect \cup {w},
         refused \subseteq refused', refused' \subseteq 0 .. MaxSessions,
         w \notin suspect' /\ Good(w) =>
           /\ Quiet(wio[w]) /\ (socket[w] = 0 \/ socket[w] \in refused')
           /\ \A u \in Threads : On(u, w) => u = t
  PROVE  WInv'
<1>0. "idle" \in W!Steps
  BY DEF W!Steps
<1>1. /\ wpc' \in [Threads -> W!Steps] /\ obj' \in [Threads -> 0 .. made]
      /\ \A u \in Threads : (obj'[u] = 0) <=> (wpc'[u] = "idle")
      /\ wpc'[t] = "idle" /\ obj'[t] = 0
      /\ \A u \in Threads : u # t => wpc'[u] = wpc[u] /\ obj'[u] = obj[u]
      /\ obj[t] \in 1 .. made /\ obj[t] \in W!Workers
  BY <1>0, GoesTo DEF WInv
<1>2. freeWorkers \in Seq(1 .. made) /\ acceptNum \in Int /\ made \in Int
  BY WorkerAssumption DEF WInv, W!TypeOK, W!WorkerAssumption
<1>3. /\ freeWorkers' \in Seq(1 .. made) /\ Len(freeWorkers) \in Nat
      /\ Len(freeWorkers') = Len(freeWorkers) + 1
  BY <1>1, <1>2
<1>4. W!TypeOK'
  <2>1. acceptNum' \in Int
    BY <1>2
  <2>2. freeWorkers' \in Seq(1 .. made')
    BY <1>3
  <2>3. obj' \in [Threads -> 0 .. made']
    BY <1>1
  <2>4. suspect' \subseteq 1 .. made' /\ silent' \subseteq 1 .. made'
    BY <1>1 DEF WInv, W!TypeOK
  <2> QED
    BY <1>1, <2>1, <2>2, <2>3, <2>4 DEF WInv, W!TypeOK, W!NoWorker
<1>5. /\ (t \in W!InHand <=> t \in W!InHand') /\ t \notin W!Starting'
      /\ t \in W!Starting <=> wpc[t] = "refuse"
  BY <1>1 DEF W!InHand, W!Starting
<1>6. /\ Cardinality(W!InHand') = Cardinality(W!InHand) /\ Cardinality(W!Starting) \in Nat
      /\ wpc[t] = "refuse" => Cardinality(W!Starting') = Cardinality(W!Starting) - 1
      /\ wpc[t] # "refuse" => Cardinality(W!Starting') = Cardinality(W!Starting)
  BY <1>1, <1>5, ThreadCounts
<1>7. W!Outstanding' = W!Outstanding
  BY SameHeld DEF WInv
<1>8. W!PoolsWhole' /\ IsFiniteSet(W!Outstanding')
  BY <1>6, <1>7, ListsStay DEF WInv
<1>9. AcceptSum'
  <2>1. acceptNum + Len(freeWorkers) + Cardinality(W!Starting) = made
    BY DEF WInv, AcceptSum
  <2>2. acceptNum' + Len(freeWorkers') + Cardinality(W!Starting') = made
    <3>1. CASE wpc[t] = "refuse"
      BY <1>2, <1>3, <1>6, <2>1, <3>1
    <3>2. CASE wpc[t] # "refuse"
      BY <1>2, <1>3, <1>6, <2>1, <3>2
    <3> QED
      BY <3>1, <3>2
  <2> QED
    BY <2>2 DEF AcceptSum
<1>10. Unused' /\ Held'
  BY DEF WInv, Unused, Held, Quiet
<1>11. /\ \A v : IsFree(v)' <=> IsFree(v) \/ v = w
       /\ \A v : v # w => (OnceFree(v) => OnceFree(v)')
       /\ ~IsFree(w) => OnceFree(w)'
  <2>1. PICK S : S = 1 .. made
    OBVIOUS
  <2>2. freeWorkers \in Seq(S)
    BY <1>2, <2>1
  <2> QED
    BY <2>2, ToFree
<1>12. ASSUME NEW v \in (1 .. made) \ suspect' PROVE Good(v)'
  <2>1. Good(v) /\ v # 0
    BY DEF WInv
  <2>2. CASE v # w
    <3>1. n'[v] = n[v] /\ wio'[v] = wio[v] /\ socket'[v] = socket[v] /\ obj[t] # v /\ obj'[t] # v
      BY <1>1, <2>1, <2>2
    <3>2. (IsFree(v)' <=> IsFree(v)) /\ OnceFree(v)'
      BY <1>11, <2>1, <2>2 DEF Good
    <3> QED
      BY <1>1, <2>1, <3>1, <3>2, OtherGood
  <2>3. CASE v = w
    <3>1. On(t, v)
      BY <2>3 DEF On
    <3>2. /\ Quiet(wio[v]) /\ (socket[v] = 0 \/ socket[v] \in refused')
          /\ \A u \in Threads : On(u, v) => u = t
      BY <2>1, <2>3
    <3>3. OnceFree(v)' /\ IsFree(v)'
      BY <1>11, <2>1, <2>3, <3>1 DEF Good
    <3>4. \A u \in Threads : ~On(u, v)'
      BY <1>1, <2>1, <3>2 DEF On
    <3>5. Quiet(wio[v])' /\ (socket'[v] = 0 \/ socket'[v] \in refused')
      BY <3>2 DEF Quiet
    <3> QED
      BY <3>3, <3>4, <3>5 DEF Good, Counted
  <2> QED
    BY <2>2, <2>3
<1>13. \A v \in (1 .. made') \ suspect' : Good(v)'
  BY <1>12
<1> QED
  BY <1>4, <1>8, <1>9, <1>10, <1>13 DEF WInv

LEMMA AcceptedWorkerInv == ASSUME WorkerAssumption, WInv, NEW t \in Threads, W!Accepted(t) PROVE WInv'
<1>1. PICK w : w = obj[t]
  OBVIOUS
<1>2. /\ W!GoTo(t, "idle")
      /\ UNCHANGED <<socket, wstatus, res, n, wio, bufs, reqs, made, todo, wopened, sessions, messages,
                     suspect, silent>>
  BY DEF W!Accepted, W!objVars, W!poolVars, W!envVars
<1>3. CASE wpc[t] = "refuse"
  <2>1. freeWorkers' = Append(freeWorkers, w) /\ UNCHANGED acceptNum /\ refused' = refused \cup {socket[w]}
    BY <1>1, <1>3 DEF W!Accepted
  <2>2. socket[w] \in 0 .. MaxSessions
    BY <1>1, <1>3, CallFacts
  <2>3. refused' \subseteq 0 .. MaxSessions
    BY <2>1, <2>2 DEF WInv, W!TypeOK
  <2>4. Good(w) => Quiet(wio[w]) /\ \A u \in Threads : On(u, w) => u = t
    <3>1. On(t, w) /\ wpc[t] \in Early
      BY <1>1, <1>3 DEF On, Early
    <3> QED
      BY <3>1 DEF Good
  <2> QED
    BY <1>1, <1>2, <1>3, <2>1, <2>3, <2>4, ReleaseStep
<1>4. CASE wpc[t] # "refuse"
  <2>1. wpc[t] = "accepted" /\ acceptNum' = acceptNum + 1 /\ UNCHANGED <<freeWorkers, refused>>
    BY <1>4 DEF W!Accepted
  <2>2. "idle" \in W!Steps
    BY DEF W!Steps
  <2>3. /\ wpc' \in [Threads -> W!Steps] /\ obj' \in [Threads -> 0 .. made]
        /\ \A u \in Threads : (obj'[u] = 0) <=> (wpc'[u] = "idle")
        /\ wpc'[t] = "idle" /\ obj'[t] = 0
        /\ \A u \in Threads : u # t => wpc'[u] = wpc[u] /\ obj'[u] = obj[u]
    BY <1>2, <2>1, <2>2, GoesTo DEF WInv
  <2>4. acceptNum \in Int /\ made \in Int /\ Len(freeWorkers) \in Nat
    BY WorkerAssumption DEF WInv, W!TypeOK, W!WorkerAssumption
  <2>5. W!TypeOK'
    BY <1>2, <2>1, <2>3, <2>4 DEF WInv, W!TypeOK, W!NoWorker
  <2>6. (t \in W!InHand <=> t \in W!InHand') /\ t \notin W!Starting' /\ t \in W!Starting
    BY <2>1, <2>3 DEF W!InHand, W!Starting
  <2>7. /\ Cardinality(W!InHand') = Cardinality(W!InHand) /\ Cardinality(W!Starting) \in Nat
        /\ Cardinality(W!Starting') = Cardinality(W!Starting) - 1
    BY <2>3, <2>6, ThreadCounts
  <2>8. W!Outstanding' = W!Outstanding
    BY <1>2, SameHeld DEF WInv
  <2>9. W!PoolsWhole' /\ IsFiniteSet(W!Outstanding')
    BY <1>2, <2>7, <2>8, ListsStay DEF WInv
  <2>10. AcceptSum'
    BY <1>2, <2>1, <2>4, <2>7 DEF WInv, AcceptSum
  <2>11. Unused' /\ Held'
    BY <1>2, <2>1 DEF WInv, Unused, Held, Quiet
  <2>12. ASSUME NEW v \in (1 .. made) \ suspect PROVE Good(v)'
    <3>1. Good(v) /\ v # 0
      BY DEF WInv
    <3>2. \A u \in Threads : (On(u, v)' <=> On(u, v)) /\ (On(u, v) => wpc'[u] = wpc[u])
      BY <2>1, <2>3, <3>1 DEF On
    <3>3. (IsFree(v)' <=> IsFree(v)) /\ OnceFree(v)'
      BY <2>1, <3>1 DEF IsFree, OnceFree, Good
    <3> QED
      BY <1>2, <2>1, <3>1, <3>2, <3>3, SameGood
  <2>13. \A v \in (1 .. made') \ suspect' : Good(v)'
    BY <1>2, <2>12
  <2> QED
    BY <2>5, <2>9, <2>10, <2>11, <2>13 DEF WInv
<1> QED
  BY <1>3, <1>4

\* An object whose counters say that the session is over, and that one thread works for.
LEMMA NothingLeft ==
  ASSUME WorkerAssumption, NEW t \in Threads, NEW w, obj[t] = w, wpc[t] = "over", Good(w), W!IsOver(w),
         \A u \in Threads : On(u, w) => u = t,
         n[w] \in [Counters -> Int], wio[w] \in [W!Kinds -> Nat]
  PROVE  Quiet(wio[w]) /\ socket[w] = 0
<1>1. On(t, w) /\ wpc[t] \in Late
  BY DEF On, Late
<1>2. socket[w] = 0 /\ Counted(w)
  BY <1>1 DEF Good, Counted
<1>3. Debt(w) = 0
  <2>1. Posteds(w) = {} /\ Faileds(w) = {}
    BY <1>1 DEF Posteds, Faileds, PostedSteps, FailedSteps
  <2> QED
    BY <2>1, FS_EmptySet DEF Debt
<1>4. Level(n[w], wio[w]) = 0
  <2>1. Level(n[w], wio[w]) + Debt(w) = 0 /\ Level(n[w], wio[w]) \in Int
    BY <1>2, LevelInt DEF Good
  <2> QED
    BY <1>3, <2>1
<1>5. n[w]["write"] + n[w]["recv"] <= n[w]["recved"] + n[w]["writed"] + n[w]["error"]
  BY DEF W!IsOver
<1>6. PICK x1, x2, x3, x4, x5 :
        /\ x1 = n[w]["recv"] /\ x2 = n[w]["write"] /\ x3 = n[w]["recved"] /\ x4 = n[w]["writed"]
        /\ x5 = n[w]["error"]
  OBVIOUS
<1>7. PICK y1, y2 : y1 = wio[w]["read"] /\ y2 = wio[w]["write"]
  OBVIOUS
<1>8. /\ x1 \in Int /\ x2 \in Int /\ x3 \in Int /\ x4 \in Int /\ x5 \in Int
      /\ y1 \in Nat /\ y2 \in Nat
  BY <1>6, <1>7 DEF Counters, W!Kinds
<1>9. x1 + x2 - x3 - x4 - x5 - y1 - y2 = 0
  BY <1>4, <1>6, <1>7 DEF Level
<1>10. x2 + x1 <= x3 + x4 + x5
  BY <1>5, <1>6
<1>11. y1 = 0 /\ y2 = 0
  BY <1>8, <1>9, <1>10
<1> QED
  BY <1>2, <1>7, <1>11 DEF Quiet

LEMMA OverInv == ASSUME WorkerAssumption, WInv, NEW t \in Threads, W!Over(t) PROVE WInv'
<1>1. PICK w : w = obj[t]
  OBVIOUS
<1>2. /\ wpc[t] = "over" /\ W!GoTo(t, "idle")
      /\ UNCHANGED <<socket, wstatus, res, n, wio, bufs, reqs, made, todo, wopened, sessions, messages,
                     refused, silent>>
  BY DEF W!Over, W!objVars, W!poolVars, W!envVars
<1>3. n[w] \in [Counters -> Int] /\ wio[w] \in [W!Kinds -> Nat]
  BY <1>1, <1>2, CallFacts
<1>4. CASE W!IsOver(w)
  <2>1. /\ freeWorkers' = Append(freeWorkers, w) /\ acceptNum' = acceptNum - 1
        /\ suspect' = IF W!Overtaken(t, w) THEN suspect \cup {w} ELSE suspect
    BY <1>1, <1>4 DEF W!Over, W!ReleaseObject
  <2>2. /\ suspect \subseteq suspect' /\ suspect' \subseteq suspect \cup {w}
        /\ refused \subseteq refused' /\ refused' \subseteq 0 .. MaxSessions
    BY <1>2, <2>1 DEF WInv, W!TypeOK
  <2>3. ASSUME w \notin suspect', Good(w)
        PROVE  /\ Quiet(wio[w]) /\ (socket[w] = 0 \/ socket[w] \in refused')
               /\ \A u \in Threads : On(u, w) => u = t
    <3>1. \A u \in Threads : On(u, w) => u = t
      BY <2>1, <2>3 DEF W!Overtaken, On
    <3> QED
      BY <1>1, <1>2, <1>3, <1>4, <2>3, <3>1, NothingLeft
  <2> QED
    BY <1>1, <1>2, <2>1, <2>2, <2>3, ReleaseStep
<1>5. CASE ~W!IsOver(w)
  <2>1. UNCHANGED <<freeWorkers, acceptNum, suspect>>
    BY <1>1, <1>5 DEF W!Over
  <2>2. "idle" \in W!Steps
    BY DEF W!Steps
  <2>3. wpc'[t] = "idle"
    BY <1>2, <2>2, GoesTo DEF WInv
  <2>4. (t \in W!Starting <=> t \in W!Starting') /\ (t \in W!InHand <=> t \in W!InHand')
    BY <1>2, <2>3 DEF W!Starting, W!InHand
  <2>5. ObjectTypes /\ OnlyOf(w) /\ Held'
    BY <1>2, <2>1, CallFacts, HeldSame DEF ObjectTypes, OnlyOf, WInv
  <2>6. Step(w, wpc[t], "idle")
    BY <1>2, SameStep, Weights DEF Early, Late, PostedSteps, FailedSteps
  <2> QED
    BY <1>1, <1>2, <2>1, <2>2, <2>4, <2>5, <2>6, PlainStep
<1> QED
  BY <1>4, <1>5

\* Thread t has taken a packet of object w, of the given kind.
LEMMA DequeueStep ==
  ASSUME WorkerAssumption, WInv, NEW t \in Threads, NEW w \in W!Workers, NEW k \in W!Kinds,
         NEW s \in {"write", "stop", "idle", "fail"}, W!Dequeue(t, w, k, s),
         n' \in [W!Workers -> [Counters -> Int]], \A v \in W!Workers : v # w => n'[v] = n[v],
         bufs' \in [made : Nat, free : Nat], reqs' \in [made : Nat, free : Nat],
         IF s = "write" THEN UNCHANGED <<bufs, reqs>>
                        ELSE bufs' = W!Back(bufs) /\ reqs' = W!Back(reqs),
         messages' \in 0 .. MaxMessages, silent' \in {silent, silent \cup {w}},
         todo' \in [Threads -> 0 .. MaxAnswers],
         Level(n'[w], wio'[w]) + Weight(s) = Level(n[w], wio[w])
  PROVE  WInv'
<1>1. /\ wpc[t] = "idle" /\ wio[w][k] > 0 /\ wio' = [wio EXCEPT ![w][k] = @ - 1]
      /\ wpc' = [wpc EXCEPT ![t] = s] /\ obj' = [obj EXCEPT ![t] = IF s = "idle" THEN 0 ELSE w]
      /\ UNCHANGED <<socket, wstatus, res, freeWorkers, made, acceptNum, wopened, sessions, refused, suspect>>
  BY DEF W!Dequeue, W!objVars, W!listVars, W!NoWorker
<1>2. /\ wpc \in [Threads -> W!Steps] /\ obj \in [Threads -> 0 .. made] /\ made \in 0 .. MaxWorkers
      /\ \A u \in Threads : (obj[u] = 0) <=> (wpc[u] = "idle")
      /\ MaxWorkers \in Nat /\ wio[w] \in [W!Kinds -> Nat]
  BY WorkerAssumption DEF WInv, W!TypeOK, W!WorkerAssumption, W!NoWorker
<1>3. w \in 1 .. made
  <2>1. ~Quiet(wio[w])
    BY <1>1, <1>2 DEF Quiet, W!Kinds
  <2>2. ~(w > made)
    BY <2>1 DEF WInv, Unused
  <2> QED
    BY <1>2, <2>2 DEF W!Workers
<1>4. /\ wpc' \in [Threads -> W!Steps] /\ obj' \in [Threads -> 0 .. made]
      /\ \A u \in Threads : (obj'[u] = 0) <=> (wpc'[u] = "idle")
      /\ wpc'[t] = s /\ (s = "idle" => obj'[t] = 0) /\ (s # "idle" => obj'[t] = w)
      /\ \A u \in Threads : u # t => wpc'[u] = wpc[u] /\ obj'[u] = obj[u]
      /\ obj[t] = 0
  BY <1>1, <1>2, <1>3 DEF W!Steps
<1>5. /\ wio' \in [W!Workers -> [W!Kinds -> Nat]] /\ wio'[w][k] = wio[w][k] - 1
      /\ \A v \in W!Workers : v # w => wio'[v] = wio[v]
      /\ \A m \in W!Kinds : m # k => wio'[w][m] = wio[w][m]
      /\ IsFiniteSet(W!Outstanding') /\ Cardinality(W!Outstanding) \in Nat
      /\ Cardinality(W!Outstanding') = Cardinality(W!Outstanding) - 1
  BY <1>1, LessHeld DEF WInv
<1>6. W!TypeOK'
  <2>1. n' \in [W!Workers -> [{"recv", "recved", "write", "writed", "error"} -> Int]]
    BY DEF Counters
  <2>2. obj' \in [Threads -> 0 .. made'] /\ suspect' \subseteq 1 .. made' /\ silent' \subseteq 1 .. made'
    <3>1. obj' \in [Threads -> 0 .. made'] /\ made' = made
      BY <1>1, <1>4
    <3>2. suspect \subseteq 1 .. made /\ silent \subseteq 1 .. made
      BY DEF WInv, W!TypeOK
    <3>3. suspect' \subseteq 1 .. made
      BY <1>1, <3>2
    <3>4. silent' \subseteq 1 .. made
      BY <1>3, <3>2
    <3> QED
      BY <3>1, <3>3, <3>4
  <2> QED
    BY <1>1, <1>4, <1>5, <2>1, <2>2 DEF WInv, W!TypeOK, W!NoWorker
<1>7. (t \in W!Starting <=> t \in W!Starting') /\ t \notin W!InHand /\ (t \in W!InHand' <=> s = "write")
  BY <1>1, <1>4 DEF W!Starting, W!InHand
<1>8. /\ Cardinality(W!Starting') = Cardinality(W!Starting) /\ Cardinality(W!InHand) \in Nat
      /\ s = "write" => Cardinality(W!InHand') = Cardinality(W!InHand) + 1
      /\ s # "write" => Cardinality(W!InHand') = Cardinality(W!InHand)
  BY <1>4, <1>7, ThreadCounts
<1>9. W!PoolsWhole'
  <2>1. PICK o : o = Cardinality(W!Outstanding)
    OBVIOUS
  <2>2. PICK h : h = Cardinality(W!InHand)
    OBVIOUS
  <2>3. o \in Nat /\ h \in Nat /\ Cardinality(W!Outstanding') = o - 1
    BY <1>5, <1>8, <2>1, <2>2
  <2>4. bufs.made = bufs.free + (o + h) /\ reqs.made = reqs.free + (o + h)
    BY <2>1, <2>2, PoolNumbers DEF WInv
  <2>5. bufs \in [made : Nat, free : Nat] /\ reqs \in [made : Nat, free : Nat]
    BY DEF WInv, W!TypeOK
  <2>6. CASE s = "write"
    <3>1. Cardinality(W!InHand') = h + 1
      BY <1>8, <2>2, <2>6
    <3>2. bufs'.made = bufs'.free + ((o - 1) + (h + 1)) /\ reqs'.made = reqs'.free + ((o - 1) + (h + 1))
      BY <2>3, <2>4, <2>5, <2>6
    <3> QED
      BY <2>3, <3>1, <3>2, PoolNumbers
  <2>7. CASE s # "write"
    <3>1. Cardinality(W!InHand') = h
      BY <1>8, <2>2, <2>7
    <3>2. /\ bufs'.made - bufs'.free = bufs.made - bufs.free - 1
          /\ reqs'.made - reqs'.free = reqs.made - reqs.free - 1
      BY <2>5, <2>7, ListNumbers
    <3>3. bufs'.made = bufs'.free + ((o - 1) + h) /\ reqs'.made = reqs'.free + ((o - 1) + h)
      BY <2>3, <2>4, <2>5, <3>2
    <3> QED
      BY <2>3, <3>1, <3>3, PoolNumbers
  <2> QED
    BY <2>6, <2>7
<1>10. AcceptSum'
  BY <1>1, <1>8 DEF WInv, AcceptSum
<1>11. Unused' /\ Held'
  <2>1. ASSUME NEW v \in W!Workers, v > made PROVE Quiet(wio'[v]) /\ socket'[v] = 0
    <3>1. v # w
      BY <1>2, <1>3, <2>1
    <3> QED
      BY <1>1, <1>5, <2>1, <3>1 DEF WInv, Unused
  <2>2. Held'
    BY <1>1, HeldSame DEF WInv
  <2> QED
    BY <1>1, <2>1, <2>2 DEF Unused, Quiet
<1>12. ASSUME NEW v \in (1 .. made) \ suspect PROVE Good(v)'
  <2>1. Good(v) /\ v # 0 /\ v \in W!Workers
    BY <1>2 DEF WInv, W!Workers
  <2>2. (IsFree(v)' <=> IsFree(v)) /\ OnceFree(v)' /\ socket'[v] = socket[v]
    BY <1>1, <2>1 DEF IsFree, OnceFree, Good
  <2>3. CASE v # w
    <3>1. n'[v] = n[v] /\ wio'[v] = wio[v] /\ obj[t] # v /\ obj'[t] # v
      BY <1>4, <1>5, <2>1, <2>3
    <3> QED
      BY <1>1, <1>4, <2>1, <2>2, <3>1, OtherGood
  <2>4. CASE v = w
    <3>1. ~Quiet(wio[w])
      BY <1>1, <1>2 DEF Quiet, W!Kinds
    <3>2. ~IsFree(w) /\ \A u \in Threads : On(u, w) => wpc[u] \notin Early
      BY <2>1, <2>4, <3>1 DEF Good
    <3>3. \A u \in Threads : u # t => (On(u, w)' <=> On(u, w))
      BY <1>4 DEF On
    <3>4. s \notin Early /\ s \notin Late
      BY DEF Early, Late
    <3>5. \A u \in Threads : On(u, w)' => wpc'[u] \notin Early /\ (wpc'[u] \in Late => socket'[w] = 0)
      BY <1>4, <2>1, <2>2, <2>4, <3>2, <3>3, <3>4 DEF Good
    <3>6. Level(n[w], wio[w])' + Debt(w)' = 0
      <4>1. Level(n[w], wio[w]) + Debt(w) = 0
        <5>1. Counted(w)
          BY <3>2 DEF Counted, Early
        <5> QED
          BY <2>1, <2>4, <5>1 DEF Good
      <4>2. PICK b : b = Weight(s)
        OBVIOUS
      <4>3. 0 = (IF obj[t] = w THEN Weight(wpc[t]) ELSE 0) /\ b = (IF obj'[t] = w THEN Weight(wpc'[t]) ELSE 0)
        <5>1. Weight("idle") = 0
          BY Weights DEF PostedSteps, FailedSteps
        <5> QED
          BY <1>4, <2>1, <2>4, <4>2, <5>1
      <4>4. b \in Int /\ Debt(w) \in Int /\ Debt(w)' \in Int /\ Debt(w)' - b = Debt(w) - 0
        BY <1>4, <4>3, DebtStep
      <4>5. PICK l : l = Level(n[w], wio[w])
        OBVIOUS
      <4>6. PICK m : m = Level(n'[w], wio'[w])
        OBVIOUS
      <4>7. l \in Int /\ m \in Int
        <5>1. n[w] \in [Counters -> Int] /\ n'[w] \in [Counters -> Int] /\ wio'[w] \in [W!Kinds -> Nat]
          BY <1>5 DEF WInv, W!TypeOK, Counters
        <5> QED
          BY <1>2, <4>5, <4>6, <5>1, LevelInt
      <4>8. m + b = l
        BY <4>2, <4>5, <4>6
      <4>9. m + Debt(w)' = 0
        BY <4>1, <4>4, <4>5, <4>7, <4>8
      <4> QED
        BY <4>6, <4>9 DEF Level
    <3> QED
      BY <2>2, <2>4, <3>2, <3>5, <3>6 DEF Good
  <2> QED
    BY <2>3, <2>4
<1>13. \A v \in (1 .. made') \ suspect' : Good(v)'
  BY <1>1, <1>12
<1> QED
  BY <1>5, <1>6, <1>9, <1>10, <1>11, <1>13 DEF WInv

\* A packet is counted, when it says that its operation has succeeded.
LEMMA CountedPacket ==
  ASSUME WInv, NEW w \in W!Workers, NEW k \in W!Kinds, wio[w][k] > 0, wio' = [wio EXCEPT ![w][k] = @ - 1],
         NEW c \in {"recved", "writed"}, W!Count(w, c), NEW s \in {"write", "stop", "idle"}
  PROVE  /\ n' \in [W!Workers -> [Counters -> Int]] /\ \A v \in W!Workers : v # w => n'[v] = n[v]
         /\ Level(n'[w], wio'[w]) + Weight(s) = Level(n[w], wio[w])
<1>1. c \in Counters
  BY DEF Counters
<1>2. /\ n' \in [W!Workers -> [Counters -> Int]] /\ n'[w][c] = n[w][c] + 1
      /\ \A v \in W!Workers : v # w => n'[v] = n[v]
      /\ \A d \in Counters : d # c => n'[w][d] = n[w][d]
      /\ n[w] \in [Counters -> Int]
  BY <1>1, CountStep DEF WInv
<1>3. /\ wio' \in [W!Workers -> [W!Kinds -> Nat]] /\ wio'[w][k] = wio[w][k] - 1
      /\ \A m \in W!Kinds : m # k => wio'[w][m] = wio[w][m]
  BY LessHeld DEF WInv
<1>4. wio[w] \in [W!Kinds -> Nat]
  BY DEF WInv, W!TypeOK
<1>5. PICK i : i = wio[w]
  OBVIOUS
<1>6. PICK j : j = wio'[w]
  OBVIOUS
<1>7. PICK d : d = n'[w]
  OBVIOUS
<1>8. PICK e : e = n[w]
  OBVIOUS
<1>9. /\ d \in [Counters -> Int] /\ e \in [Counters -> Int]
      /\ i \in [W!Kinds -> Nat] /\ j \in [W!Kinds -> Nat] /\ j[k] = i[k] + (-1)
      /\ \A m \in W!Kinds : m # k => j[m] = i[m]
  BY <1>2, <1>3, <1>4, <1>5, <1>6, <1>7, <1>8
<1>10. Level(d, j) = Level(d, i) - (-1)
  BY <1>9, OperationLevel
<1>11. Level(d, i) = Level(e, i) - 1
  <2>1. d["recved"] + d["writed"] = e["recved"] + e["writed"] + 1
    BY <1>2, <1>7, <1>8 DEF Counters
  <2>2. d["recv"] = e["recv"] /\ d["write"] = e["write"] /\ d["error"] = e["error"]
    BY <1>2, <1>7, <1>8 DEF Counters
  <2>3. PICK x1, x2, x3, x4, x5, y3, y4 :
          /\ x1 = e["recv"] /\ x2 = e["write"] /\ x3 = e["recved"] /\ x4 = e["writed"] /\ x5 = e["error"]
          /\ y3 = d["recved"] /\ y4 = d["writed"]
    OBVIOUS
  <2>4. PICK i1, i2 : i1 = i["read"] /\ i2 = i["write"]
    OBVIOUS
  <2>5. /\ x1 \in Int /\ x2 \in Int /\ x3 \in Int /\ x4 \in Int /\ x5 \in Int
        /\ y3 \in Int /\ y4 \in Int /\ i1 \in Int /\ i2 \in Int
    BY <1>9, <2>3, <2>4 DEF Counters, W!Kinds
  <2>6. Level(d, i) = x1 + x2 - y3 - y4 - x5 - i1 - i2
    BY <2>2, <2>3, <2>4 DEF Level
  <2>7. Level(e, i) = x1 + x2 - x3 - x4 - x5 - i1 - i2
    BY <2>3, <2>4 DEF Level
  <2>8. y3 + y4 = x3 + x4 + 1
    BY <2>1, <2>3
  <2> QED
    BY <2>5, <2>6, <2>7, <2>8
<1>12. Weight(s) = 0
  BY Weights DEF PostedSteps, FailedSteps
<1>13. Level(e, i) \in Int /\ Level(d, i) \in Int
  BY <1>9, LevelInt
<1>14. Level(d, j) + Weight(s) = Level(e, i)
  BY <1>10, <1>11, <1>12, <1>13
<1> QED
  BY <1>2, <1>5, <1>6, <1>7, <1>8, <1>14

LEMMA PacketInv == ASSUME WorkerAssumption, WInv, NEW t \in Threads, W!Packet(t) PROVE WInv'
<1> SUFFICES ASSUME NEW w \in W!Workers,
                    W!ReadData(t, w) \/ W!PeerClosed(t, w) \/ W!Written(t, w)
                      \/ \E k \in W!Kinds : W!Failed(t, w, k)
             PROVE  WInv'
  BY DEF W!Packet, W!PacketOf
<1>0. /\ "read" \in W!Kinds /\ "write" \in W!Kinds /\ messages \in 0 .. MaxMessages /\ MaxMessages \in Nat
      /\ bufs \in [made : Nat, free : Nat] /\ reqs \in [made : Nat, free : Nat]
      /\ todo \in [Threads -> 0 .. MaxAnswers] /\ MaxAnswers \in Nat \ {0}
  BY WorkerAssumption DEF WInv, W!TypeOK, W!Kinds, W!WorkerAssumption
<1>1. CASE W!ReadData(t, w)
  <2>1. /\ W!Dequeue(t, w, "read", "write") /\ W!Count(w, "recved")
        /\ messages < MaxMessages /\ messages' = messages + 1 /\ UNCHANGED <<bufs, reqs, silent>>
        /\ \E a \in (IF Echo THEN {1} ELSE 0 .. MaxAnswers) : todo' = [todo EXCEPT ![t] = a]
    BY <1>1 DEF W!ReadData, W!poolVars
  <2>2. wio[w]["read"] > 0 /\ wio' = [wio EXCEPT ![w]["read"] = @ - 1]
    BY <2>1 DEF W!Dequeue
  <2>3. /\ n' \in [W!Workers -> [Counters -> Int]] /\ \A v \in W!Workers : v # w => n'[v] = n[v]
        /\ Level(n'[w], wio'[w]) + Weight("write") = Level(n[w], wio[w])
    BY <1>0, <2>1, <2>2, CountedPacket
  <2>4. /\ messages' \in 0 .. MaxMessages /\ silent' \in {silent, silent \cup {w}}
        /\ bufs' \in [made : Nat, free : Nat] /\ reqs' \in [made : Nat, free : Nat]
    BY <1>0, <2>1
  <2>5. IF "write" = "write" THEN UNCHANGED <<bufs, reqs>>
                             ELSE bufs' = W!Back(bufs) /\ reqs' = W!Back(reqs)
    BY <2>1
  <2>6. todo' \in [Threads -> 0 .. MaxAnswers]
    <3>1. PICK a \in (IF Echo THEN {1} ELSE 0 .. MaxAnswers) : todo' = [todo EXCEPT ![t] = a]
      BY <2>1
    <3>2. a \in 0 .. MaxAnswers
      BY <1>0
    <3> QED
      BY <1>0, <3>1, <3>2
  <2> QED
    BY <1>0, <2>1, <2>3, <2>4, <2>5, <2>6, DequeueStep
<1>2. CASE W!PeerClosed(t, w)
  <2>1. /\ W!Dequeue(t, w, "read", "stop") /\ W!Count(w, "recved")
        /\ bufs' = W!Back(bufs) /\ reqs' = W!Back(reqs) /\ UNCHANGED <<messages, todo, silent>>
    BY <1>2 DEF W!PeerClosed, W!GiveBack
  <2>2. wio[w]["read"] > 0 /\ wio' = [wio EXCEPT ![w]["read"] = @ - 1]
    BY <2>1 DEF W!Dequeue
  <2>3. /\ n' \in [W!Workers -> [Counters -> Int]] /\ \A v \in W!Workers : v # w => n'[v] = n[v]
        /\ Level(n'[w], wio'[w]) + Weight("stop") = Level(n[w], wio[w])
    BY <1>0, <2>1, <2>2, CountedPacket
  <2>4. /\ messages' \in 0 .. MaxMessages /\ todo' \in [Threads -> 0 .. MaxAnswers]
        /\ silent' \in {silent, silent \cup {w}}
        /\ bufs' \in [made : Nat, free : Nat] /\ reqs' \in [made : Nat, free : Nat]
    BY <1>0, <2>1, ListNumbers
  <2>5. IF "stop" = "write" THEN UNCHANGED <<bufs, reqs>>
                            ELSE bufs' = W!Back(bufs) /\ reqs' = W!Back(reqs)
    BY <2>1
  <2> QED
    BY <1>0, <2>1, <2>3, <2>4, <2>5, DequeueStep
<1>3. CASE W!Written(t, w)
  <2>1. /\ W!Dequeue(t, w, "write", "idle") /\ W!Count(w, "writed")
        /\ bufs' = W!Back(bufs) /\ reqs' = W!Back(reqs) /\ UNCHANGED <<messages, todo>>
        /\ silent' \in {silent, silent \cup {w}}
    BY <1>3 DEF W!Written, W!GiveBack
  <2>2. wio[w]["write"] > 0 /\ wio' = [wio EXCEPT ![w]["write"] = @ - 1]
    BY <2>1 DEF W!Dequeue
  <2>3. /\ n' \in [W!Workers -> [Counters -> Int]] /\ \A v \in W!Workers : v # w => n'[v] = n[v]
        /\ Level(n'[w], wio'[w]) + Weight("idle") = Level(n[w], wio[w])
    BY <1>0, <2>1, <2>2, CountedPacket
  <2>4. /\ messages' \in 0 .. MaxMessages /\ todo' \in [Threads -> 0 .. MaxAnswers]
        /\ bufs' \in [made : Nat, free : Nat] /\ reqs' \in [made : Nat, free : Nat]
    BY <1>0, <2>1, ListNumbers
  <2>5. IF "idle" = "write" THEN UNCHANGED <<bufs, reqs>>
                            ELSE bufs' = W!Back(bufs) /\ reqs' = W!Back(reqs)
    BY <2>1
  <2> QED
    BY <1>0, <2>1, <2>3, <2>4, <2>5, DequeueStep
<1>4. ASSUME NEW k \in W!Kinds, W!Failed(t, w, k) PROVE WInv'
  <2>1. /\ W!Dequeue(t, w, k, "fail") /\ bufs' = W!Back(bufs) /\ reqs' = W!Back(reqs)
        /\ UNCHANGED <<n, messages, todo, silent>>
    BY <1>4 DEF W!Failed, W!GiveBack
  <2>2. wio[w][k] > 0 /\ wio' = [wio EXCEPT ![w][k] = @ - 1]
    BY <2>1 DEF W!Dequeue
  <2>3. /\ n \in [W!Workers -> [Counters -> Int]] /\ n[w] \in [Counters -> Int]
        /\ wio[w] \in [W!Kinds -> Nat]
    <3>1. W!TypeOK => n \in [W!Workers -> [{"recv", "recved", "write", "writed", "error"} -> Int]]
      BY DEF W!TypeOK
    <3>2. W!TypeOK => wio \in [W!Workers -> [W!Kinds -> Nat]]
      BY DEF W!TypeOK
    <3> QED
      BY <3>1, <3>2 DEF Counters, WInv
  <2>4. /\ wio' \in [W!Workers -> [W!Kinds -> Nat]] /\ wio'[w][k] = wio[w][k] - 1
        /\ \A m \in W!Kinds : m # k => wio'[w][m] = wio[w][m]
    BY <2>2, LessHeld DEF WInv
  <2>5. Level(n'[w], wio'[w]) + Weight("fail") = Level(n[w], wio[w])
    <3>1. PICK i : i = wio[w]
      OBVIOUS
    <3>2. PICK j : j = wio'[w]
      OBVIOUS
    <3>3. Level(n[w], j) = Level(n[w], i) - (-1)
      BY <2>3, <2>4, <3>1, <3>2, OperationLevel
    <3>4. Level(n[w], i) \in Int
      BY <2>3, <3>1, LevelInt
    <3>5. Weight("fail") = -1
      BY Weights DEF FailedSteps
    <3>6. Level(n[w], j) + Weight("fail") = Level(n[w], i)
      BY <3>3, <3>4, <3>5
    <3> QED
      BY <2>1, <3>1, <3>2, <3>6
  <2>6. /\ messages' \in 0 .. MaxMessages /\ todo' \in [Threads -> 0 .. MaxAnswers]
        /\ silent' \in {silent, silent \cup {w}}
        /\ bufs' \in [made : Nat, free : Nat] /\ reqs' \in [made : Nat, free : Nat]
        /\ n' \in [W!Workers -> [Counters -> Int]] /\ \A v \in W!Workers : v # w => n'[v] = n[v]
    BY <1>0, <2>1, <2>3, ListNumbers
  <2>7. IF "fail" = "write" THEN UNCHANGED <<bufs, reqs>>
                            ELSE bufs' = W!Back(bufs) /\ reqs' = W!Back(reqs)
    BY <2>1
  <2> QED
    BY <2>1, <2>5, <2>6, <2>7, DequeueStep
<1> QED
  BY <1>1, <1>2, <1>3, <1>4


\* A connection is accepted for the first object of the list, or for a new one.
LEMMA WorkerAcceptInv == ASSUME WorkerAssumption, WInv, NEW t \in Threads, W!Accept(t) PROVE WInv'
<1>1. PICK w \in W!Workers :
        /\ W!TakeWorker(w) /\ socket' = [socket EXCEPT ![w] = sessions']
        /\ wstatus' = [wstatus EXCEPT ![w] = "stop"]
        /\ wpc' = [wpc EXCEPT ![t] = "start"] /\ obj' = [obj EXCEPT ![t] = w]
        /\ suspect' = (IF n'[w].error # 0 THEN suspect \cup {w} ELSE suspect)
        /\ silent' = silent \ {w}
  BY DEF W!Accept
<1>2. /\ wpc[t] = "idle" /\ sessions < MaxSessions /\ sessions' = sessions + 1
      /\ bufs' = W!Back([bufs EXCEPT !.made = @ + 1]) /\ reqs' = W!Back([reqs EXCEPT !.made = @ + 1])
      /\ wopened' = wopened \cup {sessions'}
      /\ UNCHANGED <<res, wio, acceptNum, todo, messages, refused>>
  BY DEF W!Accept
<1>3. /\ wpc \in [Threads -> W!Steps] /\ obj \in [Threads -> 0 .. made] /\ made \in 0 .. MaxWorkers
      /\ \A u \in Threads : (obj[u] = 0) <=> (wpc[u] = "idle")
      /\ MaxWorkers \in Nat /\ MaxSessions \in Nat /\ sessions \in 0 .. MaxSessions
      /\ freeWorkers \in Seq(1 .. made) /\ FreshErrors \subseteq Int /\ acceptNum \in Int
  BY WorkerAssumption DEF WInv, W!TypeOK, W!WorkerAssumption, W!NoWorker
<1>4. \/ freeWorkers # <<>> /\ w = Head(freeWorkers) /\ freeWorkers' = Tail(freeWorkers) /\ made' = made /\ n' = n
      \/ /\ freeWorkers = <<>> /\ w = made + 1 /\ made' = made + 1 /\ freeWorkers' = freeWorkers
         /\ \E e \in FreshErrors : n' = [n EXCEPT ![w] = [n[w] EXCEPT !["error"] = e]]
  BY <1>1 DEF W!TakeWorker
<1>5. n \in [W!Workers -> [Counters -> Int]] /\ n[w] \in [Counters -> Int]
  <2>1. W!TypeOK => n \in [W!Workers -> [{"recv", "recved", "write", "writed", "error"} -> Int]]
    BY DEF W!TypeOK
  <2> QED
    BY <2>1 DEF Counters, WInv
<1>6. n' \in [W!Workers -> [Counters -> Int]] /\ \A v \in W!Workers : v # w => n'[v] = n[v]
  <2>1. CASE n' = n
    BY <1>5, <2>1
  <2>2. ASSUME NEW e \in FreshErrors, n' = [n EXCEPT ![w] = [n[w] EXCEPT !["error"] = e]]
        PROVE  n' \in [W!Workers -> [Counters -> Int]] /\ \A v \in W!Workers : v # w => n'[v] = n[v]
    <3>1. PICK c : c = [n[w] EXCEPT !["error"] = e]
      OBVIOUS
    <3>2. c \in [Counters -> Int]
      BY <1>3, <1>5, <3>1
    <3>3. n' = [n EXCEPT ![w] = c]
      BY <2>2, <3>1
    <3> QED
      BY <1>5, <3>2, <3>3
  <2> QED
    BY <1>4, <2>1, <2>2
<1>7. /\ made' \in 0 .. MaxWorkers /\ made <= made' /\ w \in 1 .. made' /\ w # 0
      /\ freeWorkers' \in Seq(1 .. made')
      /\ Len(freeWorkers') \in Int /\ Len(freeWorkers) \in Int
      /\ made' - Len(freeWorkers') = made - Len(freeWorkers) + 1
  <2>1. CASE freeWorkers # <<>> /\ w = Head(freeWorkers) /\ freeWorkers' = Tail(freeWorkers) /\ made' = made
    <3>1. PICK S : S = 1 .. made
      OBVIOUS
    <3>2. /\ Head(freeWorkers) \in S /\ Tail(freeWorkers) \in Seq(S)
          /\ Len(Tail(freeWorkers)) = Len(freeWorkers) - 1 /\ Len(freeWorkers) \in Nat
      BY <1>3, <2>1, <3>1
    <3> QED
      BY <1>3, <2>1, <3>1, <3>2
  <2>2. CASE freeWorkers = <<>> /\ w = made + 1 /\ made' = made + 1 /\ freeWorkers' = freeWorkers
    <3>1. w <= MaxWorkers
      BY <1>3 DEF W!Workers
    <3>2. freeWorkers' \in Seq(1 .. made') /\ Len(freeWorkers') = 0 /\ Len(freeWorkers) = 0
      BY <2>2
    <3> QED
      BY <1>3, <2>2, <3>1, <3>2
  <2> QED
    BY <1>4, <2>1, <2>2
<1>8. /\ wpc' \in [Threads -> W!Steps] /\ obj' \in [Threads -> 0 .. made']
      /\ \A u \in Threads : (obj'[u] = 0) <=> (wpc'[u] = "idle")
      /\ wpc'[t] = "start" /\ obj'[t] = w /\ obj[t] = 0
      /\ \A u \in Threads : u # t => wpc'[u] = wpc[u] /\ obj'[u] = obj[u]
  <2>1. "start" \in W!Steps
    BY DEF W!Steps
  <2> QED
    BY <1>1, <1>2, <1>3, <1>7, <2>1
<1>9. /\ bufs' \in [made : Nat, free : Nat] /\ bufs'.made - bufs'.free = bufs.made - bufs.free
      /\ reqs' \in [made : Nat, free : Nat] /\ reqs'.made - reqs'.free = reqs.made - reqs.free
      /\ bufs \in [made : Nat, free : Nat] /\ reqs \in [made : Nat, free : Nat]
  <2>1. bufs \in [made : Nat, free : Nat] /\ reqs \in [made : Nat, free : Nat]
    BY DEF WInv, W!TypeOK
  <2>2. PICK b, q : b = [bufs EXCEPT !.made = @ + 1] /\ q = [reqs EXCEPT !.made = @ + 1]
    OBVIOUS
  <2>3. /\ b \in [made : Nat, free : Nat] /\ b.made - b.free = bufs.made - bufs.free + 1
        /\ q \in [made : Nat, free : Nat] /\ q.made - q.free = reqs.made - reqs.free + 1
    BY <2>1, <2>2
  <2>4. /\ W!Back(b) \in [made : Nat, free : Nat] /\ W!Back(b).made - W!Back(b).free = b.made - b.free - 1
        /\ W!Back(q) \in [made : Nat, free : Nat] /\ W!Back(q).made - W!Back(q).free = q.made - q.free - 1
    BY <2>3, ListNumbers
  <2> QED
    BY <1>2, <2>1, <2>2, <2>3, <2>4
<1>10. W!TypeOK'
  <2>1. n' \in [W!Workers -> [{"recv", "recved", "write", "writed", "error"} -> Int]]
    BY <1>6 DEF Counters
  <2>2. sessions' \in 0 .. MaxSessions
    BY <1>2, <1>3
  <2>3. socket' \in [W!Workers -> 0 .. MaxSessions] /\ wstatus' \in [W!Workers -> {"stop", "run", "error"}]
    BY <1>1, <2>2 DEF WInv, W!TypeOK
  <2>4. suspect' \subseteq 1 .. made' /\ silent' \subseteq 1 .. made'
    <3>1. suspect \subseteq 1 .. made /\ silent \subseteq 1 .. made
      BY DEF WInv, W!TypeOK
    <3>2. suspect' \subseteq suspect \cup {w} /\ silent' \subseteq silent
      BY <1>1
    <3>3. 1 .. made \subseteq 1 .. made'
      BY <1>3, <1>7
    <3> QED
      BY <1>7, <3>1, <3>2, <3>3
  <2>5. wopened' \subseteq 1 .. MaxSessions
    <3>1. sessions' \in 1 .. MaxSessions
      BY <1>2, <1>3
    <3> QED
      BY <1>2, <3>1 DEF WInv, W!TypeOK
  <2> QED
    BY <1>2, <1>7, <1>8, <1>9, <2>1, <2>2, <2>3, <2>4, <2>5 DEF WInv, W!TypeOK, W!NoWorker
<1>11. (t \in W!InHand <=> t \in W!InHand') /\ t \in W!Starting' /\ t \notin W!Starting
  BY <1>2, <1>8 DEF W!InHand, W!Starting
<1>12. /\ Cardinality(W!InHand') = Cardinality(W!InHand) /\ Cardinality(W!InHand) \in Nat
       /\ Cardinality(W!Starting) \in Nat /\ Cardinality(W!Starting') = Cardinality(W!Starting) + 1
  BY <1>8, <1>11, ThreadCounts
<1>13. W!PoolsWhole' /\ IsFiniteSet(W!Outstanding')
  <2>1. W!Outstanding' = W!Outstanding /\ Cardinality(W!Outstanding) \in Nat
    BY <1>2, SameHeld DEF WInv
  <2>2. PICK x : x = Cardinality(W!Outstanding) + Cardinality(W!InHand)
    OBVIOUS
  <2>3. x \in Nat /\ bufs.made = bufs.free + x /\ reqs.made = reqs.free + x
    BY <1>12, <2>1, <2>2, PoolNumbers DEF WInv
  <2>4. bufs'.made = bufs'.free + x /\ reqs'.made = reqs'.free + x
    BY <1>9, <2>3
  <2>5. Cardinality(W!Outstanding') + Cardinality(W!InHand') = x
    BY <1>12, <2>1, <2>2
  <2> QED
    BY <2>1, <2>4, <2>5, PoolNumbers DEF WInv
<1>14. AcceptSum'
  <2>1. acceptNum + Len(freeWorkers) + Cardinality(W!Starting) = made
    BY DEF WInv, AcceptSum
  <2>2. acceptNum' + Len(freeWorkers') + Cardinality(W!Starting') = made'
    <3>1. PICK c : c = Cardinality(W!Starting)
      OBVIOUS
    <3>2. c \in Nat /\ Cardinality(W!Starting') = c + 1 /\ acceptNum' = acceptNum /\ acceptNum \in Int
      BY <1>2, <1>3, <1>12, <3>1
    <3>3. acceptNum + Len(freeWorkers) + c = made
      BY <2>1, <3>1
    <3>4. acceptNum + Len(freeWorkers') + (c + 1) = made'
      <4>1. PICK l, k, m, o : l = Len(freeWorkers) /\ k = Len(freeWorkers') /\ m = made /\ o = made'
        OBVIOUS
      <4>2. l \in Int /\ k \in Int /\ m \in Int /\ o \in Int /\ o - k = m - l + 1
        BY <1>3, <1>7, <4>1
      <4>3. acceptNum + l + c = m
        BY <3>3, <4>1
      <4>4. acceptNum + k + (c + 1) = o
        BY <3>2, <4>2, <4>3
      <4> QED
        BY <4>1, <4>4
    <3> QED
      BY <3>2, <3>4
  <2> QED
    BY <2>2 DEF AcceptSum
<1>15. Unused'
  <2> SUFFICES ASSUME NEW v \in W!Workers, v > made' PROVE Quiet(wio'[v]) /\ socket'[v] = 0
    BY DEF Unused, Quiet
  <2>1. v > made /\ v # w
    BY <1>3, <1>7 DEF W!Workers
  <2>2. socket'[v] = socket[v]
    BY <1>1, <2>1 DEF WInv, W!TypeOK
  <2> QED
    BY <1>2, <2>1, <2>2 DEF WInv, Unused
<1>16. ASSUME NEW v \in (1 .. made') \ suspect', v # w PROVE Good(v)'
  <2>1. v \in (1 .. made) \ suspect /\ v # 0 /\ v \in W!Workers
    BY <1>1, <1>3, <1>4, <1>16 DEF W!Workers
  <2>2. Good(v)
    BY <2>1 DEF WInv
  <2>3. /\ n'[v] = n[v] /\ wio'[v] = wio[v] /\ socket'[v] = socket[v] /\ refused' = refused
        /\ obj[t] # v /\ obj'[t] # v
    BY <1>1, <1>2, <1>6, <1>8, <1>16, <2>1 DEF WInv, W!TypeOK
  <2>4. (IsFree(v)' <=> IsFree(v)) /\ OnceFree(v)'
    <3>1. CASE freeWorkers' = freeWorkers
      BY <2>2, <3>1 DEF IsFree, OnceFree, Good
    <3>2. CASE freeWorkers # <<>> /\ w = Head(freeWorkers) /\ freeWorkers' = Tail(freeWorkers)
      <4>1. (IsFree(v)' <=> IsFree(v)) /\ (OnceFree(v) => OnceFree(v)')
        BY <1>3, <1>16, <3>2, FromFree
      <4> QED
        BY <2>2, <4>1 DEF Good
    <3> QED
      BY <1>4, <3>1, <3>2
  <2> QED
    BY <1>8, <1>16, <2>1, <2>2, <2>3, <2>4, OtherGood
\* What is known of the object until then, if it is not one of the exceptions.
<1>17. w \notin suspect => /\ OnceFree(w)' /\ ~IsFree(w)' /\ Quiet(wio[w])
                           /\ \A u \in Threads : ~On(u, w)
                           /\ socket[w] = 0 \/ socket[w] \in refused
  <2>1. CASE freeWorkers # <<>> /\ w = Head(freeWorkers) /\ freeWorkers' = Tail(freeWorkers) /\ made' = made
    <3>1. w \notin suspect => Good(w)
      BY <1>7, <2>1 DEF WInv
    <3>2. /\ OnceFree(w) => OnceFree(w)'
          /\ IsFree(w)
          /\ OnceFree(w) => ~IsFree(w)'
      BY <1>3, <2>1, FromFree
    <3> QED
      BY <3>1, <3>2 DEF Good
  <2>2. CASE freeWorkers = <<>> /\ w = made + 1 /\ freeWorkers' = freeWorkers
    <3>1. OnceFree(w)' /\ ~IsFree(w)'
      BY <2>2 DEF OnceFree, IsFree
    <3>2. Quiet(wio[w]) /\ socket[w] = 0
      BY <1>3, <2>2 DEF WInv, Unused
    <3>3. \A u \in Threads : ~On(u, w)
      BY <1>3, <2>2 DEF On
    <3> QED
      BY <3>1, <3>2, <3>3
  <2> QED
    BY <1>4, <2>1, <2>2
<1>18. ASSUME w \notin suspect' PROVE Good(w)'
  <2>1. n'[w]["error"] = 0 /\ w \notin suspect
    BY <1>1, <1>18
  <2>2. OnceFree(w)' /\ ~IsFree(w)' /\ Quiet(wio[w])' /\ \A u \in Threads : ~On(u, w)
    <3>1. OnceFree(w)' /\ ~IsFree(w)' /\ Quiet(wio[w]) /\ \A u \in Threads : ~On(u, w)
      BY <1>17, <2>1
    <3>2. wio' = wio
      BY <1>2
    <3> QED
      BY <3>1, <3>2 DEF Quiet
  <2>3. /\ \A u \in Threads : u # t => ~On(u, w)'
        /\ On(t, w)' /\ wpc'[t] = "start"
    BY <1>8, <2>2 DEF On
  <2>4. ~Counted(w)' /\ "start" \notin Late
    BY <2>3 DEF Counted, Late
  <2> QED
    BY <2>1, <2>2, <2>3, <2>4 DEF Good
<1>19. \A v \in (1 .. made') \ suspect' : Good(v)'
  BY <1>16, <1>18
<1>20. Held'
  <2> SUFFICES ASSUME suspect' = {}, NEW x \in wopened', x \notin refused
               PROVE  \E v \in W!Workers : socket'[v] = x
    BY <1>2 DEF Held
  <2>1. socket'[w] = sessions' /\ \A v \in W!Workers : v # w => socket'[v] = socket[v]
    BY <1>1 DEF WInv, W!TypeOK
  <2>2. suspect = {}
    BY <1>1
  <2>3. CASE x = sessions'
    BY <2>1, <2>3
  <2>4. CASE x # sessions'
    <3>1. x \in wopened /\ x # 0
      BY <1>2, <2>4 DEF WInv, W!TypeOK
    <3>2. PICK v \in W!Workers : socket[v] = x
      BY <2>2, <3>1 DEF WInv, Held
    <3>3. v # w
      BY <1>17, <2>2, <3>1, <3>2
    <3> QED
      BY <2>1, <3>2, <3>3
  <2> QED
    BY <2>3, <2>4
<1> QED
  BY <1>10, <1>13, <1>14, <1>15, <1>19, <1>20 DEF WInv

----------------------------------------------------------------------------
(* The invariant of the sessions                                           *)

LEMMA WorkerInit == WorkerAssumption /\ W!Init => WInv
<1> SUFFICES ASSUME WorkerAssumption, W!Init PROVE WInv
  OBVIOUS
<1>0. /\ MaxWorkers \in Nat /\ InitWorkers \in 0 .. MaxWorkers /\ FreshErrors \subseteq Int
      /\ MaxSessions \in Nat /\ MaxMessages \in Nat /\ MaxAnswers \in Nat
  BY WorkerAssumption DEF W!WorkerAssumption
<1>1. /\ socket = [w \in W!Workers |-> 0] /\ wstatus = [w \in W!Workers |-> "stop"]
      /\ res = [w \in W!Workers |-> 0] /\ made = InitWorkers
      /\ freeWorkers = [w \in 1 .. InitWorkers |-> w]
      /\ wio = [w \in W!Workers |-> [k \in W!Kinds |-> 0]]
      /\ bufs = [made |-> 0, free |-> 0] /\ reqs = bufs
      /\ acceptNum = 0 /\ sessions = 0 /\ messages = 0
      /\ wpc = [t \in Threads |-> "idle"] /\ obj = [t \in Threads |-> 0]
      /\ todo = [t \in Threads |-> 0] /\ wopened = {} /\ refused = {} /\ suspect = {} /\ silent = {}
  BY DEF W!Init, W!NoSocket, W!NoWorker
<1>2. n \in [W!Workers -> [{"recv", "recved", "write", "writed", "error"} -> Int]]
  <2>1. PICK e \in [W!Workers -> FreshErrors] :
          n = [w \in W!Workers |-> [recv |-> 0, recved |-> 0, write |-> 0, writed |-> 0, error |-> e[w]]]
    BY DEF W!Init
  <2>2. ASSUME NEW w \in W!Workers
        PROVE  [recv |-> 0, recved |-> 0, write |-> 0, writed |-> 0, error |-> e[w]]
                 \in [{"recv", "recved", "write", "writed", "error"} -> Int]
    <3>1. PICK x : x = e[w]
      OBVIOUS
    <3>2. x \in Int
      BY <1>0, <3>1
    <3>3. PICK c : c = [recv |-> 0, recved |-> 0, write |-> 0, writed |-> 0, error |-> x]
      OBVIOUS
    <3>4. /\ c = [y \in DOMAIN c |-> c[y]] /\ DOMAIN c = {"recv", "recved", "write", "writed", "error"}
          /\ c["recv"] = 0 /\ c["recved"] = 0 /\ c["write"] = 0 /\ c["writed"] = 0 /\ c["error"] = x
      BY <3>3
    <3>5. \A y \in DOMAIN c : c[y] \in Int
      BY <3>2, <3>4
    <3> QED
      BY <3>1, <3>3, <3>4, <3>5
  <2> QED
    BY <2>1, <2>2
<1>3. freeWorkers \in Seq(1 .. made) /\ Len(freeWorkers) = made /\ DOMAIN freeWorkers = 1 .. made
  BY <1>0, <1>1
<1>4. W!TypeOK
  <2>1. "idle" \in W!Steps
    BY DEF W!Steps
  <2> QED
    BY <1>0, <1>1, <1>2, <1>3, <2>1 DEF W!TypeOK, W!NoWorker
<1>5. W!Outstanding = {} /\ W!InHand = {} /\ W!Starting = {}
  <2>1. W!InHand = {} /\ W!Starting = {}
    BY <1>1 DEF W!InHand, W!Starting
  <2>2. \A p \in W!Workers \X W!Kinds : 1 .. wio[p[1]][p[2]] = {}
    BY <1>1
  <2>3. W!Outstanding = {}
    BY <2>2 DEF W!Outstanding
  <2> QED
    BY <2>1, <2>3
<1>6. W!PoolsWhole /\ IsFiniteSet(W!Outstanding) /\ AcceptSum
  <2>1. Cardinality(W!Outstanding) = 0 /\ Cardinality(W!InHand) = 0 /\ Cardinality(W!Starting) = 0
    BY <1>5, FS_EmptySet
  <2>2. IsFiniteSet(W!Outstanding)
    BY <1>5, FS_EmptySet
  <2>3. W!PoolsWhole
    BY <1>1, <2>1, PoolNumbers
  <2> QED
    BY <1>0, <1>1, <1>3, <2>1, <2>2, <2>3 DEF AcceptSum
<1>7. \A w \in W!Workers : Quiet(wio[w])
  BY <1>1 DEF Quiet, W!Kinds
<1>8. ASSUME NEW w \in 1 .. made PROVE Good(w)
  <2>1. w \in W!Workers /\ w # 0
    BY <1>0, <1>1 DEF W!Workers
  <2>2. OnceFree(w) /\ IsFree(w)
    BY <1>1, <1>3 DEF OnceFree, IsFree
  <2>3. \A t \in Threads : ~On(t, w)
    BY <1>1, <2>1 DEF On
  <2> QED
    BY <1>1, <1>7, <2>1, <2>2, <2>3 DEF Good, Counted
<1>9. Unused /\ Held
  BY <1>1, <1>7 DEF Unused, Held
<1> QED
  BY <1>4, <1>6, <1>8, <1>9 DEF WInv

LEMMA WorkerInvariant == W!Spec => []WInv
<1>1. ASSUME WInv, [W!Next]_(W!vars) PROVE WInv'
  <2>1. ASSUME NEW t \in Threads, W!Accept(t) PROVE WInv'
    BY <1>1, <2>1, WorkerAssumption, WorkerAcceptInv
  <2>2. ASSUME NEW t \in Threads, W!Packet(t) PROVE WInv'
    BY <1>1, <2>2, WorkerAssumption, PacketInv
  <2>3. ASSUME NEW t \in Threads, W!Handler(t) PROVE WInv'
    BY <1>1, <2>3, WorkerAssumption, StartInv, StartedInv, AcceptedWorkerInv, PostInv, CountPostedInv,
       PostFailsInv, ProcessedInv, CheckWriteInv, CheckReadInv, StopInv, CountErrorInv, OverInv DEF W!Handler
  <2>4. CASE UNCHANGED W!vars
    <3>1. UNCHANGED <<socket, wstatus, res, n, wio, bufs, reqs, freeWorkers, made, acceptNum, wpc, obj,
                      todo, wopened, sessions, messages, refused, suspect, silent>>
      BY <2>4 DEF W!vars, W!objVars, W!poolVars, W!listVars, W!envVars, W!auxVars
    <3>2. /\ W!TypeOK' /\ W!PoolsWhole' /\ IsFiniteSet(W!Outstanding') /\ AcceptSum' /\ Unused' /\ Held'
      <4>1. W!TypeOK'
        BY <1>1, <3>1 DEF WInv, W!TypeOK
      <4>2. W!Outstanding' = W!Outstanding /\ W!InHand' = W!InHand /\ W!Starting' = W!Starting
        BY <3>1 DEF W!Outstanding, W!InHand, W!Starting
      <4>3. W!PoolsWhole' /\ IsFiniteSet(W!Outstanding')
        BY <1>1, <3>1, <4>2 DEF WInv, W!PoolsWhole
      <4>4. AcceptSum' /\ Unused' /\ Held'
        BY <1>1, <3>1, <4>2, HeldSame DEF WInv, AcceptSum, Unused, Quiet
      <4> QED
        BY <4>1, <4>3, <4>4
    <3>3. ASSUME NEW w \in (1 .. made) \ suspect PROVE Good(w)'
      <4>1. Good(w)
        BY <1>1 DEF WInv
      <4>2. (IsFree(w)' <=> IsFree(w)) /\ OnceFree(w)'
        BY <3>1, <4>1 DEF IsFree, OnceFree, Good
      <4> QED
        BY <3>1, <4>1, <4>2, SameGood DEF On
    <3> QED
      BY <3>1, <3>2, <3>3 DEF WInv
  <2> QED
    BY <1>1, <2>1, <2>2, <2>3, <2>4 DEF W!Next
<1>2. W!Init => WInv
  BY WorkerAssumption, WorkerInit
<1> QED
  BY <1>1, <1>2, PTL DEF W!Spec

----------------------------------------------------------------------------
(* An RTSP session                                                         *)

\* The state is idle, and a request that is being analysed is one that this state
\* accepts.
IInv ==
  /\ anaPhase \in {0, 1}
  /\ R!NeverLeavesIdle
  /\ anaPhase = 1 => methodcode \in {"ANNOUNCE", "OPTIONS"}

\* A command line begins with a word: parse_command_line sets methodcode from it.
LEMMA CommandHasWord ==
  ASSUME NEW text, R!Recognised(text)
  PROVE  R!HasWord(text)
<1>1. PICK m \in R!Methods : text = << <<"command", m, 1>>, <<"command", m, 2>> >>
  BY DEF R!Recognised, R!Command
<1>2. Len(text) = 2 /\ text[1] = <<"command", m, 1>>  BY <1>1
<1>3. 1 \in 1 .. Len(text)  BY <1>2
<1>4. text[1][1] = "command" /\ text[1][3] = 1  BY <1>2
<1> QED  BY <1>3, <1>4 DEF R!HasWord

\* In the idle state a command line leads to phase 1 with ANNOUNCE and OPTIONS only.
LEMMA CommandLineKeeps ==
  ASSUME IInv, R!CommandLine
  PROVE  IInv'
<1> DEFINE text == R!Text
<1>1. anaPhase = 0 /\ rtspState' = "IDLE"  BY DEF IInv, R!CommandLine, R!NeverLeavesIdle
<1>2. CASE R!Recognised(text) /\ R!Allowed(R!MethodOf(text))
  <2>1. R!HasWord(text)  BY <1>2, CommandHasWord
  <2>2. methodcode' = R!MethodOf(text) /\ anaPhase' = 1  BY <1>2, <2>1 DEF R!CommandLine
  <2>3. R!MethodOf(text) \in {"ANNOUNCE", "OPTIONS"}
    BY <1>2 DEF R!Allowed, IInv, R!NeverLeavesIdle
  <2> QED  BY <1>1, <2>2, <2>3 DEF IInv, R!NeverLeavesIdle
<1>3. CASE ~(R!Recognised(text) /\ R!Allowed(R!MethodOf(text)))
  <2>1. anaPhase' = 0  BY <1>1, <1>3 DEF R!CommandLine
  <2> QED  BY <1>1, <2>1 DEF IInv, R!NeverLeavesIdle
<1> QED  BY <1>2, <1>3

\* Neither of the two methods changes the state when its request ends.
LEMMA EndRequestKeeps ==
  ASSUME IInv, R!EndRequest
  PROVE  IInv'
<1>1. methodcode \in {"ANNOUNCE", "OPTIONS"} /\ rtspState = "IDLE"
  BY DEF IInv, R!EndRequest, R!NeverLeavesIdle
<1>2. anaPhase' = 0  BY DEF R!EndRequest, R!NextPhase
<1>3. R!StateAfter(methodcode) = "IDLE"  BY <1>1 DEF R!StateAfter
<1>4. rtspState' = "IDLE"  BY <1>1, <1>3 DEF R!EndRequest
<1> QED  BY <1>2, <1>4 DEF IInv, R!NeverLeavesIdle

\* The inductive invariant.
LEMMA StaysIdle == R!Spec => []IInv
<1>1. R!Init => IInv  BY DEF R!Init, IInv, R!NeverLeavesIdle
<1>2. IInv /\ [R!Next]_R!vars => IInv'
  <2> SUFFICES ASSUME IInv, [R!Next]_R!vars PROVE IInv'  OBVIOUS
  <2>1. CASE R!CommandLine  BY <2>1, CommandLineKeeps
  <2>2. CASE R!EndRequest  BY <2>2, EndRequestKeeps
  <2>3. CASE UNCHANGED <<anaPhase, rtspState, methodcode>>
    BY <2>3 DEF IInv, R!NeverLeavesIdle
  <2>4. CASE R!vars' = R!vars  BY <2>3, <2>4 DEF R!vars, R!sessionVars
  <2>5. CASE R!Next
    <3>1. ASSUME NEW m, NEW k, R!Send(m, k) PROVE IInv'
      BY <2>3, <3>1 DEF R!Send, R!sessionVars
    <3>2. CASE R!Reconnect  BY <2>3, <3>2 DEF R!Reconnect
    <3>3. CASE R!Receive  BY <2>3, <3>3 DEF R!Receive, R!sessionVars
    <3>4. CASE R!ReadChar  BY <2>3, <3>4 DEF R!ReadChar, R!sessionVars
    <3>5. CASE R!KeepRest  BY <2>3, <3>5 DEF R!KeepRest, R!sessionVars
    <3>6. CASE R!HeaderLine  BY <2>3, <3>6 DEF R!HeaderLine
    <3>7. CASE R!UnexpectedEnd  BY <2>3, <3>7 DEF R!UnexpectedEnd, R!sessionVars
    <3> QED
      BY <2>1, <2>2, <2>5, <3>1, <3>2, <3>3, <3>4, <3>5, <3>6, <3>7 DEF R!Next
  <2> QED  BY <2>4, <2>5
<1> QED  BY <1>1, <1>2, PTL DEF R!Spec

----------------------------------------------------------------------------
(* Types, and that a line never outgrows its buffer                        *)

\* What a client sends, token by token.
Tokens == {R!CR, R!LF} \cup ({"command"} \X R!Methods \X {1, 2})
            \cup ({"cseq"} \X (1 .. MaxRequests) \X {1, 2})
            \cup ({"transport", "other"} \X {0} \X Nat)

Headers == [seq : 0 .. MaxRequests, nb_transports : {0, 1}]

TInv ==
  /\ R!TypeOK
  /\ wire \in Seq(Tokens) /\ pkt \in Seq(Tokens) /\ line \in Seq(Tokens) /\ temp \in Seq(Tokens)
  /\ sent \in Seq([method : R!Methods, seq : Nat])
  /\ header \in Headers

\* A header line keeps the header a header.
LEMMA WithHeader ==
  ASSUME NEW h \in [seq : 0 .. MaxRequests, nb_transports : {0, 1}], NEW i \in 0 .. MaxRequests
  PROVE  [h EXCEPT !.seq = i] \in Headers /\ [h EXCEPT !.nb_transports = 1] \in Headers
BY DEF Headers

LEMMA LineIsTokens ==
  ASSUME NEW text \in Seq(Tokens)
  PROVE  R!Line(text) \in Seq(Tokens)
<1>1. <<R!CR, R!LF>> \in Seq(Tokens)
  <2>1. R!CR \in Tokens /\ R!LF \in Tokens  BY DEF Tokens
  <2> QED  BY <2>1
<1> QED  BY <1>1 DEF R!Line

LEMMA RequestIsTokens ==
  ASSUME NEW m \in R!Methods, NEW i \in 1 .. MaxRequests, NEW k \in Nat
  PROVE  R!Request(m, i, k) \in Seq(Tokens)
<1>1. R!Command(m) \in Seq(Tokens)
  <2>1. <<"command", m, 1>> \in Tokens /\ <<"command", m, 2>> \in Tokens  BY DEF Tokens
  <2> QED  BY <2>1 DEF R!Command
<1>2. R!CSeq(i) \in Seq(Tokens)
  <2>1. <<"cseq", i, 1>> \in Tokens /\ <<"cseq", i, 2>> \in Tokens  BY DEF Tokens
  <2> QED  BY <2>1 DEF R!CSeq
<1>3. R!Transport \in Seq(Tokens)
  <2>1. <<"transport", 0, 1>> \in Tokens /\ <<"transport", 0, 2>> \in Tokens  BY DEF Tokens
  <2> QED  BY <2>1 DEF R!Transport
<1>4. R!Other(k) \in Seq(Tokens)
  <2>1. \A j \in 1 .. k : <<"other", 0, j>> \in Tokens  BY DEF Tokens
  <2>2. R!Other(k) \in [1 .. k -> Tokens]  BY <2>1 DEF R!Other
  <2> QED  BY <2>2
<1>5. <<>> \in Seq(Tokens)  OBVIOUS
<1>6. /\ R!Line(R!Command(m)) \in Seq(Tokens) /\ R!Line(R!CSeq(i)) \in Seq(Tokens)
      /\ R!Line(R!Transport) \in Seq(Tokens) /\ R!Line(R!Other(k)) \in Seq(Tokens)
      /\ R!Line(<<>>) \in Seq(Tokens)
  BY <1>1, <1>2, <1>3, <1>4, <1>5, LineIsTokens
<1> QED  BY <1>5, <1>6 DEF R!Request

\* A character that is stored leaves the line within its buffer: it begins anew when full.
LEMMA StoredFits ==
  ASSUME R!RtspAssumption, TInv, NEW c \in Tokens
  PROVE  /\ R!Stored(c) \in Seq(Tokens) /\ Len(R!Stored(c)) <= LineBufSize
         /\ R!Seen(c) \in {"none", "CR", "LF"}
<1> DEFINE d == IF c = R!LF THEN R!CR ELSE c
<1>1. d \in Tokens  BY DEF Tokens
<1>2. LineBufSize \in Nat \ {0}  BY DEF R!RtspAssumption
<1>3. line \in Seq(Tokens) /\ Len(line) \in Nat  BY DEF TInv
<1>4. CASE R!Full
  <2>1. R!Stored(c) = Append(<<>>, d)  BY <1>4 DEF R!Stored
  <2>2. Append(<<>>, d) \in Seq(Tokens) /\ Len(Append(<<>>, d)) = 1  BY <1>1
  <2> QED  BY <1>2, <2>1, <2>2 DEF R!Seen
<1>5. CASE ~R!Full
  <2>1. R!Stored(c) = Append(line, d)  BY <1>5 DEF R!Stored
  <2>2. Append(line, d) \in Seq(Tokens) /\ Len(Append(line, d)) = Len(line) + 1  BY <1>1, <1>3
  <2>3. Len(line) + 1 <= LineBufSize  BY <1>2, <1>3, <1>5 DEF R!Full
  <2> QED  BY <2>1, <2>2, <2>3 DEF R!Seen
<1> QED  BY <1>4, <1>5

\* The line is read up to its end; what follows is left in the packet.
LEMMA EndLineKeeps ==
  ASSUME R!RtspAssumption, TInv, R!EndLine,
         anaPhase' \in {0, 1}, rtspState' \in {"IDLE", "PAUSED", "STREAMING"},
         methodcode' \in R!Methods \cup {"UNKNOWN"}, header' \in Headers, answered' \in Nat
  PROVE  TInv'
<1>1. pkt' \in Seq(Tokens)  BY DEF TInv, R!EndLine
<1>2. line' = <<>> /\ seen' = "none"  BY DEF R!EndLine, R!BeginLine
<1>3. Len(line') <= LineBufSize /\ line' \in Seq(Tokens)  BY <1>2 DEF R!RtspAssumption
<1>4. UNCHANGED <<temp, wire, sent, connections, options, whole>>  BY DEF R!EndLine, R!clientVars
<1>5. header'.seq \in 0 .. MaxRequests /\ header'.nb_transports \in {0, 1}  BY DEF Headers
<1> QED  BY <1>1, <1>2, <1>3, <1>4, <1>5 DEF TInv, R!TypeOK

LEMMA RtspInvariant == ASSUME R!RtspAssumption PROVE R!Spec => []TInv
<1> USE DEF R!RtspAssumption
<1>1. R!Init => TInv
  <2> SUFFICES ASSUME R!Init PROVE TInv  OBVIOUS
  <2>1. header \in Headers  BY DEF R!Init, R!EmptyHeader, Headers
  <2>2. header.seq \in 0 .. MaxRequests /\ header.nb_transports \in {0, 1}  BY <2>1 DEF Headers
  <2>3. connections \in 1 .. MaxConnections  BY DEF R!Init
  <2> QED  BY <2>1, <2>2, <2>3 DEF R!Init, TInv, R!TypeOK
<1>2. TInv /\ [R!Next]_R!vars => TInv'
  <2> SUFFICES ASSUME TInv, [R!Next]_R!vars PROVE TInv'  OBVIOUS
  <2>1. ASSUME NEW m \in Asked, NEW k \in {0, LongLine}, R!Send(m, k) PROVE TInv'
    <3>1. m \in R!Methods /\ k \in Nat /\ Len(sent) + 1 \in 1 .. MaxRequests
      BY <2>1 DEF R!Send, TInv
    <3>2. wire' \in Seq(Tokens)  BY <2>1, <3>1, RequestIsTokens DEF R!Send, TInv
    <3>3. sent' \in Seq([method : R!Methods, seq : Nat]) /\ Len(sent') <= MaxRequests
      BY <2>1, <3>1 DEF R!Send, TInv
    <3>4. options' \in Nat  BY <2>1 DEF R!Send, TInv, R!TypeOK
    <3>5. UNCHANGED <<anaPhase, rtspState, methodcode, header, answered, temp, line, seen, pkt,
                      connections, whole>>
      BY <2>1 DEF R!Send, R!sessionVars
    <3> QED  BY <3>2, <3>3, <3>4, <3>5 DEF TInv, R!TypeOK
  <2>2. CASE R!Reconnect
    <3>1. connections' \in 1 .. MaxConnections  BY <2>2 DEF R!Reconnect, TInv, R!TypeOK
    <3>2. whole' \in BOOLEAN  BY <2>2 DEF R!Reconnect, TInv, R!TypeOK
    <3>3. wire' = <<>> /\ sent' = <<>>  BY <2>2 DEF R!Reconnect
    <3>4. UNCHANGED <<anaPhase, rtspState, methodcode, header, answered, temp, line, seen, pkt, options>>
      BY <2>2 DEF R!Reconnect
    <3> QED  BY <3>1, <3>2, <3>3, <3>4 DEF TInv, R!TypeOK
  <2>3. CASE R!Receive
    <3>1. PICK k \in 1 .. Len(wire) : /\ pkt' = SubSeq(wire, 1, k)
                                      /\ wire' = SubSeq(wire, k + 1, Len(wire))
      BY <2>3 DEF R!Receive
    <3>2. pkt' \in Seq(Tokens) /\ wire' \in Seq(Tokens)  BY <3>1 DEF TInv
    <3>3. temp' = <<>> /\ line' = <<>> /\ seen' = "none"  BY <2>3 DEF R!Receive, R!BeginLine
    <3>4. UNCHANGED <<anaPhase, rtspState, methodcode, header, answered, sent, connections,
                      options, whole>>
      BY <2>3 DEF R!Receive, R!sessionVars
    <3> QED  BY <3>2, <3>3, <3>4 DEF TInv, R!TypeOK
  <2>4. CASE R!ReadChar
    <3>1. Head(pkt) \in Tokens /\ pkt' \in Seq(Tokens)  BY <2>4 DEF R!ReadChar, TInv
    <3>2. line' = R!Stored(Head(pkt)) /\ seen' = R!Seen(Head(pkt))  BY <2>4 DEF R!ReadChar
    <3>3. /\ line' \in Seq(Tokens) /\ Len(line') <= LineBufSize
          /\ seen' \in {"none", "CR", "LF"}
      BY <3>1, <3>2, StoredFits
    <3>4. whole' \in BOOLEAN  BY <2>4 DEF R!ReadChar, TInv, R!TypeOK
    <3>5. UNCHANGED <<anaPhase, rtspState, methodcode, header, answered, temp, wire, sent,
                      connections, options>>
      BY <2>4 DEF R!ReadChar, R!sessionVars, R!clientVars
    <3> QED  BY <3>1, <3>3, <3>4, <3>5 DEF TInv, R!TypeOK
  <2>5. CASE R!KeepRest
    <3>0. pkt \in Seq(Tokens) /\ Len(pkt) = 1  BY <2>5 DEF R!KeepRest, TInv
    <3>1. Head(pkt) \in Tokens  BY <3>0
    <3>2. temp' = R!Stored(Head(pkt))  BY <2>5 DEF R!KeepRest
    <3>3. temp' \in Seq(Tokens) /\ Len(temp') <= LineBufSize  BY <3>1, <3>2, StoredFits
    <3>4. pkt' = <<>> /\ line' = <<>> /\ seen' = "none" /\ whole' = FALSE
      BY <2>5 DEF R!KeepRest, R!BeginLine
    <3>5. UNCHANGED <<anaPhase, rtspState, methodcode, header, answered, wire, sent, connections,
                      options>>
      BY <2>5 DEF R!KeepRest, R!sessionVars, R!clientVars
    <3>6. line' \in Seq(Tokens) /\ pkt' \in Seq(Tokens) /\ Len(line') <= LineBufSize  BY <3>4
    <3>7. seen' \in {"none", "CR", "LF"} /\ whole' \in BOOLEAN  BY <3>4
    <3> QED  BY <3>3, <3>5, <3>6, <3>7 DEF TInv, R!TypeOK
  <2>6. CASE R!CommandLine
    <3>1. methodcode' \in R!Methods \cup {"UNKNOWN"}
      <4>1. R!MethodOf(R!Text) \in R!Methods \cup {"UNKNOWN"}
        <5>1. CASE R!Recognised(R!Text)
          <6>1. PICK m \in R!Methods : R!Text = << <<"command", m, 1>>, <<"command", m, 2>> >>
            BY <5>1 DEF R!Recognised, R!Command
          <6>2. R!Text[1][2] = m  BY <6>1
          <6> QED  BY <5>1, <6>2 DEF R!MethodOf
        <5>2. CASE ~R!Recognised(R!Text)  BY <5>2 DEF R!MethodOf
        <5> QED  BY <5>1, <5>2
      <4>2. methodcode' = R!MethodOf(R!Text) \/ methodcode' = methodcode  BY <2>6 DEF R!CommandLine
      <4> QED  BY <4>1, <4>2 DEF TInv, R!TypeOK
    <3>2. anaPhase' \in {0, 1}  BY <2>6 DEF R!CommandLine, TInv, R!TypeOK
    <3>3. header' \in Headers
      <4>1. R!EmptyHeader \in Headers  BY DEF R!EmptyHeader, Headers
      <4>2. header' = R!EmptyHeader \/ header' = header  BY <2>6 DEF R!CommandLine
      <4> QED  BY <4>1, <4>2 DEF TInv
    <3>4. UNCHANGED <<rtspState, answered>>  BY <2>6 DEF R!CommandLine
    <3>5. R!EndLine  BY <2>6 DEF R!CommandLine
    <3>6. rtspState' \in {"IDLE", "PAUSED", "STREAMING"} /\ answered' \in Nat
      BY <3>4 DEF TInv, R!TypeOK
    <3> QED  BY <3>1, <3>2, <3>3, <3>5, <3>6, EndLineKeeps
  <2>7. CASE R!HeaderLine
    <3>0. header \in [seq : 0 .. MaxRequests, nb_transports : {0, 1}]  BY DEF TInv, Headers
    <3>1. UNCHANGED <<anaPhase, rtspState, methodcode, answered>> /\ R!EndLine  BY <2>7 DEF R!HeaderLine
    <3>2. header' \in Headers
      <4>0. 0 \in 0 .. MaxRequests /\ 1 .. MaxRequests \subseteq 0 .. MaxRequests  OBVIOUS
      <4>1. ASSUME NEW i \in 1 .. MaxRequests, header' = [header EXCEPT !.seq = i]
            PROVE  header' \in Headers
        BY <3>0, <4>1, <4>0, WithHeader
      <4>2. CASE header' = [header EXCEPT !.nb_transports = 1]  BY <3>0, <4>0, <4>2, WithHeader
      <4>3. CASE UNCHANGED header  BY <4>3 DEF TInv
      <4> QED  BY <2>7, <4>1, <4>2, <4>3 DEF R!HeaderLine
    <3> QED  BY <3>1, <3>2, EndLineKeeps DEF TInv, R!TypeOK
  <2>8. CASE R!EndRequest
    <3>1. UNCHANGED <<methodcode, header>> /\ R!EndLine /\ anaPhase' = 0
      BY <2>8 DEF R!EndRequest, R!NextPhase
    <3>2. R!StateAfter(methodcode) \in {"IDLE", "PAUSED", "STREAMING"}
      BY DEF R!StateAfter, TInv, R!TypeOK
    <3>3. rtspState' = R!StateAfter(methodcode) \/ rtspState' = rtspState
      BY <2>8 DEF R!EndRequest
    <3>4. rtspState' \in {"IDLE", "PAUSED", "STREAMING"}  BY <3>2, <3>3 DEF TInv, R!TypeOK
    <3>5. answered' \in Nat  BY <2>8 DEF R!EndRequest, R!SendReply, TInv, R!TypeOK
    <3>6. methodcode' \in R!Methods \cup {"UNKNOWN"} /\ header' \in Headers  BY <3>1 DEF TInv, R!TypeOK
    <3> QED  BY <3>1, <3>4, <3>5, <3>6, EndLineKeeps
  <2>9. CASE R!UnexpectedEnd
    <3>1. UNCHANGED <<anaPhase, rtspState, methodcode, header, answered>> /\ R!EndLine
      BY <2>9 DEF R!UnexpectedEnd, R!sessionVars
    <3> QED  BY <3>1, EndLineKeeps DEF TInv, R!TypeOK
  <2>10. CASE R!vars' = R!vars
    BY <2>10 DEF R!vars, R!sessionVars, R!clientVars, TInv, R!TypeOK
  <2> QED
    BY <2>1, <2>2, <2>3, <2>4, <2>5, <2>6, <2>7, <2>8, <2>9, <2>10 DEF R!Next
<1> QED  BY <1>1, <1>2, PTL DEF R!Spec

----------------------------------------------------------------------------
(* Which requests are processed and answered                               *)

\* A set with the empty sequence and, with each sequence, those that are one longer has
\* all sequences.
LEMMA Growing ==
  ASSUME NEW S, NEW T, <<>> \in T,
         \A rs \in Seq(S), r \in S : rs \in T => Append(rs, r) \in T
  PROVE  \A rs \in Seq(S) : rs \in T
<1> DEFINE Missing == {rs \in Seq(S) : rs \notin T}
           Lengths == {Len(rs) : rs \in Missing}
<1> SUFFICES ASSUME Missing # {} PROVE FALSE  OBVIOUS
<1>1. Lengths \in SUBSET Nat /\ Lengths # {}  OBVIOUS
<1>2. PICK x \in Lengths : \A y \in Lengths : x <= y
  <2> HIDE DEF Lengths
  <2> QED  BY <1>1, LeastNumber
<1>3. PICK rs \in Missing : Len(rs) = x  BY <1>2
<1>4. rs \in Seq(S) /\ rs # <<>>  BY <1>3
<1> DEFINE front == SubSeq(rs, 1, Len(rs) - 1)
<1>5. /\ front \in Seq(S) /\ Len(front) = Len(rs) - 1 /\ rs[Len(rs)] \in S
      /\ rs = Append(front, rs[Len(rs)])
  <2>1. Len(rs) \in Nat /\ Len(rs) >= 1 /\ Len(rs) - 1 \in Nat  BY <1>4
  <2>3. \A p \in 1 .. Len(rs) : rs[p] \in S  BY <1>4
  <2>2. Len(front) = Len(rs) - 1 /\ \A p \in 1 .. Len(rs) - 1 : front[p] = rs[p]
    <3>1. PICK k : k = Len(rs) - 1  OBVIOUS
    <3>2. k \in Nat /\ k <= Len(rs) /\ \A i \in 1 .. k : rs[i] \in S  BY <2>1, <2>3, <3>1
    <3>4. Len(SubSeq(rs, 1, k)) = k  BY <1>4, <3>2
    <3>5. \A i \in 1 .. k : SubSeq(rs, 1, k)[i] = rs[i]  BY <1>4, <3>2
    <3> QED  BY <3>1, <3>4, <3>5
  <2>4. front \in Seq(S)  BY <2>1, <2>3, SubSeqProperties
  <2> HIDE DEF front
  <2>5. Append(front, rs[Len(rs)]) \in Seq(S) /\ Len(Append(front, rs[Len(rs)])) = Len(rs)
    BY <2>1, <2>2, <2>3, <2>4
  <2>6. \A p \in 1 .. Len(rs) : Append(front, rs[Len(rs)])[p] = rs[p]
    BY <2>1, <2>2, <2>3, <2>4
  <2>7. rs = Append(front, rs[Len(rs)])  BY <1>4, <2>5, <2>6, SeqEqual
  <2> QED  BY <2>1, <2>2, <2>3, <2>4, <2>7
<1>6. ~(x <= Len(front))  BY <1>3, <1>5
<1>7. Len(front) \notin Lengths  BY <1>2, <1>6
<1>8. front \in T  BY <1>5, <1>7
<1> HIDE DEF front
<1> QED  BY <1>3, <1>5, <1>8

\* f is the function that is defined in Of.
Chooses(f, rs, ms) ==
  f = [i \in 0 .. Len(rs) |->
         IF i = 0 THEN <<>>
         ELSE IF rs[i].method \in ms THEN Append(f[i - 1], rs[i]) ELSE f[i - 1]]

LEMMA ChoosesOnce ==
  ASSUME NEW S, NEW rs \in Seq(S), NEW ms, NEW f, NEW g, Chooses(f, rs, ms), Chooses(g, rs, ms)
  PROVE  f = g
<1> DEFINE Same == {i \in 0 .. Len(rs) : f[i] = g[i]}
<1>1. 0 \in Same  BY DEF Chooses
<1>2. \A i \in 0 .. Len(rs) - 1 : i \in Same => i + 1 \in Same
  <2> SUFFICES ASSUME NEW i \in 0 .. Len(rs) - 1, f[i] = g[i] PROVE f[i + 1] = g[i + 1]  OBVIOUS
  <2>1. i + 1 \in 0 .. Len(rs) /\ i + 1 # 0 /\ (i + 1) - 1 = i  OBVIOUS
  <2>2. f[i + 1] = IF rs[i + 1].method \in ms THEN Append(f[i], rs[i + 1]) ELSE f[i]
    BY <2>1 DEF Chooses
  <2>3. g[i + 1] = IF rs[i + 1].method \in ms THEN Append(g[i], rs[i + 1]) ELSE g[i]
    BY <2>1 DEF Chooses
  <2> QED  BY <2>2, <2>3
<1>3. \A i \in 0 .. Len(rs) : i \in Same
  <2> HIDE DEF Same
  <2> QED  BY <1>1, <1>2, Counting
<1>4. \A i \in 0 .. Len(rs) : f[i] = g[i]  BY <1>3
<1>5. f = [i \in 0 .. Len(rs) |-> f[i]] /\ g = [i \in 0 .. Len(rs) |-> g[i]]
  <2>1. DOMAIN f = 0 .. Len(rs) /\ DOMAIN g = 0 .. Len(rs)  BY DEF Chooses
  <2>2. f = [i \in DOMAIN f |-> f[i]]  BY DEF Chooses
  <2>3. g = [i \in DOMAIN g |-> g[i]]  BY DEF Chooses
  <2> QED  BY <2>1, <2>2, <2>3
<1> QED  BY <1>4, <1>5

LEMMA OfIs ==
  ASSUME NEW S, NEW rs \in Seq(S), NEW ms, NEW f, Chooses(f, rs, ms)
  PROVE  R!Of(rs, ms) = f[Len(rs)]
<1> DEFINE C == CHOOSE g : Chooses(g, rs, ms)
<1>1. Chooses(C, rs, ms)  OBVIOUS
<1>2. C = f
  <2> HIDE DEF C
  <2> QED  BY <1>1, ChoosesOnce
<1>3. R!Of(rs, ms) = C[Len(rs)]  BY DEF R!Of, Chooses
<1> QED  BY <1>2, <1>3

\* One more.
LEMMA ChoosesMore ==
  ASSUME NEW S, NEW rs \in Seq(S), NEW r \in S, NEW ms, NEW f, Chooses(f, rs, ms)
  PROVE  \E g : /\ Chooses(g, Append(rs, r), ms)
                /\ g[Len(rs) + 1] = IF r.method \in ms THEN Append(f[Len(rs)], r) ELSE f[Len(rs)]
<1> DEFINE rr == Append(rs, r)
           last == IF r.method \in ms THEN Append(f[Len(rs)], r) ELSE f[Len(rs)]
           g == [i \in 0 .. Len(rs) + 1 |-> IF i = Len(rs) + 1 THEN last ELSE f[i]]
<1>1. /\ Len(rs) \in Nat /\ Len(rr) = Len(rs) + 1 /\ rr[Len(rs) + 1] = r
      /\ \A i \in 1 .. Len(rs) : rr[i] = rs[i]
  OBVIOUS
<1>2. ASSUME NEW i \in 0 .. Len(rs) + 1
      PROVE  g[i] = IF i = 0 THEN <<>>
                    ELSE IF rr[i].method \in ms THEN Append(g[i - 1], rr[i]) ELSE g[i - 1]
  <2>1. CASE i = 0
    <3>1. g[0] = f[0]  BY <1>1
    <3>2. f[0] = <<>>  BY <1>1 DEF Chooses
    <3> QED  BY <2>1, <3>1, <3>2
  <2>2. CASE i \in 1 .. Len(rs)
    <3>1. g[i] = f[i] /\ g[i - 1] = f[i - 1]  BY <1>1, <2>2
    <3>2. rr[i] = rs[i]  BY <1>1, <2>2
    <3>3. f[i] = IF rs[i].method \in ms THEN Append(f[i - 1], rs[i]) ELSE f[i - 1]
      <4>1. i \in 0 .. Len(rs) /\ i # 0  BY <1>1, <2>2
      <4> QED  BY <4>1 DEF Chooses
    <3> HIDE DEF g, rr
    <3> QED  BY <2>2, <3>1, <3>2, <3>3
  <2>3. CASE i = Len(rs) + 1
    <3>1. g[i] = last /\ g[i - 1] = f[Len(rs)]  BY <1>1, <2>3
    <3> HIDE DEF g, rr
    <3> QED  BY <1>1, <2>3, <3>1
  <2> QED  BY <1>1, <2>1, <2>2, <2>3
<1>3. Chooses(g, rr, ms)
  <2>1. g = [i \in 0 .. Len(rs) + 1 |-> g[i]]  OBVIOUS
  <2> HIDE DEF g, rr
  <2> QED  BY <1>1, <1>2, <2>1 DEF Chooses
<1>4. g[Len(rs) + 1] = last  BY <1>1
<1> HIDE DEF g
<1> QED  BY <1>3, <1>4

LEMMA ChoosesAll ==
  ASSUME NEW S, NEW ms, NEW rs \in Seq(S)
  PROVE  \E f : Chooses(f, rs, ms)
<1> DEFINE T == {q \in Seq(S) : \E f : Chooses(f, q, ms)}
<1>1. <<>> \in T
  <2> DEFINE f == [i \in 0 .. 0 |-> <<>>]
  <2>1. Chooses(f, <<>>, ms)
    <3>1. Len(<<>>) = 0  OBVIOUS
    <3> QED  BY <3>1 DEF Chooses
  <2> HIDE DEF f
  <2> QED  BY <2>1
<1>2. ASSUME NEW q \in Seq(S), NEW r \in S, q \in T PROVE Append(q, r) \in T
  <2>1. PICK f : Chooses(f, q, ms)  BY <1>2
  <2>2. \E g : Chooses(g, Append(q, r), ms)  BY <2>1, ChoosesMore
  <2>3. Append(q, r) \in Seq(S)  OBVIOUS
  <2> QED  BY <2>2, <2>3
<1>3. rs \in T
  <2> HIDE DEF T
  <2> QED  BY <1>1, <1>2, Growing
<1> QED  BY <1>3

\* What Of does with no requests, and with one more.
LEMMA OfNone ==
  ASSUME NEW ms
  PROVE  R!Of(<<>>, ms) = <<>>
<1>1. PICK S : S = {0}  OBVIOUS
<1>2. <<>> \in Seq(S) /\ Len(<<>>) = 0  OBVIOUS
<1>3. PICK f : Chooses(f, <<>>, ms)  BY <1>2, ChoosesAll
<1>4. f[0] = <<>>  BY <1>2, <1>3 DEF Chooses
<1> QED  BY <1>2, <1>3, <1>4, OfIs

LEMMA OfAppend ==
  ASSUME NEW S, NEW rs \in Seq(S), NEW r \in S, NEW ms
  PROVE  R!Of(Append(rs, r), ms) = IF r.method \in ms THEN Append(R!Of(rs, ms), r) ELSE R!Of(rs, ms)
<1>1. PICK f : Chooses(f, rs, ms)  BY ChoosesAll
<1>2. PICK g : /\ Chooses(g, Append(rs, r), ms)
               /\ g[Len(rs) + 1] = IF r.method \in ms THEN Append(f[Len(rs)], r) ELSE f[Len(rs)]
  BY <1>1, ChoosesMore
<1>3. R!Of(rs, ms) = f[Len(rs)]  BY <1>1, OfIs
<1>4. Append(rs, r) \in Seq(S) /\ Len(Append(rs, r)) = Len(rs) + 1  OBVIOUS
<1>5. R!Of(Append(rs, r), ms) = g[Len(rs) + 1]  BY <1>2, <1>4, OfIs
<1> QED  BY <1>2, <1>3, <1>5

LEMMA OfIsSeq ==
  ASSUME NEW S, NEW ms, NEW rs \in Seq(S)
  PROVE  R!Of(rs, ms) \in Seq(S)
<1> DEFINE T == {q \in Seq(S) : R!Of(q, ms) \in Seq(S)}
<1>1. <<>> \in T
  <2>1. <<>> \in Seq(S)  OBVIOUS
  <2> QED  BY <2>1, OfNone
<1>2. ASSUME NEW q \in Seq(S), NEW r \in S, q \in T PROVE Append(q, r) \in T
  <2>1. Append(q, r) \in Seq(S)  OBVIOUS
  <2>2. R!Of(q, ms) \in Seq(S)  BY <1>2
  <2>3. Append(R!Of(q, ms), r) \in Seq(S)  BY <2>2
  <2>4. R!Of(Append(q, r), ms) \in Seq(S)
    <3>1. PICK a : a = R!Of(q, ms)  OBVIOUS
    <3>2. R!Of(Append(q, r), ms) = a \/ R!Of(Append(q, r), ms) = Append(a, r)  BY <3>1, OfAppend
    <3> QED  BY <2>2, <2>3, <3>1, <3>2
  <2> QED  BY <2>1, <2>4
<1>3. rs \in T
  <2> HIDE DEF T
  <2> QED  BY <1>1, <1>2, Growing
<1> QED  BY <1>3

\* The first requests give the first of those chosen.
LEMMA OfPrefix ==
  ASSUME NEW S, NEW ms, NEW rs \in Seq(S), NEW i \in 0 .. Len(rs)
  PROVE  R!IsPrefix(R!Of(SubSeq(rs, 1, i), ms), R!Of(rs, ms))
<1> DEFINE First(q, k) == R!IsPrefix(R!Of(SubSeq(q, 1, k), ms), R!Of(q, ms))
           T == {q \in Seq(S) : \A k \in 0 .. Len(q) : First(q, k)}
<1>1. ASSUME NEW q \in Seq(S) PROVE First(q, Len(q))
  <2>1. SubSeq(q, 1, Len(q)) = q  OBVIOUS
  <2>2. R!Of(q, ms) \in Seq(S)  BY OfIsSeq
  <2>3. PICK a : a = R!Of(q, ms)  OBVIOUS
  <2>4. R!IsPrefix(a, a)  BY <2>2, <2>3 DEF R!IsPrefix
  <2> QED  BY <2>1, <2>3, <2>4
<1>2. <<>> \in T
  <2>1. <<>> \in Seq(S) /\ Len(<<>>) = 0  OBVIOUS
  <2>2. First(<<>>, 0)  BY <1>1, <2>1
  <2> HIDE DEF First
  <2>3. \A k \in 0 .. Len(<<>>) : k = 0  BY <2>1
  <2> QED  BY <2>1, <2>2, <2>3
<1>3. ASSUME NEW q \in Seq(S), NEW r \in S, q \in T PROVE Append(q, r) \in T
  <2> DEFINE qq == Append(q, r)
  <2>1. qq \in Seq(S) /\ Len(qq) = Len(q) + 1  OBVIOUS
  <2>2. ASSUME NEW k \in 0 .. Len(qq) PROVE First(qq, k)
    <3>1. CASE k = Len(qq)  BY <1>1, <2>1, <3>1
    <3>2. CASE k \in 0 .. Len(q)
      <4>1. SubSeq(qq, 1, k) = SubSeq(q, 1, k)  BY <3>2
      <4>2. First(q, k)  BY <1>3, <3>2
      <4>3. SubSeq(q, 1, k) \in Seq(S)  BY <3>2
      <4>4. PICK a, b, c : a = R!Of(SubSeq(q, 1, k), ms) /\ b = R!Of(q, ms) /\ c = R!Of(qq, ms)  OBVIOUS
      <4>5. a \in Seq(S) /\ b \in Seq(S)  BY <4>3, <4>4, OfIsSeq
      <4>6. c = b \/ c = Append(b, r)  BY <4>4, OfAppend
      <4>7. Len(a) <= Len(b) /\ SubSeq(a, 1, Len(a)) = SubSeq(b, 1, Len(a))
        BY <4>2, <4>4 DEF R!IsPrefix
      <4>8. CASE c = b  BY <4>1, <4>2, <4>4, <4>8
      <4>9. CASE c = Append(b, r)
        <5>1. Len(a) <= Len(c) /\ SubSeq(c, 1, Len(a)) = SubSeq(b, 1, Len(a))
          BY <4>5, <4>7, <4>9
        <5> QED  BY <4>1, <4>4, <4>7, <5>1 DEF R!IsPrefix
      <4> QED  BY <4>6, <4>8, <4>9
    <3> QED  BY <2>1, <3>1, <3>2
  <2> HIDE DEF First
  <2> QED  BY <2>1, <2>2
<1>4. rs \in T
  <2> HIDE DEF T
  <2> QED  BY <1>2, <1>3, Growing
<1> HIDE DEF First
<1>5. First(rs, i)  BY <1>4
<1> QED  BY <1>5 DEF First

----------------------------------------------------------------------------
(* What a session reads                                                    *)

Acc == {"ANNOUNCE", "OPTIONS"}

\* A line of what the client sent: of which request, and which of its lines. A request
\* begins with its command.
Kinds      == {"command", "other", "cseq", "transport", "end"}
Spots      == [req : Nat, kind : Kinds]
Begin(i) == [req |-> i, kind |-> "command"]

TextAt(rs, a) ==
  CASE a.kind = "command"   -> R!Command(rs[a.req].method)
    [] a.kind = "other"     -> R!Other(LongLine)
    [] a.kind = "cseq"      -> R!CSeq(a.req)
    [] a.kind = "transport" -> R!Transport
    [] OTHER                -> <<>>

NextPlace(rs, a, b) ==
  \/ a.kind = "command" /\ b.kind = "other" /\ LongLine > 0 /\ b.req = a.req
  \/ a.kind \in {"command", "other"} /\ b.kind = "cseq" /\ b.req = a.req
  \/ a.kind = "cseq" /\ b.kind = "transport" /\ rs[a.req].method = "SETUP" /\ b.req = a.req
  \/ a.kind = "cseq" /\ b.kind = "end" /\ rs[a.req].method # "SETUP" /\ b.req = a.req
  \/ a.kind = "transport" /\ b.kind = "end" /\ b.req = a.req
  \/ a.kind = "end" /\ b = Begin(a.req + 1)

Requests == [method : R!Methods, seq : Nat]

\* The stream s is the lines f[1] to f[k] of the requests rs, line j after at[j] tokens.
Laid(rs, s, at, f, k) ==
  /\ at \in [1 .. k + 1 -> Nat] /\ f \in [1 .. k + 1 -> Spots]
  /\ at[1] = 0 /\ at[k + 1] = Len(s)
  /\ \A j \in 1 .. k :
       /\ f[j].req \in 1 .. Len(rs) /\ NextPlace(rs, f[j], f[j + 1])
       /\ at[j + 1] = at[j] + Len(TextAt(rs, f[j])) + 2
       /\ \A p \in 1 .. Len(TextAt(rs, f[j])) + 2 : s[at[j] + p] = R!Line(TextAt(rs, f[j]))[p]
  /\ \A i \in 1 .. k : \A j \in i + 1 .. k + 1 : at[j] >= at[i] + Len(TextAt(rs, f[i])) + 2

\* It is the lines from a on, and b is the next one.
Lies(rs, s, a, b) ==
  \E k \in Nat : \E at, f : Laid(rs, s, at, f, k) /\ f[1] = a /\ f[k + 1] = b

\* A line: its text has neither CR nor LF, which end it.
LEMMA TextIsPlain ==
  ASSUME R!RtspAssumption, NEW rs \in Seq(Requests), Len(rs) <= MaxRequests,
         NEW a \in Spots, a.req \in 1 .. Len(rs), NEW text, text = TextAt(rs, a)
  PROVE  /\ text \in Seq(Tokens) /\ \A p \in 1 .. Len(text) : text[p] \notin {R!CR, R!LF}
         /\ R!Line(text) \in Seq(Tokens) /\ Len(R!Line(text)) = Len(text) + 2
         /\ \A p \in 1 .. Len(text) : R!Line(text)[p] = text[p]
         /\ R!Line(text)[Len(text) + 1] = R!CR /\ R!Line(text)[Len(text) + 2] = R!LF
<1> DEFINE plain == Tokens \ {R!CR, R!LF}
<1>1. PICK m : m = rs[a.req].method /\ m \in R!Methods
  <2>1. rs[a.req] \in Requests  OBVIOUS
  <2> QED  BY <2>1 DEF Requests
<1>2. \A x, y, z : <<x, y, z>> # R!CR /\ <<x, y, z>> # R!LF
  <2> SUFFICES ASSUME NEW x, NEW y, NEW z PROVE <<x, y, z>> # R!CR /\ <<x, y, z>> # R!LF
    OBVIOUS
  <2>1. Len(<<x, y, z>>) = 3 /\ Len(R!CR) = 1 /\ Len(R!LF) = 1  BY DEF R!CR, R!LF
  <2> QED  BY <2>1
<1>3. text \in Seq(plain)
  <2>1. CASE a.kind = "command"
    <3>1. <<"command", m, 1>> \in plain /\ <<"command", m, 2>> \in plain  BY <1>1, <1>2 DEF Tokens
    <3>2. text = << <<"command", m, 1>>, <<"command", m, 2>> >>  BY <1>1, <2>1 DEF TextAt, R!Command
    <3> HIDE DEF plain
    <3> QED  BY <3>1, <3>2
  <2>2. CASE a.kind = "other"
    <3>1. \A j \in 1 .. LongLine : <<"other", 0, j>> \in plain
      BY <1>2 DEF Tokens, R!RtspAssumption
    <3>2. text = [j \in 1 .. LongLine |-> <<"other", 0, j>>]  BY <2>2 DEF TextAt, R!Other
    <3>3. LongLine \in Nat  BY DEF R!RtspAssumption
    <3> HIDE DEF plain
    <3>4. text \in [1 .. LongLine -> plain]  BY <3>1, <3>2
    <3> QED  BY <3>3, <3>4
  <2>3. CASE a.kind = "cseq"
    <3>1. <<"cseq", a.req, 1>> \in plain /\ <<"cseq", a.req, 2>> \in plain
      BY <1>2 DEF Tokens, R!RtspAssumption
    <3>2. text = << <<"cseq", a.req, 1>>, <<"cseq", a.req, 2>> >>  BY <2>3 DEF TextAt, R!CSeq
    <3> HIDE DEF plain
    <3> QED  BY <3>1, <3>2
  <2>4. CASE a.kind = "transport"
    <3>1. <<"transport", 0, 1>> \in plain /\ <<"transport", 0, 2>> \in plain  BY <1>2 DEF Tokens
    <3>2. text = << <<"transport", 0, 1>>, <<"transport", 0, 2>> >>  BY <2>4 DEF TextAt, R!Transport
    <3> HIDE DEF plain
    <3> QED  BY <3>1, <3>2
  <2>5. CASE a.kind = "end"
    <3>1. text = <<>>  BY <2>5 DEF TextAt
    <3> HIDE DEF plain
    <3> QED  BY <3>1
  <2> QED  BY <2>1, <2>2, <2>3, <2>4, <2>5 DEF Spots, Kinds
<1>4. text \in Seq(Tokens) /\ Len(text) \in Nat /\ \A p \in 1 .. Len(text) : text[p] \in plain
  <2>1. plain \subseteq Tokens  OBVIOUS
  <2> HIDE DEF plain
  <2>2. \A p \in 1 .. Len(text) : text[p] \in plain  BY <1>3
  <2>3. Len(text) \in Nat  BY <1>3
  <2>4. text \in Seq(Tokens)
    <3>1. text = [p \in 1 .. Len(text) |-> text[p]]  BY <1>3
    <3>2. text \in [1 .. Len(text) -> Tokens]  BY <2>1, <2>2, <3>1
    <3> QED  BY <2>3, <3>2
  <2> QED  BY <2>2, <2>3, <2>4
<1>5. R!CR \in Tokens /\ R!LF \in Tokens  BY DEF Tokens
<1>6. R!Line(text) = text \o <<R!CR, R!LF>>  BY DEF R!Line
<1>7. <<R!CR, R!LF>> \in Seq(Tokens) /\ Len(<<R!CR, R!LF>>) = 2  BY <1>5
<1>8. R!Line(text) \in Seq(Tokens) /\ Len(R!Line(text)) = Len(text) + 2  BY <1>4, <1>6, <1>7
<1>9. \A p \in 1 .. Len(text) : R!Line(text)[p] = text[p]  BY <1>4, <1>6, <1>7
<1>10. R!Line(text)[Len(text) + 1] = R!CR /\ R!Line(text)[Len(text) + 2] = R!LF
  BY <1>4, <1>6, <1>7
<1>11. \A p \in 1 .. Len(text) : text[p] \notin {R!CR, R!LF}  BY <1>4
<1> QED  BY <1>4, <1>8, <1>9, <1>10, <1>11

\* Nothing is laid.
LEMMA LiesNone ==
  ASSUME NEW rs, NEW a \in Spots
  PROVE  Lies(rs, <<>>, a, a)
<1> DEFINE at == [j \in 1 .. 0 + 1 |-> 0]
           f == [j \in 1 .. 0 + 1 |-> a]
<1>1. at \in [1 .. 0 + 1 -> Nat] /\ f \in [1 .. 0 + 1 -> Spots]  OBVIOUS
<1>2. at[1] = 0 /\ at[0 + 1] = 0 /\ f[1] = a /\ f[0 + 1] = a  OBVIOUS
<1>3. Len(<<>>) = 0  OBVIOUS
<1> HIDE DEF at, f
<1>4. Laid(rs, <<>>, at, f, 0)  BY <1>1, <1>2, <1>3 DEF Laid
<1> QED  BY <1>2, <1>4 DEF Lies

\* A request more does not change where the lines of the others lie.
LEMMA LiesStill ==
  ASSUME NEW rs \in Seq(Requests), NEW r \in Requests, NEW s, NEW a, NEW b, Lies(rs, s, a, b)
  PROVE  Lies(Append(rs, r), s, a, b)
<1>1. PICK k, at, f : k \in Nat /\ Laid(rs, s, at, f, k) /\ f[1] = a /\ f[k + 1] = b  BY DEF Lies
<1>2. PICK rr : rr = Append(rs, r)  OBVIOUS
<1>3. Len(rs) \in Nat /\ Len(rr) = Len(rs) + 1 /\ \A i \in 1 .. Len(rs) : rr[i] = rs[i]  BY <1>2
<1>4. ASSUME NEW j \in 1 .. k
      PROVE  /\ TextAt(rr, f[j]) = TextAt(rs, f[j]) /\ NextPlace(rr, f[j], f[j + 1])
             /\ f[j].req \in 1 .. Len(rr)
  <2>1. f[j].req \in 1 .. Len(rs) /\ NextPlace(rs, f[j], f[j + 1])  BY <1>1 DEF Laid
  <2>2. rr[f[j].req] = rs[f[j].req] /\ f[j].req \in 1 .. Len(rr)  BY <1>3, <2>1
  <2>3. TextAt(rr, f[j]) = TextAt(rs, f[j])  BY <2>2 DEF TextAt
  <2>4. NextPlace(rr, f[j], f[j + 1])  BY <2>1, <2>2 DEF NextPlace
  <2> QED  BY <2>2, <2>3, <2>4
<1>5. Laid(rr, s, at, f, k)
  <2>1. \A i \in 1 .. k : \A j \in i + 1 .. k + 1 : at[j] >= at[i] + Len(TextAt(rr, f[i])) + 2
    <3>1. \A i \in 1 .. k : \A j \in i + 1 .. k + 1 : at[j] >= at[i] + Len(TextAt(rs, f[i])) + 2
      BY <1>1 DEF Laid
    <3> QED  BY <1>4, <3>1
  <2>2. /\ at \in [1 .. k + 1 -> Nat] /\ f \in [1 .. k + 1 -> Spots] /\ at[1] = 0 /\ at[k + 1] = Len(s)
        /\ \A j \in 1 .. k :
             /\ at[j + 1] = at[j] + Len(TextAt(rs, f[j])) + 2
             /\ \A p \in 1 .. Len(TextAt(rs, f[j])) + 2 : s[at[j] + p] = R!Line(TextAt(rs, f[j]))[p]
    BY <1>1 DEF Laid
  <2>3. \A j \in 1 .. k :
          /\ f[j].req \in 1 .. Len(rr) /\ NextPlace(rr, f[j], f[j + 1])
          /\ at[j + 1] = at[j] + Len(TextAt(rr, f[j])) + 2
          /\ \A p \in 1 .. Len(TextAt(rr, f[j])) + 2 : s[at[j] + p] = R!Line(TextAt(rr, f[j]))[p]
    <3> SUFFICES ASSUME NEW j \in 1 .. k
                 PROVE  /\ f[j].req \in 1 .. Len(rr) /\ NextPlace(rr, f[j], f[j + 1])
                        /\ at[j + 1] = at[j] + Len(TextAt(rr, f[j])) + 2
                        /\ \A p \in 1 .. Len(TextAt(rr, f[j])) + 2 :
                             s[at[j] + p] = R!Line(TextAt(rr, f[j]))[p]
      OBVIOUS
    <3> QED  BY <1>4, <2>2
  <2> QED  BY <2>1, <2>2, <2>3 DEF Laid
<1> QED  BY <1>1, <1>2, <1>5 DEF Lies

LEMMA Joined ==
  ASSUME NEW x \in Seq(Tokens), NEW y \in Seq(Tokens), NEW z \in Seq(Tokens)
  PROVE  (x \o y) \o z = x \o (y \o z)
BY ConcatAssociative

LEMMA AllJoined == \A x, y, z \in Seq(Tokens) : (x \o y) \o z = x \o (y \o z)
BY Joined

LEMMA JoinedAt ==
  ASSUME NEW x \in Seq(Tokens), NEW y \in Seq(Tokens), NEW s, s = x \o y
  PROVE  /\ s \in Seq(Tokens) /\ Len(x) \in Nat /\ Len(y) \in Nat /\ Len(s) = Len(x) + Len(y)
         /\ \A p \in 1 .. Len(x) : s[p] = x[p]
         /\ \A p \in 1 .. Len(y) : s[Len(x) + p] = y[p]
<1>1. x \o y \in Seq(Tokens) /\ Len(x \o y) = Len(x) + Len(y)  OBVIOUS
<1>2. Len(x) \in Nat /\ Len(y) \in Nat  OBVIOUS
<1>3. \A p \in 1 .. Len(x) : (x \o y)[p] = x[p]  OBVIOUS
<1>4. \A p \in 1 .. Len(y) : (x \o y)[Len(x) + p] = y[p]  OBVIOUS
<1> QED  BY <1>1, <1>2, <1>3, <1>4

\* One more line.
LEMMA LiesLine ==
  ASSUME R!RtspAssumption, NEW rs \in Seq(Requests), Len(rs) <= MaxRequests,
         NEW s \in Seq(Tokens), NEW a, NEW b \in Spots, NEW c \in Spots, b.req \in 1 .. Len(rs),
         NextPlace(rs, b, c), Lies(rs, s, a, b)
  PROVE  Lies(rs, s \o R!Line(TextAt(rs, b)), a, c)
<1>1. PICK k, at, f : k \in Nat /\ Laid(rs, s, at, f, k) /\ f[1] = a /\ f[k + 1] = b  BY DEF Lies
<1>2. PICK text, more : text = TextAt(rs, b) /\ more = R!Line(text)  OBVIOUS
<1>3. more \in Seq(Tokens) /\ Len(text) \in Nat /\ Len(more) = Len(text) + 2
  BY <1>2, TextIsPlain
<1>4. PICK ss : ss = s \o more  OBVIOUS
<1>5. /\ Len(s) \in Nat /\ Len(ss) = Len(s) + Len(text) + 2
      /\ \A p \in 1 .. Len(s) : ss[p] = s[p]
      /\ \A p \in 1 .. Len(text) + 2 : ss[Len(s) + p] = more[p]
  <2>1. more \in Seq(Tokens) /\ s \in Seq(Tokens)  BY <1>3
  <2>2. /\ Len(s) \in Nat /\ Len(ss) = Len(s) + Len(more)
        /\ \A p \in 1 .. Len(s) : ss[p] = s[p]
        /\ \A p \in 1 .. Len(more) : ss[Len(s) + p] = more[p]
    BY <1>4, <2>1, JoinedAt
  <2>3. Len(more) = Len(text) + 2 /\ Len(text) \in Nat  BY <1>3
  <2>4. Len(ss) = Len(s) + Len(text) + 2  BY <2>2, <2>3
  <2> QED  BY <2>2, <2>3, <2>4
<1> DEFINE aa == [j \in 1 .. k + 2 |-> IF j = k + 2 THEN Len(ss) ELSE at[j]]
           g  == [j \in 1 .. k + 2 |-> IF j = k + 2 THEN c ELSE f[j]]
           size(j) == Len(TextAt(rs, f[j]))
<1>6. /\ at \in [1 .. k + 1 -> Nat] /\ f \in [1 .. k + 1 -> Spots]
      /\ at[1] = 0 /\ at[k + 1] = Len(s)
      /\ \A j \in 1 .. k : \A i \in j + 1 .. k + 1 : at[i] >= at[j] + size(j) + 2
  BY <1>1 DEF Laid
<1>7. ASSUME NEW j \in 1 .. k
      PROVE  /\ f[j].req \in 1 .. Len(rs) /\ NextPlace(rs, f[j], f[j + 1])
             /\ at[j + 1] = at[j] + size(j) + 2
             /\ \A p \in 1 .. size(j) + 2 : s[at[j] + p] = R!Line(TextAt(rs, f[j]))[p]
  BY <1>1 DEF Laid
<1>8. \A j \in 1 .. k : size(j) \in Nat
  <2> SUFFICES ASSUME NEW j \in 1 .. k PROVE size(j) \in Nat  OBVIOUS
  <2>1. f[j] \in Spots /\ f[j].req \in 1 .. Len(rs)
    <3>1. j \in 1 .. k + 1  BY <1>1
    <3> QED  BY <1>6, <1>7, <3>1
  <2>2. TextAt(rs, f[j]) \in Seq(Tokens)  BY <2>1, TextIsPlain
  <2> QED  BY <2>2
<1>9. /\ \A j \in 1 .. k + 1 : aa[j] = at[j] /\ g[j] = f[j]
      /\ aa[k + 2] = Len(ss) /\ g[k + 2] = c
      /\ aa \in [1 .. k + 2 -> Nat] /\ g \in [1 .. k + 2 -> Spots]
  <2>1. \A j \in 1 .. k + 1 : j \in 1 .. k + 2 /\ j # k + 2  BY <1>1
  <2>2. k + 2 \in 1 .. k + 2 /\ Len(ss) \in Nat  BY <1>1, <1>3, <1>5
  <2>3. \A j \in 1 .. k + 2 : j = k + 2 \/ j \in 1 .. k + 1  BY <1>1
  <2> QED  BY <1>6, <2>1, <2>2, <2>3
<1> HIDE DEF aa, g, size
<1>10. ASSUME NEW j \in 1 .. k + 1
       PROVE  /\ g[j].req \in 1 .. Len(rs) /\ NextPlace(rs, g[j], g[j + 1])
              /\ aa[j + 1] = aa[j] + Len(TextAt(rs, g[j])) + 2
              /\ \A p \in 1 .. Len(TextAt(rs, g[j])) + 2 :
                   ss[aa[j] + p] = R!Line(TextAt(rs, g[j]))[p]
  <2>1. CASE j \in 1 .. k
    <3>1. j \in 1 .. k + 1 /\ j + 1 \in 1 .. k + 1 /\ k + 1 \in j + 1 .. k + 1  BY <1>1, <2>1
    <3>2. g[j] = f[j] /\ g[j + 1] = f[j + 1] /\ aa[j] = at[j] /\ aa[j + 1] = at[j + 1]
      BY <1>9, <3>1
    <3>3. Len(TextAt(rs, g[j])) = size(j)  BY <3>2 DEF size
    <3>4. at[j] \in Nat /\ size(j) \in Nat /\ Len(s) >= at[j] + size(j) + 2
      BY <1>6, <1>8, <2>1, <3>1
    <3>5. \A p \in 1 .. size(j) + 2 : ss[at[j] + p] = s[at[j] + p]
      <4> SUFFICES ASSUME NEW p \in 1 .. size(j) + 2 PROVE ss[at[j] + p] = s[at[j] + p]  OBVIOUS
      <4>1. PICK x, y, l : x = at[j] /\ y = size(j) /\ l = Len(s)  OBVIOUS
      <4>2. x \in Nat /\ y \in Nat /\ l \in Nat /\ l >= x + y + 2 /\ p \in 1 .. y + 2
        BY <1>5, <3>4, <4>1
      <4>3. x + p \in 1 .. l  BY <4>2
      <4> QED  BY <1>5, <4>1, <4>3
    <3>6. \A p \in 1 .. size(j) + 2 : ss[at[j] + p] = R!Line(TextAt(rs, f[j]))[p]
      BY <1>7, <2>1, <3>5
    <3> QED  BY <1>7, <2>1, <3>2, <3>3, <3>6
  <2>2. CASE j = k + 1
    <3>1. g[j] = b /\ g[j + 1] = c /\ aa[j] = Len(s) /\ aa[j + 1] = Len(ss)
      <4>1. (k + 1) + 1 = k + 2 /\ k + 1 \in 1 .. k + 1  BY <1>1
      <4> QED  BY <1>1, <1>6, <1>9, <2>2, <4>1
    <3> QED  BY <1>2, <1>5, <3>1
  <2> QED  BY <1>1, <2>1, <2>2
<1>11. ASSUME NEW i \in 1 .. k + 1, NEW j \in i + 1 .. k + 2
       PROVE  aa[j] >= aa[i] + Len(TextAt(rs, g[i])) + 2
  <2>1. CASE j \in i + 1 .. k + 1
    <3>1. i \in 1 .. k /\ i \in 1 .. k + 1 /\ j \in 1 .. k + 1  BY <1>1, <2>1
    <3>2. aa[i] = at[i] /\ g[i] = f[i] /\ aa[j] = at[j]  BY <1>9, <3>1
    <3>3. at[j] >= at[i] + size(i) + 2  BY <1>6, <2>1, <3>1
    <3> QED  BY <3>2, <3>3 DEF size
  <2>2. CASE j = k + 2 /\ i \in 1 .. k
    <3>1. k + 1 \in i + 1 .. k + 1 /\ i \in 1 .. k + 1  BY <1>1, <2>2
    <3>2. aa[i] = at[i] /\ g[i] = f[i] /\ aa[j] = Len(ss)  BY <1>9, <2>2, <3>1
    <3>3. Len(s) >= at[i] + size(i) + 2 /\ at[i] \in Nat /\ size(i) \in Nat
      BY <1>6, <1>8, <2>2, <3>1
    <3>4. Len(ss) >= at[i] + size(i) + 2  BY <1>3, <1>5, <3>3
    <3> QED  BY <3>2, <3>4 DEF size
  <2>3. CASE j = k + 2 /\ i = k + 1
    <3>1. k + 1 \in 1 .. k + 1 /\ (k + 1) + 1 = k + 2  BY <1>1
    <3>2. aa[i] = Len(s) /\ g[i] = b /\ aa[j] = Len(ss)  BY <1>1, <1>6, <1>9, <2>3, <3>1
    <3> QED  BY <1>2, <1>3, <1>5, <3>2
  <2> QED  BY <1>1, <2>1, <2>2, <2>3
<1>12. Laid(rs, ss, aa, g, k + 1)
  <2>1. (k + 1) + 1 = k + 2 /\ 1 \in 1 .. k + 1  BY <1>1
  <2>2. aa[1] = 0 /\ aa[k + 2] = Len(ss)  BY <1>6, <1>9, <2>1
  <2> QED  BY <1>9, <1>10, <1>11, <2>1, <2>2 DEF Laid
<1>13. k + 1 \in Nat /\ g[1] = a /\ g[(k + 1) + 1] = c
  <2>1. (k + 1) + 1 = k + 2 /\ 1 \in 1 .. k + 1 /\ k + 1 \in Nat  BY <1>1
  <2> QED  BY <1>1, <1>9, <2>1
<1>14. Lies(rs, ss, a, c)  BY <1>12, <1>13 DEF Lies
<1> QED  BY <1>2, <1>4, <1>14

\* The first line, and what follows it.
LEMMA LiesFirst ==
  ASSUME R!RtspAssumption, NEW rs \in Seq(Requests), Len(rs) <= MaxRequests,
         NEW s \in Seq(Tokens), s # <<>>, NEW a, NEW b, Lies(rs, s, a, b),
         NEW text, text = TextAt(rs, a)
  PROVE  /\ a \in Spots /\ a.req \in 1 .. Len(rs) /\ Len(text) \in Nat /\ Len(text) + 2 <= Len(s)
         /\ \A p \in 1 .. Len(text) + 2 : s[p] = R!Line(text)[p]
         /\ \E c \in Spots : /\ NextPlace(rs, a, c)
                             /\ Lies(rs, SubSeq(s, Len(text) + 3, Len(s)), c, b)
<1>1. PICK k, at, f : k \in Nat /\ Laid(rs, s, at, f, k) /\ f[1] = a /\ f[k + 1] = b  BY DEF Lies
<1>2. Len(s) \in Nat /\ Len(s) # 0 /\ \A p \in 1 .. Len(s) : s[p] \in Tokens  OBVIOUS
<1> DEFINE size(j) == Len(TextAt(rs, f[j]))
<1>3. /\ at \in [1 .. k + 1 -> Nat] /\ f \in [1 .. k + 1 -> Spots]
      /\ at[1] = 0 /\ at[k + 1] = Len(s)
      /\ \A j \in 1 .. k : \A i \in j + 1 .. k + 1 : at[i] >= at[j] + size(j) + 2
  BY <1>1 DEF Laid
<1>4. ASSUME NEW j \in 1 .. k
      PROVE  /\ f[j].req \in 1 .. Len(rs) /\ NextPlace(rs, f[j], f[j + 1])
             /\ at[j + 1] = at[j] + size(j) + 2
             /\ \A p \in 1 .. size(j) + 2 : s[at[j] + p] = R!Line(TextAt(rs, f[j]))[p]
  BY <1>1 DEF Laid
<1>5. k # 0  BY <1>2, <1>3
<1>6. 1 \in 1 .. k /\ 1 \in 1 .. k + 1 /\ 2 \in 1 .. k + 1 /\ 1 + 1 = 2 /\ k - 1 \in Nat /\ (k - 1) + 1 = k
  BY <1>1, <1>5
<1>7. \A j \in 1 .. k : size(j) \in Nat
  <2> SUFFICES ASSUME NEW j \in 1 .. k PROVE size(j) \in Nat  OBVIOUS
  <2>1. f[j] \in Spots /\ f[j].req \in 1 .. Len(rs)
    <3>1. j \in 1 .. k + 1  BY <1>1
    <3> QED  BY <1>3, <1>4, <3>1
  <2>2. TextAt(rs, f[j]) \in Seq(Tokens)  BY <2>1, TextIsPlain
  <2> QED  BY <2>2
<1>8. size(1) = Len(text)  BY <1>1
<1> HIDE DEF size
<1>9. PICK d : d = Len(text) + 2  OBVIOUS
<1>10. d \in Nat /\ Len(text) \in Nat /\ at[2] = d  BY <1>3, <1>4, <1>6, <1>7, <1>8, <1>9
<1>11. \A j \in 2 .. k + 1 : at[j] \in Nat /\ at[j] >= d
  <2> SUFFICES ASSUME NEW j \in 2 .. k + 1 PROVE at[j] \in Nat /\ at[j] >= d  OBVIOUS
  <2>1. j \in 1 .. k + 1 /\ j \in 1 + 1 .. k + 1  BY <1>1
  <2> QED  BY <1>3, <1>6, <1>8, <1>9, <1>10, <2>1
<1>12. Len(s) >= d  BY <1>3, <1>6, <1>11
<1>13. \A p \in 1 .. d : s[p] = R!Line(text)[p]
  <2> SUFFICES ASSUME NEW p \in 1 .. d PROVE s[p] = R!Line(text)[p]  OBVIOUS
  <2>1. p \in 1 .. size(1) + 2 /\ at[1] + p = p  BY <1>3, <1>8, <1>9, <1>10
  <2> QED  BY <1>1, <1>4, <1>6, <2>1
<1>14. PICK rest : rest = SubSeq(s, d + 1, Len(s))  OBVIOUS
<1>15. Len(rest) = Len(s) - d /\ \A p \in 1 .. Len(s) - d : rest[p] = s[d + p]
  <2>1. CASE Len(s) = d
    <3>1. rest = <<>>  BY <1>2, <1>10, <1>14, <2>1, SubSeqEmpty
    <3> QED  BY <1>2, <1>10, <2>1, <3>1
  <2>2. CASE Len(s) > d
    <3>1. d + 1 \in 1 .. Len(s)  BY <1>2, <1>10, <2>2
    <3>2. Len(rest) = Len(s) - (d + 1) + 1  BY <1>2, <1>14, <3>1
    <3>3. \A p \in 1 .. Len(s) - (d + 1) + 1 : rest[p] = s[(d + 1) + p - 1]  BY <1>2, <1>14, <3>1
    <3>4. Len(s) - (d + 1) + 1 = Len(s) - d /\ \A p \in 1 .. Len(s) - d : (d + 1) + p - 1 = d + p
      BY <1>2, <1>10
    <3> QED  BY <3>2, <3>3, <3>4
  <2> QED  BY <1>2, <1>10, <1>12, <2>1, <2>2
<1> DEFINE aa == [j \in 1 .. k |-> at[j + 1] - d]
           g  == [j \in 1 .. k |-> f[j + 1]]
<1>16. /\ \A j \in 1 .. k : aa[j] = at[j + 1] - d /\ g[j] = f[j + 1] /\ j + 1 \in 2 .. k + 1
       /\ aa \in [1 .. k -> Nat] /\ g \in [1 .. k -> Spots]
  <2>1. \A j \in 1 .. k : j + 1 \in 2 .. k + 1 /\ j + 1 \in 1 .. k + 1  BY <1>1
  <2>2. ASSUME NEW j \in 1 .. k PROVE at[j + 1] - d \in Nat /\ f[j + 1] \in Spots
    <3>1. f[j + 1] \in Spots  BY <1>3, <2>1
    <3>2. PICK x : x = at[j + 1]  OBVIOUS
    <3>3. x \in Nat /\ x >= d /\ d \in Nat  BY <1>10, <1>11, <2>1, <3>2
    <3>4. x - d \in Nat  BY <3>3
    <3> QED  BY <3>1, <3>2, <3>4
  <2> QED  BY <2>1, <2>2
<1> HIDE DEF aa, g
<1>17. ASSUME NEW j \in 1 .. k - 1
       PROVE  /\ g[j].req \in 1 .. Len(rs) /\ NextPlace(rs, g[j], g[j + 1])
              /\ aa[j + 1] = aa[j] + Len(TextAt(rs, g[j])) + 2
              /\ \A p \in 1 .. Len(TextAt(rs, g[j])) + 2 :
                   rest[aa[j] + p] = R!Line(TextAt(rs, g[j]))[p]
  <2>1. /\ j \in 1 .. k /\ j + 1 \in 1 .. k /\ k + 1 \in (j + 1) + 1 .. k + 1
    BY <1>1, <1>6
  <2>2. g[j] = f[j + 1] /\ g[j + 1] = f[(j + 1) + 1]  BY <1>16, <2>1
  <2>3. aa[j] = at[j + 1] - d /\ aa[j + 1] = at[(j + 1) + 1] - d  BY <1>16, <2>1
  <2>4. Len(TextAt(rs, g[j])) = size(j + 1) /\ size(j + 1) \in Nat  BY <1>7, <2>1, <2>2 DEF size
  <2>5. aa[j] \in Nat /\ at[j + 1] \in Nat /\ at[j + 1] = aa[j] + d
    <3>1. j + 1 \in 2 .. k + 1  BY <1>16, <2>1
    <3>2. at[j + 1] \in Nat /\ at[j + 1] >= d  BY <1>11, <3>1
    <3> QED  BY <1>10, <2>3, <3>2
  <2>6. at[(j + 1) + 1] = at[j + 1] + size(j + 1) + 2  BY <1>4, <2>1
  <2>7. aa[j + 1] = aa[j] + size(j + 1) + 2
    <3>1. PICK x, y, z : x = aa[j] /\ y = at[j + 1] /\ z = size(j + 1)  OBVIOUS
    <3>2. x \in Nat /\ y \in Nat /\ z \in Nat /\ d \in Nat /\ y = x + d  BY <1>10, <2>4, <2>5, <3>1
    <3>3. (y + z + 2) - d = x + z + 2  BY <3>2
    <3>4. aa[j + 1] = (y + z + 2) - d  BY <2>3, <2>6, <3>1
    <3> QED  BY <3>1, <3>3, <3>4
  <2>8. at[j + 1] + size(j + 1) + 2 <= Len(s)  BY <1>2, <1>3, <2>1, <2>4, <2>5
  <2>9. ASSUME NEW p \in 1 .. size(j + 1) + 2
        PROVE  rest[aa[j] + p] = R!Line(TextAt(rs, g[j]))[p]
    <3>1. aa[j] + p \in 1 .. Len(s) - d /\ d + (aa[j] + p) = at[j + 1] + p
      <4>1. PICK x, y, z, l : x = aa[j] /\ y = at[j + 1] /\ z = size(j + 1) /\ l = Len(s)  OBVIOUS
      <4>2. x \in Nat /\ y \in Nat /\ z \in Nat /\ l \in Nat /\ y = x + d /\ y + z + 2 <= l
        BY <1>2, <2>4, <2>5, <2>8, <4>1
      <4>3. p \in 1 .. z + 2  BY <4>1
      <4>4. x + p \in 1 .. l - d /\ d + (x + p) = y + p  BY <1>10, <4>2, <4>3
      <4> QED  BY <4>1, <4>4
    <3>2. rest[aa[j] + p] = s[at[j + 1] + p]  BY <1>15, <3>1
    <3>3. s[at[j + 1] + p] = R!Line(TextAt(rs, f[j + 1]))[p]  BY <1>4, <2>1
    <3> QED  BY <2>2, <3>2, <3>3
  <2>10. g[j].req \in 1 .. Len(rs) /\ NextPlace(rs, g[j], g[j + 1])  BY <1>4, <2>1, <2>2
  <2> QED  BY <2>4, <2>7, <2>9, <2>10
<1>18. ASSUME NEW i \in 1 .. k - 1, NEW j \in i + 1 .. k
       PROVE  aa[j] >= aa[i] + Len(TextAt(rs, g[i])) + 2
  <2>1. i \in 1 .. k /\ j \in 1 .. k /\ i + 1 \in 1 .. k /\ j + 1 \in (i + 1) + 1 .. k + 1
    BY <1>1, <1>6
  <2>2. aa[i] = at[i + 1] - d /\ aa[j] = at[j + 1] - d /\ g[i] = f[i + 1]  BY <1>16, <2>1
  <2>3. at[j + 1] >= at[i + 1] + size(i + 1) + 2  BY <1>3, <2>1
  <2>4. Len(TextAt(rs, g[i])) = size(i + 1) /\ size(i + 1) \in Nat  BY <1>7, <2>1, <2>2 DEF size
  <2>5. at[i + 1] \in Nat /\ at[j + 1] \in Nat
    <3>1. i + 1 \in 2 .. k + 1 /\ j + 1 \in 2 .. k + 1  BY <1>16, <2>1
    <3> QED  BY <1>11, <3>1
  <2>6. PICK x, y, z : x = at[i + 1] /\ y = at[j + 1] /\ z = size(i + 1)  OBVIOUS
  <2>7. x \in Nat /\ y \in Nat /\ z \in Nat /\ y >= x + z + 2  BY <2>3, <2>4, <2>5, <2>6
  <2>8. y - d >= x - d + z + 2  BY <1>10, <2>7
  <2> QED  BY <2>2, <2>4, <2>6, <2>8
<1>19. Laid(rs, rest, aa, g, k - 1)
  <2>1. aa[1] = 0  BY <1>6, <1>10, <1>16
  <2>2. aa[k] = Len(rest)  BY <1>3, <1>6, <1>15, <1>16
  <2> QED  BY <1>6, <1>16, <1>17, <1>18, <2>1, <2>2 DEF Laid
<1>20. g[1] = f[2] /\ g[k] = b  BY <1>1, <1>6, <1>16
<1>21. Lies(rs, rest, f[2], b)
  <2>1. \E at2, g2 : Laid(rs, rest, at2, g2, k - 1) /\ g2[1] = f[2] /\ g2[(k - 1) + 1] = b
    BY <1>6, <1>19, <1>20
  <2> QED  BY <1>6, <2>1 DEF Lies
<1>22. f[2] \in Spots /\ NextPlace(rs, a, f[2]) /\ a \in Spots /\ a.req \in 1 .. Len(rs)
  BY <1>1, <1>3, <1>4, <1>6
<1>23. d + 1 = Len(text) + 3  BY <1>9, <1>10
<1> QED  BY <1>9, <1>10, <1>12, <1>13, <1>14, <1>21, <1>22, <1>23

\* A line of no request: nothing follows.
LEMMA LiesOver ==
  ASSUME NEW rs \in Seq(Requests), NEW s \in Seq(Tokens), NEW a, NEW b, Lies(rs, s, a, b),
         a.req \notin 1 .. Len(rs)
  PROVE  s = <<>> /\ a = b
<1>1. PICK k, at, f : k \in Nat /\ Laid(rs, s, at, f, k) /\ f[1] = a /\ f[k + 1] = b  BY DEF Lies
<1>2. k = 0
  <2> SUFFICES ASSUME k # 0 PROVE FALSE  OBVIOUS
  <2>1. 1 \in 1 .. k  BY <1>1
  <2> QED  BY <1>1, <2>1 DEF Laid
<1>3. 0 + 1 = 1 /\ at[1] = 0 /\ at[1] = Len(s)  BY <1>1, <1>2 DEF Laid
<1>4. Len(s) = 0  BY <1>3
<1>5. s = <<>>  BY <1>4, EmptySeq
<1> QED  BY <1>1, <1>2, <1>3, <1>5

\* And nothing left: that is the last line.
LEMMA LiesDone ==
  ASSUME R!RtspAssumption, NEW rs \in Seq(Requests), Len(rs) <= MaxRequests,
         NEW a, NEW b, Lies(rs, <<>>, a, b)
  PROVE  a = b
<1>1. PICK k, at, f : k \in Nat /\ Laid(rs, <<>>, at, f, k) /\ f[1] = a /\ f[k + 1] = b  BY DEF Lies
<1>2. k = 0
  <2> SUFFICES ASSUME k # 0 PROVE FALSE  OBVIOUS
  <2>1. 1 \in 1 .. k /\ k + 1 \in 1 + 1 .. k + 1 /\ 1 \in 1 .. k + 1  BY <1>1
  <2>2. /\ at[1] = 0 /\ at[k + 1] = Len(<<>>) /\ f[1] \in Spots /\ f[1].req \in 1 .. Len(rs)
        /\ at[k + 1] >= at[1] + Len(TextAt(rs, f[1])) + 2
    BY <1>1, <2>1 DEF Laid
  <2>3. TextAt(rs, f[1]) \in Seq(Tokens)  BY <2>2, TextIsPlain
  <2>4. Len(TextAt(rs, f[1])) \in Nat /\ Len(<<>>) = 0  BY <2>3
  <2> QED  BY <2>2, <2>4
<1> QED  BY <1>1, <1>2

\* A request that is sent lies after the others.
LEMMA LiesRequest ==
  ASSUME R!RtspAssumption, NEW rs \in Seq(Requests), NEW m \in R!Methods, NEW k \in {0, LongLine},
         NEW r \in Requests, r.method = m, Len(rs) + 1 <= MaxRequests,
         NEW s \in Seq(Tokens), NEW a, Lies(rs, s, a, Begin(Len(rs) + 1))
  PROVE  Lies(Append(rs, r), s \o R!Request(m, Len(rs) + 1, k), a, Begin(Len(Append(rs, r)) + 1))
<1>1. PICK rr, i : rr = Append(rs, r) /\ i = Len(rs) + 1  OBVIOUS
<1>2. rr \in Seq(Requests) /\ Len(rr) = i /\ rr[i] = r /\ i \in 1 .. MaxRequests /\ i \in Nat
  BY <1>1
<1> DEFINE at(kd) == [req |-> i, kind |-> kd]
           ln(kd) == R!Line(TextAt(rr, at(kd)))
<1>3. \A kd \in Kinds : at(kd) \in Spots /\ at(kd).req \in 1 .. Len(rr) /\ at(kd).req = i /\ at(kd).kind = kd
  BY <1>2 DEF Spots
<1>4. \A kd \in Kinds : ln(kd) \in Seq(Tokens)
  <2> SUFFICES ASSUME NEW kd \in Kinds PROVE ln(kd) \in Seq(Tokens)  OBVIOUS
  <2>1. PICK b : b = at(kd)  OBVIOUS
  <2>2. b \in Spots /\ b.req \in 1 .. Len(rr)  BY <1>3, <2>1
  <2>3. R!Line(TextAt(rr, b)) \in Seq(Tokens)  BY <1>2, <2>2, TextIsPlain
  <2> QED  BY <2>1, <2>3
<1>5. ASSUME NEW q \in Seq(Tokens), NEW kd \in Kinds, NEW c \in Spots, NextPlace(rr, at(kd), c),
             Lies(rr, q, a, at(kd))
      PROVE  Lies(rr, q \o ln(kd), a, c) /\ q \o ln(kd) \in Seq(Tokens)
  <2>1. PICK b : b = at(kd)  OBVIOUS
  <2>2. b \in Spots /\ b.req \in 1 .. Len(rr) /\ Lies(rr, q, a, b) /\ NextPlace(rr, b, c)
    BY <1>3, <1>5, <2>1
  <2>3. Lies(rr, q \o R!Line(TextAt(rr, b)), a, c)  BY <1>2, <2>2, LiesLine
  <2>4. q \o ln(kd) \in Seq(Tokens)  BY <1>4
  <2> QED  BY <2>1, <2>3, <2>4
<1>6. /\ ln("command") = R!Line(R!Command(m)) /\ ln("other") = R!Line(R!Other(LongLine))
      /\ ln("cseq") = R!Line(R!CSeq(i)) /\ ln("transport") = R!Line(R!Transport)
      /\ ln("end") = R!Line(<<>>)
  BY <1>2 DEF TextAt
<1>7. {"command", "other", "cseq", "transport", "end"} \subseteq Kinds  BY DEF Kinds
<1>8. k > 0 => k = LongLine /\ LongLine > 0  BY DEF R!RtspAssumption
<1>9. /\ k > 0 => NextPlace(rr, at("command"), at("other"))
      /\ NextPlace(rr, at("command"), at("cseq")) /\ NextPlace(rr, at("other"), at("cseq"))
      /\ m = "SETUP" => NextPlace(rr, at("cseq"), at("transport"))
      /\ m # "SETUP" => NextPlace(rr, at("cseq"), at("end"))
      /\ NextPlace(rr, at("transport"), at("end")) /\ NextPlace(rr, at("end"), Begin(i + 1))
  BY <1>2, <1>8 DEF NextPlace
<1>10. Begin(i + 1) \in Spots  BY <1>2, <1>7 DEF Begin, Spots
<1>11. Lies(rr, s, a, at("command"))
  <2>1. Lies(rr, s, a, Begin(i))  BY <1>1, LiesStill
  <2> QED  BY <2>1 DEF Begin
<1> HIDE DEF at, ln
<1> DEFINE o == IF k > 0 THEN ln("other") ELSE <<>>
           t == IF m = "SETUP" THEN ln("transport") ELSE <<>>
<1>12. Lies(rr, s \o ln("command"), a, IF k > 0 THEN at("other") ELSE at("cseq"))
       /\ s \o ln("command") \in Seq(Tokens)
  BY <1>3, <1>5, <1>7, <1>9, <1>11
<1>13. PICK s1 : s1 = s \o ln("command")  OBVIOUS
<1>14. Lies(rr, s1 \o o, a, at("cseq")) /\ s1 \o o \in Seq(Tokens)
  <2>1. CASE k > 0  BY <1>3, <1>5, <1>7, <1>9, <1>12, <1>13, <2>1
  <2>2. CASE ~(k > 0)
    <3>1. s1 \o o = s1  BY <1>12, <1>13, <2>2
    <3> QED  BY <1>12, <1>13, <2>2, <3>1
  <2> QED  BY <2>1, <2>2
<1>15. PICK s2 : s2 = s1 \o o  OBVIOUS
<1>16. Lies(rr, s2 \o ln("cseq"), a, IF m = "SETUP" THEN at("transport") ELSE at("end"))
       /\ s2 \o ln("cseq") \in Seq(Tokens)
  BY <1>3, <1>5, <1>7, <1>9, <1>14, <1>15
<1>17. PICK s3 : s3 = s2 \o ln("cseq")  OBVIOUS
<1>18. Lies(rr, s3 \o t, a, at("end")) /\ s3 \o t \in Seq(Tokens)
  <2>1. CASE m = "SETUP"  BY <1>3, <1>5, <1>7, <1>9, <1>16, <1>17, <2>1
  <2>2. CASE m # "SETUP"
    <3>1. s3 \o t = s3  BY <1>16, <1>17, <2>2
    <3> QED  BY <1>16, <1>17, <2>2, <3>1
  <2> QED  BY <2>1, <2>2
<1>19. PICK s4 : s4 = s3 \o t  OBVIOUS
<1>20. Lies(rr, s4 \o ln("end"), a, Begin(i + 1))
  BY <1>3, <1>5, <1>7, <1>9, <1>10, <1>18, <1>19
<1>21. o \in Seq(Tokens) /\ t \in Seq(Tokens)
  <2>1. <<>> \in Seq(Tokens)  OBVIOUS
  <2> QED  BY <1>4, <1>7, <2>1
<1>22. R!Request(m, i, k) = (((ln("command") \o o) \o ln("cseq")) \o t) \o ln("end")
  BY <1>6, <1>8 DEF R!Request
<1> HIDE DEF o, t
<1>23. s \o R!Request(m, i, k) = s4 \o ln("end")
  <2>1. PICK x, y, z : x = ln("command") /\ y = ln("cseq") /\ z = ln("end")  OBVIOUS
  <2>2. x \in Seq(Tokens) /\ y \in Seq(Tokens) /\ z \in Seq(Tokens)  BY <1>4, <1>7, <2>1
  <2>3. PICK c1 : c1 = x \o o  OBVIOUS
  <2>4. PICK c2 : c2 = c1 \o y  OBVIOUS
  <2>5. PICK c3 : c3 = c2 \o t  OBVIOUS
  <2>6. c1 \in Seq(Tokens) /\ c2 \in Seq(Tokens) /\ c3 \in Seq(Tokens)
    BY <1>21, <2>2, <2>3, <2>4, <2>5
  <2>7. /\ (s \o c3) \o z = s \o (c3 \o z) /\ (s \o c2) \o t = s \o (c2 \o t)
        /\ (s \o c1) \o y = s \o (c1 \o y) /\ (s \o x) \o o = s \o (x \o o)
    <3>1. s \in Seq(Tokens) /\ o \in Seq(Tokens) /\ t \in Seq(Tokens)  BY <1>21
    <3>2. \A g, h \in Seq(Tokens) : (s \o g) \o h = s \o (g \o h)  BY <3>1, AllJoined
    <3> QED  BY <2>2, <2>6, <3>1, <3>2
  <2>8. R!Request(m, i, k) = c3 \o z  BY <1>22, <2>1, <2>3, <2>4, <2>5
  <2>9. s4 = s \o c3  BY <1>13, <1>15, <1>17, <1>19, <2>1, <2>3, <2>4, <2>5, <2>7
  <2> QED  BY <2>1, <2>7, <2>8, <2>9
<1> QED  BY <1>1, <1>2, <1>20, <1>23

\* What is in the stream s of a line x that was begun, of the packet y and of what is to
\* come z: a character more of the line, and what is left when a line ends.
Moves(x, y, z, s) ==
  /\ (Append(x, Head(y)) \o Tail(y)) \o z = s
  /\ (<<>> \o Tail(y)) \o z = SubSeq(s, Len(x) + 2, Len(s))
  /\ s \in Seq(Tokens) /\ s # <<>> /\ Len(x) < Len(s) /\ s[Len(x) + 1] = Head(y)
  /\ \A p \in 1 .. Len(x) : s[p] = x[p]

LEMMA StreamMoves ==
  ASSUME NEW x \in Seq(Tokens), NEW y \in Seq(Tokens), NEW z \in Seq(Tokens), NEW s
  PROVE  y # <<>> /\ s = (x \o y) \o z => Moves(x, y, z, s)
<1>0. SUFFICES ASSUME y # <<>>, s = (x \o y) \o z
               PROVE  /\ (Append(x, Head(y)) \o Tail(y)) \o z = s
                      /\ (<<>> \o Tail(y)) \o z = SubSeq(s, Len(x) + 2, Len(s))
                      /\ s \in Seq(Tokens) /\ s # <<>> /\ Len(x) < Len(s) /\ s[Len(x) + 1] = Head(y)
                      /\ \A p \in 1 .. Len(x) : s[p] = x[p]
  BY DEF Moves
<1>1. PICK c, w : c = Head(y) /\ w = Tail(y)  OBVIOUS
<1>2. c \in Tokens /\ w \in Seq(Tokens) /\ y = <<c>> \o w
  <2>1. c \in Tokens /\ w \in Seq(Tokens)  BY <1>0, <1>1
  <2>2. Len(<<c>> \o w) = Len(y) /\ \A p \in 1 .. Len(y) : (<<c>> \o w)[p] = y[p]  BY <1>0, <1>1
  <2>3. <<c>> \o w \in Seq(Tokens)  BY <2>1
  <2> QED  BY <2>1, <2>2, <2>3, SeqEqual
<1>3. PICK d : d = <<c>>  OBVIOUS
<1>4. d \in Seq(Tokens) /\ Len(d) = 1 /\ d[1] = c  BY <1>2, <1>3
<1>11. PICK xd : xd = x \o d  OBVIOUS
<1>12. /\ xd \in Seq(Tokens) /\ Len(x) \in Nat /\ Len(xd) = Len(x) + 1 /\ Len(xd) \in Nat
       /\ \A p \in 1 .. Len(x) : xd[p] = x[p]
       /\ xd[Len(x) + 1] = c
  <2>1. /\ xd \in Seq(Tokens) /\ Len(x) \in Nat /\ Len(xd) = Len(x) + Len(d)
        /\ \A p \in 1 .. Len(x) : xd[p] = x[p]
        /\ \A p \in 1 .. Len(d) : xd[Len(x) + p] = d[p]
    <3>1. x \in Seq(Tokens) /\ d \in Seq(Tokens)  BY <1>4
    <3> QED  BY <1>11, <3>1, JoinedAt
  <2>2. 1 \in 1 .. Len(d)  BY <1>4
  <2>3. xd[Len(x) + 1] = d[1]  BY <2>1, <2>2
  <2> QED  BY <1>4, <2>1, <2>3
<1>5. Append(x, c) = xd
  <2>1. Append(x, c) \in Seq(Tokens) /\ Len(Append(x, c)) = Len(x) + 1  BY <1>2
  <2>2. \A p \in 1 .. Len(x) + 1 : Append(x, c)[p] = xd[p]
    <3>1. \A p \in 1 .. Len(x) : Append(x, c)[p] = x[p]  BY <1>2
    <3>2. Append(x, c)[Len(x) + 1] = c  BY <1>2
    <3>3. \A p \in 1 .. Len(x) + 1 : p \in 1 .. Len(x) \/ p = Len(x) + 1  BY <1>12
    <3> QED  BY <1>12, <3>1, <3>2, <3>3
  <2> QED  BY <1>12, <2>1, <2>2, SeqEqual
<1>6. PICK v : v = w \o z  OBVIOUS
<1>7. v \in Seq(Tokens) /\ x \o d \in Seq(Tokens) /\ d \o w \in Seq(Tokens)  BY <1>2, <1>4, <1>6
<1>81. xd \in Seq(Tokens) /\ w \in Seq(Tokens) /\ d \in Seq(Tokens)  BY <1>2, <1>4, <1>12
<1>8. (xd \o w) \o z = xd \o v
  <2>1. (xd \o w) \o z = xd \o (w \o z)
    <3>1. xd \in Seq(Tokens) /\ w \in Seq(Tokens) /\ z \in Seq(Tokens)  BY <1>81
    <3>2. \A g, h \in Seq(Tokens) : (xd \o g) \o h = xd \o (g \o h)  BY <3>1, AllJoined
    <3>3. \A h \in Seq(Tokens) : (xd \o w) \o h = xd \o (w \o h)  BY <3>1, <3>2
    <3> QED  BY <3>1, <3>3
  <2> QED  BY <1>6, <2>1
<1>80. (x \o d) \o w = x \o (d \o w)
  <2>1. \A g, h \in Seq(Tokens) : (x \o g) \o h = x \o (g \o h)  BY AllJoined
  <2>2. \A h \in Seq(Tokens) : (x \o d) \o h = x \o (d \o h)  BY <1>81, <2>1
  <2> QED  BY <1>81, <2>2
<1>9. s = xd \o v  BY <1>0, <1>2, <1>3, <1>8, <1>80, <1>11
<1>10. (Append(x, c) \o w) \o z = s  BY <1>5, <1>8, <1>9
<1>13. /\ s \in Seq(Tokens) /\ Len(s) = Len(xd) + Len(v) /\ Len(v) \in Nat
       /\ \A p \in 1 .. Len(xd) : s[p] = xd[p]
       /\ \A p \in 1 .. Len(v) : s[Len(xd) + p] = v[p]
  <2>1. xd \in Seq(Tokens) /\ v \in Seq(Tokens)  BY <1>7, <1>12
  <2> QED  BY <1>9, <2>1, JoinedAt
<1>14. SubSeq(s, Len(xd) + 1, Len(s)) = v
  <2>1. CASE Len(v) = 0
    <3>1. v = <<>>  BY <1>7, <2>1, EmptySeq
    <3>2. Len(s) < Len(xd) + 1 /\ Len(s) \in Int /\ Len(xd) + 1 \in Int  BY <1>12, <1>13, <2>1
    <3> QED  BY <3>1, <3>2, SubSeqEmpty
  <2>2. CASE Len(v) > 0
    <3>1. PICK rest : rest = SubSeq(s, Len(xd) + 1, Len(s))  OBVIOUS
    <3>2. Len(xd) + 1 \in 1 .. Len(s) /\ Len(s) \in Nat  BY <1>12, <1>13, <2>2
    <3>3. rest \in Seq(Tokens) /\ Len(rest) = Len(v)
      <4>1. PICK i, l : i = Len(xd) + 1 /\ l = Len(s)  OBVIOUS
      <4>2. i \in 1 .. l /\ l = Len(s) /\ l \in Nat /\ s \in Seq(Tokens) /\ rest = SubSeq(s, i, l)
        BY <1>13, <3>1, <3>2, <4>1
      <4>3. rest \in Seq(Tokens) /\ Len(rest) = l - i + 1  BY <4>2
      <4> QED  BY <1>12, <1>13, <4>1, <4>3
    <3>4. \A p \in 1 .. Len(v) : rest[p] = s[(Len(xd) + 1) + p - 1]
      BY <1>12, <1>13, <3>1, <3>2
    <3>5. ASSUME NEW p \in 1 .. Len(v) PROVE rest[p] = v[p]
      <4>1. PICK k : k = Len(xd)  OBVIOUS
      <4>2. (k + 1) + p - 1 = k + p  BY <1>12, <1>13, <4>1
      <4> QED  BY <1>13, <3>4, <4>1, <4>2
    <3> QED  BY <1>7, <3>1, <3>3, <3>5, SeqEqual
  <2> QED  BY <1>13, <2>1, <2>2
<1>15. <<>> \o w = w  BY <1>2, ConcatEmptySeq
<1>16. Len(x) + 2 = Len(xd) + 1 /\ Len(x) \in Nat  BY <1>12
<1>17. s[Len(x) + 1] = c /\ Len(x) < Len(s) /\ s # <<>>
  <2>1. Len(xd) \in 1 .. Len(xd) /\ Len(xd) = Len(x) + 1  BY <1>12
  <2>2. s[Len(x) + 1] = c  BY <1>12, <1>13, <2>1
  <2>3. Len(s) = Len(xd) + Len(v) /\ Len(v) \in Nat /\ Len(x) \in Nat  BY <1>12, <1>13
  <2>4. Len(x) < Len(s) /\ Len(s) # 0  BY <2>1, <2>3
  <2>5. Len(<<>>) = 0  OBVIOUS
  <2> QED  BY <2>2, <2>4, <2>5
<1>18. \A p \in 1 .. Len(x) : s[p] = x[p]  BY <1>12, <1>13, <1>16
<1> QED  BY <1>1, <1>6, <1>10, <1>13, <1>14, <1>15, <1>16, <1>17, <1>18

\* So it is for the line of the session, the packet that it reads and what is to come.
LEMMA StreamNow ==
  ASSUME line \in Seq(Tokens), pkt \in Seq(Tokens), wire \in Seq(Tokens), pkt # <<>>,
         NEW s, s = (line \o pkt) \o wire
  PROVE  /\ (Append(line, Head(pkt)) \o Tail(pkt)) \o wire = s
         /\ (<<>> \o Tail(pkt)) \o wire = SubSeq(s, Len(line) + 2, Len(s))
         /\ s \in Seq(Tokens) /\ s # <<>> /\ Len(line) < Len(s) /\ s[Len(line) + 1] = Head(pkt)
         /\ \A p \in 1 .. Len(line) : s[p] = line[p]
<1>1. Moves(line, pkt, wire, s)  BY StreamMoves
<1> QED  BY <1>1 DEF Moves

----------------------------------------------------------------------------
(* What a session that was never cut has done                              *)

\* While no line is cut, what was read of a line and what is to be read are the lines of
\* the requests from a on; of the line at a, as much was read as is in m_LineBuf.
Stream(a) ==
  /\ a \in Spots
  /\ Lies(sent, (line \o pkt) \o wire, a, Begin(Len(sent) + 1))
  /\ a.req \in 1 .. Len(sent) => Len(line) <= Len(TextAt(sent, a)) + 1
  /\ seen = IF a.req \in 1 .. Len(sent) /\ Len(line) = Len(TextAt(sent, a)) + 1
              THEN "CR" ELSE "none"

\* A request is analysed after its command, if it is one of those that are accepted; the
\* requests before it were processed.
Phase(a) ==
  /\ a.kind = "other" => LongLine > 0
  /\ anaPhase = IF a.kind # "command" /\ sent[a.req].method \in Acc THEN 1 ELSE 0
  /\ anaPhase = 1 => /\ methodcode = sent[a.req].method
                     /\ a.kind \in {"transport", "end"} => header.seq = a.req
  /\ handled = R!Of(SubSeq(sent, 1, a.req - 1), Acc)

\* The first word of a text says which line it is.
LEMMA TextWord ==
  ASSUME R!RtspAssumption, NEW rs, NEW a \in Spots, a.kind = "other" => LongLine > 0,
         NEW text, text = TextAt(rs, a)
  PROVE  /\ a.kind = "end" <=> text = <<>>
         /\ a.kind # "end" => text[1][1] = a.kind
<1>1. a.kind \in Kinds  BY DEF Spots
<1>2. CASE a.kind = "command"
  <2>1. PICK x, y : x = <<"command", rs[a.req].method, 1>> /\ y = <<"command", rs[a.req].method, 2>>
    OBVIOUS
  <2>2. text = <<x, y>>  BY <1>2, <2>1 DEF TextAt, R!Command
  <2>3. text[1] = x /\ x[1] = "command" /\ Len(text) = 2 /\ Len(<<>>) = 0  BY <2>1, <2>2
  <2> QED  BY <1>2, <2>3
<1>3. CASE a.kind = "other"
  <2>1. text = [j \in 1 .. LongLine |-> <<"other", 0, j>>]  BY <1>3 DEF TextAt, R!Other
  <2>2. LongLine \in Nat /\ 1 \in 1 .. LongLine  BY <1>3 DEF R!RtspAssumption
  <2>3. text[1] = <<"other", 0, 1>> /\ DOMAIN text = 1 .. LongLine  BY <2>1, <2>2
  <2>4. text[1][1] = "other"  BY <2>3
  <2>5. text # <<>>  BY <2>2, <2>3
  <2> QED  BY <1>3, <2>4, <2>5
<1>4. CASE a.kind = "cseq"
  <2>1. PICK x, y : x = <<"cseq", a.req, 1>> /\ y = <<"cseq", a.req, 2>>  OBVIOUS
  <2>2. text = <<x, y>>  BY <1>4, <2>1 DEF TextAt, R!CSeq
  <2>3. text[1] = x /\ x[1] = "cseq" /\ Len(text) = 2 /\ Len(<<>>) = 0  BY <2>1, <2>2
  <2> QED  BY <1>4, <2>3
<1>5. CASE a.kind = "transport"
  <2>1. PICK x, y : x = <<"transport", 0, 1>> /\ y = <<"transport", 0, 2>>  OBVIOUS
  <2>2. text = <<x, y>>  BY <1>5, <2>1 DEF TextAt, R!Transport
  <2>3. text[1] = x /\ x[1] = "transport" /\ Len(text) = 2 /\ Len(<<>>) = 0  BY <2>1, <2>2
  <2> QED  BY <1>5, <2>3
<1>6. CASE a.kind = "end"
  <2>1. text = <<>>  BY <1>6 DEF TextAt
  <2> QED  BY <1>6, <2>1
<1> QED  BY <1>1, <1>2, <1>3, <1>4, <1>5, <1>6 DEF Kinds

\* And what the parser takes for a command, for a CSeq or for a Transport begins so.
LEMMA KnownWord ==
  ASSUME NEW text
  PROVE  /\ R!Recognised(text) => text[1][1] = "command"
         /\ \A i : text = R!CSeq(i) => text[1][1] = "cseq" /\ text[1][2] = i
         /\ text = R!Transport => text[1][1] = "transport"
         /\ \A m \in R!Methods : text = R!Command(m) => R!Recognised(text) /\ R!MethodOf(text) = m
<1>1. ASSUME NEW u, NEW v
      PROVE  << <<u, v, 1>>, <<u, v, 2>> >>[1][1] = u /\ << <<u, v, 1>>, <<u, v, 2>> >>[1][2] = v
  <2>1. PICK x, y : x = <<u, v, 1>> /\ y = <<u, v, 2>>  OBVIOUS
  <2>2. <<x, y>>[1] = x /\ x[1] = u /\ x[2] = v  BY <2>1
  <2> QED  BY <2>1, <2>2
<1>2. R!Recognised(text) => text[1][1] = "command"
  BY <1>1 DEF R!Recognised, R!Command
<1>3. \A i : text = R!CSeq(i) => text[1][1] = "cseq" /\ text[1][2] = i
  BY <1>1 DEF R!CSeq
<1>4. text = R!Transport => text[1][1] = "transport"
  BY <1>1 DEF R!Transport
<1>5. ASSUME NEW m \in R!Methods, text = R!Command(m)
      PROVE  R!Recognised(text) /\ R!MethodOf(text) = m
  <2>1. R!Recognised(text)  BY <1>5 DEF R!Recognised
  <2>2. text[1][2] = m  BY <1>1, <1>5 DEF R!Command
  <2> QED  BY <2>1, <2>2 DEF R!MethodOf
<1> QED  BY <1>2, <1>3, <1>4, <1>5

\* When a line ends, it is the line at a, and the next one begins.
LEMMA LineRead ==
  ASSUME R!RtspAssumption, TInv, R!EndLine, NEW a, Stream(a)
  PROVE  /\ a \in Spots /\ a.req \in 1 .. Len(sent) /\ R!Text = TextAt(sent, a)
         /\ \E c \in Spots : NextPlace(sent, a, c) /\ Stream(c)'
<1>1. /\ sent \in Seq(Requests) /\ Len(sent) <= MaxRequests
      /\ line \in Seq(Tokens) /\ pkt \in Seq(Tokens) /\ wire \in Seq(Tokens) /\ pkt # <<>>
  BY DEF TInv, R!TypeOK, Requests, R!EndLine
<1>2. PICK s : s = (line \o pkt) \o wire  OBVIOUS
<1>3. /\ (<<>> \o Tail(pkt)) \o wire = SubSeq(s, Len(line) + 2, Len(s))
      /\ s \in Seq(Tokens) /\ s # <<>> /\ s[Len(line) + 1] = Head(pkt)
      /\ \A p \in 1 .. Len(line) : s[p] = line[p]
  <2>1. line \in Seq(Tokens) /\ pkt \in Seq(Tokens) /\ wire \in Seq(Tokens) /\ pkt # <<>>  BY <1>1
  <2> QED  BY <1>2, <2>1, StreamNow
<1>4. PICK text : text = TextAt(sent, a)  OBVIOUS
<1>5. Lies(sent, s, a, Begin(Len(sent) + 1))  BY <1>2 DEF Stream
<1>6. /\ a \in Spots /\ a.req \in 1 .. Len(sent) /\ Len(text) \in Nat
      /\ \A p \in 1 .. Len(text) + 2 : s[p] = R!Line(text)[p]
      /\ \E c \in Spots : /\ NextPlace(sent, a, c)
                          /\ Lies(sent, SubSeq(s, Len(text) + 3, Len(s)), c, Begin(Len(sent) + 1))
  BY <1>1, <1>3, <1>4, <1>5, LiesFirst
<1>7. /\ text \in Seq(Tokens) /\ \A p \in 1 .. Len(text) : R!Line(text)[p] = text[p]
  BY <1>1, <1>4, <1>6, TextIsPlain
<1>8. seen = "CR"
  <2>1. R!CR # R!LF  BY DEF R!CR, R!LF
  <2>2. seen \in {"CR", "none"}  BY DEF Stream
  <2> QED  BY <2>1, <2>2 DEF R!EndLine, R!EndsLine
<1>9. Len(line) = Len(text) + 1  BY <1>4, <1>8 DEF Stream
<1>10. R!Text = text
  <2>1. Len(line) - 1 = Len(text) /\ R!Text = SubSeq(line, 1, Len(text))  BY <1>6, <1>9 DEF R!Text
  <2>2. PICK k : k = Len(text)  OBVIOUS
  <2>3. k \in Nat /\ k <= Len(line)  BY <1>1, <1>6, <1>9, <2>2
  <2>4. Len(SubSeq(line, 1, k)) = k /\ SubSeq(line, 1, k) \in Seq(Tokens)  BY <1>1, <2>3
  <2>5. \A p \in 1 .. k : SubSeq(line, 1, k)[p] = line[p]  BY <1>1, <2>3
  <2>6. \A p \in 1 .. k : line[p] = text[p]
    <3> SUFFICES ASSUME NEW p \in 1 .. k PROVE line[p] = text[p]  OBVIOUS
    <3>1. p \in 1 .. Len(line) /\ p \in 1 .. Len(text) /\ p \in 1 .. Len(text) + 2
      BY <1>9, <2>2, <2>3
    <3> QED  BY <1>3, <1>6, <1>7, <3>1
  <2> QED  BY <1>7, <2>1, <2>2, <2>4, <2>5, <2>6, SeqEqual
<1>11. PICK c \in Spots : /\ NextPlace(sent, a, c)
                          /\ Lies(sent, SubSeq(s, Len(text) + 3, Len(s)), c, Begin(Len(sent) + 1))
  BY <1>6
<1>12. Stream(c)'
  <2>1. line' = <<>> /\ seen' = "none" /\ pkt' = Tail(pkt) /\ wire' = wire /\ sent' = sent
    BY DEF R!EndLine, R!BeginLine, R!clientVars
  <2>2. Len(line) + 2 = Len(text) + 3  BY <1>6, <1>9
  <2>3. Lies(sent', (line' \o pkt') \o wire', c, Begin(Len(sent') + 1))
    BY <1>3, <1>11, <2>1, <2>2
  <2>4. c.req \in 1 .. Len(sent) => Len(TextAt(sent, c)) \in Nat
    <3> SUFFICES ASSUME c.req \in 1 .. Len(sent) PROVE Len(TextAt(sent, c)) \in Nat  OBVIOUS
    <3>1. TextAt(sent, c) \in Seq(Tokens)  BY <1>1, <1>11, TextIsPlain
    <3> QED  BY <3>1
  <2>5. PICK size : size = Len(TextAt(sent, c))  OBVIOUS
  <2>6. Len(<<>>) = 0  OBVIOUS
  <2>7. c.req \in 1 .. Len(sent) => Len(line') <= size + 1 /\ Len(line') # size + 1
    BY <2>1, <2>4, <2>5, <2>6
  <2> QED  BY <1>11, <2>1, <2>3, <2>5, <2>7 DEF Stream
<1> QED  BY <1>4, <1>6, <1>10, <1>11, <1>12

\* The invariant: as long as nothing was cut, the session is at some line.
FInv ==
  /\ \A i \in 1 .. Len(sent) : sent[i].seq = i
  /\ pkt = <<>> => line = <<>>
  /\ line = <<>> => seen = "none"
  /\ handled \in Seq(Requests) /\ answers = R!SeqsOf(R!Of(handled, {"OPTIONS"}))
  /\ whole => \E a \in Spots : Stream(a) /\ Phase(a)

\* The command: it is accepted in the idle state if it is one of two.
LEMMA CommandPhase ==
  ASSUME R!RtspAssumption, TInv, IInv, R!CommandLine, NEW a \in Spots, Phase(a),
         a.req \in 1 .. Len(sent), R!Text = TextAt(sent, a), NEW c \in Spots, NextPlace(sent, a, c)
  PROVE  Phase(c)'
<1>1. PICK text : text = R!Text  OBVIOUS
<1>2. PICK m : m = sent[a.req].method  OBVIOUS
<1>3. m \in R!Methods
  <2>1. sent \in Seq(Requests)  BY DEF TInv, Requests
  <2>2. sent[a.req] \in Requests  BY <2>1
  <2> QED  BY <1>2, <2>2 DEF Requests
<1>4. sent' = sent /\ handled' = handled /\ header' \in {header, R!EmptyHeader} /\ anaPhase = 0 /\ text # <<>>
  BY <1>1 DEF R!CommandLine, R!EndLine, R!clientVars
<1>5. a.kind # "end" /\ text[1][1] = a.kind  BY <1>1, <1>4, TextWord DEF Phase
<1>6. /\ c.req = a.req /\ c.kind # "command"
      /\ c.kind = "other" => LongLine > 0
      /\ a.kind = "command" => c.kind \notin {"transport", "end"}
  BY <1>5 DEF NextPlace
<1>7. handled' = R!Of(SubSeq(sent', 1, c.req - 1), Acc)  BY <1>4, <1>6 DEF Phase
<1>8. anaPhase' = (IF m \in Acc THEN 1 ELSE 0)
      /\ (anaPhase' = 1 => methodcode' = m /\ c.kind \notin {"transport", "end"})
  <2>1. CASE a.kind = "command"
    <3>1. text = R!Command(m)  BY <1>1, <1>2, <2>1 DEF TextAt
    <3>2. R!Recognised(text) /\ R!MethodOf(text) = m  BY <1>3, <3>1, KnownWord
    <3>3. R!HasWord(text)  BY <3>2, CommandHasWord
    <3>4. R!Allowed(m) <=> m \in Acc  BY DEF R!Allowed, IInv, R!NeverLeavesIdle, Acc
    <3>5. methodcode' = m  BY <1>1, <3>2, <3>3 DEF R!CommandLine
    <3>6. anaPhase' = IF m \in Acc THEN 1 ELSE 0
      BY <1>1, <1>4, <3>2, <3>4 DEF R!CommandLine
    <3> QED  BY <1>6, <2>1, <3>5, <3>6
  <2>2. CASE a.kind # "command"
    <3>1. ~R!Recognised(text)  BY <1>5, <2>2, KnownWord
    <3>2. anaPhase' = 0  BY <1>1, <1>4, <3>1 DEF R!CommandLine
    <3>3. m \notin Acc  BY <1>2, <1>4, <2>2 DEF Phase
    <3> QED  BY <3>2, <3>3
  <2> QED  BY <2>1, <2>2
<1> QED  BY <1>2, <1>4, <1>6, <1>7, <1>8 DEF Phase

\* A header line: that with the CSeq is the one of this request.
LEMMA HeaderPhase ==
  ASSUME R!RtspAssumption, TInv, R!HeaderLine, NEW a \in Spots, Phase(a),
         a.req \in 1 .. Len(sent), R!Text = TextAt(sent, a), NEW c \in Spots, NextPlace(sent, a, c)
  PROVE  Phase(c)'
<1>1. PICK text : text = R!Text  OBVIOUS
<1>2. /\ sent' = sent /\ handled' = handled /\ anaPhase = 1 /\ anaPhase' = 1 /\ methodcode' = methodcode
      /\ text # <<>>
  BY <1>1 DEF R!HeaderLine, R!EndLine, R!clientVars
<1>3. a.kind \notin {"end", "command"} /\ text[1][1] = a.kind
  BY <1>1, <1>2, TextWord DEF Phase
<1>4. c.req = a.req /\ c.kind \notin {"command", "other"} /\ (c.kind \in {"transport", "end"} => a.kind # "other")
  BY <1>3 DEF NextPlace
<1>5. handled' = R!Of(SubSeq(sent', 1, c.req - 1), Acc)  BY <1>2, <1>4 DEF Phase
<1>6. sent[a.req].method \in Acc /\ methodcode = sent[a.req].method  BY <1>2, <1>3 DEF Phase
<1>7. c.kind \in {"transport", "end"} => header'.seq = a.req
  <2> SUFFICES ASSUME c.kind \in {"transport", "end"} PROVE header'.seq = a.req  OBVIOUS
  <2>1. header \in [seq : 0 .. MaxRequests, nb_transports : {0, 1}]  BY DEF TInv, Headers
  <2>2. a.kind \in {"cseq", "transport"}  BY <1>3, <1>4 DEF Spots, Kinds
  <2>3. CASE a.kind = "cseq"
    <3>1. text = R!CSeq(a.req)  BY <1>1, <2>3 DEF TextAt
    <3>2. a.req \in 1 .. MaxRequests  BY DEF TInv, R!TypeOK, R!RtspAssumption
    <3>3. text # R!Transport  BY <1>3, <2>3, KnownWord
    <3>4. PICK i \in 1 .. MaxRequests : text = R!CSeq(i) /\ header' = [header EXCEPT !.seq = i]
      BY <1>1, <3>1, <3>2, <3>3 DEF R!HeaderLine
    <3>5. i = a.req
      <4>1. text[1][2] = i /\ text[1][2] = a.req  BY <3>1, <3>4, KnownWord
      <4> QED  BY <4>1
    <3> QED  BY <2>1, <3>4, <3>5
  <2>4. CASE a.kind = "transport"
    <3>1. header.seq = a.req  BY <1>2, <2>4 DEF Phase
    <3>2. \A i \in 1 .. MaxRequests : text # R!CSeq(i)  BY <1>3, <2>4, KnownWord
    <3>3. header' = header \/ header' = [header EXCEPT !.nb_transports = 1]
      BY <1>1, <3>2 DEF R!HeaderLine
    <3> QED  BY <2>1, <3>1, <3>3
  <2> QED  BY <2>2, <2>3, <2>4
<1> QED  BY <1>2, <1>4, <1>5, <1>6, <1>7 DEF Phase

\* The end of a request: of one that was accepted, or of another one.
LEMMA EndPhase ==
  ASSUME R!RtspAssumption, TInv, FInv, NEW a \in Spots, Phase(a), R!EndRequest \/ R!UnexpectedEnd,
         a.req \in 1 .. Len(sent), R!Text = TextAt(sent, a), NEW c \in Spots, NextPlace(sent, a, c)
  PROVE  Phase(c)'
<1>1. R!Text = <<>> /\ sent' = sent /\ anaPhase' = 0
  BY DEF R!EndRequest, R!UnexpectedEnd, R!EndLine, R!clientVars, R!sessionVars, R!NextPhase
<1>2. a.kind = "end"
  <2>1. a.kind = "other" => LongLine > 0  BY DEF Phase
  <2> QED  BY <1>1, <2>1, TextWord
<1>3. c.req = a.req + 1 /\ c.kind = "command"  BY <1>2 DEF NextPlace, Begin
<1>4. PICK q, r : q = SubSeq(sent, 1, a.req - 1) /\ r = sent[a.req]  OBVIOUS
<1>5. sent \in Seq(Requests) /\ r \in Requests /\ r.seq = a.req
  <2>1. sent \in Seq(Requests)  BY DEF TInv, Requests
  <2> QED  BY <1>4, <2>1 DEF FInv
<1>6. q \in Seq(Requests) /\ SubSeq(sent, 1, a.req) = Append(q, r)
  <2>1. PICK k : k = a.req - 1  OBVIOUS
  <2>2. k \in Nat /\ k + 1 = a.req /\ k + 1 <= Len(sent)  BY <2>1
  <2>3. q = SubSeq(sent, 1, k) /\ r = sent[k + 1]  BY <1>4, <2>1, <2>2
  <2>4. q \in Seq(Requests) /\ Len(q) = k /\ \A p \in 1 .. k : q[p] = sent[p]  BY <1>5, <2>2, <2>3
  <2>5. PICK v : v = SubSeq(sent, 1, k + 1)  OBVIOUS
  <2>6. v \in Seq(Requests) /\ Len(v) = k + 1 /\ \A p \in 1 .. k + 1 : v[p] = sent[p]
    BY <1>5, <2>2, <2>5
  <2>7. Append(q, r) \in Seq(Requests) /\ Len(Append(q, r)) = k + 1  BY <1>5, <2>2, <2>4
  <2>8. \A p \in 1 .. k + 1 : Append(q, r)[p] = sent[p]
    <3>1. \A p \in 1 .. k : Append(q, r)[p] = q[p]  BY <1>5, <2>2, <2>4
    <3>2. Append(q, r)[k + 1] = r  BY <1>5, <2>2, <2>4
    <3>3. \A p \in 1 .. k + 1 : p \in 1 .. k \/ p = k + 1  BY <2>2
    <3> QED  BY <2>3, <2>4, <3>1, <3>2, <3>3
  <2>9. v = Append(q, r)  BY <2>6, <2>7, <2>8, SeqEqual
  <2> QED  BY <2>2, <2>4, <2>5, <2>9
<1>7. R!Of(SubSeq(sent, 1, a.req), Acc) = IF r.method \in Acc THEN Append(R!Of(q, Acc), r) ELSE R!Of(q, Acc)
  <2>1. R!Of(Append(q, r), Acc) = IF r.method \in Acc THEN Append(R!Of(q, Acc), r) ELSE R!Of(q, Acc)
    BY <1>5, <1>6, OfAppend
  <2> QED  BY <1>6, <2>1
<1>8. handled = R!Of(q, Acc) /\ anaPhase = IF r.method \in Acc THEN 1 ELSE 0
  BY <1>2, <1>4 DEF Phase
<1>9. handled' = R!Of(SubSeq(sent, 1, a.req), Acc)
  <2>1. CASE R!EndRequest
    <3>1. anaPhase = 1 /\ handled' = Append(handled, [method |-> methodcode, seq |-> header.seq])
      BY <2>1 DEF R!EndRequest
    <3>2. r.method \in Acc  BY <1>8, <3>1
    <3>3. methodcode = r.method /\ header.seq = r.seq  BY <1>2, <1>4, <1>5, <3>1 DEF Phase
    <3>4. r = [method |-> methodcode, seq |-> header.seq]  BY <1>5, <3>3 DEF Requests
    <3> QED  BY <1>7, <1>8, <3>1, <3>2, <3>4
  <2>2. CASE R!UnexpectedEnd
    <3>1. anaPhase = 0 /\ handled' = handled  BY <2>2 DEF R!UnexpectedEnd, R!sessionVars
    <3>2. r.method \notin Acc  BY <1>8, <3>1
    <3> QED  BY <1>7, <1>8, <3>1, <3>2
  <2> QED  BY <2>1, <2>2
<1>10. c.req - 1 = a.req  BY <1>3, <1>5
<1> QED  BY <1>1, <1>3, <1>9, <1>10 DEF Phase

LEMMA SeqsMore ==
  ASSUME R!RtspAssumption, NEW rs \in Seq(Requests), NEW r \in Requests
  PROVE  R!SeqsOf(Append(rs, r)) = Append(R!SeqsOf(rs), R!Cut(r.seq))
<1>1. PICK k : k = Len(rs)  OBVIOUS
<1>2. k \in Nat /\ Append(rs, r) \in Seq(Requests) /\ Len(Append(rs, r)) = k + 1  BY <1>1
<1>3. /\ \A p \in 1 .. k : Append(rs, r)[p] = rs[p]
      /\ Append(rs, r)[k + 1] = r
  BY <1>1
<1>4. \A p \in 1 .. k : rs[p] \in Requests  BY <1>1
<1>5. \A x \in Requests : R!Cut(x.seq) \in Nat
  <2>1. SeqWidth \in Nat \ {0} /\ \A x \in Requests : x.seq \in Nat  BY DEF R!RtspAssumption, Requests
  <2>2. \A q \in Nat : q % SeqWidth \in Nat  BY <2>1
  <2> QED  BY <2>1, <2>2 DEF R!Cut
<1>6. PICK x : x = R!SeqsOf(Append(rs, r))  OBVIOUS
<1>7. x = [p \in 1 .. k + 1 |-> R!Cut(Append(rs, r)[p].seq)]
  <2>1. DOMAIN Append(rs, r) = 1 .. k + 1  BY <1>2
  <2> QED  BY <1>6, <2>1 DEF R!SeqsOf
<1>8. /\ x \in Seq(Nat) /\ Len(x) = k + 1 /\ x[k + 1] = R!Cut(r.seq)
      /\ \A p \in 1 .. k : x[p] = R!Cut(rs[p].seq)
  <2>1. \A p \in 1 .. k + 1 : p \in 1 .. k \/ p = k + 1  BY <1>2
  <2>2. \A p \in 1 .. k + 1 : R!Cut(Append(rs, r)[p].seq) \in Nat  BY <1>3, <1>4, <1>5, <2>1
  <2>3. x \in [1 .. k + 1 -> Nat]  BY <1>7, <2>2
  <2>4. x \in Seq(Nat) /\ Len(x) = k + 1  BY <1>2, <2>3
  <2>5. k + 1 \in 1 .. k + 1 /\ \A p \in 1 .. k : p \in 1 .. k + 1  BY <1>2
  <2> QED  BY <1>3, <1>7, <2>4, <2>5
<1>9. PICK y : y = R!SeqsOf(rs)  OBVIOUS
<1>10. y \in Seq(Nat) /\ Len(y) = k /\ \A p \in 1 .. k : y[p] = R!Cut(rs[p].seq)
  <2>1. y = [p \in 1 .. k |-> R!Cut(rs[p].seq)]  BY <1>1, <1>2, <1>9 DEF R!SeqsOf
  <2>2. y \in [1 .. k -> Nat]  BY <1>4, <1>5, <2>1
  <2>3. y \in Seq(Nat) /\ Len(y) = k  BY <1>2, <2>2
  <2> QED  BY <2>1, <2>3
<1>11. PICK q : q = R!Cut(r.seq) /\ q \in Nat  BY <1>5
<1>12. Append(y, q) \in Seq(Nat) /\ Len(Append(y, q)) = k + 1  BY <1>2, <1>10, <1>11
<1>13. \A p \in 1 .. k + 1 : x[p] = Append(y, q)[p]
  <2>1. \A p \in 1 .. k : Append(y, q)[p] = y[p]  BY <1>2, <1>10, <1>11
  <2>2. Append(y, q)[k + 1] = q  BY <1>2, <1>10, <1>11
  <2>3. \A p \in 1 .. k + 1 : p \in 1 .. k \/ p = k + 1  BY <1>2
  <2> QED  BY <1>8, <1>10, <1>11, <2>1, <2>2, <2>3
<1>14. x = Append(y, q)  BY <1>8, <1>12, <1>13, SeqEqual
<1> QED  BY <1>6, <1>9, <1>11, <1>14

\* Which answers are sent does not depend on how lines are cut.
LEMMA AnswersStep ==
  ASSUME R!RtspAssumption, TInv, IInv, FInv, R!EndRequest
  PROVE  handled' \in Seq(Requests) /\ answers' = R!SeqsOf(R!Of(handled', {"OPTIONS"}))
<1>1. PICK r : r = [method |-> methodcode, seq |-> header.seq]  OBVIOUS
<1>2. methodcode \in {"ANNOUNCE", "OPTIONS"}  BY DEF R!EndRequest, IInv
<1>3. header.seq \in 0 .. MaxRequests  BY DEF TInv, R!TypeOK
<1>4. r \in Requests /\ r.method = methodcode /\ r.seq = header.seq
  <2>1. methodcode \in R!Methods  BY <1>2 DEF R!Methods
  <2>2. header.seq \in Nat  BY <1>3 DEF R!RtspAssumption
  <2> QED  BY <1>1, <2>1, <2>2 DEF Requests
<1>5. handled \in Seq(Requests) /\ handled' = Append(handled, r)  BY <1>1 DEF R!EndRequest, FInv
<1>6. PICK chosen : chosen = R!Of(handled, {"OPTIONS"})  OBVIOUS
<1>7. chosen \in Seq(Requests) /\ answers = R!SeqsOf(chosen)  BY <1>5, <1>6, OfIsSeq DEF FInv
<1>8. R!Of(handled', {"OPTIONS"}) = IF methodcode = "OPTIONS" THEN Append(chosen, r) ELSE chosen
  <2>1. R!Of(Append(handled, r), {"OPTIONS"}) =
          IF r.method \in {"OPTIONS"} THEN Append(R!Of(handled, {"OPTIONS"}), r)
          ELSE R!Of(handled, {"OPTIONS"})
    BY <1>4, <1>5, OfAppend
  <2> QED  BY <1>4, <1>5, <1>6, <2>1
<1>9. CASE methodcode = "OPTIONS"
  <2>1. answers' = Append(answers, R!Cut(header.seq))
    BY <1>9 DEF R!EndRequest, R!Answered, R!SendReply
  <2>2. R!SeqsOf(Append(chosen, r)) = Append(R!SeqsOf(chosen), R!Cut(r.seq))  BY <1>4, <1>7, SeqsMore
  <2>3. answers' = R!SeqsOf(Append(chosen, r))  BY <1>4, <1>7, <2>1, <2>2
  <2>4. R!Of(handled', {"OPTIONS"}) = Append(chosen, r)  BY <1>8, <1>9
  <2>5. handled' \in Seq(Requests)  BY <1>4, <1>5
  <2> QED  BY <2>3, <2>4, <2>5
<1>10. CASE methodcode = "ANNOUNCE"
  <2>1. answers' = answers  BY <1>10 DEF R!EndRequest, R!Answered
  <2> QED  BY <1>4, <1>5, <1>7, <1>8, <1>10, <2>1
<1> QED  BY <1>2, <1>9, <1>10

\* A line ends.
LEMMA LineKeeps ==
  ASSUME R!RtspAssumption, TInv, IInv, FInv,
         R!CommandLine \/ R!HeaderLine \/ R!EndRequest \/ R!UnexpectedEnd
  PROVE  FInv'
<1>1. R!EndLine
  BY DEF R!CommandLine, R!HeaderLine, R!EndRequest, R!UnexpectedEnd
<1>2. sent' = sent /\ line' = <<>> /\ seen' = "none" /\ whole' = whole
  BY <1>1 DEF R!EndLine, R!BeginLine, R!clientVars
<1>3. handled' \in Seq(Requests) /\ answers' = R!SeqsOf(R!Of(handled', {"OPTIONS"}))
  <2>1. CASE R!EndRequest  BY <2>1, AnswersStep
  <2>2. CASE R!CommandLine \/ R!HeaderLine \/ R!UnexpectedEnd
    <3>1. handled' = handled /\ answers' = answers
      BY <2>2 DEF R!CommandLine, R!HeaderLine, R!UnexpectedEnd, R!sessionVars
    <3> QED  BY <3>1 DEF FInv
  <2> QED  BY <2>1, <2>2
<1>4. ASSUME whole PROVE \E c \in Spots : Stream(c)' /\ Phase(c)'
  <2>1. PICK a \in Spots : Stream(a) /\ Phase(a)  BY <1>4 DEF FInv
  <2>2. /\ a.req \in 1 .. Len(sent) /\ R!Text = TextAt(sent, a)
        /\ \E c \in Spots : NextPlace(sent, a, c) /\ Stream(c)'
    BY <1>1, <2>1, LineRead
  <2>3. PICK c \in Spots : NextPlace(sent, a, c) /\ Stream(c)'  BY <2>2
  <2>4. Phase(c)'
    <3>1. CASE R!CommandLine  BY <2>1, <2>2, <2>3, <3>1, CommandPhase
    <3>2. CASE R!HeaderLine  BY <2>1, <2>2, <2>3, <3>2, HeaderPhase
    <3>3. CASE R!EndRequest \/ R!UnexpectedEnd  BY <2>1, <2>2, <2>3, <3>3, EndPhase
    <3> QED  BY <3>1, <3>2, <3>3
  <2> QED  BY <2>3, <2>4
<1>5. \A i \in 1 .. Len(sent') : sent'[i].seq = i  BY <1>2 DEF FInv
<1>6. (\E c \in Spots : Stream(c) /\ Phase(c))' \/ ~whole'  BY <1>2, <1>4
<1> QED  BY <1>2, <1>3, <1>5, <1>6 DEF FInv

\* A character is read that does not end a line.
LEMMA CharKeeps ==
  ASSUME R!RtspAssumption, TInv, FInv, R!ReadChar
  PROVE  FInv'
<1>1. /\ sent \in Seq(Requests) /\ Len(sent) <= MaxRequests
      /\ line \in Seq(Tokens) /\ pkt \in Seq(Tokens) /\ wire \in Seq(Tokens) /\ pkt # <<>>
  BY DEF TInv, R!TypeOK, Requests, R!ReadChar
<1>2. PICK x : x = Head(pkt)  OBVIOUS
<1>3. /\ line' = R!Stored(x) /\ seen' = R!Seen(x) /\ pkt' = Tail(pkt) /\ wire' = wire /\ sent' = sent
      /\ whole' = (whole /\ ~R!Full) /\ ~R!EndsLine(x) /\ Len(pkt) > 1
      /\ UNCHANGED <<anaPhase, methodcode, header, handled, answers>>
  BY <1>2 DEF R!ReadChar, R!clientVars, R!sessionVars
<1>4. x \in Tokens  BY <1>1, <1>2
<1>5. pkt' # <<>>
  <2>1. Len(Tail(pkt)) = Len(pkt) - 1 /\ Len(pkt) \in Nat  BY <1>1
  <2>2. Len(<<>>) = 0  OBVIOUS
  <2> QED  BY <1>3, <2>1, <2>2
<1>6. line' # <<>>
  <2>1. PICK q, y : q = (IF R!Full THEN <<>> ELSE line) /\ y = (IF x = R!LF THEN R!CR ELSE x)  OBVIOUS
  <2>2. q \in Seq(Tokens) /\ y \in Tokens
    <3>1. R!CR \in Tokens  BY DEF Tokens
    <3>2. <<>> \in Seq(Tokens)  OBVIOUS
    <3> QED  BY <1>1, <1>4, <2>1, <3>1, <3>2
  <2>3. line' = Append(q, y)  BY <1>3, <2>1 DEF R!Stored
  <2>4. Len(Append(q, y)) = Len(q) + 1 /\ Len(q) \in Nat /\ Len(<<>>) = 0  BY <2>2
  <2> QED  BY <2>3, <2>4
<1>7. ASSUME whole, ~R!Full PROVE \E a \in Spots : Stream(a)' /\ Phase(a)'
  <2>1. PICK a \in Spots : Stream(a) /\ Phase(a)  BY <1>7 DEF FInv
  <2>2. PICK s : s = (line \o pkt) \o wire  OBVIOUS
  <2>3. /\ (Append(line, x) \o Tail(pkt)) \o wire = s
        /\ s \in Seq(Tokens) /\ s # <<>> /\ s[Len(line) + 1] = x
    <3>1. line \in Seq(Tokens) /\ pkt \in Seq(Tokens) /\ wire \in Seq(Tokens) /\ pkt # <<>>  BY <1>1
    <3> QED  BY <1>2, <2>2, <3>1, StreamNow
  <2>4. PICK text : text = TextAt(sent, a)  OBVIOUS
  <2>5. Lies(sent, s, a, Begin(Len(sent) + 1))  BY <2>1, <2>2 DEF Stream
  <2>6. /\ a.req \in 1 .. Len(sent) /\ Len(text) \in Nat
        /\ \A p \in 1 .. Len(text) + 2 : s[p] = R!Line(text)[p]
    <3>1. sent \in Seq(Requests) /\ Len(sent) <= MaxRequests  BY <1>1
    <3>2. s \in Seq(Tokens) /\ s # <<>>  BY <2>3
    <3> QED  BY <2>4, <2>5, <3>1, <3>2, LiesFirst
  <2>7. /\ \A p \in 1 .. Len(text) : text[p] \notin {R!CR, R!LF} /\ R!Line(text)[p] = text[p]
        /\ R!Line(text)[Len(text) + 1] = R!CR /\ R!Line(text)[Len(text) + 2] = R!LF
    <3>1. sent \in Seq(Requests) /\ Len(sent) <= MaxRequests  BY <1>1
    <3> QED  BY <2>1, <2>4, <2>6, <3>1, TextIsPlain
  <2>8. PICK k, size : k = Len(line) /\ size = Len(text)  OBVIOUS
  <2>9. k \in Nat /\ size \in Nat /\ k <= size + 1 /\ seen = (IF k = size + 1 THEN "CR" ELSE "none")
    BY <1>1, <2>1, <2>4, <2>6, <2>8 DEF Stream
  <2>10. x = R!Line(text)[k + 1]
    <3>1. k + 1 \in 1 .. size + 2  BY <2>9
    <3> QED  BY <2>3, <2>6, <2>8, <3>1
  <2>11. k # size + 1
    <3> SUFFICES ASSUME k = size + 1 PROVE FALSE  OBVIOUS
    <3>1. k + 1 = size + 2  BY <2>9
    <3>2. x = R!LF /\ seen = "CR"  BY <2>7, <2>8, <2>9, <2>10, <3>1
    <3> QED  BY <1>3, <3>2 DEF R!EndsLine
  <2>12. x # R!LF /\ R!Seen(x) = IF k + 1 = size + 1 THEN "CR" ELSE "none"
    <3>1. R!CR # R!LF  BY DEF R!CR, R!LF
    <3>2. CASE k = size
      <4>1. x = R!CR  BY <2>7, <2>8, <2>10, <3>2
      <4> QED  BY <3>1, <3>2, <4>1 DEF R!Seen
    <3>3. CASE k < size
      <4>1. k + 1 \in 1 .. size /\ k + 1 # size + 1  BY <2>9, <3>3
      <4>2. x \notin {R!CR, R!LF}  BY <2>7, <2>8, <2>10, <4>1
      <4> QED  BY <4>1, <4>2 DEF R!Seen
    <3> QED  BY <2>9, <2>11, <3>2, <3>3
  <2>13. line' = Append(line, x)  BY <1>3, <1>7, <2>12 DEF R!Stored
  <2>14. Len(line') = k + 1 /\ k + 1 <= size + 1  BY <1>1, <1>4, <2>8, <2>9, <2>11, <2>13
  <2>15. (line' \o pkt') \o wire' = s  BY <1>3, <2>3, <2>13
  <2>16. Stream(a)'
    BY <1>3, <2>1, <2>4, <2>5, <2>6, <2>8, <2>12, <2>14, <2>15 DEF Stream
  <2>17. Phase(a)'  BY <1>3, <2>1 DEF Phase
  <2> QED  BY <2>16, <2>17
<1>8. (\E a \in Spots : Stream(a) /\ Phase(a))' \/ ~whole'  BY <1>3, <1>7
<1>9. /\ \A i \in 1 .. Len(sent') : sent'[i].seq = i
      /\ handled' \in Seq(Requests) /\ answers' = R!SeqsOf(R!Of(handled', {"OPTIONS"}))
  BY <1>3 DEF FInv
<1> QED  BY <1>5, <1>6, <1>8, <1>9 DEF FInv

LEMMA FirstStay ==
  ASSUME NEW S, NEW rs \in Seq(S), NEW r \in S, NEW i \in 0 .. Len(rs)
  PROVE  SubSeq(Append(rs, r), 1, i) = SubSeq(rs, 1, i)
OBVIOUS

\* The client sends a request: the session does not see it yet.
LEMMA SendKeeps ==
  ASSUME R!RtspAssumption, TInv, FInv, NEW m \in Asked, NEW k \in {0, LongLine}, R!Send(m, k)
  PROVE  FInv'
<1>1. /\ sent \in Seq(Requests) /\ Len(sent) + 1 <= MaxRequests /\ Len(sent) \in Nat
      /\ line \in Seq(Tokens) /\ pkt \in Seq(Tokens) /\ wire \in Seq(Tokens)
  BY DEF TInv, R!TypeOK, Requests, R!Send, R!RtspAssumption
<1>2. PICK r : r = [method |-> m, seq |-> Len(sent) + 1]  OBVIOUS
<1>3. m \in R!Methods /\ r \in Requests /\ r.method = m /\ r.seq = Len(sent) + 1
  <2>1. m \in R!Methods /\ Len(sent) + 1 \in Nat  BY <1>1 DEF R!RtspAssumption
  <2> QED  BY <1>2, <2>1 DEF Requests
<1>4. /\ sent' = Append(sent, r) /\ wire' = wire \o R!Request(m, Len(sent) + 1, k)
      /\ UNCHANGED <<line, seen, pkt, whole, anaPhase, methodcode, header, handled, answers>>
  BY <1>2 DEF R!Send, R!sessionVars
<1>5. /\ sent' \in Seq(Requests) /\ Len(sent') = Len(sent) + 1 /\ sent'[Len(sent) + 1] = r
      /\ \A i \in 1 .. Len(sent) : sent'[i] = sent[i]
  BY <1>1, <1>3, <1>4
<1>6. \A i \in 1 .. Len(sent') : sent'[i].seq = i
  <2> SUFFICES ASSUME NEW i \in 1 .. Len(sent') PROVE sent'[i].seq = i  OBVIOUS
  <2>1. i \in 1 .. Len(sent) \/ i = Len(sent) + 1  BY <1>1, <1>5
  <2> QED  BY <1>3, <1>5, <2>1 DEF FInv
<1>7. ASSUME whole PROVE \E a \in Spots : Stream(a)' /\ Phase(a)'
  <2>1. PICK a \in Spots : Stream(a) /\ Phase(a)  BY <1>7 DEF FInv
  <2>2. PICK u, s : u = line \o pkt /\ s = u \o wire  OBVIOUS
  <2>3. u \in Seq(Tokens) /\ s \in Seq(Tokens) /\ Lies(sent, s, a, Begin(Len(sent) + 1))
    <3>1. u \in Seq(Tokens)  BY <1>1, <2>2
    <3>2. s \in Seq(Tokens)  BY <1>1, <2>2, <3>1
    <3> QED  BY <2>1, <2>2, <3>1, <3>2 DEF Stream
  <2>4. PICK new : new = R!Request(m, Len(sent) + 1, k)  OBVIOUS
  <2>5. Lies(sent', s \o new, a, Begin(Len(sent') + 1))
    BY <1>1, <1>3, <1>4, <2>3, <2>4, LiesRequest
  <2>6. (line' \o pkt') \o wire' = s \o new
    <3>1. new \in Seq(Tokens)
      <4>1. Len(sent) + 1 \in 1 .. MaxRequests /\ k \in Nat  BY <1>1 DEF R!RtspAssumption
      <4> QED  BY <1>3, <2>4, <4>1, RequestIsTokens
    <3>2. u \in Seq(Tokens) /\ wire \in Seq(Tokens)  BY <1>1, <2>3
    <3>3. (u \o wire) \o new = u \o (wire \o new)  BY <3>1, <3>2, Joined
    <3> QED  BY <1>4, <2>2, <2>4, <3>3
  <2>7. a.req \in 1 .. Len(sent) \/ (line = <<>> /\ a = Begin(Len(sent) + 1))
    <3> SUFFICES ASSUME a.req \notin 1 .. Len(sent) PROVE line = <<>> /\ a = Begin(Len(sent) + 1)
      OBVIOUS
    <3>1. s = <<>> /\ a = Begin(Len(sent) + 1)  BY <1>1, <2>3, LiesOver
    <3>2. line = <<>>
      <4>1. Len(s) = Len(u) + Len(wire) /\ Len(u) = Len(line) + Len(pkt)  BY <1>1, <2>2, <2>3
      <4>2. Len(line) \in Nat /\ Len(pkt) \in Nat /\ Len(wire) \in Nat /\ Len(<<>>) = 0  BY <1>1
      <4>3. Len(line) = 0  BY <3>1, <4>1, <4>2
      <4> QED  BY <1>1, <4>3, EmptySeq
    <3> QED  BY <3>1, <3>2
  <2>8. CASE a.req \in 1 .. Len(sent)
    <3>1. TextAt(sent', a) = TextAt(sent, a) /\ a.req \in 1 .. Len(sent') /\ sent'[a.req] = sent[a.req]
      BY <1>1, <1>5, <2>8 DEF TextAt
    <3>2. Stream(a)'  BY <1>4, <2>1, <2>5, <2>6, <2>8, <3>1 DEF Stream
    <3>3. SubSeq(sent', 1, a.req - 1) = SubSeq(sent, 1, a.req - 1)
      <4>1. a.req - 1 \in 0 .. Len(sent)  BY <1>1, <2>8
      <4> QED  BY <1>1, <1>3, <1>4, <4>1, FirstStay
    <3>4. Phase(a)'  BY <1>4, <2>1, <3>1, <3>3 DEF Phase
    <3> QED  BY <3>2, <3>4
  <2>9. CASE line = <<>> /\ a = Begin(Len(sent) + 1)
    <3>1. a.req = Len(sent) + 1 /\ a.kind = "command" /\ a.req \in 1 .. Len(sent')
      BY <1>1, <1>5, <2>9 DEF Begin
    <3>2. PICK text : text = TextAt(sent', a)  OBVIOUS
    <3>3. Len(text) \in Nat
      <4>1. text \in Seq(Tokens)  BY <1>1, <1>5, <3>1, <3>2, <2>1, TextIsPlain
      <4> QED  BY <4>1
    <3>4. seen = "none" /\ Len(line) = 0  BY <2>9 DEF FInv
    <3>5. Stream(a)'
      <4>1. Len(line') <= Len(text) + 1 /\ Len(line') # Len(text) + 1  BY <1>4, <3>3, <3>4
      <4> QED  BY <1>4, <2>1, <2>5, <2>6, <3>2, <3>4, <4>1 DEF Stream
    <3>6. SubSeq(sent', 1, a.req - 1) = SubSeq(sent, 1, a.req - 1)
      <4>1. a.req - 1 \in 0 .. Len(sent)  BY <1>1, <3>1
      <4> QED  BY <1>1, <1>3, <1>4, <4>1, FirstStay
    <3>7. Phase(a)'
      <4>1. anaPhase = 0 /\ handled = R!Of(SubSeq(sent, 1, a.req - 1), Acc)
        BY <2>1, <3>1 DEF Phase
      <4>2. anaPhase' = 0 /\ handled' = R!Of(SubSeq(sent', 1, a.req - 1), Acc)
        BY <1>4, <3>6, <4>1
      <4>3. a.kind = "command"  BY <3>1
      <4> QED  BY <4>2, <4>3 DEF Phase
    <3> QED  BY <3>5, <3>7
  <2> QED  BY <2>7, <2>8, <2>9
<1>8. (\E a \in Spots : Stream(a) /\ Phase(a))' \/ ~whole'  BY <1>4, <1>7
<1>9. /\ pkt' = <<>> => line' = <<>>
      /\ line' = <<>> => seen' = "none"
      /\ handled' \in Seq(Requests) /\ answers' = R!SeqsOf(R!Of(handled', {"OPTIONS"}))
  BY <1>4 DEF FInv
<1> QED  BY <1>6, <1>8, <1>9 DEF FInv

\* A packet arrives, between two lines.
LEMMA ReceiveKeeps ==
  ASSUME R!RtspAssumption, TInv, FInv, R!Receive
  PROVE  FInv'
<1>1. line = <<>> /\ pkt = <<>> /\ seen = "none" /\ line' = <<>> /\ seen' = "none"
      /\ UNCHANGED <<sent, whole, anaPhase, methodcode, header, handled, answers>>
  BY DEF R!Receive, R!BeginLine, R!sessionVars, FInv
<1>2. wire \in Seq(Tokens)  BY DEF TInv
<1>3. (line' \o pkt') \o wire' = wire
  <2>1. PICK k \in 1 .. Len(wire) : /\ pkt' = SubSeq(wire, 1, k)
                                    /\ wire' = SubSeq(wire, k + 1, Len(wire))
    BY DEF R!Receive
  <2>2. PICK x, y : x = SubSeq(wire, 1, k) /\ y = SubSeq(wire, k + 1, Len(wire))  OBVIOUS
  <2>3. x \in Seq(Tokens)  BY <1>2, <2>2
  <2>4. 1 \in 1 .. Len(wire) + 1 /\ k \in 1 - 1 .. Len(wire) /\ Len(wire) \in k .. Len(wire)
    BY <1>2
  <2>5. x \o y = SubSeq(wire, 1, Len(wire))  BY <1>2, <2>2, <2>4, ConcatAdjacentSubSeq
  <2>6. SubSeq(wire, 1, Len(wire)) = wire  BY <1>2, SubSeqFull
  <2>7. <<>> \o x = x  BY <2>3, ConcatEmptySeq
  <2> QED  BY <1>1, <2>1, <2>2, <2>5, <2>6, <2>7
<1>4. (line \o pkt) \o wire = wire
  <2>1. <<>> \o <<>> = <<>> /\ <<>> \o wire = wire
    <3>1. <<>> \in Seq(Tokens)  OBVIOUS
    <3> QED  BY <1>2, <3>1, ConcatEmptySeq
  <2> QED  BY <1>1, <2>1
<1>5. \A a : Stream(a) /\ Phase(a) => Stream(a)' /\ Phase(a)'
  BY <1>1, <1>3, <1>4 DEF Stream, Phase
<1> QED  BY <1>1, <1>5 DEF FInv

\* The object serves another connection: what it was sent in the last one is lost.
LEMMA ReconnectKeeps ==
  ASSUME FInv, R!Reconnect
  PROVE  FInv'
<1>1. /\ pkt = <<>> /\ line = <<>> /\ seen = "none"
      /\ wire' = <<>> /\ sent' = <<>> /\ handled' = <<>> /\ answers' = <<>>
      /\ whole' = (whole /\ anaPhase = 0)
      /\ UNCHANGED <<anaPhase, methodcode, header, line, seen, pkt>>
  BY DEF R!Reconnect, FInv
<1>2. Len(<<>>) = 0 /\ <<>> \in Seq(Requests)  OBVIOUS
<1>3. R!SeqsOf(R!Of(<<>>, {"OPTIONS"})) = <<>>
  <2>1. R!Of(<<>>, {"OPTIONS"}) = <<>>  BY OfNone
  <2> QED  BY <2>1 DEF R!SeqsOf
<1>4. Begin(1) \in Spots /\ Begin(1).req = 1 /\ Begin(1).kind = "command"
  BY DEF Begin, Spots, Kinds
<1>5. Stream(Begin(1))'
  <2>1. (line' \o pkt') \o wire' = <<>>  BY <1>1
  <2>2. Lies(sent', <<>>, Begin(1), Begin(1))  BY <1>4, LiesNone
  <2>3. Len(sent') = 0 /\ 1 \notin 1 .. 0 /\ 0 + 1 = 1  BY <1>1, <1>2
  <2> QED  BY <1>1, <1>4, <2>1, <2>2, <2>3 DEF Stream
<1>6. ASSUME anaPhase = 0 PROVE Phase(Begin(1))'
  <2>1. SubSeq(<<>>, 1, 0) = <<>>  BY SubSeqEmpty
  <2>2. R!Of(<<>>, Acc) = <<>>  BY OfNone
  <2>3. PICK b : b = Begin(1) /\ b.req - 1 = 0 /\ b.kind = "command"  BY <1>4
  <2>4. anaPhase' = 0  BY <1>1, <1>6
  <2>5. handled' = R!Of(SubSeq(sent', 1, b.req - 1), Acc)  BY <1>1, <2>1, <2>2, <2>3
  <2>6. Phase(b)'  BY <2>3, <2>4, <2>5 DEF Phase
  <2> QED  BY <2>3, <2>6
<1>7. (\E a \in Spots : Stream(a) /\ Phase(a))' \/ ~whole'  BY <1>1, <1>4, <1>5, <1>6
<1> QED  BY <1>1, <1>2, <1>3, <1>7 DEF FInv

\* The packet ends within a line.
LEMMA RestKeeps ==
  ASSUME FInv, R!KeepRest
  PROVE  FInv'
BY DEF FInv, R!KeepRest, R!BeginLine, R!sessionVars, R!clientVars

LEMMA FaithfulInit ==
  ASSUME R!Init
  PROVE  FInv
<1>1. /\ anaPhase = 0 /\ line = <<>> /\ seen = "none" /\ pkt = <<>> /\ wire = <<>>
      /\ sent = <<>> /\ handled = <<>> /\ answers = <<>>
  BY DEF R!Init
<1>2. Len(<<>>) = 0 /\ <<>> \in Seq(Requests)  OBVIOUS
<1>3. R!SeqsOf(R!Of(<<>>, {"OPTIONS"})) = <<>>
  <2>1. R!Of(<<>>, {"OPTIONS"}) = <<>>  BY OfNone
  <2> QED  BY <2>1 DEF R!SeqsOf
<1>4. Begin(1) \in Spots /\ Begin(1).req = 1 /\ Begin(1).kind = "command"
  BY DEF Begin, Spots, Kinds
<1>5. Stream(Begin(1))
  <2>1. (line \o pkt) \o wire = <<>>  BY <1>1
  <2>2. Lies(sent, <<>>, Begin(1), Begin(1))  BY <1>4, LiesNone
  <2>3. Len(sent) = 0 /\ 1 \notin 1 .. 0 /\ 0 + 1 = 1  BY <1>1, <1>2
  <2> QED  BY <1>1, <1>4, <2>1, <2>2, <2>3 DEF Stream
<1>6. Phase(Begin(1))
  <2>1. SubSeq(<<>>, 1, 0) = <<>>  BY SubSeqEmpty
  <2>2. R!Of(<<>>, Acc) = <<>>  BY OfNone
  <2>3. PICK b : b = Begin(1) /\ b.req - 1 = 0 /\ b.kind = "command"  BY <1>4
  <2>4. anaPhase = 0  BY <1>1
  <2>5. handled = R!Of(SubSeq(sent, 1, b.req - 1), Acc)  BY <1>1, <2>1, <2>2, <2>3
  <2>6. Phase(b)  BY <2>3, <2>4, <2>5 DEF Phase
  <2> QED  BY <2>3, <2>6
<1> QED  BY <1>1, <1>2, <1>3, <1>4, <1>5, <1>6 DEF FInv

\* The invariant gives the first part of Faithful.
LEMMA ThenFaithful ==
  ASSUME R!RtspAssumption, TInv, FInv, whole
  PROVE  /\ R!IsPrefix(handled, R!Accepted)
         /\ answers = R!SeqsOf(R!Of(handled, {"OPTIONS"}))
         /\ wire = <<>> /\ pkt = <<>> => handled = R!Accepted
<1>1. /\ sent \in Seq(Requests) /\ Len(sent) <= MaxRequests /\ Len(sent) \in Nat
      /\ line \in Seq(Tokens) /\ pkt \in Seq(Tokens) /\ wire \in Seq(Tokens)
  BY DEF TInv, R!TypeOK, Requests
<1>2. PICK a \in Spots : Stream(a) /\ Phase(a)  BY DEF FInv
<1>3. PICK u, s : u = line \o pkt /\ s = u \o wire  OBVIOUS
<1>4. s \in Seq(Tokens) /\ Lies(sent, s, a, Begin(Len(sent) + 1))
  <2>1. u \in Seq(Tokens)  BY <1>1, <1>3
  <2>2. s \in Seq(Tokens)  BY <1>1, <1>3, <2>1
  <2> QED  BY <1>2, <1>3, <2>2 DEF Stream
<1>5. a.req - 1 \in 0 .. Len(sent)
  <2>1. CASE a.req \in 1 .. Len(sent)  BY <1>1, <2>1
  <2>2. CASE a.req \notin 1 .. Len(sent)
    <3>1. a = Begin(Len(sent) + 1)  BY <1>1, <1>4, <2>2, LiesOver
    <3>2. a.req = Len(sent) + 1  BY <3>1 DEF Begin
    <3> QED  BY <1>1, <3>2
  <2> QED  BY <2>1, <2>2
<1>6. PICK i : i = a.req - 1 /\ i \in 0 .. Len(sent)  BY <1>5
<1>7. handled = R!Of(SubSeq(sent, 1, i), Acc)  BY <1>2, <1>6 DEF Phase
<1>8. R!Accepted = R!Of(sent, Acc)  BY DEF R!Accepted, Acc
<1>9. R!IsPrefix(handled, R!Accepted)  BY <1>1, <1>6, <1>7, <1>8, OfPrefix
<1>10. ASSUME wire = <<>>, pkt = <<>> PROVE handled = R!Accepted
  <2>1. line = <<>>  BY <1>10 DEF FInv
  <2>2. s = <<>>  BY <1>3, <1>10, <2>1
  <2>3. a = Begin(Len(sent) + 1)  BY <1>1, <1>4, <2>2, LiesDone
  <2>4. i = Len(sent)  BY <1>1, <1>6, <2>3 DEF Begin
  <2>5. SubSeq(sent, 1, Len(sent)) = sent  BY <1>1, SubSeqFull
  <2> QED  BY <1>7, <1>8, <2>4, <2>5
<1>11. answers = R!SeqsOf(R!Of(handled, {"OPTIONS"}))  BY DEF FInv
<1> QED  BY <1>9, <1>10, <1>11

----------------------------------------------------------------------------
(* No answer that was not asked for                                        *)

\* How often the command OPTIONS begins in a text, and whether one is analysed.
Asking   == <<"command", "OPTIONS", 1>>
Cnt(s)   == Cardinality({p \in 1 .. Len(s) : s[p] = Asking})
Analysed == IF anaPhase = 1 /\ methodcode = "OPTIONS" THEN 1 ELSE 0

CInv == Cnt(wire) + Cnt(pkt) + Cnt(line) + answered + Analysed <= options

LEMMA CntNat ==
  ASSUME NEW s \in Seq(Tokens)
  PROVE  /\ IsFiniteSet({p \in 1 .. Len(s) : s[p] = Asking}) /\ Cnt(s) \in Nat
         /\ Cnt(s) = 0 <=> \A p \in 1 .. Len(s) : s[p] # Asking
<1>1. PICK T : T = {p \in 1 .. Len(s) : s[p] = Asking}  OBVIOUS
<1>2. IsFiniteSet(1 .. Len(s))
  <2>1. Len(s) \in Int /\ 1 \in Int  OBVIOUS
  <2> QED  BY <2>1, FS_Interval
<1>3. IsFiniteSet(T)
  <2>1. T \subseteq 1 .. Len(s)  BY <1>1
  <2> QED  BY <1>2, <2>1, FS_Subset
<1>4. Cardinality(T) \in Nat  BY <1>3, FS_CardinalityType
<1>5. Cardinality(T) = 0 <=> T = {}  BY <1>3, FS_EmptySet
<1>6. Cnt(s) = Cardinality(T)  BY <1>1 DEF Cnt
<1> QED  BY <1>1, <1>3, <1>4, <1>5, <1>6

LEMMA CntJoined ==
  ASSUME NEW x \in Seq(Tokens), NEW y \in Seq(Tokens), NEW s, s = x \o y
  PROVE  Cnt(s) = Cnt(x) + Cnt(y)
<1>1. /\ s \in Seq(Tokens) /\ Len(x) \in Nat /\ Len(y) \in Nat /\ Len(s) = Len(x) + Len(y)
      /\ \A p \in 1 .. Len(x) : s[p] = x[p]
      /\ \A p \in 1 .. Len(y) : s[Len(x) + p] = y[p]
  BY JoinedAt
<1>2. PICK X, Y, k : X = {p \in 1 .. Len(x) : x[p] = Asking} /\ Y = {p \in 1 .. Len(y) : y[p] = Asking}
                     /\ k = Len(x)
  OBVIOUS
<1>3. IsFiniteSet(X) /\ IsFiniteSet(Y)  BY <1>2, CntNat
<1> DEFINE Z == {k + p : p \in Y}
           g == [p \in Y |-> k + p]
<1>4. g \in Bijection(Y, Z)
  <2>1. Y \subseteq Nat /\ k \in Nat  BY <1>1, <1>2
  <2>2. g \in [Y -> Z]  OBVIOUS
  <2>3. \A p, q \in Y : g[p] = g[q] => p = q  BY <2>1
  <2>4. \A z \in Z : \E p \in Y : g[p] = z  OBVIOUS
  <2> HIDE DEF g, Z
  <2> QED  BY <2>2, <2>3, <2>4 DEF Bijection, Injection, Surjection, IsInjective
<1>5. IsFiniteSet(Z) /\ Cardinality(Z) = Cardinality(Y)
  <2>1. ExistsBijection(Y, Z)
    <3> HIDE DEF g, Z
    <3> QED  BY <1>4 DEF ExistsBijection
  <2> HIDE DEF Z
  <2> QED  BY <1>3, <2>1, FS_Bijection
<1>6. X \cap Z = {}
  <2>1. \A z \in Z : z > k  BY <1>1, <1>2
  <2>2. \A z \in X : ~(z > k)  BY <1>1, <1>2
  <2> QED  BY <2>1, <2>2
<1>7. {p \in 1 .. Len(s) : s[p] = Asking} = X \cup Z
  <2>1. ASSUME NEW p \in 1 .. Len(s), s[p] = Asking PROVE p \in X \cup Z
    <3>1. CASE p \in 1 .. k  BY <1>1, <1>2, <2>1, <3>1
    <3>2. CASE p \in k + 1 .. Len(s)
      <4>1. p - k \in 1 .. Len(y) /\ p = k + (p - k)  BY <1>1, <1>2, <3>2
      <4>2. s[k + (p - k)] = y[p - k]  BY <1>1, <1>2, <4>1
      <4>3. p - k \in Y  BY <1>2, <2>1, <4>1, <4>2
      <4> QED  BY <4>1, <4>3
    <3> QED  BY <1>1, <1>2, <2>1, <3>1, <3>2
  <2>2. ASSUME NEW p \in X PROVE p \in 1 .. Len(s) /\ s[p] = Asking  BY <1>1, <1>2
  <2>3. ASSUME NEW z \in Z PROVE z \in 1 .. Len(s) /\ s[z] = Asking
    <3>1. PICK p \in Y : z = k + p  OBVIOUS
    <3>2. p \in 1 .. Len(y) /\ y[p] = Asking  BY <1>2
    <3> QED  BY <1>1, <1>2, <3>1, <3>2
  <2> HIDE DEF Z
  <2> QED  BY <2>1, <2>2, <2>3
<1>8. Cardinality(X \cup Z) = Cardinality(X) + Cardinality(Z)
  <2>1. Cardinality(X \cup Z) = Cardinality(X) + Cardinality(Z) - Cardinality(X \cap Z)
    <3> HIDE DEF Z
    <3> QED  BY <1>3, <1>5, FS_Union
  <2>2. Cardinality({}) = 0  BY FS_EmptySet
  <2>3. Cardinality(X) \in Nat /\ Cardinality(Z) \in Nat
    <3> HIDE DEF Z
    <3> QED  BY <1>3, <1>5, FS_CardinalityType
  <2> HIDE DEF Z
  <2>4. Cardinality(X \cap Z) = 0  BY <1>6, <2>2
  <2> QED  BY <2>1, <2>3, <2>4
<1> QED  BY <1>2, <1>5, <1>7, <1>8 DEF Cnt

LEMMA CntFew ==
  ASSUME NEW c \in Tokens
  PROVE  /\ Cnt(<<>>) = 0 /\ Cnt(<<c>>) = (IF c = Asking THEN 1 ELSE 0)
         /\ <<c>> \in Seq(Tokens) /\ <<>> \in Seq(Tokens)
<1>1. <<>> \in Seq(Tokens) /\ Len(<<>>) = 0  OBVIOUS
<1>2. Cnt(<<>>) = 0
  <2>1. PICK s : s = <<>>  OBVIOUS
  <2>2. s \in Seq(Tokens) /\ \A p \in 1 .. Len(s) : s[p] # Asking  BY <1>1, <2>1
  <2>3. Cnt(s) = 0  BY <2>2, CntNat
  <2> QED  BY <2>1, <2>3
<1>3. PICK d : d = <<c>>  OBVIOUS
<1>4. d \in Seq(Tokens) /\ Len(d) = 1 /\ d[1] = c  BY <1>3
<1>5. CASE c = Asking
  <2>1. {p \in 1 .. Len(d) : d[p] = Asking} = {1}  BY <1>4, <1>5
  <2>2. Cardinality({1}) = 1  BY FS_Singleton
  <2> QED  BY <1>1, <1>2, <1>3, <1>4, <1>5, <2>1, <2>2 DEF Cnt
<1>6. CASE c # Asking
  <2>1. \A p \in 1 .. Len(d) : d[p] # Asking  BY <1>4, <1>6
  <2>2. Cnt(d) = 0  BY <1>4, <2>1, CntNat
  <2> QED  BY <1>1, <1>2, <1>3, <1>4, <1>6, <2>2
<1> QED  BY <1>5, <1>6

\* A request asks once or not at all.
LEMMA CntRequest ==
  ASSUME R!RtspAssumption, NEW m \in R!Methods, NEW i \in 1 .. MaxRequests, NEW k \in {0, LongLine}
  PROVE  Cnt(R!Request(m, i, k)) = IF m = "OPTIONS" THEN 1 ELSE 0
<1> DEFINE rs == [j \in 1 .. i |-> [method |-> m, seq |-> j]]
           at(kd) == [req |-> i, kind |-> kd]
           text(kd) == TextAt(rs, at(kd))
<1>1. /\ i \in Nat /\ rs \in Seq(Requests) /\ Len(rs) = i /\ i <= MaxRequests /\ rs[i].method = m
      /\ k \in Nat /\ MaxRequests \in Nat
  <2>1. i \in Nat /\ i <= MaxRequests /\ k \in Nat /\ MaxRequests \in Nat  BY DEF R!RtspAssumption
  <2>2. rs \in [1 .. i -> Requests]  BY <2>1 DEF Requests
  <2>3. rs \in Seq(Requests)  BY <2>1, <2>2
  <2>4. Len(rs) = i /\ rs[i].method = m  BY <2>1
  <2> QED  BY <2>1, <2>3, <2>4
<1> HIDE DEF rs
<1>2. ASSUME NEW kd \in Kinds, kd = "other" => LongLine > 0
      PROVE  /\ text(kd) \in Seq(Tokens) /\ R!Line(text(kd)) \in Seq(Tokens)
             /\ Cnt(R!Line(text(kd))) = Cnt(text(kd))
             /\ kd # "command" => Cnt(text(kd)) = 0
  <2>1. PICK b, t : b = at(kd) /\ t = text(kd) /\ t = TextAt(rs, b)  OBVIOUS
  <2>2. b \in Spots /\ b.req \in 1 .. Len(rs) /\ b.kind = kd  BY <1>1, <2>1 DEF Spots
  <2>3. t \in Seq(Tokens) /\ R!Line(t) \in Seq(Tokens)  BY <1>1, <2>1, <2>2, TextIsPlain
  <2>4. PICK e : e = <<R!CR, R!LF>>  OBVIOUS
  <2>5. e \in Seq(Tokens) /\ Cnt(e) = 0
    <3>1. R!CR \in Tokens /\ R!LF \in Tokens  BY DEF Tokens
    <3>2. Len(e) = 2 /\ e[1] = R!CR /\ e[2] = R!LF /\ e \in Seq(Tokens)  BY <2>4, <3>1
    <3>3. Asking # R!CR /\ Asking # R!LF
      <4>1. Len(Asking) = 3 /\ Len(R!CR) = 1 /\ Len(R!LF) = 1  BY DEF Asking, R!CR, R!LF
      <4> QED  BY <4>1
    <3>4. \A p \in 1 .. Len(e) : e[p] # Asking  BY <3>2, <3>3
    <3> QED  BY <3>2, <3>4, CntNat
  <2>6. R!Line(t) = t \o e  BY <2>4 DEF R!Line
  <2>7. Cnt(R!Line(t)) = Cnt(t) + Cnt(e)  BY <2>3, <2>5, <2>6, CntJoined
  <2>8. Cnt(t) \in Nat  BY <2>3, CntNat
  <2>9. ASSUME kd # "command" PROVE Cnt(t) = 0
    <3>1. \A x, y, z : <<x, y, z>> = Asking => x = "command"
      <4> SUFFICES ASSUME NEW x, NEW y, NEW z, <<x, y, z>> = Asking PROVE x = "command"  OBVIOUS
      <4>1. <<x, y, z>>[1] = x /\ Asking[1] = "command"  BY DEF Asking
      <4> QED  BY <4>1
    <3>2. \A p \in 1 .. Len(t) : t[p] # Asking
      <4>1. CASE kd = "other"
        <5>1. t = [j \in 1 .. LongLine |-> <<"other", 0, j>>]  BY <2>1, <2>2, <4>1 DEF TextAt, R!Other
        <5>2. LongLine \in Nat  BY DEF R!RtspAssumption
        <5>3. Len(t) = LongLine  BY <5>1, <5>2
        <5>4. \A p \in 1 .. Len(t) : t[p] = <<"other", 0, p>>  BY <5>1, <5>3
        <5> QED  BY <3>1, <5>4
      <4>2. CASE kd = "cseq"
        <5>1. PICK x, y : x = <<"cseq", i, 1>> /\ y = <<"cseq", i, 2>>  OBVIOUS
        <5>2. t = <<x, y>>  BY <2>1, <2>2, <4>2, <5>1 DEF TextAt, R!CSeq
        <5>3. Len(t) = 2 /\ t[1] = x /\ t[2] = y  BY <5>2
        <5>4. x # Asking /\ y # Asking  BY <3>1, <5>1
        <5> QED  BY <5>3, <5>4
      <4>3. CASE kd = "transport"
        <5>1. PICK x, y : x = <<"transport", 0, 1>> /\ y = <<"transport", 0, 2>>  OBVIOUS
        <5>2. t = <<x, y>>  BY <2>1, <2>2, <4>3, <5>1 DEF TextAt, R!Transport
        <5>3. Len(t) = 2 /\ t[1] = x /\ t[2] = y  BY <5>2
        <5>4. x # Asking /\ y # Asking  BY <3>1, <5>1
        <5> QED  BY <5>3, <5>4
      <4>4. CASE kd = "end"
        <5>1. t = <<>>  BY <2>1, <2>2, <4>4 DEF TextAt
        <5> QED  BY <5>1
      <4> QED  BY <2>9, <4>1, <4>2, <4>3, <4>4 DEF Kinds
    <3> QED  BY <2>3, <3>2, CntNat
  <2>10. Cnt(R!Line(t)) = Cnt(t)  BY <2>5, <2>7, <2>8
  <2> QED  BY <2>1, <2>3, <2>9, <2>10
<1>3. Cnt(text("command")) = IF m = "OPTIONS" THEN 1 ELSE 0
  <2>1. PICK x, y : x = <<"command", m, 1>> /\ y = <<"command", m, 2>>  OBVIOUS
  <2>2. x \in Tokens /\ y \in Tokens  BY <2>1 DEF Tokens
  <2>3. PICK u, v : u = <<x>> /\ v = <<y>>  OBVIOUS
  <2>4. /\ u \in Seq(Tokens) /\ v \in Seq(Tokens)
        /\ Cnt(u) = (IF x = Asking THEN 1 ELSE 0) /\ Cnt(v) = (IF y = Asking THEN 1 ELSE 0)
    BY <2>2, <2>3, CntFew
  <2>5. text("command") = <<x, y>>  BY <1>1, <2>1 DEF TextAt, R!Command
  <2>6. <<x, y>> = u \o v
    <3>1. Len(u) = 1 /\ u[1] = x /\ Len(v) = 1 /\ v[1] = y  BY <2>3
    <3>2. PICK a, b : a = <<x, y>> /\ b = u \o v  OBVIOUS
    <3>3. a \in Seq(Tokens) /\ Len(a) = 2 /\ a[1] = x /\ a[2] = y  BY <2>2, <3>2
    <3>4. b \in Seq(Tokens) /\ Len(b) = 2 /\ b[1] = x /\ b[2] = y
      <4>1. b = u \o v  BY <3>2
      <4>2. u \in Seq(Tokens) /\ v \in Seq(Tokens)  BY <2>4
      <4>3. /\ b \in Seq(Tokens) /\ Len(b) = Len(u) + Len(v)
            /\ \A p \in 1 .. Len(u) : b[p] = u[p]
            /\ \A p \in 1 .. Len(v) : b[Len(u) + p] = v[p]
        BY <4>1, <4>2, JoinedAt
      <4>4. b[1] = u[1] /\ b[1 + 1] = v[1]
        <5>1. 1 \in 1 .. Len(u) /\ 1 \in 1 .. Len(v)  BY <3>1
        <5>2. b[1] = u[1] /\ b[Len(u) + 1] = v[1]  BY <4>3, <5>1
        <5> QED  BY <3>1, <5>2
      <4> QED  BY <3>1, <4>3, <4>4
    <3>5. \A p \in 1 .. 2 : a[p] = b[p]
      <4>1. \A p \in 1 .. 2 : p = 1 \/ p = 2  OBVIOUS
      <4> QED  BY <3>3, <3>4, <4>1
    <3> QED  BY <3>2, <3>3, <3>4, <3>5, SeqEqual
  <2>7. Cnt(text("command")) = Cnt(u) + Cnt(v)
    <3>1. u \in Seq(Tokens) /\ v \in Seq(Tokens)  BY <2>4
    <3>2. text("command") = u \o v  BY <2>5, <2>6
    <3> HIDE DEF text
    <3> QED  BY <3>1, <3>2, CntJoined
  <2>8. (x = Asking <=> m = "OPTIONS") /\ y # Asking
    <3>1. x[2] = m /\ y[3] = 2 /\ Asking[2] = "OPTIONS" /\ Asking[3] = 1  BY <2>1 DEF Asking
    <3>2. m = "OPTIONS" => x = Asking  BY <2>1 DEF Asking
    <3> QED  BY <3>1, <3>2
  <2> QED  BY <2>4, <2>7, <2>8
<1>4. {"command", "other", "cseq", "transport", "end"} \subseteq Kinds  BY DEF Kinds
<1>5. PICK c, o, q, t, e :
        /\ c = R!Line(R!Command(m)) /\ o = (IF k > 0 THEN R!Line(R!Other(k)) ELSE <<>>)
        /\ q = R!Line(R!CSeq(i)) /\ t = (IF m = "SETUP" THEN R!Line(R!Transport) ELSE <<>>)
        /\ e = R!Line(<<>>)
  OBVIOUS
<1>6. /\ R!Command(m) = text("command") /\ R!Other(LongLine) = text("other")
      /\ R!CSeq(i) = text("cseq") /\ R!Transport = text("transport") /\ <<>> = text("end")
  BY <1>1 DEF TextAt
<1> HIDE DEF text
<1>7. Cnt(<<>>) = 0 /\ <<>> \in Seq(Tokens)
  <2>1. R!CR \in Tokens  BY DEF Tokens
  <2> QED  BY <2>1, CntFew
<1>8. /\ c \in Seq(Tokens) /\ Cnt(c) = IF m = "OPTIONS" THEN 1 ELSE 0
      /\ q \in Seq(Tokens) /\ Cnt(q) = 0 /\ e \in Seq(Tokens) /\ Cnt(e) = 0
  BY <1>2, <1>3, <1>4, <1>5, <1>6
<1>9. o \in Seq(Tokens) /\ Cnt(o) = 0
  <2>1. CASE k > 0  BY <1>2, <1>4, <1>5, <1>6, <2>1
  <2>2. CASE ~(k > 0)  BY <1>5, <1>7, <2>2
  <2> QED  BY <2>1, <2>2
<1>10. t \in Seq(Tokens) /\ Cnt(t) = 0
  <2>1. CASE m = "SETUP"  BY <1>2, <1>4, <1>5, <1>6, <2>1
  <2>2. CASE m # "SETUP"  BY <1>5, <1>7, <2>2
  <2> QED  BY <2>1, <2>2
<1>11. R!Request(m, i, k) = (((c \o o) \o q) \o t) \o e  BY <1>5 DEF R!Request
<1>12. PICK d1, d2, d3, d4 : d1 = c \o o /\ d2 = d1 \o q /\ d3 = d2 \o t /\ d4 = d3 \o e  OBVIOUS
<1>13. /\ c \in Seq(Tokens) /\ o \in Seq(Tokens) /\ q \in Seq(Tokens)
       /\ t \in Seq(Tokens) /\ e \in Seq(Tokens)
  BY <1>8, <1>9, <1>10
<1>14. d1 = c \o o /\ d2 = d1 \o q /\ d3 = d2 \o t /\ d4 = d3 \o e  BY <1>12
<1>15. d1 \in Seq(Tokens) /\ d2 \in Seq(Tokens) /\ d3 \in Seq(Tokens)
  <2>1. d1 \in Seq(Tokens)  BY <1>13, <1>14
  <2>2. d2 \in Seq(Tokens)  BY <1>13, <1>14, <2>1
  <2>3. d3 \in Seq(Tokens)  BY <1>13, <1>14, <2>2
  <2> QED  BY <2>1, <2>2, <2>3
<1>16. /\ Cnt(d1) = Cnt(c) + Cnt(o) /\ Cnt(d2) = Cnt(d1) + Cnt(q)
       /\ Cnt(d3) = Cnt(d2) + Cnt(t) /\ Cnt(d4) = Cnt(d3) + Cnt(e)
  <2>1. Cnt(d1) = Cnt(c) + Cnt(o)  BY <1>13, <1>14, CntJoined
  <2>2. Cnt(d2) = Cnt(d1) + Cnt(q)  BY <1>13, <1>14, <1>15, CntJoined
  <2>3. Cnt(d3) = Cnt(d2) + Cnt(t)
    <3>1. d2 \in Seq(Tokens) /\ t \in Seq(Tokens)  BY <1>13, <1>15
    <3>2. d3 = d2 \o t  BY <1>14
    <3> QED  BY <3>1, <3>2, CntJoined
  <2>4. Cnt(d4) = Cnt(d3) + Cnt(e)
    <3>1. d3 \in Seq(Tokens) /\ e \in Seq(Tokens)  BY <1>13, <1>15
    <3>2. d4 = d3 \o e  BY <1>14
    <3> QED  BY <3>1, <3>2, CntJoined
  <2> QED  BY <2>1, <2>2, <2>3, <2>4
<1> QED  BY <1>8, <1>9, <1>10, <1>11, <1>12, <1>16

\* A character that is stored asks no more than it did when it was received.
LEMMA CntStored ==
  ASSUME TInv, pkt # <<>>, NEW c, c = Head(pkt)
  PROVE  /\ Cnt(line) \in Nat /\ Cnt(pkt) \in Nat /\ Cnt(Tail(pkt)) \in Nat /\ Cnt(R!Stored(c)) \in Nat
         /\ Cnt(Tail(pkt)) + Cnt(R!Stored(c)) <= Cnt(pkt) + Cnt(line)
         /\ Cnt(Tail(pkt)) <= Cnt(pkt)
<1>1. line \in Seq(Tokens) /\ pkt \in Seq(Tokens)  BY DEF TInv
<1>2. PICK w : w = Tail(pkt)  OBVIOUS
<1>3. c \in Tokens /\ w \in Seq(Tokens)  BY <1>1, <1>2
<1>4. PICK d : d = <<c>>  OBVIOUS
<1>5. d \in Seq(Tokens) /\ Cnt(d) = (IF c = Asking THEN 1 ELSE 0)  BY <1>3, <1>4, CntFew
<1>6. pkt = d \o w
  <2>1. Len(<<c>> \o w) = Len(pkt) /\ \A p \in 1 .. Len(pkt) : (<<c>> \o w)[p] = pkt[p]
    BY <1>1, <1>2
  <2>2. <<c>> \o w \in Seq(Tokens)  BY <1>3
  <2> QED  BY <1>1, <1>4, <2>1, <2>2, SeqEqual
<1>7. Cnt(pkt) = Cnt(d) + Cnt(w)  BY <1>3, <1>5, <1>6, CntJoined
<1>8. PICK x, y, e : x = (IF R!Full THEN <<>> ELSE line) /\ y = (IF c = R!LF THEN R!CR ELSE c) /\ e = <<y>>
  OBVIOUS
<1>9. x \in Seq(Tokens) /\ Cnt(x) <= Cnt(line) /\ Cnt(line) \in Nat /\ Cnt(x) \in Nat
  <2>1. Cnt(<<>>) = 0 /\ <<>> \in Seq(Tokens)  BY <1>3, CntFew
  <2>2. Cnt(line) \in Nat  BY <1>1, CntNat
  <2> QED  BY <1>1, <1>8, <2>1, <2>2
<1>10. y \in Tokens /\ (y = Asking => c = Asking)
  <2>1. R!CR \in Tokens  BY DEF Tokens
  <2>2. R!CR # Asking
    <3>1. Len(Asking) = 3 /\ Len(R!CR) = 1  BY DEF Asking, R!CR
    <3> QED  BY <3>1
  <2> QED  BY <1>3, <1>8, <2>1, <2>2
<1>11. e \in Seq(Tokens) /\ Cnt(e) = (IF y = Asking THEN 1 ELSE 0)  BY <1>8, <1>10, CntFew
<1>12. R!Stored(c) = x \o e
  <2>1. R!Stored(c) = Append(x, y)  BY <1>8 DEF R!Stored
  <2>2. Append(x, y) = x \o <<y>>  BY <1>9, <1>10, AppendIsConcat
  <2> QED  BY <1>8, <2>1, <2>2
<1>13. Cnt(R!Stored(c)) = Cnt(x) + Cnt(e)  BY <1>9, <1>11, <1>12, CntJoined
<1>14. Cnt(w) \in Nat  BY <1>3, CntNat
<1> QED  BY <1>2, <1>5, <1>7, <1>9, <1>10, <1>11, <1>13, <1>14

\* What is read and answered, and what is asked for: each step keeps their order.
LEMMA CountsKeep ==
  ASSUME R!RtspAssumption, TInv, IInv, CInv, R!Next
  PROVE  CInv'
<1>1. line \in Seq(Tokens) /\ pkt \in Seq(Tokens) /\ wire \in Seq(Tokens) /\ options \in Nat /\ answered \in Nat
  BY DEF TInv, R!TypeOK
<1>2. Cnt(line) \in Nat /\ Cnt(pkt) \in Nat /\ Cnt(wire) \in Nat /\ Analysed \in {0, 1}
  BY <1>1, CntNat DEF Analysed
<1>3. options \in Nat /\ answered \in Nat  BY <1>1
<1>4. Cnt(wire) + Cnt(pkt) + Cnt(line) + answered + Analysed <= options  BY DEF CInv
<1>5. Cnt(<<>>) = 0
  <2>1. R!CR \in Tokens  BY DEF Tokens
  <2> QED  BY <2>1, CntFew
<1>6. PICK w, p, l, a, d, o : /\ w = Cnt(wire) /\ p = Cnt(pkt) /\ l = Cnt(line)
                               /\ a = answered /\ d = Analysed /\ o = options
  OBVIOUS
<1>7. /\ w \in Nat /\ p \in Nat /\ l \in Nat /\ a \in Nat /\ d \in {0, 1} /\ o \in Nat
       /\ w + p + l + a + d <= o
  BY <1>2, <1>3, <1>4, <1>6
<1>8. ASSUME NEW m \in Asked, NEW k \in {0, LongLine}, R!Send(m, k) PROVE CInv'
  <2>1. PICK new : new = R!Request(m, Len(sent) + 1, k)  OBVIOUS
  <2>2. /\ wire' = wire \o new /\ options' = IF m = "OPTIONS" THEN options + 1 ELSE options
        /\ UNCHANGED <<anaPhase, methodcode, answered, line, pkt>>
    BY <1>8, <2>1 DEF R!Send, R!sessionVars
  <2>3. m \in R!Methods /\ Len(sent) + 1 \in 1 .. MaxRequests /\ k \in Nat
    BY <1>8 DEF R!Send, R!RtspAssumption, TInv
  <2>4. new \in Seq(Tokens) /\ Cnt(new) = IF m = "OPTIONS" THEN 1 ELSE 0
    BY <2>1, <2>3, RequestIsTokens, CntRequest
  <2>5. Cnt(wire') = Cnt(wire) + Cnt(new)  BY <1>1, <2>2, <2>4, CntJoined
  <2>6. Analysed' = Analysed /\ Cnt(line') = Cnt(line) /\ Cnt(pkt') = Cnt(pkt)  BY <2>2 DEF Analysed
  <2>7. Cnt(new) \in Nat /\ options' = options + Cnt(new) /\ answered' = answered  BY <1>1, <2>2, <2>4
  <2>9. PICK q : q = Cnt(new)  OBVIOUS
  <2>10. (w + q) + p + l + a + d <= o + q  BY <1>7, <2>7, <2>9
  <2>8. Cnt(wire') + Cnt(pkt') + Cnt(line') + answered' + Analysed' <= options'
    BY <1>6, <2>5, <2>6, <2>7, <2>9, <2>10
  <2> QED  BY <2>8 DEF CInv
<1>9. CASE R!Reconnect
  <2>1. wire' = <<>> /\ UNCHANGED <<anaPhase, methodcode, answered, line, pkt, options>>
    BY <1>9 DEF R!Reconnect
  <2>2. Analysed' = Analysed /\ Cnt(line') = Cnt(line) /\ Cnt(pkt') = Cnt(pkt) /\ Cnt(wire') = 0
    BY <1>5, <2>1 DEF Analysed
  <2>3. answered' = answered /\ options' = options  BY <2>1
  <2>4. 0 + p + l + a + d <= o  BY <1>7
  <2>5. Cnt(wire') + Cnt(pkt') + Cnt(line') + answered' + Analysed' <= options'
    BY <1>6, <2>2, <2>3, <2>4
  <2> QED  BY <2>5 DEF CInv
<1>10. CASE R!Receive
  <2>1. PICK k \in 1 .. Len(wire) : /\ pkt' = SubSeq(wire, 1, k)
                                    /\ wire' = SubSeq(wire, k + 1, Len(wire))
    BY <1>10 DEF R!Receive
  <2>2. pkt = <<>> /\ line' = <<>> /\ UNCHANGED <<anaPhase, methodcode, answered, options>>
    BY <1>10 DEF R!Receive, R!BeginLine, R!sessionVars
  <2>3. PICK x, y : x = SubSeq(wire, 1, k) /\ y = SubSeq(wire, k + 1, Len(wire))  OBVIOUS
  <2>4. x \in Seq(Tokens) /\ y \in Seq(Tokens)  BY <1>1, <2>3
  <2>5. wire = x \o y
    <3>1. 1 \in 1 .. Len(wire) + 1 /\ k \in 1 - 1 .. Len(wire) /\ Len(wire) \in k .. Len(wire)
      BY <1>1
    <3>2. x \o y = SubSeq(wire, 1, Len(wire))  BY <1>1, <2>3, <3>1, ConcatAdjacentSubSeq
    <3>3. SubSeq(wire, 1, Len(wire)) = wire  BY <1>1, SubSeqFull
    <3> QED  BY <3>2, <3>3
  <2>6. Cnt(wire) = Cnt(x) + Cnt(y)  BY <2>4, <2>5, CntJoined
  <2>7. Cnt(x) \in Nat /\ Cnt(y) \in Nat  BY <2>4, CntNat
  <2>8. Analysed' = Analysed /\ Cnt(line') = 0 /\ Cnt(pkt) = 0 /\ Cnt(pkt') = Cnt(x) /\ Cnt(wire') = Cnt(y)
    BY <1>5, <2>1, <2>2, <2>3 DEF Analysed
  <2>9. answered' = answered /\ options' = options  BY <2>2
  <2>10. PICK g, h : g = Cnt(x) /\ h = Cnt(y)  OBVIOUS
  <2>11. g \in Nat /\ h \in Nat /\ w = g + h /\ p = 0  BY <1>6, <2>6, <2>7, <2>8, <2>10
  <2>12. h + g + 0 + a + d <= o  BY <1>7, <2>11
  <2>13. Cnt(wire') + Cnt(pkt') + Cnt(line') + answered' + Analysed' <= options'
    BY <1>6, <2>8, <2>9, <2>10, <2>12
  <2> QED  BY <2>13 DEF CInv
<1>11. CASE R!ReadChar
  <2>1. PICK c : c = Head(pkt)  OBVIOUS
  <2>2. /\ pkt # <<>> /\ pkt' = Tail(pkt) /\ line' = R!Stored(c)
        /\ UNCHANGED <<wire, anaPhase, methodcode, answered, options>>
    BY <1>11, <2>1 DEF R!ReadChar, R!sessionVars, R!clientVars
  <2>3. Cnt(pkt') \in Nat /\ Cnt(line') \in Nat /\ Cnt(pkt') + Cnt(line') <= Cnt(pkt) + Cnt(line)
    BY <2>1, <2>2, CntStored
  <2>4. Analysed' = Analysed /\ Cnt(wire') = Cnt(wire)  BY <2>2 DEF Analysed
  <2>5. answered' = answered /\ options' = options  BY <2>2
  <2>6. PICK g, h : g = Cnt(pkt') /\ h = Cnt(line')  OBVIOUS
  <2>7. g \in Nat /\ h \in Nat /\ g + h <= p + l  BY <1>6, <2>3, <2>6
  <2>8. w + g + h + a + d <= o  BY <1>7, <2>7
  <2>9. Cnt(wire') + Cnt(pkt') + Cnt(line') + answered' + Analysed' <= options'
    BY <1>6, <2>4, <2>5, <2>6, <2>8
  <2> QED  BY <2>9 DEF CInv
<1>12. CASE R!KeepRest
  <2>1. pkt' = <<>> /\ line' = <<>> /\ UNCHANGED <<wire, anaPhase, methodcode, answered, options>>
    BY <1>12 DEF R!KeepRest, R!BeginLine, R!sessionVars, R!clientVars
  <2>2. Analysed' = Analysed /\ Cnt(line') = 0 /\ Cnt(pkt') = 0 /\ Cnt(wire') = Cnt(wire)
    BY <1>5, <2>1 DEF Analysed
  <2>3. answered' = answered /\ options' = options  BY <2>1
  <2>4. w + 0 + 0 + a + d <= o  BY <1>7
  <2>5. Cnt(wire') + Cnt(pkt') + Cnt(line') + answered' + Analysed' <= options'
    BY <1>6, <2>2, <2>3, <2>4
  <2> QED  BY <2>5 DEF CInv
<1>13. ASSUME R!EndLine
      PROVE  /\ Cnt(line') = 0 /\ Cnt(pkt') \in Nat /\ Cnt(pkt') <= Cnt(pkt) /\ Cnt(wire') = Cnt(wire)
             /\ options' = options
  <2>1. PICK c : c = Head(pkt)  OBVIOUS
  <2>2. pkt # <<>> /\ pkt' = Tail(pkt) /\ line' = <<>> /\ wire' = wire /\ options' = options
    BY <1>13 DEF R!EndLine, R!BeginLine, R!clientVars
  <2>3. Cnt(pkt') \in Nat /\ Cnt(pkt') <= Cnt(pkt)  BY <2>1, <2>2, CntStored
  <2> QED  BY <1>5, <2>2, <2>3
<1>14. CASE R!CommandLine
  <2>1. R!EndLine /\ answered' = answered /\ anaPhase = 0  BY <1>14 DEF R!CommandLine
  <2>2. Analysed = 0  BY <2>1 DEF Analysed
  <2>3. Analysed' = 0 \/ (Analysed' = 1 /\ Cnt(line) >= 1)
    <3>1. CASE ~(anaPhase' = 1 /\ methodcode' = "OPTIONS")  BY <3>1 DEF Analysed
    <3>2. CASE anaPhase' = 1 /\ methodcode' = "OPTIONS"
      <4>1. R!Recognised(R!Text)  BY <1>14, <2>1, <3>2 DEF R!CommandLine
      <4>2. methodcode' = R!MethodOf(R!Text)  BY <1>14, <4>1, CommandHasWord DEF R!CommandLine
      <4>3. PICK m \in R!Methods : R!Text = R!Command(m)  BY <4>1 DEF R!Recognised
      <4>4. m = "OPTIONS"  BY <3>2, <4>2, <4>3, KnownWord
      <4>5. PICK x, y : x = Asking /\ y = <<"command", "OPTIONS", 2>>  OBVIOUS
      <4>6. R!Text = <<x, y>>  BY <4>3, <4>4, <4>5 DEF R!Command, Asking
      <4>7. PICK size : size = Len(line) - 1  OBVIOUS
      <4>8. R!Text = SubSeq(line, 1, size) /\ Len(line) \in Nat /\ size \in Int /\ size <= Len(line)
        BY <1>1, <4>7 DEF R!Text
      <4>9. size >= 1
        <5>1. ASSUME size < 1 PROVE FALSE
          <6>1. SubSeq(line, 1, size) = <<>>  BY <4>8, <5>1, SubSeqEmpty
          <6>2. <<x, y>> # <<>>
            <7>1. PICK u, v : u = <<x, y>> /\ v = <<>>  OBVIOUS
            <7>2. Len(u) = 2 /\ Len(v) = 0  BY <7>1
            <7>3. u # v  BY <7>2
            <7> QED  BY <7>1, <7>3
          <6>3. SubSeq(line, 1, size) = <<x, y>>  BY <4>6, <4>8
          <6> QED  BY <6>1, <6>2, <6>3
        <5>2. size \in Int  BY <4>8
        <5> QED  BY <5>1, <5>2
      <4>10. R!Text[1] = line[1] /\ 1 \in 1 .. Len(line)  BY <1>1, <4>7, <4>8, <4>9
      <4>11. line[1] = Asking  BY <4>5, <4>6, <4>10
      <4>12. Cnt(line) # 0  BY <1>1, <4>10, <4>11, CntNat
      <4> QED  BY <1>2, <3>2, <4>12 DEF Analysed
    <3> QED  BY <3>1, <3>2
  <2>4. PICK g, h : g = Cnt(pkt') /\ h = Analysed'  OBVIOUS
  <2>5. Cnt(line') = 0 /\ Cnt(wire') = w /\ options' = o /\ answered' = a  BY <1>13, <1>6, <2>1
  <2>6. g \in Nat /\ g <= p /\ d = 0 /\ (h = 0 \/ (h = 1 /\ l >= 1))  BY <1>13, <1>6, <2>1, <2>2, <2>3, <2>4
  <2>7. w + g + 0 + a + h <= o  BY <1>7, <2>6
  <2>8. Cnt(wire') + Cnt(pkt') + Cnt(line') + answered' + Analysed' <= options'
    BY <2>4, <2>5, <2>7
  <2> QED  BY <2>8 DEF CInv
<1>15. CASE R!HeaderLine \/ R!UnexpectedEnd
  <2>1. R!EndLine /\ UNCHANGED <<anaPhase, methodcode, answered>>
    BY <1>15 DEF R!HeaderLine, R!UnexpectedEnd, R!sessionVars
  <2>2. Analysed' = Analysed  BY <2>1 DEF Analysed
  <2>3. PICK g : g = Cnt(pkt')  OBVIOUS
  <2>4. /\ Cnt(line') = 0 /\ Cnt(wire') = w /\ options' = o /\ answered' = a /\ Analysed' = d
        /\ g \in Nat /\ g <= p
    BY <1>13, <1>6, <2>1, <2>2, <2>3
  <2>5. w + g + 0 + a + d <= o  BY <1>7, <2>4
  <2>6. Cnt(wire') + Cnt(pkt') + Cnt(line') + answered' + Analysed' <= options'
    BY <2>3, <2>4, <2>5
  <2> QED  BY <2>6 DEF CInv
<1>16. CASE R!EndRequest
  <2>1. R!EndLine /\ anaPhase = 1 /\ anaPhase' = 0  BY <1>16 DEF R!EndRequest, R!NextPhase
  <2>2. methodcode \in {"ANNOUNCE", "OPTIONS"}  BY <2>1 DEF IInv
  <2>3. Analysed' = 0  BY <2>1 DEF Analysed
  <2>4. answered' + Analysed' = answered + Analysed
    <3>1. CASE methodcode = "OPTIONS"
      <4>1. answered' = answered + 1  BY <1>16, <3>1 DEF R!EndRequest, R!Answered, R!SendReply
      <4>2. Analysed = 1  BY <2>1, <3>1 DEF Analysed
      <4> QED  BY <1>1, <2>3, <4>1, <4>2
    <3>2. CASE methodcode = "ANNOUNCE"
      <4>1. answered' = answered  BY <1>16, <3>2 DEF R!EndRequest, R!Answered
      <4>2. Analysed = 0  BY <3>2 DEF Analysed
      <4> QED  BY <1>1, <2>3, <4>1, <4>2
    <3> QED  BY <2>2, <3>1, <3>2
  <2>5. answered' \in Nat
    BY <1>1, <1>16 DEF R!EndRequest, R!SendReply
  <2>6. Cnt(line') = 0 /\ Cnt(pkt') \in Nat /\ Cnt(pkt') <= Cnt(pkt) /\ Cnt(wire') = Cnt(wire) /\ options' = options
    BY <1>13, <2>1
  <2>7. PICK g, h : g = Cnt(pkt') /\ h = answered'  OBVIOUS
  <2>8. g \in Nat /\ h \in Nat /\ g <= p /\ h + 0 = a + d  BY <1>6, <2>3, <2>4, <2>5, <2>6, <2>7
  <2>9. w + g + 0 + h + 0 <= o  BY <1>7, <2>8
  <2>10. Cnt(wire') + Cnt(pkt') + Cnt(line') + answered' + Analysed' <= options'
    BY <1>6, <2>3, <2>6, <2>7, <2>9
  <2> QED  BY <2>10 DEF CInv
<1> QED  BY <1>8, <1>9, <1>10, <1>11, <1>12, <1>14, <1>15, <1>16 DEF R!Next

LEMMA SessionInvariant == ASSUME R!RtspAssumption PROVE R!Spec => [](TInv /\ FInv /\ CInv)
<1>1. R!Init => FInv /\ CInv
  <2> SUFFICES ASSUME R!Init PROVE FInv /\ CInv  OBVIOUS
  <2>1. Cnt(<<>>) = 0
    <3>1. R!CR \in Tokens  BY DEF Tokens
    <3> QED  BY <3>1, CntFew
  <2>2. CInv  BY <2>1 DEF CInv, R!Init, Analysed
  <2> QED  BY <2>2, FaithfulInit
<1>2. TInv /\ IInv /\ FInv /\ CInv /\ [R!Next]_R!vars => FInv' /\ CInv'
  <2> SUFFICES ASSUME TInv, IInv, FInv, CInv, [R!Next]_R!vars PROVE FInv' /\ CInv'  OBVIOUS
  <2>1. CASE R!Next
    <3>1. CInv'  BY <2>1, CountsKeep
    <3>2. ASSUME NEW m \in Asked, NEW k \in {0, LongLine}, R!Send(m, k) PROVE FInv'
      BY <3>2, SendKeeps
    <3>3. FInv'
      BY <2>1, <3>2, ReconnectKeeps, ReceiveKeeps, CharKeeps, RestKeeps, LineKeeps DEF R!Next
    <3> QED  BY <3>1, <3>3
  <2>2. CASE R!vars' = R!vars
    <3>1. UNCHANGED <<anaPhase, methodcode, header, handled, answers, answered, line, seen, pkt,
                      wire, sent, options, whole>>
      BY <2>2 DEF R!vars, R!sessionVars, R!clientVars
    <3>2. CInv'  BY <3>1 DEF CInv, Cnt, Analysed
    <3>3. \A a : Stream(a) /\ Phase(a) => Stream(a)' /\ Phase(a)'
      BY <3>1 DEF Stream, Phase
    <3>4. FInv'  BY <3>1, <3>3 DEF FInv
    <3> QED  BY <3>2, <3>4
  <2> QED  BY <2>1, <2>2
<1> QED  BY <1>1, <1>2, StaysIdle, RtspInvariant, PTL DEF R!Spec

----------------------------------------------------------------------------
(* All of them, as they are checked                                        *)

\* A behaviour of the composition is one of each of the three.
LEMMA EachSpec == MCSpec => Spec /\ W!Spec /\ R!Spec
<1>1. MCInit => Init /\ W!Init /\ R!Init
  BY DEF MCInit
<1>2. [MCNext]_mcvars => [Next]_vars
  BY DEF MCNext, mcvars
<1>3. [MCNext]_mcvars => [W!Next]_(W!vars)
  BY DEF MCNext, mcvars, wvars, W!vars, W!objVars, W!poolVars, W!listVars, W!envVars, W!auxVars
<1>4. [MCNext]_mcvars => [R!Next]_(R!vars)
  BY DEF MCNext, mcvars, rvars, R!vars, R!sessionVars, R!clientVars
<1> QED
  BY <1>1, <1>2, <1>3, <1>4, PTL DEF MCSpec, Spec, W!Spec, R!Spec

\* The types of all parts; a thread works for an object between its packet and the end of
\* ConsumeReq; neither a line nor what is kept of one outgrows its buffer, of any size
\* (TcpListener.h:64-100, TcpWorker.cpp:28-135, RtspServer.cpp:159, 177, 194).
THEOREM SessionTypes == MCSpec => []TypesOK
<1>1. LInv /\ WInv /\ TInv => TypesOK
  BY DEF LInv, WInv, TInv, TypesOK
<1> QED
  BY <1>1, ListenerInvariant, WorkerInvariant, RtspInvariant, RtspAssumption, EachSpec, PTL

\* A listener that shows the running status has an AcceptEx with the system or a thread
\* that will post one, as long as no failure of an AcceptEx cut the chain
\* (TcpListenerBase.cpp:268-276, TcpListener.h:96-99).
THEOREM ListenerListens == MCSpec => []Listening
<1>1. LInv => Listening
  BY DEF LInv, LSteps, LChain, Listening
<1> QED
  BY <1>1, ListenerInvariant, EachSpec, PTL

\* No buffer and no request is lost or given back twice, no accept socket is until it is
\* handed to a session's object or closed, and m_nAcceptNum is the number of the objects in
\* use but for those whose session is being started (TcpListenerBase.cpp:242, 272-274, TcpListener.h:69-90, 143,
\* TcpWorker.cpp:37-110, 241, 312).
THEOREM ListsAreWhole == MCSpec => []ListsWhole
<1>1. ASSUME LInv, WInv PROVE ListsWhole
  <2>1. PoolsWhole /\ W!PoolsWhole
    BY <1>1 DEF LInv, WInv
  <2>2. W!AcceptNumber
    BY <1>1 DEF WInv, AcceptSum, W!AcceptNumber, W!Cardinality, Cardinality
  <2> QED
    BY <2>1, <2>2 DEF ListsWhole
<1> QED
  BY <1>1, ListenerInvariant, WorkerInvariant, EachSpec, PTL

\* An object in the listener's list is there once, with nothing outstanding, nobody that
\* works for it and no socket but a refused session's, however many threads processed its
\* packets, if it started with no errors and was not released while another thread was
\* working for it; and as long as there is no such object, of the open sockets only those of
\* refused sessions are nobody's (TcpWorker.cpp:41, 57, 118, 133, 150).
THEOREM ReleasedIsClean == MCSpec => []ReleasedClean
<1>1. ASSUME WInv PROVE W!SocketsHeld
  <2> SUFFICES ASSUME suspect = {}, NEW x \in wopened, x \notin refused PROVE x \in W!Range(socket)
    BY DEF W!SocketsHeld
  <2>1. PICK w \in W!Workers : socket[w] = x
    BY <1>1 DEF WInv, Held
  <2>2. w \in DOMAIN socket
    BY <1>1 DEF WInv, W!TypeOK
  <2> QED
    BY <2>1, <2>2 DEF W!Range
<1>2. ASSUME WInv, NEW w \in W!Range(freeWorkers) \ suspect PROVE W!Clean(w)
  <2>1. IsFree(w)
    BY DEF W!Range, IsFree
  <2>2. w \in 1 .. made
    <3>1. PICK S : S = 1 .. made
      OBVIOUS
    <3>2. freeWorkers \in Seq(S)
      BY <1>2, <3>1 DEF WInv, W!TypeOK
    <3>3. \A j \in DOMAIN freeWorkers : freeWorkers[j] \in S
      BY <3>2
    <3> QED
      BY <2>1, <3>1, <3>3 DEF IsFree
  <2>3. /\ OnceFree(w) /\ Quiet(wio[w]) /\ \A t \in Threads : ~On(t, w)
        /\ socket[w] = 0 \/ socket[w] \in refused
    BY <1>2, <2>1, <2>2 DEF WInv, Good
  <2> QED
    BY <2>3 DEF W!Clean, OnceFree, Quiet, On, W!Kinds, W!NoSocket
<1>3. WInv => ReleasedClean
  BY <1>1, <1>2 DEF ReleasedClean, W!ReleasedClean
<1> QED
  BY <1>3, WorkerInvariant, EachSpec, PTL

\* An RTSP session never leaves the idle state, so that PLAY, PAUSE, RECORD and TEARDOWN
\* are never accepted (RtspServer.cpp:257-262).
THEOREM SessionStaysIdle == MCSpec => []NeverLeavesIdle
<1>1. IInv => NeverLeavesIdle
  BY DEF IInv, NeverLeavesIdle
<1> QED
  BY <1>1, StaysIdle, EachSpec, PTL

\* However a client's requests are cut into packets between lines, exactly the ANNOUNCE and
\* OPTIONS requests are processed, in order and each with its own CSeq, and the OPTIONS
\* requests are answered with the 16 bits of it that rtsp_send_reply keeps; however lines
\* are cut, there is no answer without an OPTIONS request of its own
\* (RtspServer.cpp:19-211, 550).
THEOREM SessionIsFaithful == MCSpec => []Faithful
<1>1. ASSUME R!RtspAssumption, TInv, FInv, CInv PROVE Faithful
  <2>1. answered <= options
    <3>1. /\ line \in Seq(Tokens) /\ pkt \in Seq(Tokens) /\ wire \in Seq(Tokens)
          /\ options \in Nat /\ answered \in Nat
      BY <1>1 DEF TInv, R!TypeOK
    <3>2. Cnt(line) \in Nat /\ Cnt(pkt) \in Nat /\ Cnt(wire) \in Nat /\ Analysed \in {0, 1}
      BY <3>1, CntNat DEF Analysed
    <3> QED  BY <1>1, <3>1, <3>2 DEF CInv
  <2>2. whole => /\ R!IsPrefix(handled, R!Accepted)
                 /\ answers = R!SeqsOf(R!Of(handled, {"OPTIONS"}))
                 /\ wire = <<>> /\ pkt = <<>> => handled = R!Accepted
    BY <1>1, ThenFaithful
  <2> QED  BY <2>1, <2>2 DEF Faithful, R!Faithful
<1> QED  BY <1>1, SessionInvariant, RtspAssumption, EachSpec, PTL
============================================================================
