--------------------------- MODULE ReceiverProofs ---------------------------
(***************************************************************************)
(* What holds of the multicast receiver, of the observer that writes its   *)
(* datagrams to a file, of the outgoing connection and of the dialog that  *)
(* owns them all (UdpReceiver.cpp, FileWriter.cpp, TcpConnecter.cpp and    *)
(* TestUdpReceiverDlg.cpp) for every number of threads, buffers,           *)
(* datagrams, messages and objects.                                        *)
(***************************************************************************)
EXTENDS MCReceiver, FreeListLemmas, SequenceTheorems, TLAPS

----------------------------------------------------------------------------
(* The receiver                                                            *)

\* The steps at which a thread has a buffer, those at which it has the lock, and those
\* that end with a read.
BufSteps  == {"recv", "lock", "count", "import", "copy", "next"}
LockSteps == {"count", "import", "copy", "next"}
ReadSteps == {"read", "recv", "lock", "count", "import", "copy", "next"}

RSteps ==
  /\ pc[UI] \in {"idle", "associate", "stop", "close", "read", "recv", "running"}
  /\ \A t \in Threads : pc[t] \in ReadSteps \cup {"idle", "running"}
  /\ \A t \in Callers : buf[t] # NoBuf <=> pc[t] \in BufSteps
  /\ \A t \in Threads : lock = t <=> pc[t] \in LockSteps

\* Thread t has buffer b, or is one whose observer has it.
Has(t, b)  == Owns(t) /\ buf[t] = b
Uses(t, b) == buf[t] = b /\ pc[t] \in {"import", "copy"}
Once(s, b) == \A i, j \in DOMAIN s : s[i] = b /\ s[j] = b => i = j

\* A buffer is at one place, at some place, and its count is right.
Alone(b) ==
  /\ Once(free, b)
  /\ b \in io => b \notin Range(free)
  /\ b \in dropped => b \notin Range(free) /\ b \notin io
  /\ \A t \in Callers : Has(t, b) =>
       /\ b \notin Range(free) /\ b \notin io /\ b \notin dropped
       /\ \A u \in Callers : Has(u, b) => u = t
Placed(b) == b \in Range(free) \/ b \in io \/ b \in dropped \/ \E t \in Callers : Has(t, b)
Counts(b) == count[b] = IF b \in dropped \/ \E t \in Callers : Uses(t, b) THEN 1 ELSE 0
Whole(b)  == Alone(b) /\ Placed(b) /\ Counts(b)
AllWhole  == \A b \in 1 .. made : b \notin doubled => Whole(b)

\* What Reading needs: it holds too while a thread has still to set the status.
ReadingOn ==
  (status = "run" \/ \E t \in Callers : pc[t] = "running") /\ ~late =>
    io # {} \/ \E t \in Callers : pc[t] \in ReadSteps

RInv == TypeOK /\ RSteps /\ AllWhole /\ ReadingOn

\* The front of the list, for one element, and its end.
LEMMA OncePop ==
  ASSUME NEW S, NEW s \in Seq(S), s # <<>>, NEW b
  PROVE  /\ Head(s) \in S /\ Tail(s) \in Seq(S)
         /\ Range(s) = {Head(s)} \cup Range(Tail(s))
         /\ Once(s, b) => Once(Tail(s), b)
         /\ Once(s, b) /\ b = Head(s) => b \notin Range(Tail(s))
<1>1. Len(s) \in Nat \ {0} /\ DOMAIN s = 1 .. Len(s) /\ Head(s) = s[1]
  OBVIOUS
<1>2. /\ Tail(s) \in Seq(S) /\ Head(s) \in S
      /\ DOMAIN Tail(s) = 1 .. (Len(s) - 1)
      /\ \A i \in 1 .. (Len(s) - 1) : Tail(s)[i] = s[i + 1]
  OBVIOUS
<1>3. Range(s) = {Head(s)} \cup Range(Tail(s))
  <2>1. ToSet(s) = {Head(s)} \cup ToSet(Tail(s))
    BY PopFront
  <2> QED
    BY <2>1 DEF Range, ToSet
<1>4. ASSUME Once(s, b) PROVE Once(Tail(s), b)
  <2> SUFFICES ASSUME NEW i \in 1 .. (Len(s) - 1), NEW j \in 1 .. (Len(s) - 1),
                      Tail(s)[i] = b, Tail(s)[j] = b PROVE i = j
    BY <1>2 DEF Once
  <2>1. i + 1 \in DOMAIN s /\ j + 1 \in DOMAIN s /\ s[i + 1] = b /\ s[j + 1] = b
    BY <1>1, <1>2
  <2>2. i + 1 = j + 1
    BY <2>1, <1>4 DEF Once
  <2> QED
    BY <2>2
<1>5. ASSUME Once(s, b), b = Head(s), b \in Range(Tail(s)) PROVE FALSE
  <2>1. PICK i \in 1 .. (Len(s) - 1) : Tail(s)[i] = b
    BY <1>5, <1>2 DEF Range
  <2>2. i + 1 \in DOMAIN s /\ 1 \in DOMAIN s /\ s[i + 1] = b /\ s[1] = b /\ i + 1 # 1
    BY <2>1, <1>1, <1>2, <1>5
  <2> QED
    BY <2>2, <1>5 DEF Once
<1> QED
  BY <1>2, <1>3, <1>4, <1>5

LEMMA OncePush ==
  ASSUME NEW S, NEW s \in Seq(S), NEW x \in S, NEW b
  PROVE  /\ Append(s, x) \in Seq(S)
         /\ Range(Append(s, x)) = Range(s) \cup {x}
         /\ Once(s, b) /\ (b = x => b \notin Range(s)) => Once(Append(s, x), b)
<1>1. /\ Len(s) \in Nat /\ DOMAIN s = 1 .. Len(s)
      /\ Append(s, x) \in Seq(S) /\ DOMAIN Append(s, x) = 1 .. Len(s) + 1
      /\ Append(s, x)[Len(s) + 1] = x
      /\ \A i \in 1 .. Len(s) : Append(s, x)[i] = s[i]
  OBVIOUS
<1>2. Range(Append(s, x)) = Range(s) \cup {x}
  BY PushBack DEF Range, ToSet
<1>3. ASSUME Once(s, b), b = x => b \notin Range(s) PROVE Once(Append(s, x), b)
  <2> SUFFICES ASSUME NEW i \in 1 .. Len(s) + 1, NEW j \in 1 .. Len(s) + 1,
                      Append(s, x)[i] = b, Append(s, x)[j] = b PROVE i = j
    BY <1>1 DEF Once
  <2>1. \A k \in 1 .. Len(s) : s[k] = b => b \in Range(s)
    BY <1>1 DEF Range
  <2>2. CASE i \in 1 .. Len(s) /\ j \in 1 .. Len(s)
    BY <2>2, <1>1, <1>3 DEF Once
  <2>3. CASE i = Len(s) + 1 \/ j = Len(s) + 1
    BY <2>1, <2>3, <1>1, <1>3
  <2> QED
    BY <2>2, <2>3, <1>1
<1> QED
  BY <1>1, <1>2, <1>3

\* Which elements the list then has.
LEMMA RangePush ==
  ASSUME NEW S, NEW s \in Seq(S), NEW x
  PROVE  Range(Append(s, x)) = Range(s) \cup {x}
<1>1. /\ Len(s) \in Nat /\ DOMAIN s = 1 .. Len(s) /\ DOMAIN Append(s, x) = 1 .. Len(s) + 1
      /\ Append(s, x)[Len(s) + 1] = x
      /\ \A i \in 1 .. Len(s) : Append(s, x)[i] = s[i]
  OBVIOUS
<1> QED
  BY <1>1 DEF Range

\* A buffer that a step does not touch.
LEMMA Stays ==
  ASSUME NEW b, Whole(b), Once(free, b) => Once(free', b),
         b \in Range(free') <=> b \in Range(free), b \in io' <=> b \in io,
         b \in dropped' <=> b \in dropped, count'[b] = count[b],
         \A t \in Callers : Has(t, b)' <=> Has(t, b),
         \A t \in Callers : Uses(t, b)' <=> Uses(t, b)
  PROVE  Whole(b)'
<1>1. Alone(b)'
  BY DEF Whole, Alone
<1>2. Placed(b)'
  BY DEF Whole, Placed
<1>3. (\E t \in Callers : Uses(t, b)') <=> (\E t \in Callers : Uses(t, b))
  OBVIOUS
<1>4. Counts(b)'
  BY <1>3 DEF Whole, Counts
<1> QED
  BY <1>1, <1>2, <1>4 DEF Whole

\* A buffer that a step puts into the list, under WSARecv, or with a thread.
LEMMA ToList ==
  ASSUME NEW b, Once(free', b), b \in Range(free'), b \notin io', b \notin dropped',
         \A t \in Callers : ~Has(t, b)' /\ ~Uses(t, b)', count'[b] = 0
  PROVE  Whole(b)'
BY DEF Whole, Alone, Placed, Counts

LEMMA ToRecv ==
  ASSUME NEW b, Once(free', b), b \notin Range(free'), b \in io', b \notin dropped',
         \A t \in Callers : ~Has(t, b)' /\ ~Uses(t, b)', count'[b] = 0
  PROVE  Whole(b)'
BY DEF Whole, Alone, Placed, Counts

LEMMA ToThread ==
  ASSUME NEW b, NEW t \in Callers, Once(free', b), b \notin Range(free'), b \notin io',
         b \notin dropped', \A u \in Callers : (Has(u, b)' <=> u = t) /\ (Uses(u, b)' => u = t),
         count'[b] = IF Uses(t, b)' THEN 1 ELSE 0
  PROVE  Whole(b)'
<1>1. Alone(b)' /\ Placed(b)'
  BY DEF Alone, Placed
<1>2. (\E u \in Callers : Uses(u, b)') <=> Uses(t, b)'
  OBVIOUS
<1>3. Counts(b)'
  BY <1>2 DEF Counts
<1> QED
  BY <1>1, <1>3 DEF Whole

LEMMA ToDropped ==
  ASSUME NEW b, Once(free', b), b \notin Range(free'), b \notin io', b \in dropped',
         \A t \in Callers : ~Has(t, b)', count'[b] = 1
  PROVE  Whole(b)'
BY DEF Whole, Alone, Placed, Counts

\* What the invariant says of the buffer that a thread has.
LEMMA Mine ==
  ASSUME TypeOK, RSteps, AllWhole, NEW t \in Callers, Owns(t), buf[t] \notin doubled
  PROVE  /\ buf[t] \in 1 .. made /\ Whole(buf[t]) /\ Once(free, buf[t])
         /\ buf[t] \notin Range(free) /\ buf[t] \notin io /\ buf[t] \notin dropped
         /\ \A u \in Callers : Has(u, buf[t]) <=> u = t
         /\ \A u \in Callers : Uses(u, buf[t]) => u = t
         /\ count[buf[t]] = IF pc[t] \in {"import", "copy"} THEN 1 ELSE 0
<1>1. buf[t] \in 1 .. made
  BY DEF TypeOK, Owns, NoBuf
<1>2. Whole(buf[t])
  BY <1>1 DEF AllWhole
<1>3. Has(t, buf[t])
  BY DEF Has
<1>4. /\ Once(free, buf[t]) /\ buf[t] \notin Range(free) /\ buf[t] \notin io /\ buf[t] \notin dropped
      /\ \A u \in Callers : Has(u, buf[t]) => u = t
  BY <1>2, <1>3 DEF Whole, Alone
<1>5. \A u \in Callers : Uses(u, buf[t]) => Has(u, buf[t])
  BY DEF Uses, Has, Owns
<1>6. (\E u \in Callers : Uses(u, buf[t])) <=> pc[t] \in {"import", "copy"}
  BY <1>4, <1>5 DEF Uses
<1>7. count[buf[t]] = IF pc[t] \in {"import", "copy"} THEN 1 ELSE 0
  BY <1>2, <1>4, <1>6 DEF Whole, Counts
<1> QED
  BY <1>1, <1>2, <1>3, <1>4, <1>5, <1>7

\* Thread t goes to step s with buffer b, the others stay.
Goes(t, s, b) == pc' = [pc EXCEPT ![t] = s] /\ buf' = [buf EXCEPT ![t] = b]

LEMMA GoesStep ==
  ASSUME TypeOK, NEW t \in Callers, NEW s, NEW b, Goes(t, s, b)
  PROVE  /\ pc'[t] = s /\ buf'[t] = b
         /\ \A u \in Callers \ {t} : pc'[u] = pc[u] /\ buf'[u] = buf[u]
         /\ \A u \in Callers \ {t} : \A c : (Has(u, c)' <=> Has(u, c)) /\ (Uses(u, c)' <=> Uses(u, c))
         /\ \A c : Has(t, c)' <=> c = b /\ b # NoBuf /\ s # "next"
         /\ \A c : Uses(t, c)' <=> c = b /\ s \in {"import", "copy"}
<1>1. pc'[t] = s /\ buf'[t] = b /\ \A u \in Callers \ {t} : pc'[u] = pc[u] /\ buf'[u] = buf[u]
  BY DEF Goes, TypeOK
<1> QED
  BY <1>1 DEF Has, Uses, Owns

\* The actions of the dialog's thread that move no buffer.
LEMMA QuietStep ==
  ASSUME RInv, TypeOK', RSteps', UNCHANGED <<free, made, count, io, buf, dropped, doubled>>,
         \A t \in Callers : /\ Owns(t)' <=> Owns(t)
                            /\ pc'[t] \in {"import", "copy"} <=> pc[t] \in {"import", "copy"}
  PROVE  AllWhole'
<1> SUFFICES ASSUME NEW b \in 1 .. made, b \notin doubled PROVE Whole(b)'
  BY DEF AllWhole
<1>1. Whole(b)
  BY DEF RInv, AllWhole
<1>2. \A t \in Callers : (Has(t, b)' <=> Has(t, b)) /\ (Uses(t, b)' <=> Uses(t, b))
  BY DEF Has, Uses
<1> QED
  BY <1>1, <1>2, Stays

LEMMA StartClickInv == ASSUME RInv, StartClick PROVE RInv'
<1> USE ReceiverAssumption DEF RInv
<1>0. UI \in Callers /\ Threads \subseteq Callers /\ UI \notin Threads
  BY DEF Callers
<1>1. /\ pc[UI] = "idle" /\ \A t \in Callers \ {UI} : pc'[t] = pc[t]
      /\ pc'[UI] \in {"stop", "associate"} /\ buf[UI] = NoBuf
  BY <1>0 DEF StartClick, GoTo, TypeOK, RSteps, BufSteps
<1>2. TypeOK'
  <2>1. sock' \in 0 .. MaxSockets /\ sockets' \in 0 .. MaxSockets
    BY DEF StartClick, MakeMultiSocket, TypeOK, NoSocket
  <2>2. pc' \in [Callers -> {"idle", "associate", "stop", "close", "read", "recv", "running",
                         "lock", "count", "import", "copy", "next"}]
    BY DEF StartClick, GoTo, TypeOK
  <2> QED
    BY <2>1, <2>2 DEF StartClick, TypeOK, ioVars
<1>3. RSteps'
  BY <1>0, <1>1 DEF StartClick, RSteps, BufSteps
<1>4. AllWhole'
  <2>1. \A t \in Callers : /\ Owns(t)' <=> Owns(t)
                           /\ pc'[t] \in {"import", "copy"} <=> pc[t] \in {"import", "copy"}
    BY <1>1 DEF Owns, StartClick
  <2> QED
    BY <1>2, <1>3, <2>1, QuietStep DEF StartClick, ioVars
<1>5. ReadingOn'
  BY <1>0, <1>1 DEF StartClick, ReadingOn, ReadSteps, Callers
<1> QED
  BY <1>2, <1>3, <1>4, <1>5

LEMMA DialogInv == ASSUME RInv, Associate \/ StopStatus \/ StopSocket PROVE RInv'
<1> USE ReceiverAssumption DEF RInv
<1>0. UI \in Callers /\ Threads \subseteq Callers /\ UI \notin Threads
  BY DEF Callers
<1>1. /\ pc[UI] \in {"idle", "stop", "associate", "close"} /\ \A t \in Callers \ {UI} : pc'[t] = pc[t]
      /\ pc'[UI] \in {"read", "stop", "close", "idle"} /\ buf[UI] = NoBuf
      /\ status' \in {status, "stop"} /\ sock' \in {sock, NoSocket}
      /\ UNCHANGED <<sockets, free, made, count, ioVars, lock, buf, size, at, auxVars>>
  BY <1>0 DEF Associate, StopStatus, StopSocket, GoTo, TypeOK, RSteps, BufSteps
<1>2. TypeOK'
  <2>1. pc' \in [Callers -> {"idle", "associate", "stop", "close", "read", "recv", "running",
                         "lock", "count", "import", "copy", "next"}]
    BY ZenonT(60) DEF Associate, StopStatus, StopSocket, GoTo, TypeOK
  <2>2. sock' \in 0 .. MaxSockets
    BY <1>1 DEF TypeOK, NoSocket
  <2> QED
    BY <1>1, <2>1, <2>2 DEF TypeOK, ioVars, auxVars
<1>3. RSteps'
  BY <1>0, <1>1 DEF RSteps, BufSteps
<1>4. AllWhole'
  <2>1. \A t \in Callers : /\ Owns(t)' <=> Owns(t)
                           /\ pc'[t] \in {"import", "copy"} <=> pc[t] \in {"import", "copy"}
    BY <1>1 DEF Owns
  <2> QED
    BY <1>1, <1>2, <1>3, <2>1, QuietStep DEF ioVars, auxVars
<1>5. ReadingOn'
  BY <1>0, <1>1 DEF ReadingOn, ReadSteps, ioVars, auxVars
<1> QED
  BY <1>2, <1>3, <1>4, <1>5

\* Read, by a thread of the port or the dialog's.
LEMMA TakeBufInv == ASSUME RInv, NEW t \in Callers, TakeBuf(t) PROVE RInv'
<1> USE ReceiverAssumption DEF RInv
<1>0. UI \in Callers /\ Threads \subseteq Callers /\ UI \notin Threads
  BY DEF Callers
<1>1. PICK b \in Bufs :
        /\ \/ free # <<>> /\ b = Head(free) /\ free' = Tail(free) /\ UNCHANGED made
           \/ free = <<>> /\ b = made + 1 /\ made' = b /\ UNCHANGED free
        /\ Goes(t, "recv", b) /\ count' = [count EXCEPT ![b] = 0]
  BY DEF TakeBuf, GoTo, Goes, InitCount
<1>2. /\ pc[t] = "read" /\ ~Owns(t) /\ b \in Nat \ {0}
      /\ UNCHANGED <<status, sock, sockets, io, datagrams, lock, size, at, auxVars>>
  BY DEF TakeBuf, Owns, RSteps, BufSteps, Bufs
<1>3. /\ pc'[t] = "recv" /\ buf'[t] = b
      /\ \A u \in Callers \ {t} : pc'[u] = pc[u] /\ buf'[u] = buf[u]
      /\ \A u \in Callers \ {t} : \A c : (Has(u, c)' <=> Has(u, c)) /\ (Uses(u, c)' <=> Uses(u, c))
      /\ \A c : Has(t, c)' <=> c = b
      /\ \A c : ~Uses(t, c)' /\ ~Uses(t, c) /\ ~Has(t, c)
  <2>1. /\ pc'[t] = "recv" /\ buf'[t] = b
        /\ \A u \in Callers \ {t} : pc'[u] = pc[u] /\ buf'[u] = buf[u]
        /\ \A u \in Callers \ {t} : \A c : (Has(u, c)' <=> Has(u, c)) /\ (Uses(u, c)' <=> Uses(u, c))
        /\ \A c : Has(t, c)' <=> c = b /\ b # NoBuf /\ "recv" # "next"
        /\ \A c : Uses(t, c)' <=> c = b /\ "recv" \in {"import", "copy"}
    BY <1>1, GoesStep
  <2>2. b # NoBuf /\ \A c : ~Uses(t, c) /\ ~Has(t, c)
    BY <1>2 DEF NoBuf, Has, Uses
  <2> QED
    BY <2>1, <2>2
<1>4. free' \in Seq(1 .. made') /\ made' \in 1 .. MaxBufs /\ made <= made' /\ b \in 1 .. made'
  <2>0. free \in Seq(1 .. made) /\ made \in 1 .. MaxBufs
    BY DEF TypeOK
  <2>1. CASE free # <<>>
    <3>1. Head(free) \in 1 .. made /\ Tail(free) \in Seq(1 .. made)
      BY <2>0, <2>1, OncePop
    <3>2. b = Head(free) /\ free' = Tail(free) /\ made' = made
      BY <1>1, <2>1
    <3> QED
      BY <2>0, <3>1, <3>2
  <2>2. CASE free = <<>>
    BY <1>1, <2>2 DEF TypeOK, Bufs
  <2> QED
    BY <2>1, <2>2
<1>5. TypeOK'
  <2>1. reqs' \in [made : Nat, free : Nat]
    <3>1. reqs \in [made : Nat, free : Nat]
      BY DEF TypeOK
    <3>2. CASE reqs.free > 0
      BY <3>1, <3>2 DEF TakeBuf
    <3>3. CASE ~(reqs.free > 0)
      BY <3>1, <3>3 DEF TakeBuf
    <3> QED
      BY <3>2, <3>3
  <2>2. /\ pc' \in [Callers -> {"idle", "associate", "stop", "close", "read", "recv", "running",
                         "lock", "count", "import", "copy", "next"}]
        /\ buf' \in [Callers -> 0 .. made'] /\ count' \in [Bufs -> Int]
    BY <1>1, <1>4 DEF Goes, TypeOK
  <2>3. io' \subseteq 1 .. made' /\ dropped' \subseteq 1 .. made' /\ doubled' \subseteq 1 .. made'
    BY <1>2, <1>4 DEF TypeOK, auxVars
  <2> QED
    BY <1>2, <1>4, <2>1, <2>2, <2>3 DEF TypeOK, auxVars
<1>6. RSteps'
  BY <1>0, <1>2, <1>3 DEF RSteps, BufSteps, LockSteps, ReadSteps, NoBuf
<1>7. ASSUME NEW c \in 1 .. made', c \notin doubled PROVE Whole(c)'
  <2>1. CASE c # b
    <3>1. c \in 1 .. made /\ Whole(c)
      BY <1>1, <1>7, <2>1 DEF AllWhole, TypeOK
    <3>2. (Once(free, c) => Once(free', c)) /\ (c \in Range(free') <=> c \in Range(free))
      <4>1. free \in Seq(1 .. made)
        BY DEF TypeOK
      <4>2. CASE free # <<>>
        <5>1. free' = Tail(free) /\ c # Head(free)
          BY <1>1, <2>1, <4>2
        <5> QED
          BY <4>1, <4>2, <5>1, OncePop
      <4>3. CASE free = <<>>
        BY <1>1, <4>3
      <4> QED
        BY <4>2, <4>3
    <3>3. count'[c] = count[c]
      BY <1>1, <2>1
    <3>4. \A u \in Callers : (Has(u, c)' <=> Has(u, c)) /\ (Uses(u, c)' <=> Uses(u, c))
      BY <1>3, <2>1
    <3> QED
      BY <1>2, <3>1, <3>2, <3>3, <3>4, Stays DEF auxVars
  <2>2. CASE c = b
    <3>1. CASE free # <<>>
      <4>1. b = Head(free) /\ free' = Tail(free) /\ made' = made
        BY <1>1, <3>1
      <4>2. b \in Range(free) /\ Whole(b) /\ free \in Seq(1 .. made)
        BY ZenonT(60), <1>7, <2>2, <3>1, <4>1, OncePop DEF AllWhole, TypeOK
      <4>3. Once(free', b) /\ b \notin Range(free')
        BY <3>1, <4>1, <4>2, OncePop DEF Whole, Alone
      <4>4. b \notin io /\ b \notin dropped /\ \A u \in Callers : ~Has(u, b)
        BY <4>2 DEF Whole, Alone
      <4>5. \A u \in Callers : ~Uses(u, b)
        BY <1>2, <4>4 DEF Uses, Has, Owns, NoBuf
      <4> QED
        <5>1. \A u \in Callers : (Has(u, b)' <=> u = t) /\ (Uses(u, b)' => u = t)
          BY <1>3, <4>4, <4>5
        <5>2. b \notin io' /\ b \notin dropped' /\ count'[b] = 0 /\ ~Uses(t, b)'
          BY <1>1, <1>2, <1>3, <4>4 DEF auxVars, TypeOK
        <5> QED
          BY <2>2, <4>3, <5>1, <5>2, ToThread
    <3>2. CASE free = <<>>
      <4>1. b = made + 1 /\ free' = <<>>
        BY <1>1, <3>2
      <4>2. b \notin io /\ b \notin dropped /\ Once(free', b) /\ b \notin Range(free')
        BY <4>1 DEF TypeOK, Once, Range
      <4>3. \A u \in Callers : ~Has(u, b) /\ ~Uses(u, b)
        BY <4>1 DEF TypeOK, Has, Uses
      <4> QED
        <5>1. \A u \in Callers : (Has(u, b)' <=> u = t) /\ (Uses(u, b)' => u = t)
          BY <1>3, <4>3
        <5>2. b \notin io' /\ b \notin dropped' /\ count'[b] = 0 /\ ~Uses(t, b)'
          BY <1>1, <1>2, <1>3, <4>2 DEF auxVars, TypeOK
        <5> QED
          BY <2>2, <4>2, <5>1, <5>2, ToThread
    <3> QED
      BY <3>1, <3>2
  <2> QED
    BY <2>1, <2>2
<1>8. AllWhole'
  BY <1>2, <1>7 DEF AllWhole, auxVars
<1>9. ReadingOn'
  BY <1>2, <1>3 DEF ReadingOn, ReadSteps, auxVars
<1> QED
  BY <1>5, <1>6, <1>8, <1>9

LEMMA RecvPendsInv == ASSUME RInv, NEW t \in Callers, RecvPends(t) PROVE RInv'
<1> USE ReceiverAssumption DEF RInv
<1>0. UI \in Callers /\ Threads \subseteq Callers /\ UI \notin Threads
  BY DEF Callers
<1>1. /\ pc[t] = "recv" /\ Goes(t, "running", NoBuf) /\ io' = io \cup {buf[t]}
      /\ UNCHANGED <<status, sock, sockets, free, made, count, reqs, datagrams, lock, size, at, auxVars>>
  BY DEF RecvPends, GoTo, Goes
<1>2. buf[t] \in 1 .. made /\ Owns(t)
  BY <1>1 DEF TypeOK, RSteps, BufSteps, Owns, NoBuf
<1>3. /\ pc'[t] = "running" /\ buf'[t] = NoBuf
      /\ \A u \in Callers \ {t} : pc'[u] = pc[u] /\ buf'[u] = buf[u]
      /\ \A u \in Callers \ {t} : \A c : (Has(u, c)' <=> Has(u, c)) /\ (Uses(u, c)' <=> Uses(u, c))
      /\ \A c : ~Has(t, c)' /\ ~Uses(t, c)' /\ ~Uses(t, c)
      /\ \A c : c # buf[t] => ~Has(t, c)
  <2>1. /\ pc'[t] = "running" /\ buf'[t] = NoBuf
        /\ \A u \in Callers \ {t} : pc'[u] = pc[u] /\ buf'[u] = buf[u]
        /\ \A u \in Callers \ {t} : \A c : (Has(u, c)' <=> Has(u, c)) /\ (Uses(u, c)' <=> Uses(u, c))
    BY <1>1, GoesStep
  <2>2. \A c : ~Has(t, c)' /\ ~Uses(t, c)'
    BY <2>1 DEF Has, Uses, Owns
  <2>3. \A c : ~Uses(t, c) /\ (c # buf[t] => ~Has(t, c))
    BY <1>1 DEF Has, Uses
  <2> QED
    BY <2>1, <2>2, <2>3
<1>5. TypeOK'
  <2>1. /\ pc' \in [Callers -> {"idle", "associate", "stop", "close", "read", "recv", "running",
                         "lock", "count", "import", "copy", "next"}]
        /\ buf' \in [Callers -> 0 .. made']
    BY <1>1 DEF Goes, TypeOK, NoBuf
  <2> QED
    BY <1>1, <1>2, <2>1 DEF TypeOK, auxVars
<1>6. RSteps'
  BY <1>0, <1>1, <1>3 DEF RSteps, BufSteps, LockSteps, ReadSteps
<1>7. ASSUME NEW c \in 1 .. made, c \notin doubled PROVE Whole(c)'
  <2>0. Whole(c)
    BY <1>7 DEF AllWhole
  <2>1. CASE c # buf[t]
    <3>1. \A u \in Callers : (Has(u, c)' <=> Has(u, c)) /\ (Uses(u, c)' <=> Uses(u, c))
      BY <1>3, <2>1
    <3>2. free' = free /\ count' = count /\ dropped' = dropped
      BY <1>1 DEF auxVars
    <3>3. c \in io' <=> c \in io
      BY <1>1, <2>1
    <3> QED
      BY <2>0, <3>1, <3>2, <3>3, Stays
  <2>2. CASE c = buf[t]
    <3>1. /\ Once(free, c) /\ c \notin Range(free) /\ c \notin dropped
          /\ \A u \in Callers : (Has(u, c) <=> u = t) /\ (Uses(u, c) => u = t)
          /\ count[c] = 0
      BY <1>1, <1>2, <1>7, <2>2, Mine
    <3>2. Once(free', c) /\ c \notin Range(free') /\ c \in io' /\ c \notin dropped' /\ count'[c] = 0
      BY <1>1, <2>2, <3>1 DEF auxVars
    <3>3. \A u \in Callers : ~Has(u, c)' /\ ~Uses(u, c)'
      BY <1>3, <3>1
    <3> QED
      BY <3>2, <3>3, ToRecv
  <2> QED
    BY <2>1, <2>2
<1>8. AllWhole'
  BY <1>1, <1>7 DEF AllWhole, auxVars
<1>9. ReadingOn'
  BY <1>1 DEF ReadingOn
<1> QED
  BY <1>5, <1>6, <1>8, <1>9

LEMMA ReadEndsInv == ASSUME RInv, NEW t \in Callers, Running(t) PROVE RInv'
<1> USE ReceiverAssumption DEF RInv
<1>0. UI \in Callers /\ Threads \subseteq Callers /\ UI \notin Threads
  BY DEF Callers
<1>1. /\ pc[t] = "running" /\ pc'[t] = "idle" /\ \A u \in Callers \ {t} : pc'[u] = pc[u]
      /\ buf[t] = NoBuf /\ status' = "run"
      /\ UNCHANGED <<sock, sockets, free, made, count, ioVars, lock, buf, size, at, auxVars>>
  BY DEF Running, GoTo, TypeOK, RSteps, BufSteps
<1>2. TypeOK'
  <2>1. pc' \in [Callers -> {"idle", "associate", "stop", "close", "read", "recv", "running",
                         "lock", "count", "import", "copy", "next"}]
    BY DEF Running, GoTo, TypeOK
  <2> QED
    BY <1>1, <2>1 DEF TypeOK, ioVars, auxVars
<1>3. RSteps'
  BY <1>0, <1>1 DEF RSteps, BufSteps, LockSteps, ReadSteps
<1>4. AllWhole'
  <2>1. \A u \in Callers : /\ Owns(u)' <=> Owns(u)
                           /\ pc'[u] \in {"import", "copy"} <=> pc[u] \in {"import", "copy"}
    BY <1>1 DEF Owns
  <2> QED
    BY <1>1, <1>2, <1>3, <2>1, QuietStep DEF ioVars, auxVars
<1>5. ReadingOn'
  BY <1>1 DEF ReadingOn, ReadSteps, ioVars, auxVars
<1> QED
  BY <1>2, <1>3, <1>4, <1>5

LEMMA RecvFailsInv == ASSUME RInv, NEW t \in Callers, RecvFails(t) PROVE RInv'
<1> USE ReceiverAssumption DEF RInv
<1>0. UI \in Callers /\ Threads \subseteq Callers /\ UI \notin Threads
  BY DEF Callers
<1>a. PICK b : b = buf[t]
  OBVIOUS
<1>1. /\ pc[t] = "recv" /\ Goes(t, "idle", NoBuf) /\ free' = Append(free, b)
      /\ status' = "error" /\ reqs' = [reqs EXCEPT !.free = @ + 1]
      /\ late' = (late \/ \E u \in Callers : pc[u] = "running")
      /\ UNCHANGED <<sock, sockets, made, count, io, datagrams, lock, size, at, dropped, doubled>>
  BY <1>a DEF RecvFails, GoTo, Goes, NoteError
<1>2. b \in 1 .. made /\ Owns(t)
  BY <1>1, <1>a DEF TypeOK, RSteps, BufSteps, Owns, NoBuf
<1>3. /\ pc'[t] = "idle" /\ buf'[t] = NoBuf
      /\ \A u \in Callers \ {t} : pc'[u] = pc[u] /\ buf'[u] = buf[u]
      /\ \A u \in Callers \ {t} : \A c : (Has(u, c)' <=> Has(u, c)) /\ (Uses(u, c)' <=> Uses(u, c))
      /\ \A c : ~Has(t, c)' /\ ~Uses(t, c)' /\ ~Uses(t, c)
      /\ \A c : c # b => ~Has(t, c)
  <2>1. /\ pc'[t] = "idle" /\ buf'[t] = NoBuf
        /\ \A u \in Callers \ {t} : pc'[u] = pc[u] /\ buf'[u] = buf[u]
        /\ \A u \in Callers \ {t} : \A c : (Has(u, c)' <=> Has(u, c)) /\ (Uses(u, c)' <=> Uses(u, c))
    BY <1>1, GoesStep
  <2>2. \A c : ~Has(t, c)' /\ ~Uses(t, c)'
    BY <2>1 DEF Has, Uses, Owns
  <2>3. \A c : ~Uses(t, c) /\ (c # b => ~Has(t, c))
    BY <1>1, <1>a DEF Has, Uses
  <2> QED
    BY <2>1, <2>2, <2>3
<1>5. TypeOK'
  <2>1. /\ pc' \in [Callers -> {"idle", "associate", "stop", "close", "read", "recv", "running",
                         "lock", "count", "import", "copy", "next"}]
        /\ buf' \in [Callers -> 0 .. made'] /\ reqs' \in [made : Nat, free : Nat]
    <3>1. reqs \in [made : Nat, free : Nat] /\ buf \in [Callers -> 0 .. made] /\ NoBuf \in 0 .. made
      BY DEF TypeOK, NoBuf
    <3>2. reqs' \in [made : Nat, free : Nat]
      BY <1>1, <3>1
    <3> QED
      BY <1>1, <3>1, <3>2 DEF Goes, TypeOK
  <2>2. free' \in Seq(1 .. made')
    BY <1>1, <1>2 DEF TypeOK
  <2>3. late' \in BOOLEAN
    BY <1>1 DEF TypeOK
  <2> QED
    BY <1>1, <2>1, <2>2, <2>3 DEF TypeOK
<1>6. RSteps'
  BY <1>0, <1>1, <1>3 DEF RSteps, BufSteps, LockSteps, ReadSteps
<1>7. AllWhole'
  <2>1. ASSUME b \notin doubled
        PROVE  /\ b \notin Range(free) /\ b \notin dropped /\ b \notin io
               /\ \A u \in Callers : ~Has(u, b)' /\ ~Uses(u, b) /\ ~Uses(u, b)'
    <3>1. /\ b \notin Range(free) /\ b \notin dropped /\ b \notin io
          /\ \A u \in Callers : (Has(u, b) <=> u = t) /\ (Uses(u, b) => u = t)
      BY <1>2, <1>a, <2>1, Mine
    <3> QED
      BY <1>3, <3>1
  <2>2. \A u \in Callers : \A c : c # b => (Has(u, c)' <=> Has(u, c)) /\ (Uses(u, c)' <=> Uses(u, c))
    BY <1>3
  <2> SUFFICES ASSUME NEW c \in 1 .. made, c \notin doubled PROVE Whole(c)'
    BY <1>1 DEF AllWhole
  <2>3. Whole(c) /\ free \in Seq(1 .. made)
    BY DEF AllWhole, TypeOK
  <2>4. /\ Range(free') = Range(free) \cup {b}
        /\ Once(free, c) /\ (c = b => c \notin Range(free)) => Once(free', c)
    <3>1. /\ Range(Append(free, b)) = Range(free) \cup {b}
          /\ Once(free, c) /\ (c = b => c \notin Range(free)) => Once(Append(free, b), c)
      BY <1>2, <2>3, OncePush
    <3> QED
      BY <1>1, <3>1
  <2>5. CASE c # b
    BY <1>1, <2>2, <2>3, <2>4, <2>5, Stays
  <2>6. CASE c = b
    <3>1. count[c] = 0 /\ Once(free, c)
      BY <2>1, <2>3, <2>6 DEF Whole, Counts, Alone
    <3>2. Once(free', c) /\ c \in Range(free') /\ c \notin io' /\ c \notin dropped' /\ count'[c] = 0
      BY <1>1, <2>1, <2>4, <2>6, <3>1
    <3> QED
      BY <1>3, <2>1, <2>6, <3>2, ToList
  <2> QED
    BY <2>5, <2>6
<1>8. ReadingOn'
  BY <1>1, <1>3 DEF ReadingOn
<1> QED
  BY <1>5, <1>6, <1>7, <1>8

\* A packet that says that the read failed.
LEMMA FailedInv == ASSUME RInv, NEW t \in Threads, NEW b \in Bufs, Failed(t, b) PROVE RInv'
<1> USE ReceiverAssumption DEF RInv
<1>1. /\ b \in io /\ io' = io \ {b} /\ free' = Append(free, b)
      /\ status' = "error" /\ reqs' = [reqs EXCEPT !.free = @ + 1]
      /\ late' = (late \/ \E u \in Callers : pc[u] = "running")
      /\ UNCHANGED <<sock, sockets, made, count, datagrams, lock, pc, buf, size, at, dropped, doubled>>
  BY DEF Failed, NoteError
<1>2. b \in 1 .. made
  BY <1>1 DEF TypeOK
<1>5. TypeOK'
  <2>0. reqs \in [made : Nat, free : Nat] /\ io \subseteq 1 .. made /\ late \in BOOLEAN
    BY DEF TypeOK
  <2>1. reqs' \in [made : Nat, free : Nat] /\ late' \in BOOLEAN /\ io' \subseteq 1 .. made
    BY <1>1, <2>0
  <2>2. free' \in Seq(1 .. made')
    BY <1>1, <1>2 DEF TypeOK
  <2> QED
    BY <1>1, <2>1, <2>2 DEF TypeOK
<1>6. RSteps'
  BY <1>1 DEF RSteps
<1>7. AllWhole'
  <2> SUFFICES ASSUME NEW c \in 1 .. made, c \notin doubled PROVE Whole(c)'
    BY <1>1 DEF AllWhole
  <2>1. \A u \in Callers : \A d : (Has(u, d)' <=> Has(u, d)) /\ (Uses(u, d)' <=> Uses(u, d))
    BY <1>1 DEF Has, Uses, Owns
  <2>3. Whole(c) /\ free \in Seq(1 .. made)
    BY DEF AllWhole, TypeOK
  <2>4. /\ Range(free') = Range(free) \cup {b}
        /\ Once(free, c) /\ (c = b => c \notin Range(free)) => Once(free', c)
    <3>1. /\ Range(Append(free, b)) = Range(free) \cup {b}
          /\ Once(free, c) /\ (c = b => c \notin Range(free)) => Once(Append(free, b), c)
      <4>1. free \in Seq(1 .. made) /\ b \in 1 .. made
        BY <1>2, <2>3
      <4>2. Range(Append(free, b)) = Range(free) \cup {b}
        BY <4>1, RangePush
      <4>3. Once(free, c) /\ (c = b => c \notin Range(free)) => Once(Append(free, b), c)
        BY <4>1, OncePush
      <4> QED
        BY <4>2, <4>3
    <3> QED
      BY <1>1, <3>1
  <2>5. CASE c # b
    BY <1>1, <2>1, <2>3, <2>4, <2>5, Stays
  <2>6. CASE c = b
    <3>1. c \notin Range(free) /\ c \notin dropped /\ Once(free, c) /\ \A u \in Callers : ~Has(u, c)
      BY <1>1, <2>3, <2>6 DEF Whole, Alone
    <3>2. \A u \in Callers : ~Uses(u, c)
      BY <3>1 DEF Has, Uses, Owns, TypeOK, NoBuf
    <3>3. count[c] = 0
      BY <2>3, <3>1, <3>2 DEF Whole, Counts
    <3>4. Once(free', c) /\ c \in Range(free') /\ c \notin io' /\ c \notin dropped' /\ count'[c] = 0
      BY <1>1, <2>4, <2>6, <3>1, <3>3
    <3> QED
      BY <2>1, <3>1, <3>2, <3>4, ToList
  <2> QED
    BY <2>5, <2>6
<1>8. ReadingOn'
  BY <1>1 DEF ReadingOn
<1> QED
  BY <1>5, <1>6, <1>7, <1>8

\* A packet with a datagram.
LEMMA ReceivedInv == ASSUME RInv, NEW t \in Threads, NEW b \in Bufs, Received(t, b) PROVE RInv'
<1> USE ReceiverAssumption DEF RInv
<1>0. UI \in Callers /\ t \in Callers /\ Threads \subseteq Callers /\ UI \notin Threads
  BY DEF Callers
<1>1. /\ pc[t] = "idle" /\ b \in io /\ io' = io \ {b} /\ Goes(t, "lock", b)
      /\ UNCHANGED <<status, sock, sockets, free, made, count, reqs, lock, at, auxVars>>
  BY DEF Received, GoTo, Goes
<1>2. b \in 1 .. made /\ b # NoBuf /\ buf[t] = NoBuf
  <2>1. b \in 1 .. made
    BY <1>1 DEF TypeOK
  <2>2. buf[t] = NoBuf
    BY <1>0, <1>1 DEF RSteps, BufSteps
  <2> QED
    BY <2>1, <2>2 DEF NoBuf
<1>3. /\ pc'[t] = "lock" /\ buf'[t] = b
      /\ \A u \in Callers \ {t} : pc'[u] = pc[u] /\ buf'[u] = buf[u]
      /\ \A u \in Callers \ {t} : \A c : (Has(u, c)' <=> Has(u, c)) /\ (Uses(u, c)' <=> Uses(u, c))
      /\ \A c : (Has(t, c)' <=> c = b) /\ ~Uses(t, c)' /\ ~Uses(t, c) /\ ~Has(t, c)
  <2>1. /\ pc'[t] = "lock" /\ buf'[t] = b
        /\ \A u \in Callers \ {t} : pc'[u] = pc[u] /\ buf'[u] = buf[u]
        /\ \A u \in Callers \ {t} : \A c : (Has(u, c)' <=> Has(u, c)) /\ (Uses(u, c)' <=> Uses(u, c))
    BY <1>0, <1>1, GoesStep
  <2>2. \A c : (Has(t, c)' <=> c = b) /\ ~Uses(t, c)'
    BY <1>2, <2>1 DEF Has, Uses, Owns
  <2>3. \A c : ~Uses(t, c) /\ ~Has(t, c)
    BY <1>1, <1>2 DEF Has, Uses, Owns
  <2> QED
    BY <2>1, <2>2, <2>3
<1>5. TypeOK'
  <2>1. /\ pc' \in [Callers -> {"idle", "associate", "stop", "close", "read", "recv", "running",
                         "lock", "count", "import", "copy", "next"}]
        /\ buf' \in [Callers -> 0 .. made]
    <3>1. b \in 0 .. made /\ buf \in [Callers -> 0 .. made]
      BY <1>2 DEF TypeOK
    <3> QED
      BY <1>1, <3>1 DEF Goes, TypeOK
  <2>2. size' \in [Callers -> {"some", "none"}]
    BY DEF Received, TypeOK, Sizes
  <2>3. datagrams' \in 0 .. MaxDatagrams
    BY DEF Received, TypeOK
  <2> QED
    BY <1>1, <2>1, <2>2, <2>3 DEF TypeOK, auxVars
<1>6. RSteps'
  BY <1>0, <1>1, <1>2, <1>3 DEF RSteps, BufSteps, LockSteps, ReadSteps
<1>7. AllWhole'
  <2> SUFFICES ASSUME NEW c \in 1 .. made, c \notin doubled PROVE Whole(c)'
    BY <1>1 DEF AllWhole, auxVars
  <2>1. Whole(c) /\ free' = free /\ count' = count /\ dropped' = dropped
    BY <1>1 DEF AllWhole, auxVars
  <2>2. CASE c # b
    <3>1. \A u \in Callers : (Has(u, c)' <=> Has(u, c)) /\ (Uses(u, c)' <=> Uses(u, c))
      BY <1>3, <2>2
    <3> QED
      BY <1>1, <2>1, <2>2, <3>1, Stays
  <2>3. CASE c = b
    <3>1. c \notin Range(free) /\ c \notin dropped /\ Once(free, c) /\ \A u \in Callers : ~Has(u, c)
      BY <1>1, <2>1, <2>3 DEF Whole, Alone
    <3>2. \A u \in Callers : ~Uses(u, c)
      BY <3>1 DEF Has, Uses, Owns, TypeOK, NoBuf
    <3>3. count[c] = 0
      BY <2>1, <3>1, <3>2 DEF Whole, Counts
    <3>4. \A u \in Callers : (Has(u, c)' <=> u = t) /\ (Uses(u, c)' => u = t)
      BY <1>3, <2>3, <3>1, <3>2
    <3>5. Once(free', c) /\ c \notin Range(free') /\ c \notin io' /\ c \notin dropped' /\ count'[c] = 0
      BY <1>1, <2>1, <2>3, <3>1, <3>3
    <3> QED
      BY <1>0, <1>3, <3>4, <3>5, ToThread
  <2> QED
    BY <2>2, <2>3
<1>8. ReadingOn'
  BY <1>0, <1>3 DEF ReadingOn, ReadSteps
<1> QED
  BY <1>5, <1>6, <1>7, <1>8

\* The processing of a packet, under the lock.
LEMMA LockInv == ASSUME RInv, NEW t \in Threads, Lock(t) PROVE RInv'
<1> USE ReceiverAssumption DEF RInv
<1>0. UI \in Callers /\ t \in Callers /\ Threads \subseteq Callers /\ UI \notin Threads
  BY DEF Callers
<1>1. /\ pc[t] = "lock" /\ pc'[t] = "count" /\ \A u \in Callers \ {t} : pc'[u] = pc[u]
      /\ lock = NoThread /\ lock' = t
      /\ UNCHANGED <<status, sock, sockets, free, made, count, ioVars, buf, size, auxVars>>
  BY <1>0 DEF Lock, GoTo, TypeOK
<1>2. TypeOK'
  <2>1. pc' \in [Callers -> {"idle", "associate", "stop", "close", "read", "recv", "running",
                         "lock", "count", "import", "copy", "next"}]
        /\ at' \in [Callers -> 1 .. Observers]
    <3>1. at \in [Callers -> 1 .. Observers] /\ 1 \in 1 .. Observers
      BY DEF TypeOK
    <3> QED
      BY <3>1 DEF Lock, GoTo, TypeOK
  <2> QED
    BY <1>1, <2>1 DEF TypeOK, ioVars, auxVars
<1>3. RSteps'
  BY <1>0, <1>1 DEF RSteps, BufSteps, LockSteps, ReadSteps
<1>4. AllWhole'
  <2>1. \A u \in Callers : /\ Owns(u)' <=> Owns(u)
                           /\ pc'[u] \in {"import", "copy"} <=> pc[u] \in {"import", "copy"}
    BY <1>1 DEF Owns
  <2> QED
    BY <1>1, <1>2, <1>3, <2>1, QuietStep DEF ioVars, auxVars
<1>5. ReadingOn'
  BY <1>0, <1>1 DEF ReadingOn, ReadSteps
<1> QED
  BY <1>2, <1>3, <1>4, <1>5

\* The observers are called, one after the other.
LEMMA DispatchInv == ASSUME RInv, NEW t \in Threads, Dispatch(t) PROVE RInv'
<1> USE ReceiverAssumption DEF RInv
<1>0. UI \in Callers /\ t \in Callers /\ Threads \subseteq Callers /\ UI \notin Threads
  BY DEF Callers
<1>a. PICK b : b = buf[t]
  OBVIOUS
<1>1. /\ pc[t] = "count" /\ Goes(t, "import", b) /\ count' = [count EXCEPT ![b] = @ + 1]
      /\ UNCHANGED <<status, sock, sockets, free, made, ioVars, lock, size, at, auxVars>>
  BY <1>0, <1>a DEF Dispatch, GoTo, Goes, TypeOK
<1>2. b \in 1 .. made /\ b \in Bufs /\ b # NoBuf /\ Owns(t)
  <2>1. b \in 0 .. made /\ made \in 1 .. MaxBufs
    BY <1>0, <1>a DEF TypeOK
  <2>2. b # NoBuf /\ Owns(t)
    BY <1>0, <1>1, <1>a DEF RSteps, BufSteps, Owns
  <2> QED
    BY <2>1, <2>2 DEF NoBuf, Bufs
<1>3. /\ pc'[t] = "import" /\ buf'[t] = b
      /\ \A u \in Callers \ {t} : pc'[u] = pc[u] /\ buf'[u] = buf[u]
      /\ \A u \in Callers \ {t} : \A c : (Has(u, c)' <=> Has(u, c)) /\ (Uses(u, c)' <=> Uses(u, c))
      /\ \A c : Has(t, c)' <=> c = b /\ b # NoBuf /\ "import" # "next"
      /\ \A c : Uses(t, c)' <=> c = b /\ "import" \in {"import", "copy"}
  BY <1>0, <1>1, GoesStep
<1>5. TypeOK'
  <2>1. /\ pc' \in [Callers -> {"idle", "associate", "stop", "close", "read", "recv", "running",
                         "lock", "count", "import", "copy", "next"}]
        /\ count' \in [Bufs -> Int]
    <3>1. count \in [Bufs -> Int] /\ count[b] + 1 \in Int
      BY <1>2 DEF TypeOK
    <3> QED
      BY <1>1, <1>2, <3>1 DEF Goes, TypeOK
  <2>2. buf' = buf
    BY <1>a, <1>1 DEF Goes, TypeOK
  <2> QED
    BY <1>1, <2>1, <2>2 DEF TypeOK, ioVars, auxVars
<1>6. RSteps'
  BY <1>0, <1>1, <1>2, <1>3 DEF RSteps, BufSteps, LockSteps, ReadSteps
<1>7. AllWhole'
  <2> SUFFICES ASSUME NEW c \in 1 .. made, c \notin doubled PROVE Whole(c)'
    BY <1>1 DEF AllWhole, auxVars
  <2>1. Whole(c) /\ free' = free /\ io' = io /\ dropped' = dropped
    BY <1>1 DEF AllWhole, ioVars, auxVars
  <2>2. CASE c # b
    <3>1. \A u \in Callers : (Has(u, c)' <=> Has(u, c)) /\ (Uses(u, c)' <=> Uses(u, c))
      BY <1>3, <1>a, <2>2 DEF Has, Uses
    <3>2. count'[c] = count[c]
      BY <1>1, <2>2
    <3> QED
      BY <2>1, <3>1, <3>2, Stays
  <2>3. CASE c = b
    <3>1. /\ c \notin Range(free) /\ c \notin dropped /\ c \notin io /\ Once(free, c)
          /\ \A u \in Callers : (Has(u, c) <=> u = t) /\ (Uses(u, c) => u = t)
          /\ count[c] = IF pc[t] \in {"import", "copy"} THEN 1 ELSE 0
      BY <1>0, <1>2, <1>a, <2>3, Mine
    <3>2. count'[c] = 1
      BY <1>1, <1>2, <2>3, <3>1 DEF TypeOK
    <3>3. \A u \in Callers : (Has(u, c)' <=> u = t) /\ (Uses(u, c)' => u = t)
      BY <1>2, <1>3, <2>3, <3>1
    <3> QED
      BY <1>0, <1>3, <2>1, <2>3, <3>1, <3>2, <3>3, ToThread
  <2> QED
    BY <2>2, <2>3
<1>8. ReadingOn'
  BY <1>0, <1>3 DEF ReadingOn, ReadSteps
<1> QED
  BY <1>5, <1>6, <1>7, <1>8

\* An observer returns a buffer, and the thread goes on; if the buffer was not
\* returned before, it is in the list again.
LEMMA Returned ==
  ASSUME RInv, NEW t \in Threads, pc[t] \in {"import", "copy"}, ReturnBuf(buf[t]),
         NEW s \in {"next", "copy"}, GoTo(t, s), UNCHANGED <<made, io, dropped, buf>>,
         doubled' = doubled \cup (IF s = "next" THEN {} ELSE {buf[t]})
  PROVE  AllWhole' /\ free' \in Seq(1 .. made) /\ count' \in [Bufs -> Int]
<1> USE ReceiverAssumption DEF RInv
<1>0. t \in Callers
  BY DEF Callers
<1>a. PICK b : b = buf[t]
  OBVIOUS
<1>1. /\ Goes(t, s, b) /\ count' = [count EXCEPT ![b] = @ - 1]
      /\ free' = IF count[b] = 1 THEN Append(free, b) ELSE free
  BY <1>0, <1>a DEF ReturnBuf, IsLast, GoTo, Goes, TypeOK
<1>2. b \in 1 .. made /\ b \in Bufs /\ b # NoBuf /\ Owns(t)
  <2>1. b \in 0 .. made /\ made \in 1 .. MaxBufs
    BY <1>0, <1>a DEF TypeOK
  <2>2. b # NoBuf /\ Owns(t)
    BY <1>0, <1>a DEF RSteps, BufSteps, Owns
  <2> QED
    BY <2>1, <2>2 DEF NoBuf, Bufs
<1>3. /\ pc'[t] = s /\ buf'[t] = b
      /\ \A u \in Callers \ {t} : pc'[u] = pc[u] /\ buf'[u] = buf[u]
      /\ \A u \in Callers \ {t} : \A c : (Has(u, c)' <=> Has(u, c)) /\ (Uses(u, c)' <=> Uses(u, c))
      /\ \A c : Has(t, c)' <=> c = b /\ b # NoBuf /\ s # "next"
      /\ \A c : Uses(t, c)' <=> c = b /\ s \in {"import", "copy"}
  BY <1>0, <1>1, GoesStep
<1>4. free \in Seq(1 .. made) /\ count \in [Bufs -> Int]
  BY DEF TypeOK
<1>5. free' \in Seq(1 .. made) /\ count' \in [Bufs -> Int]
  <2>1. Append(free, b) \in Seq(1 .. made)
    BY <1>2, <1>4
  <2>2. count' \in [Bufs -> Int]
    BY <1>1, <1>2, <1>4
  <2> QED
    BY <1>1, <1>4, <2>1, <2>2
<1>6. ASSUME NEW c \in 1 .. made, c \notin doubled' PROVE Whole(c)'
  <2>1. Whole(c) /\ c \notin doubled
    BY <1>6 DEF AllWhole
  <2>0. /\ Range(Append(free, b)) = Range(free) \cup {b}
        /\ Once(free, c) /\ (c = b => c \notin Range(free)) => Once(Append(free, b), c)
    <3>1. Range(Append(free, b)) = Range(free) \cup {b}
      BY <1>2, <1>4, RangePush
    <3>2. Once(free, c) /\ (c = b => c \notin Range(free)) => Once(Append(free, b), c)
      BY <1>2, <1>4, OncePush
    <3> QED
      BY <3>1, <3>2
  <2>2. CASE c # b
    <3>1. \A u \in Callers : (Has(u, c)' <=> Has(u, c)) /\ (Uses(u, c)' <=> Uses(u, c))
      BY <1>3, <1>a, <2>2 DEF Has, Uses
    <3>2. count'[c] = count[c]
      BY <1>1, <2>2
    <3>3. (Once(free, c) => Once(free', c)) /\ (c \in Range(free') <=> c \in Range(free))
      BY <1>1, <2>0, <2>2
    <3> QED
      BY <2>1, <3>1, <3>2, <3>3, Stays
  <2>3. CASE c = b
    <3>0. s = "next"
      BY <1>6, <1>a, <2>3
    <3>1. /\ c \notin Range(free) /\ c \notin dropped /\ c \notin io /\ Once(free, c)
          /\ \A u \in Callers : (Has(u, c) <=> u = t) /\ (Uses(u, c) => u = t)
          /\ count[c] = IF pc[t] \in {"import", "copy"} THEN 1 ELSE 0
      BY <1>0, <1>2, <1>a, <2>1, <2>3, Mine
    <3>2. count'[c] = 0 /\ free' = Append(free, b)
      BY <1>1, <1>2, <1>4, <2>3, <3>1
    <3>3. \A u \in Callers : ~Has(u, c)' /\ ~Uses(u, c)'
      BY <1>3, <2>3, <3>0, <3>1
    <3> QED
      BY <2>0, <2>3, <3>1, <3>2, <3>3, ToList
  <2> QED
    BY <2>2, <2>3
<1>7. AllWhole'
  BY <1>6 DEF AllWhole
<1> QED
  BY <1>5, <1>7

\* What Import and Copied have in common.
LEMMA ObserverInv ==
  ASSUME RInv, NEW t \in Threads, pc[t] \in {"import", "copy"}, NEW s \in {"next", "copy"}, GoTo(t, s),
         UNCHANGED <<status, sock, sockets, made, ioVars, lock, buf, size, at, late>>,
         free' \in Seq(1 .. made), count' \in [Bufs -> Int], AllWhole',
         dropped' \in SUBSET (dropped \cup {buf[t]}), doubled' \in SUBSET (doubled \cup {buf[t]})
  PROVE  RInv'
<1> USE ReceiverAssumption DEF RInv
<1>0. UI \in Callers /\ t \in Callers /\ Threads \subseteq Callers /\ UI \notin Threads
  BY DEF Callers
<1>1. pc'[t] = s /\ \A u \in Callers \ {t} : pc'[u] = pc[u]
  BY <1>0 DEF GoTo, TypeOK
<1>2. buf[t] \in 1 .. made
  <2>1. buf[t] \in 0 .. made /\ buf[t] # 0
    BY <1>0 DEF TypeOK, RSteps, BufSteps, NoBuf
  <2> QED
    BY <2>1 DEF TypeOK
<1>3. TypeOK'
  <2>1. pc' \in [Callers -> {"idle", "associate", "stop", "close", "read", "recv", "running",
                         "lock", "count", "import", "copy", "next"}]
    BY DEF GoTo, TypeOK
  <2>2. dropped' \subseteq 1 .. made' /\ doubled' \subseteq 1 .. made'
    BY <1>2 DEF TypeOK
  <2> QED
    BY <2>1, <2>2 DEF TypeOK, ioVars
<1>4. RSteps'
  BY <1>0, <1>1 DEF RSteps, BufSteps, LockSteps, ReadSteps
<1>5. ReadingOn'
  BY <1>0, <1>1 DEF ReadingOn, ReadSteps
<1> QED
  BY <1>3, <1>4, <1>5

\* ImportData of an observer: at once, or it keeps the buffer for a while, or for ever.
LEMMA ImportInv == ASSUME RInv, NEW t \in Threads, Import(t) PROVE RInv'
<1> USE ReceiverAssumption DEF RInv
<1>0. UI \in Callers /\ t \in Callers /\ Threads \subseteq Callers /\ UI \notin Threads
  BY DEF Callers
<1>1. pc[t] = "import" /\ UNCHANGED <<status, sock, sockets, made, ioVars, lock, buf, size, at, late>>
  BY DEF Import
<1>2. io' = io /\ made' = made /\ buf' = buf /\ free \in Seq(1 .. made) /\ count \in [Bufs -> Int]
  BY <1>1 DEF ioVars, TypeOK
<1>3. CASE Rejected(t) /\ UNCHANGED <<dropped, doubled>>
  <2>1. ReturnBuf(buf[t]) /\ GoTo(t, "next")
    BY <1>3 DEF Rejected
  <2>2. doubled' = doubled \cup (IF "next" = "next" THEN {} ELSE {buf[t]})
    BY <1>3
  <2>3. AllWhole' /\ free' \in Seq(1 .. made) /\ count' \in [Bufs -> Int]
    BY <1>1, <1>2, <1>3, <2>1, <2>2, Returned
  <2> QED
    BY <1>1, <1>3, <2>1, <2>3, ObserverInv
<1>4. CASE GoTo(t, "copy") /\ ReturnBuf(buf[t]) /\ doubled' = doubled \cup {buf[t]} /\ UNCHANGED dropped
  <2>2. doubled' = doubled \cup (IF "copy" = "next" THEN {} ELSE {buf[t]})
    BY <1>4
  <2>3. AllWhole' /\ free' \in Seq(1 .. made) /\ count' \in [Bufs -> Int]
    BY <1>1, <1>2, <1>4, <2>2, Returned
  <2> QED
    BY <1>1, <1>4, <2>3, ObserverInv
<1>5. CASE GoTo(t, "copy") /\ UNCHANGED <<count, free, dropped, doubled>>
  <2>1. pc'[t] = "copy" /\ \A u \in Callers \ {t} : pc'[u] = pc[u]
    BY <1>0, <1>5 DEF GoTo, TypeOK
  <2>2. AllWhole'
    <3> SUFFICES ASSUME NEW c \in 1 .. made, c \notin doubled PROVE Whole(c)'
      BY <1>2, <1>5 DEF AllWhole
    <3>1. Whole(c)
      BY DEF AllWhole
    <3>2. \A u \in Callers : (Has(u, c)' <=> Has(u, c)) /\ (Uses(u, c)' <=> Uses(u, c))
      BY <1>1, <1>2, <2>1 DEF Has, Uses, Owns
    <3> QED
      BY <1>2, <1>5, <3>1, <3>2, Stays
  <2> QED
    BY <1>1, <1>2, <1>5, <2>2, ObserverInv
<1>6. CASE GoTo(t, "next") /\ dropped' = dropped \cup {buf[t]} /\ UNCHANGED <<count, free, doubled>>
  <2>1. pc'[t] = "next" /\ \A u \in Callers \ {t} : pc'[u] = pc[u]
    BY <1>0, <1>6 DEF GoTo, TypeOK
  <2>a. PICK b : b = buf[t]
    OBVIOUS
  <2>2. AllWhole'
    <3> SUFFICES ASSUME NEW c \in 1 .. made, c \notin doubled PROVE Whole(c)'
      BY <1>2, <1>6 DEF AllWhole
    <3>1. Whole(c)
      BY DEF AllWhole
    <3>2. CASE c # b
      <4>1. \A u \in Callers : (Has(u, c)' <=> Has(u, c)) /\ (Uses(u, c)' <=> Uses(u, c))
        BY <1>1, <1>2, <2>1, <2>a, <3>2 DEF Has, Uses, Owns
      <4> QED
        BY <1>2, <1>6, <2>a, <3>1, <3>2, <4>1, Stays
    <3>3. CASE c = b
      <4>0. Owns(t)
        BY <1>0, <1>1 DEF RSteps, BufSteps, Owns
      <4>1. /\ c \notin Range(free) /\ c \notin dropped /\ c \notin io /\ Once(free, c)
            /\ \A u \in Callers : (Has(u, c) <=> u = t) /\ (Uses(u, c) => u = t)
            /\ count[c] = IF pc[t] \in {"import", "copy"} THEN 1 ELSE 0
        BY <1>0, <2>a, <3>3, <4>0, Mine
      <4>2. \A u \in Callers : ~Has(u, c)'
        BY <1>2, <2>1, <2>a, <3>3, <4>1 DEF Has, Owns
      <4> QED
        BY <1>1, <1>2, <1>6, <2>a, <3>3, <4>1, <4>2, ToDropped
    <3> QED
      BY <3>2, <3>3
  <2> QED
    BY <1>1, <1>2, <1>6, <2>2, ObserverInv
<1> QED
  BY <1>3, <1>4, <1>5, <1>6 DEF Import

LEMMA CopiedInv == ASSUME RInv, NEW t \in Threads, Copied(t) PROVE RInv'
<1>1. /\ pc[t] \in {"import", "copy"} /\ ReturnBuf(buf[t]) /\ GoTo(t, "next")
      /\ UNCHANGED <<status, sock, sockets, made, ioVars, lock, buf, size, at, late>>
      /\ UNCHANGED <<made, io, dropped, buf>>
      /\ dropped' \in SUBSET (dropped \cup {buf[t]}) /\ doubled' \in SUBSET (doubled \cup {buf[t]})
  BY DEF Copied, auxVars, ioVars
<1>2. doubled' = doubled \cup (IF "next" = "next" THEN {} ELSE {buf[t]})
  BY DEF Copied, auxVars
<1>3. AllWhole' /\ free' \in Seq(1 .. made) /\ count' \in [Bufs -> Int]
  BY <1>1, <1>2, Returned
<1> QED
  BY <1>1, <1>3, ObserverInv

\* The next observer, or the end of the dispatch.
LEMMA NextObserverInv == ASSUME RInv, NEW t \in Threads, NextObserver(t) PROVE RInv'
<1> USE ReceiverAssumption DEF RInv
<1>0. UI \in Callers /\ t \in Callers /\ Threads \subseteq Callers /\ UI \notin Threads
  BY DEF Callers
<1>1. /\ pc[t] = "next" /\ at[t] \in 1 .. Observers /\ buf[t] \in 1 .. made
      /\ UNCHANGED <<status, sock, sockets, free, made, count, io, datagrams, size, late, dropped>>
  <2>1. buf[t] \in 0 .. made /\ buf[t] # 0 /\ at[t] \in 1 .. Observers
    BY <1>0 DEF NextObserver, TypeOK, RSteps, BufSteps, NoBuf
  <2> QED
    BY <2>1 DEF NextObserver, TypeOK
<1>2. /\ pc' = [pc EXCEPT ![t] = IF at[t] = Observers THEN "read" ELSE "count"]
      /\ buf' = [buf EXCEPT ![t] = IF at[t] = Observers THEN NoBuf ELSE @]
      /\ lock' = IF at[t] = Observers THEN NoThread ELSE lock
      /\ doubled' = doubled \cup (IF at[t] = Observers THEN {} ELSE {buf[t]})
  BY DEF NextObserver, IsLastObserver, ReleaseLock, GoTo, TypeOK
<1>3. /\ pc'[t] = IF at[t] = Observers THEN "read" ELSE "count"
      /\ buf'[t] = IF at[t] = Observers THEN NoBuf ELSE buf[t]
      /\ \A u \in Callers \ {t} : pc'[u] = pc[u] /\ buf'[u] = buf[u]
  BY <1>0, <1>2 DEF TypeOK
<1>4. TypeOK'
  <2>1. pc' \in [Callers -> {"idle", "associate", "stop", "close", "read", "recv", "running",
                         "lock", "count", "import", "copy", "next"}]
    BY <1>2 DEF TypeOK
  <2>2. buf' \in [Callers -> 0 .. made']
    <3>1. NoBuf \in 0 .. made /\ buf \in [Callers -> 0 .. made]
      BY DEF TypeOK, NoBuf
    <3> QED
      BY <1>1, <1>2, <3>1
  <2>3. reqs' \in [made : Nat, free : Nat]
    <3>1. reqs \in [made : Nat, free : Nat]
      BY DEF TypeOK
    <3> QED
      BY <3>1 DEF NextObserver
  <2>4. at' \in [Callers -> 1 .. Observers]
    <3>1. at \in [Callers -> 1 .. Observers]
      BY DEF TypeOK
    <3>2. CASE at[t] # Observers
      <4>1. at' = [at EXCEPT ![t] = @ + 1] /\ at[t] + 1 \in 1 .. Observers
        BY <1>1, <3>2 DEF NextObserver, IsLastObserver
      <4> QED
        BY <3>1, <4>1
    <3>3. CASE at[t] = Observers
      BY <3>1, <3>3 DEF NextObserver, IsLastObserver
    <3> QED
      BY <3>2, <3>3
  <2>5. lock' \in Threads \cup {NoThread} /\ doubled' \subseteq 1 .. made
    BY <1>1, <1>2 DEF TypeOK
  <2> QED
    BY <1>1, <2>1, <2>2, <2>3, <2>4, <2>5 DEF TypeOK
<1>5. RSteps'
  BY <1>0, <1>1, <1>2, <1>3 DEF RSteps, BufSteps, LockSteps, ReadSteps
<1>6. AllWhole'
  <2> SUFFICES ASSUME NEW c \in 1 .. made, c \notin doubled' PROVE Whole(c)'
    BY <1>1 DEF AllWhole
  <2>1. Whole(c)
    BY <1>2 DEF AllWhole
  <2>2. \A u \in Callers : (Has(u, c)' <=> Has(u, c)) /\ (Uses(u, c)' <=> Uses(u, c))
    <3>1. c # buf[t] \/ at[t] = Observers
      BY <1>2
    <3>2. ~Has(t, c) /\ ~Uses(t, c)
      BY <1>1 DEF Has, Owns, Uses
    <3>3. ~Has(t, c)' /\ ~Uses(t, c)'
      BY <1>3, <3>1 DEF Has, Owns, Uses, NoBuf
    <3> QED
      BY <1>3, <3>2, <3>3 DEF Has, Owns, Uses
  <2> QED
    BY <1>1, <2>1, <2>2, Stays
<1>7. ReadingOn'
  BY <1>0, <1>3 DEF ReadingOn, ReadSteps
<1> QED
  BY <1>4, <1>5, <1>6, <1>7

\* The initial states.
LEMMA InitInv == ASSUME Init PROVE RInv
<1> USE ReceiverAssumption DEF Init
<1>1. TypeOK
  <2>1. made \in 1 .. MaxBufs /\ free \in Seq(1 .. made) /\ count \in [Bufs -> Int]
    OBVIOUS
  <2>2. /\ reqs \in [made : Nat, free : Nat] /\ buf \in [Callers -> 0 .. made]
        /\ at \in [Callers -> 1 .. Observers] /\ size \in [Callers -> {"some", "none"}]
    BY DEF NoBuf
  <2>3. sock \in 0 .. MaxSockets /\ sockets \in 0 .. MaxSockets /\ datagrams \in 0 .. MaxDatagrams
    BY DEF NoSocket
  <2>4. pc \in [Callers -> {"idle", "associate", "stop", "close", "read", "recv", "running",
                         "lock", "count", "import", "copy", "next"}]
    OBVIOUS
  <2>5. io \subseteq 1 .. made /\ dropped \subseteq 1 .. made /\ doubled \subseteq 1 .. made
    OBVIOUS
  <2>6. lock \in Threads \cup {NoThread} /\ late \in BOOLEAN /\ status \in {"stop", "run", "error"}
    OBVIOUS
  <2> QED
    BY <2>1, <2>2, <2>3, <2>4, <2>5, <2>6 DEF TypeOK
<1>2. RSteps
  BY DEF RSteps, Callers, BufSteps, LockSteps, ReadSteps, NoBuf
<1>3. Whole(1)
  BY DEF Whole, Alone, Placed, Counts, Once, Range, Has, Uses, Owns, NoBuf, Bufs
<1>4. AllWhole
  BY <1>3 DEF AllWhole
<1>5. ReadingOn
  BY DEF ReadingOn
<1> QED
  BY <1>1, <1>2, <1>4, <1>5 DEF RInv

\* The invariant of the receiver.
LEMMA ReceiverInvariant == Spec => []RInv
<1>1. ASSUME RInv, [Next]_vars PROVE RInv'
  <2>0. UI \in Callers /\ Threads \subseteq Callers
    BY DEF Callers
  <2>1. CASE StartClick \/ Associate \/ StopStatus \/ StopSocket
    BY <1>1, <2>1, StartClickInv, DialogInv
  <2>2. ASSUME NEW t \in Callers, Read(t) PROVE RInv'
    BY <1>1, <2>2, TakeBufInv, RecvPendsInv, ReadEndsInv, RecvFailsInv DEF Read
  <2>3. ASSUME NEW t \in Threads, Packet(t) PROVE RInv'
    BY <1>1, <2>3, ReceivedInv, FailedInv DEF Packet
  <2>4. ASSUME NEW t \in Threads, Process(t) PROVE RInv'
    BY <1>1, <2>4, LockInv, DispatchInv, ImportInv, CopiedInv, NextObserverInv DEF Process
  <2>5. CASE UNCHANGED vars
    <3>1. UNCHANGED <<status, sock, sockets, free, made, count, io, reqs, datagrams, lock, pc, buf,
                      size, at, late, dropped, doubled>>
      BY <2>5 DEF vars, ioVars, auxVars
    <3> QED
      BY SMTT(40), <1>1, <3>1 DEF RInv, TypeOK, RSteps, AllWhole, Whole, Alone, Placed, Counts, Once, Has, Uses,
                        Owns, ReadingOn
  <2> QED
    BY <1>1, <2>0, <2>1, <2>2, <2>3, <2>4, <2>5 DEF Next
<1> QED
  BY <1>1, InitInv, PTL DEF Spec

\* The invariant gives what is said of the receiver's buffers.
LEMMA WholeBufs == ASSUME RInv PROVE BufExclusive /\ BufKept /\ CountExact
<1>1. BufExclusive
  BY DEF RInv, AllWhole, Whole, Alone, Once, Has, BufExclusive
<1>2. BufKept
  BY DEF RInv, AllWhole, Whole, Placed, Has, Owns, BufKept
<1>3. CountExact
  BY DEF RInv, AllWhole, Whole, Counts, Uses, CountExact
<1> QED
  BY <1>1, <1>2, <1>3

\* The receiver for itself.
LEMMA ReceiverReads == Spec => []Reading
<1>1. RInv => Reading
  BY DEF RInv, ReadingOn, ReadSteps, Reading
<1> QED
  BY <1>1, ReceiverInvariant, PTL
----------------------------------------------------------------------------
(* The observer that writes to a file                                      *)

\* The front of a sequence, and a sequence without one of its elements.
LEMMA FirstPart ==
  ASSUME NEW S, NEW s \in Seq(S), NEW m \in Nat, m <= Len(s)
  PROVE  /\ SubSeq(s, 1, m) \in Seq(S) /\ Len(SubSeq(s, 1, m)) = m
         /\ \A i \in 1 .. m : SubSeq(s, 1, m)[i] = s[i]
<1>1. m \in Int /\ 1 \in Int /\ \A i \in 1 .. m : s[i] \in S
  OBVIOUS
<1>2. /\ SubSeq(s, 1, m) \in Seq(S)
      /\ Len(SubSeq(s, 1, m)) = IF 1 <= m THEN m - 1 + 1 ELSE 0
      /\ \A i \in 1 .. m - 1 + 1 : SubSeq(s, 1, m)[i] = s[1 + i - 1]
  BY <1>1, SubSeqProperties
<1> QED
  BY <1>2

LEMMA Removed ==
  ASSUME NEW S, NEW s \in Seq(S), NEW i \in 1 .. Len(s)
  PROVE  /\ RemoveAt(s, i) \in Seq(S) /\ Len(RemoveAt(s, i)) = Len(s) - 1
         /\ \A k \in 1 .. Len(s) - 1 : RemoveAt(s, i)[k] = IF k < i THEN s[k] ELSE s[k + 1]
<1> DEFINE p == SubSeq(s, 1, i - 1)
<1> DEFINE q == SubSeq(s, i + 1, Len(s))
<1>1. p \in Seq(S) /\ Len(p) = i - 1 /\ \A k \in 1 .. i - 1 : p[k] = s[k]
  <2>1. i - 1 \in Nat /\ i - 1 <= Len(s)
    OBVIOUS
  <2> QED
    BY <2>1, FirstPart
<1>2. Len(s) \in Nat /\ i \in Nat /\ i + 1 \in Int /\ Len(s) \in Int /\ \A k \in i + 1 .. Len(s) : s[k] \in S
  OBVIOUS
<1>3. /\ q \in Seq(S) /\ Len(q) = IF i + 1 <= Len(s) THEN Len(s) - (i + 1) + 1 ELSE 0
      /\ \A k \in 1 .. Len(s) - (i + 1) + 1 : q[k] = s[i + 1 + k - 1]
  BY <1>2, SubSeqProperties
<1> HIDE DEF p, q
<1>4. Len(q) = Len(s) - i /\ \A k \in 1 .. Len(s) - i : q[k] = s[i + k]
  <2>1. Len(q) = Len(s) - i
    BY <1>2, <1>3
  <2>2. ASSUME NEW k \in 1 .. Len(s) - i PROVE q[k] = s[i + k]
    <3>1. k \in 1 .. Len(s) - (i + 1) + 1 /\ i + 1 + k - 1 = i + k
      BY <1>2
    <3> QED
      BY <1>3, <3>1
  <2> QED
    BY <2>1, <2>2
<1>5. p \o q \in Seq(S) /\ Len(p \o q) = Len(s) - 1
  <2>1. p \o q \in Seq(S) /\ Len(p \o q) = Len(p) + Len(q)
    BY <1>1, <1>3, ConcatProperties
  <2> QED
    BY <1>1, <1>2, <1>4, <2>1
<1>6. ASSUME NEW k \in 1 .. Len(s) - 1 PROVE (p \o q)[k] = IF k < i THEN s[k] ELSE s[k + 1]
  <2>1. CASE k < i
    BY <1>1, <1>2, <1>3, <1>4, <2>1
  <2>2. CASE ~(k < i)
    <3>1. (p \o q)[k] = q[k - (i - 1)] /\ k - (i - 1) \in 1 .. Len(s) - i
      BY <1>1, <1>2, <1>3, <1>4, <2>2
    <3> QED
      BY SMTT(40), <1>2, <1>4, <2>2, <3>1
  <2> QED
    BY <2>1, <2>2
<1>7. RemoveAt(s, i) = p \o q
  BY DEF RemoveAt, p, q
<1> QED
  BY <1>5, <1>6, <1>7

----------------------------------------------------------------------------
(* The observer                                                            *)

\* An import has a datagram that fits into a buffer; the bytes that count were copied.
WSteps ==
  /\ wpc \in {"buf", "fits", "fresh", "copy", "grow"} => len \in Lengths
  /\ wpc \in {"copy", "grow"} => fill + len <= BufSize
  /\ cur # 0 => fill <= Len(data[cur])
  /\ wpc = "grow" /\ cur # 0 => fill + len <= Len(data[cur])
  /\ wpc # "idle" => taken > 0

\* Where the buffer and its length are when no flush met an import.
WQuiet ==
  ~raced =>
    /\ ui # "idle" => wpc = "idle"
    /\ wpc \in {"fits", "fresh", "copy", "grow"} => cur # 0
    /\ wpc # "crash"
    /\ ui = "zero" => cur = 0
    /\ ui = "write" => fill > 0
    /\ fill > 0 /\ ui # "zero" => cur # 0
    /\ cur # 0 /\ wpc \in {"idle", "buf"} => fill > 0

\* The buffer that is filled is not given to the system yet.
Held       == cur # 0 /\ wpc # "fresh" /\ ui # "null"
Writing(b) == \E i \in DOMAIN wio : wio[i].buf = b
WOwned ==
  ~raced =>
    /\ IsInjective(wfree)
    /\ \A i, j \in DOMAIN wio : wio[i].buf = wio[j].buf => i = j
    /\ \A b \in Range(wfree) : ~Writing(b)
    /\ Held => cur \notin Range(wfree) /\ ~Writing(cur)
    /\ ~Writing(0)
    /\ ~failed => \A b \in 1 .. wmade : b \in Range(wfree) \/ Writing(b) \/ (Held /\ b = cur)

WInv == W!TypeOK /\ WSteps /\ WQuiet /\ WOwned

\* The two conditions on WriteFile: what it leaves alone, and what it does when it succeeds.
LEMMA WriteStep ==
  ASSUME W!WriterAssumption, W!TypeOK, WSteps, W!WriteFile(cur, fill)
  PROVE  /\ wio' \in Seq([buf : 0 .. wmade, len : 0 .. BufSize])
         /\ wreqs' \in [made : Nat, free : Nat] /\ file' \in Seq(1 .. MaxImports) /\ failed' \in BOOLEAN
         /\ failed => failed'
         /\ \/ /\ wio' = Append(wio, [buf |-> cur, len |-> fill]) /\ failed' = failed
               /\ file' = file \o W!Written(cur, fill)
            \/ wio' = wio /\ file' = file /\ failed'
<1>0. /\ cur \in 0 .. wmade /\ fill \in 0 .. BufSize /\ wio \in Seq([buf : 0 .. wmade, len : 0 .. BufSize])
      /\ file \in Seq(1 .. MaxImports) /\ failed \in BOOLEAN
      /\ wreqs \in [made : Nat, free : Nat] /\ wmade \in 2 .. MaxFileBufs
      /\ data \in [1 .. MaxFileBufs -> Seq(1 .. MaxImports)]
  BY DEF W!TypeOK, W!Bufs
<1>1. W!Written(cur, fill) \in Seq(1 .. MaxImports)
  <2>1. CASE cur = 0
    BY <2>1 DEF W!Written, W!Null
  <2>2. CASE cur # 0
    <3>1. data[cur] \in Seq(1 .. MaxImports) /\ fill <= Len(data[cur]) /\ fill \in Nat
      BY <1>0, <2>2 DEF WSteps, W!WriterAssumption
    <3>2. SubSeq(data[cur], 1, fill) \in Seq(1 .. MaxImports)
      <4>1. fill \in Nat /\ fill <= Len(data[cur])
        BY <3>1
      <4> QED
        <5>1. PICK S : S = 1 .. MaxImports
          OBVIOUS
        <5>2. data[cur] \in Seq(S)
          BY <3>1, <5>1
        <5>3. SubSeq(data[cur], 1, fill) \in Seq(S)
          BY <4>1, <5>2, FirstPart
        <5> QED
          BY <5>1, <5>3
    <3> QED
      BY <2>2, <3>2 DEF W!Written, W!Null
  <2> QED
    BY <2>1, <2>2
<1>2. wreqs' \in [made : Nat, free : Nat]
  <2>1. CASE wreqs.free > 0
    <3>1. wreqs' \in {wreqs, [wreqs EXCEPT !.free = @ - 1]}
      BY <2>1 DEF W!WriteFile
    <3> QED
      BY <1>0, <2>1, <3>1
  <2>2. CASE ~(wreqs.free > 0)
    <3>1. \/ wreqs' = [wreqs EXCEPT !.made = @ + 1]
          \/ wreqs' = [made |-> wreqs.made + 1, free |-> 1]
      BY <2>2 DEF W!WriteFile
    <3> QED
      BY <1>0, <3>1
  <2> QED
    BY <2>1, <2>2
<1>3. CASE /\ wio' = Append(wio, [buf |-> cur, len |-> fill]) /\ failed' = failed
           /\ file' = file \o W!Written(cur, fill)
  <2>1. [buf |-> cur, len |-> fill] \in [buf : 0 .. wmade, len : 0 .. BufSize]
    BY <1>0
  <2> QED
    BY <1>0, <1>1, <1>2, <1>3, <2>1
<1>4. CASE wio' = wio /\ file' = file /\ failed' = TRUE
  BY <1>0, <1>2, <1>4
<1> QED
  BY <1>3, <1>4 DEF W!WriteFile

\* NewBuf: the buffer, and what is left in the list.
LEMMA NewBufStep ==
  ASSUME W!TypeOK, W!NewBuf
  PROVE  /\ fill' = 0 /\ cur' \in 1 .. wmade' /\ wmade' \in 2 .. MaxFileBufs /\ wmade <= wmade'
         /\ wfree' \in Seq(1 .. wmade') /\ wmade \in 2 .. MaxFileBufs
         /\ \/ cur' \in Range(wfree) /\ Range(wfree) = {cur'} \cup Range(wfree') /\ wmade' = wmade
            \/ cur' = wmade + 1 /\ wmade' = wmade + 1 /\ wfree' = wfree
         /\ IsInjective(wfree) => IsInjective(wfree') /\ cur' \notin Range(wfree')
<1>0. /\ wfree \in Seq(1 .. wmade) /\ wmade \in 2 .. MaxFileBufs
      /\ \A b \in Range(wfree) : b \in 1 .. wmade
  BY SMTT(40) DEF W!TypeOK, Range
<1>1. CASE wfree # <<>> /\ cur' = Head(wfree) /\ wfree' = Tail(wfree) /\ wmade' = wmade
  <2>1. PICK S : S = 1 .. wmade
    OBVIOUS
  <2>2. /\ Head(wfree) \in S /\ Tail(wfree) \in Seq(S)
        /\ ToSet(wfree) = {Head(wfree)} \cup ToSet(Tail(wfree))
        /\ IsInjective(wfree) => IsInjective(Tail(wfree)) /\ Head(wfree) \notin ToSet(Tail(wfree))
    <3>1. wfree \in Seq(S)
      BY <1>0, <2>1
    <3> QED
      BY <1>1, <3>1, PopFront
  <2>3. ToSet(wfree) = Range(wfree) /\ ToSet(Tail(wfree)) = Range(Tail(wfree))
    BY DEF ToSet, Range
  <2> QED
    BY <1>0, <1>1, <2>1, <2>2, <2>3 DEF W!NewBuf
<1>2. CASE wfree = <<>> /\ cur' = wmade + 1 /\ wmade' = wmade + 1 /\ wfree' = wfree
  BY <1>0, <1>2 DEF W!NewBuf, W!Bufs
<1> QED
  BY <1>1, <1>2 DEF W!NewBuf

\* What the types say of the buffers under a write, also when one more was made.
LEMMA IoTypes ==
  ASSUME W!TypeOK
  PROVE  /\ \A b : Writing(b) => b \in 0 .. wmade
         /\ \A b \in Range(wfree) : b \in 1 .. wmade
         /\ \A m \in Nat : wmade <= m => wio \in Seq([buf : 0 .. m, len : 0 .. BufSize])
<1>1. PICK R : R = [buf : 0 .. wmade, len : 0 .. BufSize]
  OBVIOUS
<1>2. wio \in Seq(R) /\ wfree \in Seq(1 .. wmade) /\ wmade \in Int
  BY <1>1 DEF W!TypeOK
<1>3. Len(wio) \in Nat /\ DOMAIN wio = 1 .. Len(wio) /\ \A i \in 1 .. Len(wio) : wio[i] \in R
  BY <1>2
<1>4. \A b : Writing(b) => b \in 0 .. wmade
  BY <1>1, <1>3 DEF Writing
<1>5. ASSUME NEW m \in Nat, wmade <= m PROVE wio \in Seq([buf : 0 .. m, len : 0 .. BufSize])
  <2>1. PICK Q : Q = [buf : 0 .. m, len : 0 .. BufSize]
    OBVIOUS
  <2>2. R \subseteq Q
    BY <1>1, <1>2, <1>5, <2>1
  <2>3. wio \in Seq(Q)
    BY <1>2, <1>3, <2>2
  <2> QED
    BY <2>1, <2>3
<1>6. \A b \in Range(wfree) : b \in 1 .. wmade
  BY <1>2 DEF Range
<1> QED
  BY <1>4, <1>5, <1>6

\* Steps after which the same buffers are free, written and filled.
LEMMA OwnedSame ==
  ASSUME WOwned, UNCHANGED <<wfree, wio, wmade>>, raced => raced', failed => failed',
         ~raced' => (Held' <=> Held) /\ (Held => cur' = cur)
  PROVE  WOwned'
BY DEF WOwned, Writing

LEMMA WImportInv == ASSUME W!WriterAssumption, WInv, NEW d \in Lengths, W!Import(d) PROVE WInv'
<1> USE DEF WInv, W!poolVars
<1>1. W!TypeOK'
  BY DEF W!Import, W!TypeOK, W!WriterAssumption
<1>2. WSteps'
  BY DEF W!Import, WSteps, W!TypeOK, W!WriterAssumption
<1>3. WQuiet'
  BY DEF W!Import, WQuiet
<1>4. WOwned'
  BY OwnedSame DEF W!Import, Held
<1> QED
  BY <1>1, <1>2, <1>3, <1>4

\* A buffer is taken, from the list or new.
LEMMA WFirstBufInv == ASSUME W!WriterAssumption, WInv, W!FirstBuf PROVE WInv'
<1> USE DEF WInv
<1>0. /\ wpc = "buf" /\ wpc' = "fits"
      /\ UNCHANGED <<opened, data, wio, wreqs, file, ui, len, taken, stops, raced, failed>>
  BY DEF W!FirstBuf
<1>1. CASE cur = 0 /\ W!NewBuf
  <2>1. /\ fill' = 0 /\ cur' \in 1 .. wmade' /\ wmade' \in 2 .. MaxFileBufs /\ wmade <= wmade'
        /\ wfree' \in Seq(1 .. wmade') /\ wmade \in 2 .. MaxFileBufs
        /\ \/ cur' \in Range(wfree) /\ Range(wfree) = {cur'} \cup Range(wfree') /\ wmade' = wmade
           \/ cur' = wmade + 1 /\ wmade' = wmade + 1 /\ wfree' = wfree
        /\ IsInjective(wfree) => IsInjective(wfree') /\ cur' \notin Range(wfree')
    BY <1>1, NewBufStep
  <2>2. W!TypeOK'
    <3>1. wio' \in Seq([buf : 0 .. wmade', len : 0 .. BufSize])
      BY <1>0, <2>1, IoTypes
    <3>2. cur' \in 0 .. wmade' /\ fill' \in 0 .. BufSize
      BY <2>1 DEF W!WriterAssumption
    <3> QED
      BY <1>0, <2>1, <3>1, <3>2 DEF W!TypeOK
  <2>3. WSteps'
    <3>1. data[cur'] \in Seq(1 .. MaxImports)
      BY SMTT(40), <2>1 DEF W!TypeOK, W!Bufs, W!WriterAssumption
    <3> QED
      BY <1>0, <2>1, <3>1 DEF WSteps
  <2>4. WQuiet'
    BY <1>0, <1>1, <2>1 DEF WQuiet
  <2>5. WOwned'
    <3> SUFFICES ASSUME ~raced PROVE WOwned'
      BY <1>0 DEF WOwned
    <3>1. ~Held /\ Held' /\ cur' # 0
      BY <1>0, <1>1, <2>1 DEF Held, WQuiet
    <3>2. \A b : Writing(b)' <=> Writing(b)
      BY <1>0 DEF Writing
    <3>3. \A b : Writing(b) => b \in 0 .. wmade
      BY IoTypes
    <3>4. \A b \in Range(wfree) : b \in 1 .. wmade
      BY DEF W!TypeOK, Range
    <3>5. /\ IsInjective(wfree') /\ cur' \notin Range(wfree') /\ ~Writing(cur')
          /\ \A b \in Range(wfree') : ~Writing(b)
      BY <2>1, <3>3, <3>4 DEF WOwned
    <3>6. ~failed => \A b \in 1 .. wmade' : b \in Range(wfree') \/ Writing(b) \/ b = cur'
      BY <2>1, <3>1 DEF WOwned
    <3> QED
      BY <1>0, <3>1, <3>2, <3>5, <3>6 DEF WOwned
  <2> QED
    BY <2>2, <2>3, <2>4, <2>5
<1>2. CASE cur # 0 /\ UNCHANGED <<cur, fill, wfree, wmade>>
  <2>1. W!TypeOK'
    BY <1>0, <1>2 DEF W!TypeOK
  <2>2. WSteps'
    BY <1>0, <1>2 DEF WSteps
  <2>3. WQuiet'
    BY <1>0, <1>2 DEF WQuiet
  <2>4. WOwned'
    BY <1>0, <1>2, OwnedSame DEF Held
  <2> QED
    BY <2>1, <2>2, <2>3, <2>4
<1> QED
  BY <1>1, <1>2 DEF W!FirstBuf, W!Null

LEMMA WFreshBufInv == ASSUME W!WriterAssumption, WInv, W!FreshBuf PROVE WInv'
<1> USE DEF WInv
<1>0. /\ wpc = "fresh" /\ wpc' = "copy" /\ W!NewBuf
      /\ UNCHANGED <<opened, data, wio, wreqs, file, ui, len, taken, stops, raced, failed>>
  BY DEF W!FreshBuf
<1>1. /\ fill' = 0 /\ cur' \in 1 .. wmade' /\ wmade' \in 2 .. MaxFileBufs /\ wmade <= wmade'
      /\ wfree' \in Seq(1 .. wmade') /\ wmade \in 2 .. MaxFileBufs
      /\ \/ cur' \in Range(wfree) /\ Range(wfree) = {cur'} \cup Range(wfree') /\ wmade' = wmade
         \/ cur' = wmade + 1 /\ wmade' = wmade + 1 /\ wfree' = wfree
      /\ IsInjective(wfree) => IsInjective(wfree') /\ cur' \notin Range(wfree')
  BY <1>0, NewBufStep
<1>2. W!TypeOK'
  <2>1. wio' \in Seq([buf : 0 .. wmade', len : 0 .. BufSize])
    BY <1>0, <1>1, IoTypes
  <2>2. cur' \in 0 .. wmade' /\ fill' \in 0 .. BufSize
    BY <1>1 DEF W!WriterAssumption
  <2> QED
    BY <1>0, <1>1, <2>1, <2>2 DEF W!TypeOK
<1>3. WSteps'
  <2>1. data[cur'] \in Seq(1 .. MaxImports)
    BY SMTT(40), <1>1 DEF W!TypeOK, W!Bufs, W!WriterAssumption
  <2>2. len \in 1 .. BufSize /\ BufSize \in Nat
    BY <1>0 DEF WSteps, W!WriterAssumption
  <2> QED
    BY <1>0, <1>1, <2>1, <2>2 DEF WSteps
<1>4. WQuiet'
  BY <1>0, <1>1 DEF WQuiet
<1>5. WOwned'
  <2> SUFFICES ASSUME ~raced PROVE WOwned'
    BY <1>0 DEF WOwned
  <2>1. ~Held /\ Held' /\ cur' # 0
    BY <1>0, <1>1 DEF Held, WQuiet
  <2>2. \A b : Writing(b)' <=> Writing(b)
    BY <1>0 DEF Writing
  <2>3. \A b : Writing(b) => b \in 0 .. wmade
    BY IoTypes
  <2>4. \A b \in Range(wfree) : b \in 1 .. wmade
    BY DEF W!TypeOK, Range
  <2>5. /\ IsInjective(wfree') /\ cur' \notin Range(wfree') /\ ~Writing(cur')
        /\ \A b \in Range(wfree') : ~Writing(b)
    BY <1>1, <2>3, <2>4 DEF WOwned
  <2>6. ~failed => \A b \in 1 .. wmade' : b \in Range(wfree') \/ Writing(b) \/ b = cur'
    BY <1>1, <2>1 DEF WOwned
  <2> QED
    BY <1>0, <2>1, <2>2, <2>5, <2>6 DEF WOwned
<1> QED
  BY <1>2, <1>3, <1>4, <1>5

\* A write: the buffer that was filled is under it, or it failed.
LEMMA WrittenOwned ==
  ASSUME WInv, ~raced => Held, ~Held', UNCHANGED <<wfree, wmade, raced>>, failed => failed',
         \/ wio' = Append(wio, [buf |-> cur, len |-> fill]) /\ failed' = failed
         \/ wio' = wio /\ failed'
  PROVE  WOwned'
<1> USE DEF WInv
<1> SUFFICES ASSUME ~raced PROVE WOwned'
  BY DEF WOwned
<1>0. Held /\ cur # 0
  BY DEF Held
<1>1. CASE wio' = Append(wio, [buf |-> cur, len |-> fill]) /\ failed' = failed
  <2>1. /\ Len(wio) \in Nat /\ DOMAIN wio = 1 .. Len(wio) /\ DOMAIN wio' = 1 .. Len(wio) + 1
        /\ wio'[Len(wio) + 1].buf = cur /\ \A i \in 1 .. Len(wio) : wio'[i] = wio[i]
    BY <1>1 DEF W!TypeOK
  <2>2. \A b : Writing(b)' <=> Writing(b) \/ b = cur
    BY <2>1 DEF Writing
  <2>3. \A i \in 1 .. Len(wio) : wio[i].buf # cur
    BY <1>0, <2>1 DEF WOwned, Writing
  <2>4. \A i, j \in DOMAIN wio' : wio'[i].buf = wio'[j].buf => i = j
    <3>1. \A i, j \in 1 .. Len(wio) : wio[i].buf = wio[j].buf => i = j
      BY <2>1 DEF WOwned
    <3> QED
      BY <2>1, <2>3, <3>1
  <2> QED
    BY <1>0, <1>1, <2>2, <2>4 DEF WOwned
<1>2. CASE wio' = wio /\ failed'
  BY <1>2 DEF WOwned, Writing
<1> QED
  BY <1>1, <1>2

\* The buffer is full and goes to the system.
LEMMA WWriteFullInv == ASSUME W!WriterAssumption, WInv, W!WriteFull PROVE WInv'
<1> USE DEF WInv
<1>0. wpc = "fits" /\ UNCHANGED <<opened, cur, fill, data, wfree, wmade, ui, len, taken, stops, raced>>
  BY DEF W!WriteFull
<1>1. CASE fill + len <= BufSize /\ wpc' = "copy" /\ UNCHANGED <<wreqs, wio, file, failed>>
  <2>1. W!TypeOK'
    BY <1>0, <1>1 DEF W!TypeOK
  <2>2. WSteps'
    BY <1>0, <1>1 DEF WSteps
  <2>3. WQuiet'
    BY <1>0, <1>1 DEF WQuiet
  <2>4. WOwned'
    BY <1>0, <1>1, OwnedSame DEF Held
  <2> QED
    BY <2>1, <2>2, <2>3, <2>4
<1>2. CASE wpc' = "fresh" /\ W!WriteFile(cur, fill)
  <2>1. /\ wio' \in Seq([buf : 0 .. wmade, len : 0 .. BufSize])
        /\ wreqs' \in [made : Nat, free : Nat] /\ file' \in Seq(1 .. MaxImports) /\ failed' \in BOOLEAN
        /\ failed => failed'
        /\ \/ wio' = Append(wio, [buf |-> cur, len |-> fill]) /\ failed' = failed
           \/ wio' = wio /\ failed'
    BY <1>2, WriteStep
  <2>2. W!TypeOK'
    BY <1>0, <1>2, <2>1 DEF W!TypeOK
  <2>3. WSteps'
    BY <1>0, <1>2 DEF WSteps
  <2>4. WQuiet'
    BY <1>0, <1>2 DEF WQuiet
  <2>5. (~raced => Held) /\ ~Held'
    BY <1>0, <1>2 DEF Held, WQuiet
  <2>6. WOwned'
    BY <1>0, <2>1, <2>5, WrittenOwned
  <2> QED
    BY <2>2, <2>3, <2>4, <2>6
<1> QED
  BY <1>1, <1>2 DEF W!WriteFull, W!Fits

LEMMA WCopyInv == ASSUME W!WriterAssumption, WInv, W!Copy PROVE WInv'
<1> USE DEF WInv, W!poolVars
<1>0. wpc = "copy" /\ UNCHANGED <<opened, cur, fill, W!poolVars, ui, len, taken, stops, raced, failed>>
  BY DEF W!Copy
<1>1. CASE cur = 0 /\ wpc' = "crash" /\ UNCHANGED data
  <2>1. W!TypeOK'
    BY <1>0, <1>1 DEF W!TypeOK
  <2>2. WSteps'
    BY <1>0, <1>1 DEF WSteps
  <2>3. WQuiet' /\ raced
    BY <1>0, <1>1 DEF WQuiet
  <2>4. WOwned'
    BY <1>0, <2>3 DEF WOwned
  <2> QED
    BY <2>1, <2>2, <2>3, <2>4
<1>2. CASE /\ cur # 0 /\ wpc' = "grow"
           /\ data' = [data EXCEPT ![cur] = SubSeq(@, 1, fill) \o [i \in 1 .. len |-> taken]]
  <2>0. /\ cur \in W!Bufs /\ data \in [W!Bufs -> Seq(1 .. MaxImports)] /\ fill \in Nat /\ len \in Nat
        /\ taken \in 1 .. MaxImports /\ fill <= Len(data[cur])
    <3>1. BufSize \in Nat /\ MaxFileBufs \in Nat /\ MaxImports \in Nat
      BY DEF W!WriterAssumption
    <3> QED
      BY <1>0, <1>2, <3>1 DEF W!TypeOK, W!Bufs, WSteps
  <2>1. data[cur] \in Seq(1 .. MaxImports) /\ fill \in Nat /\ fill <= Len(data[cur])
    BY <2>0
  <2>2. SubSeq(data[cur], 1, fill) \in Seq(1 .. MaxImports) /\ Len(SubSeq(data[cur], 1, fill)) = fill
    <3>1. PICK S : S = 1 .. MaxImports
      OBVIOUS
    <3>2. data[cur] \in Seq(S)
      BY <2>1, <3>1
    <3>3. SubSeq(data[cur], 1, fill) \in Seq(S) /\ Len(SubSeq(data[cur], 1, fill)) = fill
      BY <2>1, <3>2, FirstPart
    <3> QED
      BY <3>1, <3>3
  <2>3. [i \in 1 .. len |-> taken] \in Seq(1 .. MaxImports) /\ Len([i \in 1 .. len |-> taken]) = len
    BY <2>0
  <2>4. /\ SubSeq(data[cur], 1, fill) \o [i \in 1 .. len |-> taken] \in Seq(1 .. MaxImports)
        /\ Len(SubSeq(data[cur], 1, fill) \o [i \in 1 .. len |-> taken]) = fill + len
    BY <2>0, <2>2, <2>3
  <2>5. data' \in [W!Bufs -> Seq(1 .. MaxImports)] /\ Len(data'[cur]) = fill + len
    BY <1>2, <2>0, <2>4
  <2>6. W!TypeOK'
    BY <1>0, <1>2, <2>5 DEF W!TypeOK
  <2>7. WSteps'
    BY <1>0, <1>2, <2>0, <2>5 DEF WSteps
  <2>8. WQuiet'
    BY <1>0, <1>2 DEF WQuiet
  <2>9. WOwned'
    BY <1>0, <1>2, OwnedSame DEF Held
  <2> QED
    BY <2>6, <2>7, <2>8, <2>9
<1> QED
  BY <1>1, <1>2 DEF W!Copy, W!Null

LEMMA WGrowInv == ASSUME W!WriterAssumption, WInv, W!Grow PROVE WInv'
<1> USE DEF WInv, W!poolVars
<1>0. /\ wpc = "grow" /\ wpc' = "idle" /\ fill' = fill + len
      /\ UNCHANGED <<opened, cur, data, W!poolVars, ui, len, taken, stops, raced, failed>>
  BY DEF W!Grow
<1>1. fill \in Nat /\ len \in 1 .. BufSize /\ BufSize \in Nat /\ fill + len <= BufSize
  BY <1>0 DEF W!TypeOK, WSteps, W!WriterAssumption
<1>2. W!TypeOK'
  BY <1>0, <1>1 DEF W!TypeOK
<1>3. WSteps'
  BY <1>0 DEF WSteps
<1>4. WQuiet'
  BY <1>0, <1>1 DEF WQuiet
<1>5. WOwned'
  BY <1>0, OwnedSame DEF Held
<1> QED
  BY <1>2, <1>3, <1>4, <1>5

LEMMA WFlushInv == ASSUME W!WriterAssumption, WInv, W!Flush PROVE WInv'
<1> USE DEF WInv, W!poolVars
<1>0. /\ ui = "idle" /\ ui' = IF fill > 0 THEN "write" ELSE "null"
      /\ raced' = (raced \/ wpc # "idle")
      /\ UNCHANGED <<opened, cur, fill, data, W!poolVars, wpc, len, taken, failed>>
  BY DEF W!Flush
<1>1. W!TypeOK'
  <2>1. stops' \in 0 .. MaxStops /\ raced' \in BOOLEAN /\ ui' \in {"idle", "write", "null", "zero"}
    BY <1>0 DEF W!Flush, W!TypeOK, W!WriterAssumption
  <2> QED
    BY <1>0, <2>1 DEF W!TypeOK
<1>2. WSteps'
  BY <1>0 DEF WSteps
<1>3. WQuiet'
  BY <1>0 DEF WQuiet, W!TypeOK
<1>4. WOwned'
  <2>1. ~raced' => (Held' <=> Held)
    <3>1. CASE fill > 0
      BY <1>0, <3>1 DEF Held
    <3>2. CASE ~(fill > 0)
      BY <1>0, <3>2 DEF Held, WQuiet, W!TypeOK
    <3> QED
      BY <3>1, <3>2
  <2> QED
    BY <1>0, <2>1, OwnedSame
<1> QED
  BY <1>1, <1>2, <1>3, <1>4

LEMMA WFlushWriteInv == ASSUME W!WriterAssumption, WInv, W!FlushWrite PROVE WInv'
<1> USE DEF WInv
<1>0. /\ ui = "write" /\ ui' = "null" /\ W!WriteFile(cur, fill)
      /\ UNCHANGED <<opened, cur, fill, data, wfree, wmade, wpc, len, taken, stops, raced>>
  BY DEF W!FlushWrite
<1>1. /\ wio' \in Seq([buf : 0 .. wmade, len : 0 .. BufSize])
      /\ wreqs' \in [made : Nat, free : Nat] /\ file' \in Seq(1 .. MaxImports) /\ failed' \in BOOLEAN
      /\ failed => failed'
      /\ \/ wio' = Append(wio, [buf |-> cur, len |-> fill]) /\ failed' = failed
         \/ wio' = wio /\ failed'
  BY <1>0, WriteStep
<1>2. W!TypeOK'
  BY <1>0, <1>1 DEF W!TypeOK
<1>3. WSteps'
  BY <1>0 DEF WSteps
<1>4. WQuiet'
  BY <1>0 DEF WQuiet
<1>5. (~raced => Held) /\ ~Held'
  BY <1>0 DEF Held, WQuiet
<1>6. WOwned'
  BY <1>0, <1>1, <1>5, WrittenOwned
<1> QED
  BY <1>2, <1>3, <1>4, <1>6

LEMMA WFlushEndInv == ASSUME W!WriterAssumption, WInv, W!FlushNull \/ W!FlushZero \/ W!Close PROVE WInv'
<1> USE DEF WInv, W!poolVars
<1>1. CASE W!FlushNull
  <2>1. W!TypeOK' /\ WSteps' /\ WQuiet'
    BY <1>1 DEF W!FlushNull, W!TypeOK, WSteps, WQuiet, W!Null
  <2>2. ~Held /\ ~Held'
    BY <1>1 DEF W!FlushNull, Held, W!Null
  <2>3. WOwned'
    BY <1>1, <2>2, OwnedSame DEF W!FlushNull
  <2> QED
    BY <2>1, <2>3
<1>2. CASE W!FlushZero
  <2>0. BufSize \in Nat
    BY DEF W!WriterAssumption
  <2>1. W!TypeOK' /\ WQuiet'
    BY <1>2, <2>0 DEF W!FlushZero, W!TypeOK, WQuiet
  <2>2. WSteps'
    <3>1. wpc \in {"copy", "grow"} => len \in 1 .. BufSize /\ 0 + len <= BufSize
      <4>1. wpc \in {"copy", "grow"} => len \in Lengths
        BY DEF WSteps
      <4>2. \A x \in Lengths : x \in 1 .. BufSize /\ 0 + x <= BufSize
        BY <2>0 DEF W!WriterAssumption
      <4> QED
        BY <4>1, <4>2
    <3>2. cur # 0 => Len(data[cur]) \in Nat
      <4>1. cur # 0 => cur \in W!Bufs
        BY DEF W!TypeOK, W!Bufs, W!WriterAssumption
      <4>2. cur # 0 => data[cur] \in Seq(1 .. MaxImports)
        BY <4>1 DEF W!TypeOK
      <4> QED
        BY <4>2
    <3>3. fill \in Nat /\ (wpc = "grow" => len \in Nat)
      BY <2>0, <3>1 DEF W!TypeOK
    <3> QED
      BY <1>2, <3>1, <3>2, <3>3 DEF W!FlushZero, WSteps
  <2>3. ~raced => (Held' <=> Held)
    BY <1>2 DEF W!FlushZero, Held, WQuiet
  <2>4. WOwned'
    BY <1>2, <2>3, OwnedSame DEF W!FlushZero
  <2> QED
    BY <2>1, <2>2, <2>4
<1>3. CASE W!Close
  <2>1. W!TypeOK' /\ WSteps' /\ WQuiet'
    BY <1>3 DEF W!Close, W!TypeOK, WSteps, WQuiet
  <2>2. Held' <=> Held
    BY <1>3 DEF W!Close, Held
  <2>3. WOwned'
    BY <1>3, <2>2, OwnedSame DEF W!Close
  <2> QED
    BY <2>1, <2>3
<1> QED
  BY <1>1, <1>2, <1>3

\* A write is complete: its buffer goes back to the list.
LEMMA WWriteDoneInv == ASSUME W!WriterAssumption, WInv, NEW i \in DOMAIN wio, W!WriteDone(i) PROVE WInv'
<1> USE DEF WInv
<1>0. /\ wfree' = IF wio[i].buf = 0 THEN wfree ELSE Append(wfree, wio[i].buf)
      /\ wreqs' = [wreqs EXCEPT !.free = @ + 1] /\ wio' = RemoveAt(wio, i)
      /\ UNCHANGED <<opened, cur, fill, data, wmade, file, wpc, ui, len, taken, stops, raced, failed>>
  BY DEF W!WriteDone, W!Null, RemoveAt, W!RemoveAt
<1>1. PICK R : R = [buf : 0 .. wmade, len : 0 .. BufSize]
  OBVIOUS
<1>2. /\ wio \in Seq(R) /\ Len(wio) \in Nat /\ DOMAIN wio = 1 .. Len(wio) /\ i \in 1 .. Len(wio) /\ wio[i] \in R
      /\ wmade \in Int /\ wio[i].buf \in 0 .. wmade
  <2>1. wio \in Seq(R)
    BY <1>1 DEF W!TypeOK
  <2>2. Len(wio) \in Nat /\ DOMAIN wio = 1 .. Len(wio) /\ i \in 1 .. Len(wio) /\ wio[i] \in R
    BY <2>1
  <2> QED
    BY <1>1, <2>1, <2>2 DEF W!TypeOK
<1>3. /\ wio' \in Seq(R) /\ Len(wio') = Len(wio) - 1 /\ DOMAIN wio' = 1 .. Len(wio) - 1
      /\ \A k \in 1 .. Len(wio) - 1 : wio'[k] = IF k < i THEN wio[k] ELSE wio[k + 1]
  <2>1. /\ RemoveAt(wio, i) \in Seq(R) /\ Len(RemoveAt(wio, i)) = Len(wio) - 1
        /\ \A k \in 1 .. Len(wio) - 1 : RemoveAt(wio, i)[k] = IF k < i THEN wio[k] ELSE wio[k + 1]
    BY <1>2, Removed
  <2>2. wio' \in Seq(R) /\ Len(wio') = Len(wio) - 1
    BY <1>0, <2>1
  <2>3. DOMAIN wio' = 1 .. Len(wio')
    BY <2>2
  <2> QED
    BY <1>0, <2>1, <2>2, <2>3
<1>4. W!TypeOK'
  <2>1. wreqs' \in [made : Nat, free : Nat]
    <3>1. wreqs \in [made : Nat, free : Nat]
      BY DEF W!TypeOK
    <3> QED
      BY <1>0, <3>1
  <2>2. wfree' \in Seq(1 .. wmade')
    <3>1. wio[i].buf # 0 => wio[i].buf \in 1 .. wmade
      BY <1>2
    <3>2. wfree \in Seq(1 .. wmade)
      BY DEF W!TypeOK
    <3>3. CASE wio[i].buf = 0
      BY <1>0, <3>2, <3>3
    <3>4. CASE wio[i].buf # 0
      BY <1>0, <3>1, <3>2, <3>4
    <3> QED
      BY <3>3, <3>4
  <2>3. wio' \in Seq([buf : 0 .. wmade', len : 0 .. BufSize])
    BY <1>0, <1>1, <1>3
  <2> QED
    BY <1>0, <2>1, <2>2, <2>3 DEF W!TypeOK
<1>5. WSteps' /\ WQuiet'
  BY <1>0 DEF WSteps, WQuiet
<1>6. ASSUME ~raced PROVE WOwned'
  <2>0. PICK b : b = wio[i].buf
    OBVIOUS
  <2>1. /\ IsInjective(wfree) /\ \A j, k \in DOMAIN wio : wio[j].buf = wio[k].buf => j = k
        /\ \A c \in Range(wfree) : ~Writing(c)
        /\ Held => cur \notin Range(wfree) /\ ~Writing(cur)
        /\ ~Writing(0)
        /\ ~failed => \A c \in 1 .. wmade : c \in Range(wfree) \/ Writing(c) \/ (Held /\ c = cur)
    BY <1>6 DEF WOwned
  <2>2. Writing(b) /\ b # 0 /\ b \notin Range(wfree)
    BY <2>0, <2>1 DEF Writing
  <2>3. wfree' = Append(wfree, b)
    BY <1>0, <2>0, <2>2
  <2>4. b \in 1 .. wmade
    BY <1>2, <2>0, <2>2
  <2>5. Range(wfree') = Range(wfree) \cup {b} /\ IsInjective(wfree')
    <3>1. PICK S : S = 1 .. wmade
      OBVIOUS
    <3>2. wfree \in Seq(S) /\ b \in S
      BY <2>4, <3>1 DEF W!TypeOK
    <3>3. ToSet(wfree) = Range(wfree)
      BY DEF ToSet, Range
    <3>4. Range(Append(wfree, b)) = Range(wfree) \cup {b}
      BY <3>2, RangePush
    <3>5. IsInjective(Append(wfree, b))
      BY <2>1, <2>2, <3>2, <3>3, PushBack
    <3> QED
      BY <2>3, <3>4, <3>5
  <2>6. \A c : Writing(c)' <=> Writing(c) /\ c # b
    <3>1. ASSUME NEW k \in 1 .. Len(wio) - 1 PROVE Writing(wio'[k].buf) /\ wio'[k].buf # b
      <4>1. CASE k < i
        <5>1. k \in DOMAIN wio /\ k # i /\ wio'[k] = wio[k]
          BY <1>2, <1>3, <4>1
        <5> QED
          BY <1>2, <2>0, <2>1, <5>1 DEF Writing
      <4>2. CASE ~(k < i)
        <5>1. k + 1 \in DOMAIN wio /\ k + 1 # i /\ wio'[k] = wio[k + 1]
          BY <1>2, <1>3, <4>2
        <5> QED
          BY <1>2, <2>0, <2>1, <5>1 DEF Writing
      <4> QED
        BY <4>1, <4>2
    <3>2. ASSUME NEW k \in 1 .. Len(wio), k # i, NEW c, c = wio[k].buf PROVE Writing(c)'
      <4>1. CASE k < i
        <5>1. k \in DOMAIN wio' /\ wio'[k].buf = c
          BY <1>2, <1>3, <3>2, <4>1
        <5> QED
          BY <5>1 DEF Writing
      <4>2. CASE ~(k < i)
        <5>1. k - 1 \in DOMAIN wio' /\ (k - 1) + 1 = k /\ ~(k - 1 < i)
          BY <1>2, <1>3, <3>2, <4>2
        <5>2. wio'[k - 1].buf = c
          BY <1>3, <3>2, <5>1
        <5> QED
          BY <5>1, <5>2 DEF Writing
      <4> QED
        BY <4>1, <4>2
    <3>3. ASSUME NEW c, Writing(c)' PROVE Writing(c) /\ c # b
      <4>1. PICK k \in 1 .. Len(wio) - 1 : wio'[k].buf = c
        BY <1>3, <3>3 DEF Writing
      <4> QED
        BY <3>1, <4>1
    <3>4. ASSUME NEW c, Writing(c), c # b PROVE Writing(c)'
      <4>1. PICK k \in 1 .. Len(wio) : wio[k].buf = c
        BY <1>2, <3>4 DEF Writing
      <4> QED
        BY <2>0, <3>2, <3>4, <4>1
    <3> QED
      BY <3>3, <3>4
  <2>7. \A j, k \in DOMAIN wio' : wio'[j].buf = wio'[k].buf => j = k
    <3> SUFFICES ASSUME NEW j \in 1 .. Len(wio) - 1, NEW k \in 1 .. Len(wio) - 1, wio'[j].buf = wio'[k].buf
                 PROVE j = k
      BY <1>3
    <3>0. ASSUME NEW m \in 1 .. Len(wio) - 1
          PROVE  \E x \in 1 .. Len(wio) : wio'[m] = wio[x] /\ x = IF m < i THEN m ELSE m + 1
      <4>1. CASE m < i
        <5>1. m \in 1 .. Len(wio) /\ wio'[m] = wio[m]
          BY <1>2, <1>3, <4>1
        <5> QED
          BY <4>1, <5>1
      <4>2. CASE ~(m < i)
        <5>1. m + 1 \in 1 .. Len(wio) /\ wio'[m] = wio[m + 1]
          BY <1>2, <1>3, <4>2
        <5> QED
          BY <4>2, <5>1
      <4> QED
        BY <4>1, <4>2
    <3>1. PICK x \in 1 .. Len(wio) : wio'[j] = wio[x] /\ x = IF j < i THEN j ELSE j + 1
      BY <3>0
    <3>2. PICK y \in 1 .. Len(wio) : wio'[k] = wio[y] /\ y = IF k < i THEN k ELSE k + 1
      BY <3>0
    <3>3. x = y
      BY <1>2, <2>1, <3>1, <3>2
    <3> QED
      BY <1>2, <3>1, <3>2, <3>3
  <2>8. Held' <=> Held
    BY <1>0 DEF Held
  <2>9. Held => cur # b
    BY <2>1, <2>2
  <2> QED
    BY <1>0, <2>1, <2>5, <2>6, <2>7, <2>8, <2>9 DEF WOwned
<1>7. WOwned'
  BY <1>0, <1>6 DEF WOwned
<1> QED
  BY <1>4, <1>5, <1>7

\* The initial states.
LEMMA WInitInv == ASSUME W!WriterAssumption, W!Init PROVE WInv
<1>0. /\ opened = TRUE /\ cur = 0 /\ fill = 0 /\ data = [b \in W!Bufs |-> <<>>]
      /\ wmade = 2 /\ 2 <= MaxFileBufs /\ wfree = [b \in 1 .. wmade |-> b]
      /\ wreqs = [made |-> 1, free |-> 1] /\ wio = <<>> /\ file = <<>>
      /\ wpc = "idle" /\ ui = "idle" /\ len = 0 /\ taken = 0 /\ stops = 0 /\ raced = FALSE /\ failed = FALSE
  BY DEF W!Init, W!Null
<1>1. BufSize \in Nat /\ MaxFileBufs \in Nat /\ MaxImports \in Nat /\ MaxStops \in Nat
  BY DEF W!WriterAssumption
<1>2. wfree \in Seq(1 .. wmade) /\ DOMAIN wfree = 1 .. 2 /\ \A i \in 1 .. 2 : wfree[i] = i
  BY <1>0
<1>3. W!TypeOK
  <2>1. data \in [W!Bufs -> Seq(1 .. MaxImports)] /\ wreqs \in [made : Nat, free : Nat]
    BY <1>0
  <2>2. wio \in Seq([buf : 0 .. wmade, len : 0 .. BufSize]) /\ file \in Seq(1 .. MaxImports)
    BY <1>0
  <2>3. wmade \in 2 .. MaxFileBufs /\ cur \in 0 .. wmade /\ fill \in 0 .. BufSize /\ len \in 0 .. BufSize
        /\ taken \in 0 .. MaxImports /\ stops \in 0 .. MaxStops
    BY <1>0, <1>1
  <2> QED
    BY <1>0, <1>2, <2>1, <2>2, <2>3 DEF W!TypeOK
<1>4. WSteps /\ WQuiet
  BY <1>0 DEF WSteps, WQuiet
<1>5. WOwned
  <2>1. \A b : ~Writing(b)
    BY <1>0 DEF Writing
  <2>2. IsInjective(wfree) /\ \A b \in 1 .. wmade : b \in Range(wfree)
    BY <1>0, <1>2 DEF IsInjective, Range
  <2> QED
    BY <1>0, <2>1, <2>2 DEF WOwned, Held
<1> QED
  BY <1>3, <1>4, <1>5 DEF WInv

\* The invariant of the writer.
LEMMA WriterInvariant == ASSUME W!WriterAssumption PROVE W!Spec => []WInv
<1>1. ASSUME WInv, [W!Next]_(W!vars) PROVE WInv'
  <2>1. CASE W!ImportData
    BY <1>1, <2>1, WImportInv, WFirstBufInv, WWriteFullInv, WFreshBufInv, WCopyInv, WGrowInv DEF W!ImportData
  <2>2. CASE W!Dialog
    BY <1>1, <2>2, WFlushInv, WFlushWriteInv, WFlushEndInv DEF W!Dialog
  <2>3. ASSUME NEW i \in DOMAIN wio, W!WriteDone(i) PROVE WInv'
    BY <1>1, <2>3, WWriteDoneInv
  <2>4. CASE UNCHANGED W!vars
    <3>1. UNCHANGED <<opened, cur, fill, data, wfree, wmade, wio, wreqs, file, wpc, ui, len, taken, stops,
                      raced, failed>>
      BY <2>4 DEF W!vars, W!poolVars
    <3>2. W!TypeOK'
      BY <1>1, <3>1 DEF WInv, W!TypeOK
    <3>3. WSteps' /\ WQuiet'
      BY <1>1, <3>1 DEF WInv, WSteps, WQuiet
    <3>4. WOwned'
      BY <1>1, <3>1 DEF WInv, WOwned, Held, Writing
    <3> QED
      BY <3>2, <3>3, <3>4 DEF WInv
  <2> QED
    BY <1>1, <2>1, <2>2, <2>3, <2>4 DEF W!Next
<1>2. W!Init => WInv
  BY WInitInv
<1> QED
  BY <1>1, <1>2, PTL DEF W!Spec

\* The three parts that BufsOwned puts together are without duplicates, and disjoint.
LEMMA OwnedBufs == ASSUME WInv PROVE W!BufsOwned
<1> DEFINE q == [i \in DOMAIN wio |-> wio[i].buf]
<1> DEFINE last == IF cur # 0 /\ wpc # "fresh" /\ ui # "null" THEN <<cur>> ELSE <<>>
<1> DEFINE own == wfree \o q \o last
<1> SUFFICES ASSUME ~raced PROVE W!IsInjective(own) /\ (~failed => W!Range(own) = 1 .. wmade)
  BY DEF W!BufsOwned, W!Null
<1>1. PICK S : S = 0 .. wmade
  OBVIOUS
<1>2. /\ wfree \in Seq(S) /\ q \in Seq(S) /\ last \in Seq(S)
  <2>1. PICK R : R = [buf : 0 .. wmade, len : 0 .. BufSize]
    OBVIOUS
  <2>2. wio \in Seq(R)
    BY <2>1 DEF WInv, W!TypeOK
  <2>3. q \in Seq(S)
    <3>1. Len(wio) \in Nat /\ DOMAIN wio = 1 .. Len(wio) /\ \A i \in 1 .. Len(wio) : wio[i] \in R
      BY <2>2
    <3>2. \A i \in 1 .. Len(wio) : wio[i].buf \in S
      BY <1>1, <2>1, <3>1
    <3> QED
      BY <3>1, <3>2
  <2>4. wfree \in Seq(S)
    <3>1. wfree \in Seq(1 .. wmade) /\ 1 .. wmade \subseteq S
      BY <1>1 DEF WInv, W!TypeOK
    <3>2. Len(wfree) \in Nat /\ DOMAIN wfree = 1 .. Len(wfree) /\ \A i \in 1 .. Len(wfree) : wfree[i] \in S
      <4>1. PICK T : T = 1 .. wmade
        OBVIOUS
      <4>2. PICK w : w = wfree
        OBVIOUS
      <4>3. w \in Seq(T)
        BY <3>1, <4>1, <4>2
      <4>4. Len(w) \in Nat /\ DOMAIN w = 1 .. Len(w) /\ \A i \in 1 .. Len(w) : w[i] \in T
        BY <4>3
      <4> QED
        BY <3>1, <4>1, <4>2, <4>4
    <3>3. wfree = [i \in 1 .. Len(wfree) |-> wfree[i]]
      BY <3>1, <3>2
    <3> QED
      BY <3>2, <3>3
  <2>5. cur \in S
    BY <1>1 DEF WInv, W!TypeOK
  <2> QED
    BY <2>3, <2>4, <2>5
<1>3. \A b : b \in ToSet(q) <=> Writing(b)
  BY DEF ToSet, Writing
<1>4. \A b : b \in ToSet(last) <=> Held /\ b = cur
  BY DEF ToSet, Held
<1>5. /\ IsInjective(wfree) /\ IsInjective(q) /\ IsInjective(last)
      /\ ToSet(wfree) = Range(wfree)
  <2>1. \A i, j \in DOMAIN wio : wio[i].buf = wio[j].buf => i = j
    BY DEF WInv, WOwned
  <2>2. IsInjective(q) /\ IsInjective(last)
    BY <2>1 DEF IsInjective
  <2> QED
    BY <2>2 DEF WInv, WOwned, ToSet, Range
<1> HIDE DEF q, last
<1>6. ToSet(wfree) \cap ToSet(q) = {} /\ (ToSet(wfree) \cup ToSet(q)) \cap ToSet(last) = {}
  BY <1>3, <1>4, <1>5 DEF WInv, WOwned
<1>7. wfree \o q \in Seq(S) /\ ToSet(wfree \o q) = ToSet(wfree) \cup ToSet(q) /\ IsInjective(wfree \o q)
  BY <1>2, <1>5, <1>6, PushList
<1>8. ToSet(own) = ToSet(wfree) \cup ToSet(q) \cup ToSet(last) /\ IsInjective(own)
  <2>1. PICK s : s = wfree \o q
    OBVIOUS
  <2>2. s \in Seq(S) /\ IsInjective(s) /\ ToSet(s) \cap ToSet(last) = {} /\ ToSet(s) = ToSet(wfree) \cup ToSet(q)
    BY <1>6, <1>7, <2>1
  <2>3. ToSet(s \o last) = ToSet(s) \cup ToSet(last) /\ IsInjective(s \o last)
    BY <1>2, <1>5, <2>2, PushList
  <2> QED
    BY <2>1, <2>2, <2>3
<1>9. ASSUME ~failed PROVE ToSet(own) = 1 .. wmade
  <2>1. \A b \in 1 .. wmade : b \in Range(wfree) \/ Writing(b) \/ (Held /\ b = cur)
    BY <1>9 DEF WInv, WOwned
  <2>2. \A b : Writing(b) => b \in 1 .. wmade
    <3>1. \A b : Writing(b) => b \in 0 .. wmade /\ b # 0
      BY IoTypes DEF WInv, WOwned
    <3> QED
      BY <3>1 DEF WInv, W!TypeOK
  <2>3. Held => cur \in 1 .. wmade
    BY DEF WInv, W!TypeOK, Held
  <2>4. \A b \in Range(wfree) : b \in 1 .. wmade
    BY IoTypes DEF WInv
  <2> QED
    BY <1>3, <1>4, <1>5, <1>8, <2>1, <2>2, <2>3, <2>4
<1>10. W!IsInjective(own) /\ W!Range(own) = ToSet(own)
  <2> HIDE DEF own
  <2> QED
    BY <1>8 DEF W!IsInjective, IsInjective, W!Range, ToSet
<1> QED
  BY <1>9, <1>10

\* Where the units of datagram t are.
UnitsOf(r, t) == {i \in DOMAIN r : r[i] = t}

IsAll(q, t) == \A i \in DOMAIN q : q[i] = t
Ordered(s) == \A i, j \in DOMAIN s : i < j => s[i] <= s[j]

\* Data of one more datagram, number t with l units, behind what is there.
LEMMA OneMoreDatagram ==
  ASSUME NEW s \in Seq(Nat), NEW t \in Nat \ {0}, NEW p \in Nat, p = t - 1, ToSet(s) = 1 .. p, Ordered(s),
         NEW q \in Seq(Nat), Len(q) > 0, IsAll(q, t)
  PROVE  /\ ToSet(s \o q) = 1 .. t
         /\ Ordered(s \o q)
         /\ Cardinality(UnitsOf(s \o q, t)) = Len(q)
<1>1. PICK r : r = s \o q
  OBVIOUS
<1>2. PICK l \in Nat \ {0} : l = Len(q) /\ \A i \in 1 .. l : q[i] = t
  <2>1. Len(q) \in Nat /\ DOMAIN q = 1 .. Len(q)
    OBVIOUS
  <2>2. \A i \in 1 .. Len(q) : q[i] = t
    BY <2>1 DEF IsAll
  <2>3. PICK l : l = Len(q)
    OBVIOUS
  <2>4. l \in Nat \ {0} /\ \A i \in 1 .. l : q[i] = t
    BY <2>1, <2>2, <2>3
  <2> QED
    BY <2>3, <2>4
<1>3. Len(s) \in Nat /\ DOMAIN s = 1 .. Len(s) /\ \A i \in 1 .. Len(s) : s[i] \in Nat
  OBVIOUS
<1>4. /\ r \in Seq(Nat) /\ Len(r) = Len(s) + l
      /\ \A i \in 1 .. Len(s) + l : r[i] = IF i <= Len(s) THEN s[i] ELSE q[i - Len(s)]
  <2>1. r = s \o q
    BY <1>1
  <2>2. /\ s \o q \in Seq(Nat) /\ Len(s \o q) = Len(s) + Len(q)
        /\ \A i \in 1 .. Len(s) + Len(q) : (s \o q)[i] = IF i <= Len(s) THEN s[i] ELSE q[i - Len(s)]
    BY <1>2, ConcatProperties
  <2> QED
    BY <1>2, <2>1, <2>2
<1>5. DOMAIN r = 1 .. Len(s) + l
  BY <1>3, <1>4
<1>6. ASSUME NEW i \in 1 .. Len(s) + l
      PROVE  r[i] = IF i <= Len(s) THEN s[i] ELSE t
  <2>1. i > Len(s) => i - Len(s) \in 1 .. l
    BY <1>3
  <2>2. r[i] = IF i <= Len(s) THEN s[i] ELSE q[i - Len(s)]
    BY <1>4
  <2>3. i > Len(s) => q[i - Len(s)] = t
    <3> SUFFICES ASSUME i > Len(s) PROVE q[i - Len(s)] = t
      OBVIOUS
    <3>1. PICK k : k = i - Len(s)
      OBVIOUS
    <3>2. k \in 1 .. l
      BY <2>1, <3>1
    <3> QED
      BY <1>2, <3>1, <3>2
  <2> QED
    BY <1>3, <2>2, <2>3
<1>7. \A i \in 1 .. Len(s) : s[i] \in 1 .. t - 1
  BY <1>3 DEF ToSet
<1>8. \A k \in 1 .. t - 1 : \E i \in 1 .. Len(s) : s[i] = k
  BY <1>3 DEF ToSet
<1>9. ToSet(r) = 1 .. t
  <2>1. \A k \in ToSet(r) : k \in 1 .. t
    <3> SUFFICES ASSUME NEW k \in ToSet(r) PROVE k \in 1 .. t
      OBVIOUS
    <3>1. PICK i \in 1 .. Len(s) + l : r[i] = k
      BY <1>5 DEF ToSet
    <3> QED
      BY <1>3, <1>6, <1>7, <3>1
  <2>2. \A k \in 1 .. t - 1 : k \in ToSet(r)
    <3> SUFFICES ASSUME NEW k \in 1 .. t - 1 PROVE k \in ToSet(r)
      OBVIOUS
    <3>1. PICK i \in 1 .. Len(s) : s[i] = k
      BY <1>8
    <3>2. i \in DOMAIN r /\ r[i] = k
      BY <1>3, <1>5, <1>6, <3>1
    <3> QED
      BY <3>2 DEF ToSet
  <2>3. t \in ToSet(r)
    <3>1. Len(s) + 1 \in DOMAIN r /\ r[Len(s) + 1] = t
      BY SMTT(40), <1>3, <1>5, <1>6
    <3> QED
      BY <3>1 DEF ToSet
  <2>4. \A k \in 1 .. t : k \in 1 .. t - 1 \/ k = t
    OBVIOUS
  <2>5. \A k \in 1 .. t : k \in ToSet(r)
    BY <2>2, <2>3, <2>4
  <2> QED
    BY <2>1, <2>5
<1>10. Ordered(r)
  <2> SUFFICES ASSUME NEW i \in 1 .. Len(s) + l, NEW j \in 1 .. Len(s) + l, i < j PROVE r[i] <= r[j]
    BY <1>5 DEF Ordered
  <2>1. CASE j <= Len(s)
    <3>1. s[i] <= s[j]
      <4>1. i \in DOMAIN s /\ j \in DOMAIN s
        BY <1>3, <2>1
      <4> QED
        BY <4>1 DEF Ordered
    <3> QED
      BY <1>3, <1>6, <2>1, <3>1
  <2>2. CASE j > Len(s)
    <3>1. r[j] = t
      BY <1>3, <1>6, <2>2
    <3>2. r[i] \in 1 .. t
      BY <1>3, <1>6, <1>7
    <3> QED
      BY <3>1, <3>2
  <2> QED
    BY <1>3, <2>1, <2>2
<1>11. {i \in DOMAIN r : r[i] = t} = (Len(s) + 1) .. (Len(s) + l)
  BY <1>3, <1>5, <1>6, <1>7
<1>12. Cardinality((Len(s) + 1) .. (Len(s) + l)) = l
  <2>1. Len(s) + 1 \in Int /\ Len(s) + l \in Int
    BY <1>3
  <2> QED
    BY <1>3, <2>1, FS_Interval
<1>13. Cardinality(UnitsOf(r, t)) = l
  BY <1>11, <1>12 DEF UnitsOf
<1> QED
  BY <1>1, <1>2, <1>9, <1>10, <1>13

\* How many datagrams were imported to their end, and what there is of them.
WDone == IF wpc \in {"buf", "fits", "fresh", "copy"} THEN taken - 1 ELSE taken
WAll  == file \o W!Cached

\* Steps that leave the data alone, or carry it from the buffer into the file.
LEMMA DataSame ==
  ASSUME W!NothingLost, raced => raced', failed => failed', wpc' # "grow",
         ~raced' /\ ~failed' => WAll' = WAll /\ WDone' = WDone
  PROVE  W!NothingLost'
BY DEF W!NothingLost, WAll, WDone, W!Imported

\* What Cached is, when there is no race.
LEMMA CachedIs ==
  ASSUME W!WriterAssumption, WInv, ~raced
  PROVE  /\ wpc = "fresh" \/ ui \in {"null", "zero"} \/ cur = 0 => W!Cached = <<>>
         /\ wpc \notin {"fresh", "grow"} /\ ui \notin {"null", "zero"} /\ cur # 0 =>
              W!Cached = SubSeq(data[cur], 1, fill) /\ W!Cached = W!Written(cur, fill)
         /\ wpc = "grow" => W!Cached = SubSeq(data[cur], 1, fill + len)
         /\ W!Cached \in Seq(Nat) /\ file \in Seq(Nat)
         /\ file \o <<>> = file
<1>0. BufSize \in Nat /\ MaxFileBufs \in Nat /\ MaxImports \in Nat /\ \A x \in Lengths : x \in Nat
  BY DEF W!WriterAssumption
<1>1. wpc = "fresh" \/ ui \in {"null", "zero"} \/ cur = 0 => W!Cached = <<>>
  BY DEF W!Cached, W!Null
<1>2. wpc \notin {"fresh", "grow"} /\ ui \notin {"null", "zero"} /\ cur # 0 =>
         W!Cached = SubSeq(data[cur], 1, fill) /\ W!Cached = W!Written(cur, fill)
  BY DEF W!Cached, W!Null, W!Written
<1>3. wpc = "grow" => W!Cached = SubSeq(data[cur], 1, fill + len) /\ cur # 0 /\ ui = "idle"
  BY DEF WInv, WQuiet, W!TypeOK, W!Cached, W!Null
<1>4. file \in Seq(Nat)
  <2>1. Len(file) \in Nat /\ DOMAIN file = 1 .. Len(file) /\ \A i \in 1 .. Len(file) : file[i] \in Nat
    BY <1>0 DEF WInv, W!TypeOK
  <2>2. file = [i \in 1 .. Len(file) |-> file[i]]
    BY <2>1 DEF WInv, W!TypeOK
  <2> QED
    BY <2>1, <2>2
<1>5. ASSUME cur # 0, NEW m \in Nat, m <= Len(data[cur]) PROVE SubSeq(data[cur], 1, m) \in Seq(Nat)
  <2>1. PICK s : s = data[cur]
    OBVIOUS
  <2>2. s \in Seq(1 .. MaxImports)
    BY <1>0, <1>5, <2>1 DEF WInv, W!TypeOK, W!Bufs
  <2>3. Len(s) \in Nat /\ DOMAIN s = 1 .. Len(s) /\ \A i \in 1 .. Len(s) : s[i] \in Nat
    BY <1>0, <2>2
  <2>4. s = [i \in 1 .. Len(s) |-> s[i]]
    BY <2>2, <2>3
  <2>5. s \in Seq(Nat)
    BY <2>3, <2>4
  <2> QED
    BY <1>5, <2>1, <2>5, FirstPart
<1>6. fill \in Nat
  BY <1>0 DEF WInv, W!TypeOK
<1>7. W!Cached \in Seq(Nat)
  <2>1. CASE wpc = "grow"
    <3>1. fill + len \in Nat /\ fill + len <= Len(data[cur])
      BY <1>0, <1>3, <1>6, <2>1 DEF WInv, WSteps
    <3> QED
      BY <1>3, <1>5, <2>1, <3>1
  <2>2. CASE wpc # "grow" /\ cur # 0 /\ wpc # "fresh" /\ ui \notin {"null", "zero"}
    <3>1. fill <= Len(data[cur])
      BY <2>2 DEF WInv, WSteps
    <3> QED
      BY <1>2, <1>5, <1>6, <2>2, <3>1
  <2>3. CASE wpc = "fresh" \/ cur = 0 \/ ui \in {"null", "zero"}
    <3>1. W!Cached = <<>>
      BY <1>1, <2>3
    <3> QED
      BY <3>1
  <2> QED
    BY <2>1, <2>2, <2>3
<1>8. file \o <<>> = file
  BY <1>4, ConcatEmptySeq
<1> QED
  BY <1>1, <1>2, <1>3, <1>4, <1>7, <1>8

\* What a write adds to the file is what was in the buffer.
LEMMA DataWritten ==
  ASSUME W!WriterAssumption, WInv, WInv', W!NothingLost, W!WriteFile(cur, fill), UNCHANGED <<raced, taken>>,
         wpc \notin {"fresh", "grow"}, ui \notin {"null", "zero"}, ~raced => cur # 0,
         wpc' = "fresh" \/ ui' = "null", wpc' # "grow", WDone' = WDone
  PROVE  W!NothingLost'
<1>1. CASE raced \/ failed'
  BY <1>1 DEF W!NothingLost
<1>2. CASE ~raced /\ ~failed'
  <2>1. file' = file \o W!Written(cur, fill) /\ failed' = failed
    BY <1>2, WriteStep DEF WInv
  <2>2. W!Cached = W!Written(cur, fill)
    BY <1>2, CachedIs
  <2>3. W!Cached' = <<>>
    BY DEF W!Cached
  <2>4. file' \o <<>> = file'
    <3>1. file' \in Seq(1 .. MaxImports)
      BY DEF WInv, W!TypeOK
    <3>2. PICK S : S = 1 .. MaxImports
      OBVIOUS
    <3>3. PICK s : s = file'
      OBVIOUS
    <3>4. s \in Seq(S)
      BY <3>1, <3>2, <3>3
    <3>5. s \o <<>> = s
      BY <3>4, ConcatEmptySeq
    <3> QED
      BY <3>3, <3>5
  <2>5. WAll' = WAll
    BY <2>1, <2>2, <2>3, <2>4 DEF WAll
  <2> QED
    BY <1>2, <2>1, <2>5, DataSame
<1> QED
  BY <1>1, <1>2

\* Concatenation is associative.
LEMMA Regroup ==
  ASSUME NEW f \in Seq(Nat), NEW c \in Seq(Nat), NEW q \in Seq(Nat) PROVE (f \o c) \o q = f \o (c \o q)
BY ConcatAssociative, SMTT(60)

\* The copy of a datagram behind the data that is in the buffer.
LEMMA DataCopied ==
  ASSUME W!WriterAssumption, WInv, W!NothingLost, W!Copy
  PROVE  W!NothingLost'
<1>0. wpc = "copy" /\ UNCHANGED <<cur, fill, file, ui, len, taken, raced, failed>>
  BY DEF W!Copy, W!poolVars
<1> SUFFICES ASSUME ~raced, ~failed PROVE W!NothingLost'
  BY <1>0 DEF W!NothingLost
<1>1. cur # 0 /\ ui = "idle"
  BY <1>0 DEF WInv, WQuiet, W!TypeOK
<1>2. /\ wpc' = "grow"
      /\ data' = [data EXCEPT ![cur] = SubSeq(@, 1, fill) \o [i \in 1 .. len |-> taken]]
  BY <1>1 DEF W!Copy, W!Null
<1>3. BufSize \in Nat /\ MaxFileBufs \in Nat /\ MaxImports \in Nat /\ len \in Nat \ {0}
  <2>1. BufSize \in Nat /\ MaxFileBufs \in Nat /\ MaxImports \in Nat /\ \A d \in Lengths : d \in Nat \ {0}
    BY DEF W!WriterAssumption
  <2>2. len \in Lengths
    BY <1>0 DEF WInv, WSteps
  <2> QED
    BY <2>1, <2>2
<1>4. cur \in W!Bufs /\ data \in [W!Bufs -> Seq(1 .. MaxImports)] /\ taken \in Nat \ {0}
  BY <1>0, <1>1, <1>3 DEF WInv, W!TypeOK, WSteps, W!Bufs
<1>5. W!Cached = SubSeq(data[cur], 1, fill) /\ W!Cached \in Seq(Nat) /\ file \in Seq(Nat)
  BY <1>0, <1>1, CachedIs
<1>6. fill \in Nat /\ fill <= Len(data[cur])
  BY <1>1, <1>3 DEF WInv, W!TypeOK, WSteps
<1>7. Len(W!Cached) = fill
  <2>1. PICK S : S = 1 .. MaxImports
    OBVIOUS
  <2>2. PICK s : s = data[cur]
    OBVIOUS
  <2>3. s \in Seq(S)
    BY <1>4, <2>1, <2>2
  <2>4. Len(SubSeq(s, 1, fill)) = fill
    BY <1>6, <2>2, <2>3, FirstPart
  <2> QED
    BY <1>5, <2>2, <2>4
<1>8. PICK q : q = [i \in 1 .. len |-> taken]
  OBVIOUS
<1>9. q \in Seq(Nat) /\ Len(q) = len
  BY <1>3, <1>4, <1>8
<1>10. PICK c : c = W!Cached
  OBVIOUS
<1>11. /\ c \o q \in Seq(Nat) /\ Len(c \o q) = fill + len /\ SubSeq(c \o q, 1, fill + len) = c \o q
       /\ file \o (c \o q) = (file \o c) \o q /\ file \o c \in Seq(Nat)
  <2>1. c \in Seq(Nat)
    BY <1>5, <1>10
  <2>2. c \o q \in Seq(Nat) /\ Len(c \o q) = fill + len
    BY <1>7, <1>9, <1>10, <2>1, ConcatProperties
  <2>3. PICK s : s = c \o q
    OBVIOUS
  <2>4. SubSeq(s, 1, Len(s)) = s
    BY <2>2, <2>3, SubSeqFull
  <2>5. (file \o c) \o q = file \o (c \o q)
    <3>1. PICK f : f = file
      OBVIOUS
    <3>2. f \in Seq(Nat) /\ q \in Seq(Nat)
      BY <1>5, <1>9, <3>1
    <3>3. (f \o c) \o q = f \o (c \o q)
      BY <2>1, <3>2, Regroup
    <3> QED
      BY <3>1, <3>3
  <2>6. file \o c \in Seq(Nat)
    BY <1>5, <2>1, ConcatProperties
  <2> QED
    BY <2>2, <2>3, <2>4, <2>5, <2>6
<1>12. W!Cached' = c \o q
  <2>1. data'[cur] = c \o q
    BY <1>2, <1>4, <1>5, <1>8, <1>10
  <2>2. W!Cached' = SubSeq(data'[cur'], 1, fill' + len')
    BY <1>0, <1>1, <1>2 DEF W!Cached, W!Null
  <2> QED
    BY <1>0, <1>11, <2>1, <2>2
<1>13. PICK s \in Seq(Nat) : s = WAll
  BY <1>5, <1>10, <1>11 DEF WAll
<1>14. ToSet(s) = 1 .. taken - 1 /\ Ordered(s)
  BY <1>0, <1>13 DEF W!NothingLost, WAll, Ordered, W!Imported, ToSet
<1>15. PICK r : r = s \o q
  OBVIOUS
<1>16. r = WAll'
  BY <1>0, <1>8, <1>10, <1>11, <1>12, <1>13, <1>15 DEF WAll
<1>18. PICK t \in Nat \ {0} : t = taken
  BY <1>4
<1>19. PICK l \in Nat \ {0} : l = len
  BY <1>3
<1>20. /\ ToSet(r) = 1 .. taken /\ Ordered(r)
       /\ Cardinality(UnitsOf(r, taken)) = len
  <2>1. PICK p \in Nat : p = t - 1
    OBVIOUS
  <2>2. ToSet(s) = 1 .. p /\ Ordered(s)
    BY <1>14, <1>18, <2>1
  <2>3. Len(q) > 0 /\ IsAll(q, t)
    BY <1>3, <1>8, <1>9, <1>18, <1>19 DEF IsAll
  <2>4. /\ ToSet(s \o q) = 1 .. t /\ Ordered(s \o q)
        /\ Cardinality(UnitsOf(s \o q, t)) = Len(q)
    BY <1>9, <2>1, <2>2, <2>3, OneMoreDatagram
  <2> QED
    BY <1>9, <1>15, <1>18, <2>4
<1> QED
  BY ZenonT(60), <1>0, <1>2, <1>16, <1>20 DEF W!NothingLost, WAll, W!Imported, ToSet, W!Cardinality, Cardinality, UnitsOf, Ordered

\* No step loses data.
LEMMA LostStep == ASSUME W!WriterAssumption, WInv, WInv', W!NothingLost, [W!Next]_(W!vars) PROVE W!NothingLost'
<1> DEFINE Idle == wpc \notin {"fresh", "grow"} /\ ui \notin {"null", "zero"}
<1>1. ASSUME NEW d \in Lengths, W!Import(d) PROVE W!NothingLost'
  <2>1. /\ wpc = "idle" /\ wpc' = "buf" /\ taken' = taken + 1 /\ raced' = (raced \/ ui # "idle")
        /\ UNCHANGED <<cur, fill, data, file, ui, failed>>
    BY <1>1 DEF W!Import, W!poolVars
  <2>2. WDone' = WDone
    <3>1. taken \in Nat
      BY DEF W!WriterAssumption, WInv, W!TypeOK
    <3> QED
      BY <2>1, <3>1 DEF WDone
  <2>3. W!Cached' = W!Cached
    BY <2>1 DEF W!Cached
  <2> QED
    BY <2>1, <2>2, <2>3, DataSame DEF WAll
<1>2. CASE W!FirstBuf
  <2>1. /\ wpc = "buf" /\ wpc' = "fits" /\ UNCHANGED <<data, file, ui, taken, raced, failed>>
        /\ cur = 0 => fill' = 0
        /\ cur # 0 => UNCHANGED <<cur, fill>>
    BY <1>2 DEF W!FirstBuf, W!NewBuf, W!Null
  <2>2. WDone' = WDone
    BY <2>1 DEF WDone
  <2>3. ~raced => W!Cached' = W!Cached
    <3>1. CASE cur = 0
      <4>1. W!Cached = <<>>
        BY <3>1 DEF W!Cached, W!Null
      <4>2. W!Cached' = <<>> \/ W!Cached' = SubSeq(data[cur'], 1, 0)
        BY <2>1, <3>1 DEF W!Cached
      <4>3. SubSeq(data[cur'], 1, 0) = <<>>
        BY SubSeqEmpty
      <4> QED
        BY <4>1, <4>2, <4>3
    <3>2. CASE cur # 0
      BY <2>1, <3>2 DEF W!Cached
    <3> QED
      BY <3>1, <3>2
  <2> QED
    BY <2>1, <2>2, <2>3, DataSame DEF WAll
<1>3. CASE W!WriteFull
  <2>1. wpc = "fits" /\ UNCHANGED <<cur, fill, data, ui, taken, raced>> /\ wpc' \in {"copy", "fresh"}
    BY <1>3 DEF W!WriteFull
  <2>2. WDone' = WDone
    BY <2>1 DEF WDone
  <2>3. CASE wpc' = "copy"
    <3>1. UNCHANGED <<file, failed>>
      BY <1>3, <2>3 DEF W!WriteFull
    <3>2. W!Cached' = W!Cached
      BY <2>1, <2>3 DEF W!Cached
    <3> QED
      BY <2>1, <2>2, <2>3, <3>1, <3>2, DataSame DEF WAll
  <2>4. CASE wpc' = "fresh"
    <3>1. W!WriteFile(cur, fill)
      BY <1>3, <2>4 DEF W!WriteFull
    <3>2. CASE raced
      BY <2>1, <3>2 DEF W!NothingLost
    <3>3. CASE ~raced
      <4>1. ui = "idle" /\ cur # 0
        BY <2>1, <3>3 DEF WInv, WQuiet, W!TypeOK
      <4> QED
        BY <2>1, <2>2, <2>4, <3>1, <4>1, DataWritten
    <3> QED
      BY <3>2, <3>3
  <2> QED
    BY <2>1, <2>3, <2>4
<1>4. CASE W!FreshBuf
  <2>1. wpc = "fresh" /\ wpc' = "copy" /\ fill' = 0 /\ UNCHANGED <<data, file, ui, taken, raced, failed>>
    BY <1>4 DEF W!FreshBuf, W!NewBuf
  <2>2. WDone' = WDone
    BY <2>1 DEF WDone
  <2>3. W!Cached' = W!Cached
    <3>1. W!Cached = <<>>
      BY <2>1 DEF W!Cached
    <3>2. W!Cached' = <<>> \/ W!Cached' = SubSeq(data[cur'], 1, 0)
      BY <2>1 DEF W!Cached
    <3>3. SubSeq(data[cur'], 1, 0) = <<>>
      BY SubSeqEmpty
    <3> QED
      BY <3>1, <3>2, <3>3
  <2> QED
    BY <2>1, <2>2, <2>3, DataSame DEF WAll
<1>5. CASE W!Copy
  BY <1>5, DataCopied
<1>6. CASE W!Grow
  <2>1. /\ wpc = "grow" /\ wpc' = "idle" /\ fill' = fill + len
        /\ UNCHANGED <<cur, data, file, ui, taken, raced, failed>>
    BY <1>6 DEF W!Grow, W!poolVars
  <2>2. WDone' = WDone
    BY <2>1 DEF WDone
  <2>3. W!Cached' = W!Cached
    BY <2>1 DEF W!Cached
  <2> QED
    BY <2>1, <2>2, <2>3, DataSame DEF WAll
<1>7. CASE W!Flush
  <2>1. /\ ui = "idle" /\ ui' = IF fill > 0 THEN "write" ELSE "null"
        /\ raced' = (raced \/ wpc # "idle")
        /\ UNCHANGED <<cur, fill, data, file, wpc, len, taken, failed>>
    BY <1>7 DEF W!Flush, W!poolVars
  <2>2. WDone' = WDone
    BY <2>1 DEF WDone
  <2>3. ~raced' => W!Cached' = W!Cached
    <3> SUFFICES ASSUME ~raced' PROVE W!Cached' = W!Cached
      OBVIOUS
    <3>1. CASE fill > 0
      BY <2>1, <3>1 DEF W!Cached
    <3>2. CASE ~(fill > 0)
      <4>1. cur = 0 /\ wpc = "idle" /\ ~raced
        BY <2>1, <3>2 DEF WInv, WQuiet
      <4> QED
        BY <2>1, <4>1 DEF W!Cached, W!Null
    <3> QED
      BY <3>1, <3>2
  <2>4. CASE wpc' = "grow"
    BY <2>1, <2>4 DEF W!NothingLost
  <2> QED
    BY <2>1, <2>2, <2>3, <2>4, DataSame DEF WAll
<1>8. CASE W!FlushWrite
  <2>1. /\ ui = "write" /\ ui' = "null" /\ W!WriteFile(cur, fill)
        /\ UNCHANGED <<cur, fill, data, wpc, len, taken, raced>>
    BY <1>8 DEF W!FlushWrite
  <2>2. WDone' = WDone
    BY <2>1 DEF WDone
  <2>3. CASE raced
    BY <2>1, <2>3 DEF W!NothingLost
  <2>4. CASE ~raced
    <3>1. wpc = "idle" /\ cur # 0
      BY <2>1, <2>4 DEF WInv, WQuiet
    <3> QED
      BY <2>1, <2>2, <3>1, DataWritten
  <2> QED
    BY <2>3, <2>4
<1>9. CASE W!FlushNull \/ W!FlushZero
  <2>1. /\ ui \in {"null", "zero"} /\ UNCHANGED <<data, file, wpc, len, taken, raced, failed>>
        /\ ui = "null" => cur' = 0
        /\ ui = "zero" => UNCHANGED cur
    BY <1>9 DEF W!FlushNull, W!FlushZero, W!poolVars, W!Null
  <2>2. WDone' = WDone
    BY <2>1 DEF WDone
  <2>3. ~raced => W!Cached' = W!Cached /\ wpc = "idle"
    <3> SUFFICES ASSUME ~raced PROVE W!Cached' = W!Cached /\ wpc = "idle"
      OBVIOUS
    <3>1. cur' = 0 /\ wpc = "idle"
      BY <2>1 DEF WInv, WQuiet
    <3> QED
      BY <2>1, <3>1 DEF W!Cached, W!Null
  <2>4. CASE raced
    BY <2>1, <2>4 DEF W!NothingLost
  <2> QED
    BY <2>1, <2>2, <2>3, <2>4, DataSame DEF WAll
<1>10. CASE W!Close
  <2>1. /\ ui = "idle" /\ raced' = (raced \/ wpc # "idle")
        /\ UNCHANGED <<cur, fill, data, file, wpc, ui, len, taken, failed>>
    BY <1>10 DEF W!Close, W!poolVars
  <2>2. W!Cached' = W!Cached /\ WDone' = WDone
    BY <2>1 DEF W!Cached, WDone
  <2>3. CASE wpc' = "grow"
    BY <2>1, <2>3 DEF W!NothingLost
  <2> QED
    BY <2>1, <2>2, <2>3, DataSame DEF WAll
<1>11. CASE (\E i \in DOMAIN wio : W!WriteDone(i)) \/ UNCHANGED W!vars
  <2>1. UNCHANGED <<cur, fill, data, file, wpc, ui, len, taken, raced, failed>>
    BY <1>11 DEF W!WriteDone, W!vars, W!poolVars
  <2>2. W!Cached' = W!Cached
    BY <2>1 DEF W!Cached
  <2> QED
    BY <2>1, <2>2 DEF W!NothingLost, W!Imported
<1> QED
  BY <1>1, <1>2, <1>3, <1>4, <1>5, <1>6, <1>7, <1>8, <1>9, <1>10, <1>11
  DEF W!Next, W!ImportData, W!Dialog

LEMMA LostInit == ASSUME W!WriterAssumption, W!Init PROVE W!NothingLost
<1>1. file = <<>> /\ cur = 0 /\ taken = 0 /\ wpc = "idle"
  BY DEF W!Init, W!Null
<1>2. W!Cached = <<>> /\ <<>> \o <<>> = <<>>
  BY <1>1 DEF W!Cached, W!Null
<1> QED
  BY <1>1, <1>2 DEF W!NothingLost, W!Imported

\* What was imported is kept, for the writer itself.
LEMMA DataIsKept == ASSUME W!WriterAssumption PROVE W!Spec => []W!NothingLost
<1>1. W!Init => W!NothingLost
  BY LostInit
<1>2. WInv /\ WInv' /\ W!NothingLost /\ [W!Next]_(W!vars) => W!NothingLost'
  BY LostStep
<1>3. W!Spec => []WInv
  BY WriterInvariant
<1> QED
  BY <1>1, <1>2, <1>3, PTL DEF W!Spec

----------------------------------------------------------------------------
(* The outgoing connection                                                 *)

UISteps     == {"idle", "connect", "ccount", "run", "send", "wcount", "stop", "disc", "dcount",
                "close", "clear"}
ThreadSteps == {"idle", "read", "rcount", "stop", "disc", "dcount", "close", "clear", "error",
                "failed", "ecount", "over"}

\* Which steps the two kinds of threads take.
Steps ==
  /\ cpc[UI] \in UISteps /\ ret[UI] = "idle"
  /\ \A t \in Threads : cpc[t] \in ThreadSteps /\ ret[t] \in {"idle", "error", "failed", "over"}

\* Before its Start a connection has no operations, and nothing was counted.
Unused ==
  ~associated =>
    /\ ~connected /\ \A k \in C!OperKinds : cio[k] = 0
    /\ n.recv = 0 /\ n.write = 0 /\ n.recved = 0 /\ n.writed = 0 /\ n.error = 0
    /\ cpc[UI] \in {"idle", "stop", "close", "clear"} /\ \A t \in Threads : cpc[t] = "idle"

\* The chain of reads, from the connect to the thread that stops.
Chained ==
  (cstatus = "run" \/ cpc[UI] \in {"ccount", "run"}) /\ ~early =>
    cio["connect"] + cio["read"] > 0 \/ \E t \in Threads : cpc[t] \in {"read", "stop"}

CInv == C!TypeOK /\ Steps /\ Unused /\ C!CountersAgree /\ C!PoolsWhole /\ Chained

\* The steps at which a thread has still to count a post, or a failure.
PostSteps == {"ccount", "dcount", "rcount", "wcount"}
Fails(s, r) == \/ s \in {"failed", "ecount"}
               \/ s \in {"stop", "disc", "dcount", "close", "clear"} /\ r = "failed"

Posts == Cardinality(C!Posting)
Fail  == Cardinality(C!Failing)
TheUI == UI \in C!Callers /\ UI \notin Threads /\ Threads \subseteq C!Callers /\ C!Callers = Threads \cup {UI}

\* Thread t is now at step s, its Stop returns to r.
At(t, s, r) == cpc' = [cpc EXCEPT ![t] = s] /\ ret' = [ret EXCEPT ![t] = r]

\* A caller goes to a step and nothing else changes: what it adds to the sets that are counted.
LEMMA AtStep ==
  ASSUME C!ConnecterAssumption, C!TypeOK, Steps, NEW t \in C!Callers, NEW s, NEW r, At(t, s, r),
         IF t = UI THEN s \in UISteps /\ r = "idle"
                   ELSE s \in ThreadSteps /\ r \in {"idle", "error", "failed", "over"}
  PROVE  /\ Steps' /\ cpc'[t] = s /\ ret'[t] = r
         /\ \A u \in C!Callers : u # t => cpc'[u] = cpc[u] /\ ret'[u] = ret[u]
         /\ cpc' \in [C!Callers -> {"idle", "connect", "ccount", "run", "send", "wcount", "read", "rcount",
                         "stop", "disc", "dcount", "close", "clear", "error", "failed", "ecount", "over"}]
         /\ ret' \in [C!Callers -> {"idle", "error", "failed", "over"}]
         /\ Posts \in Nat /\ Fail \in Nat /\ Posts' \in Nat /\ Fail' \in Nat
         /\ cpc[t] \in PostSteps /\ s \notin PostSteps => Posts' = Posts - 1
         /\ cpc[t] \notin PostSteps /\ s \in PostSteps => Posts' = Posts + 1
         /\ (cpc[t] \in PostSteps <=> s \in PostSteps) => Posts' = Posts
         /\ Fails(cpc[t], ret[t]) /\ ~Fails(s, r) => Fail' = Fail - 1
         /\ ~Fails(cpc[t], ret[t]) /\ Fails(s, r) => Fail' = Fail + 1
         /\ (Fails(cpc[t], ret[t]) <=> Fails(s, r)) => Fail' = Fail
<1>0. TheUI /\ IsFiniteSet(C!Callers)
  <2>1. IsFiniteSet(Threads) /\ UI \notin Threads
    BY DEF C!ConnecterAssumption, C!IsFiniteSet, IsFiniteSet
  <2>2. IsFiniteSet(Threads \cup {UI})
    BY <2>1, FS_AddElement
  <2> QED
    BY <2>1, <2>2 DEF C!Callers, TheUI
<1>1. /\ cpc' \in [C!Callers -> {"idle", "connect", "ccount", "run", "send", "wcount", "read", "rcount",
                         "stop", "disc", "dcount", "close", "clear", "error", "failed", "ecount", "over"}]
      /\ ret' \in [C!Callers -> {"idle", "error", "failed", "over"}]
      /\ cpc'[t] = s /\ ret'[t] = r
      /\ \A u \in C!Callers : u # t => cpc'[u] = cpc[u] /\ ret'[u] = ret[u]
  BY DEF At, C!TypeOK, UISteps, ThreadSteps
<1>2. Steps'
  BY <1>0, <1>1 DEF Steps, TheUI
<1>3. /\ C!Posting = {u \in C!Callers : cpc[u] \in PostSteps}
      /\ C!Posting' = {u \in C!Callers : cpc'[u] \in PostSteps}
      /\ \A u : u \in C!Failing <=> u \in C!Callers /\ Fails(cpc[u], ret[u])
      /\ \A u : u \in C!Failing' <=> u \in C!Callers /\ Fails(cpc'[u], ret'[u])
  <2>1. C!Posting = {u \in C!Callers : cpc[u] \in PostSteps}
    BY DEF C!Posting, PostSteps
  <2>2. C!Posting' = {u \in C!Callers : cpc'[u] \in PostSteps}
    BY <2>1 DEF C!Posting, PostSteps
  <2>3. \A u : u \in C!Failing <=> u \in C!Callers /\ Fails(cpc[u], ret[u])
    BY DEF C!Failing, Fails
  <2>4. \A u : u \in C!Failing' <=> u \in C!Callers /\ Fails(cpc'[u], ret'[u])
    BY DEF C!Failing, Fails
  <2> QED
    BY <2>1, <2>2, <2>3, <2>4
<1>4. /\ C!Posting \in SUBSET C!Callers /\ C!Posting' \in SUBSET C!Callers
      /\ C!Failing \in SUBSET C!Callers /\ C!Failing' \in SUBSET C!Callers
      /\ C!Posting \ {t} = C!Posting' \ {t} /\ C!Failing \ {t} = C!Failing' \ {t}
  BY <1>1, <1>3
<1>5. /\ t \in C!Posting <=> cpc[t] \in PostSteps
      /\ t \in C!Posting' <=> s \in PostSteps
      /\ t \in C!Failing <=> Fails(cpc[t], ret[t])
      /\ t \in C!Failing' <=> Fails(s, r)
  BY <1>1, <1>3
<1>6. /\ Posts \in Nat /\ Posts' \in Nat
      /\ cpc[t] \in PostSteps /\ s \notin PostSteps => Posts' = Posts - 1
      /\ cpc[t] \notin PostSteps /\ s \in PostSteps => Posts' = Posts + 1
      /\ (cpc[t] \in PostSteps <=> s \in PostSteps) => Posts' = Posts
  BY <1>0, <1>4, <1>5, OneElement DEF Posts
<1>7. /\ Fail \in Nat /\ Fail' \in Nat
      /\ Fails(cpc[t], ret[t]) /\ ~Fails(s, r) => Fail' = Fail - 1
      /\ ~Fails(cpc[t], ret[t]) /\ Fails(s, r) => Fail' = Fail + 1
      /\ (Fails(cpc[t], ret[t]) <=> Fails(s, r)) => Fail' = Fail
  BY <1>0, <1>4, <1>5, OneElement DEF Fail
<1> QED
  BY <1>1, <1>2, <1>6, <1>7

\* The equation with these numbers.
Agree == n.recv + n.write + Posts = n.recved + n.writed + n.error + C!Outstanding + Fail

LEMMA AgreeIs == (C!CountersAgree <=> Agree) /\ (C!CountersAgree' <=> Agree')
BY DEF C!CountersAgree, Agree, Posts, Fail, Cardinality, C!Cardinality

\* The shape of the steps: an operation more or less of a kind, a count more, a list.
LEMMA OperMore ==
  ASSUME C!TypeOK, NEW k \in C!OperKinds, cio' = [cio EXCEPT ![k] = @ + 1]
  PROVE  /\ cio' \in [C!OperKinds -> Nat] /\ C!Outstanding' = C!Outstanding + 1
         /\ cio'[k] = cio[k] + 1 /\ \A j \in C!OperKinds \ {k} : cio'[j] = cio[j]
         /\ C!Outstanding \in Nat
<1>1. /\ cio \in [C!OperKinds -> Nat]
      /\ "connect" \in C!OperKinds /\ "disconnect" \in C!OperKinds
      /\ "read" \in C!OperKinds /\ "write" \in C!OperKinds
  BY DEF C!TypeOK, C!OperKinds
<1>2. cio' \in [C!OperKinds -> Nat] /\ cio'[k] = cio[k] + 1 /\ \A j \in C!OperKinds \ {k} : cio'[j] = cio[j]
  BY <1>1
<1>3. k \in {"connect", "disconnect", "read", "write"}
  BY DEF C!OperKinds
<1> QED
  BY <1>1, <1>2, <1>3 DEF C!Outstanding

LEMMA OperLess ==
  ASSUME C!TypeOK, NEW k \in C!OperKinds, cio[k] > 0, cio' = [cio EXCEPT ![k] = @ - 1]
  PROVE  /\ cio' \in [C!OperKinds -> Nat] /\ C!Outstanding' = C!Outstanding - 1
         /\ cio'[k] = cio[k] - 1 /\ \A j \in C!OperKinds \ {k} : cio'[j] = cio[j]
         /\ C!Outstanding \in Nat
<1>1. /\ cio \in [C!OperKinds -> Nat]
      /\ "connect" \in C!OperKinds /\ "disconnect" \in C!OperKinds
      /\ "read" \in C!OperKinds /\ "write" \in C!OperKinds
  BY DEF C!TypeOK, C!OperKinds
<1>2. cio' \in [C!OperKinds -> Nat] /\ cio'[k] = cio[k] - 1 /\ \A j \in C!OperKinds \ {k} : cio'[j] = cio[j]
  BY <1>1
<1>3. k \in {"connect", "disconnect", "read", "write"}
  BY DEF C!OperKinds
<1> QED
  BY <1>1, <1>2, <1>3 DEF C!Outstanding

Counters == {"recv", "recved", "write", "writed", "error"}

\* One counter is one more.
LEMMA CountMore ==
  ASSUME C!TypeOK, NEW c \in Counters, n' = C!Counted(c)
  PROVE  /\ n' \in [Counters -> Nat] /\ n'[c] = n[c] + 1 /\ \A d \in Counters \ {c} : n'[d] = n[d]
         /\ n.recv \in Nat /\ n.recved \in Nat /\ n.write \in Nat /\ n.writed \in Nat /\ n.error \in Nat
         /\ c \in {"recv", "write"} => n'.recv + n'.write = n.recv + n.write + 1
         /\ c \in {"recved", "writed", "error"} => n'.recv + n'.write = n.recv + n.write
         /\ c \in {"recved", "writed", "error"} =>
              n'.recved + n'.writed + n'.error = n.recved + n.writed + n.error + 1
         /\ c \in {"recv", "write"} =>
              n'.recved + n'.writed + n'.error = n.recved + n.writed + n.error
<1>1. n \in [Counters -> Nat]
  BY DEF C!TypeOK, Counters
<1>2. n' = [n EXCEPT ![c] = @ + 1]
  BY DEF C!Counted
<1>3. n' \in [Counters -> Nat] /\ n'[c] = n[c] + 1 /\ \A d \in Counters \ {c} : n'[d] = n[d]
  BY <1>1, <1>2
<1>4. "recv" \in Counters /\ "recved" \in Counters /\ "write" \in Counters /\ "writed" \in Counters
      /\ "error" \in Counters
  BY DEF Counters
<1>5. n.recv \in Nat /\ n.recved \in Nat /\ n.write \in Nat /\ n.writed \in Nat /\ n.error \in Nat
  BY <1>1, <1>4
<1> QED
  BY <1>3, <1>4, <1>5 DEF Counters

LEMMA Lists ==
  ASSUME NEW p \in [made : Nat, free : Nat]
  PROVE  /\ C!Taken(p) \in [made : Nat, free : Nat]
         /\ C!Taken(p).made - C!Taken(p).free = p.made - p.free + 1
         /\ C!Back(p) \in [made : Nat, free : Nat]
         /\ C!Back(p).made = p.made /\ C!Back(p).free = p.free + 1
         /\ p.made \in Nat /\ p.free \in Nat
BY DEF C!Taken, C!Back

\* What is done to a connection before its Start: nothing, or a stop.
LEMMA Used ==
  ASSUME CInv
  PROVE  /\ cpc[UI] \notin {"idle", "stop", "close", "clear"} => associated
         /\ \A t \in Threads : cpc[t] # "idle" => associated
         /\ \A k \in C!OperKinds : cio[k] > 0 => associated
         /\ connected => associated
BY DEF CInv, Unused, C!TypeOK

\* The calls.
LEMMA CallsAre ==
  /\ DOMAIN C!Calls = {"connect", "disc", "read", "send"}
  /\ C!Calls["connect"].kind = "connect" /\ C!Calls["connect"].posted = "ccount" /\ C!Calls["connect"].failed = "stop"
  /\ C!Calls["disc"].kind = "disconnect" /\ C!Calls["disc"].posted = "dcount" /\ C!Calls["disc"].failed = "close"
  /\ C!Calls["read"].kind = "read" /\ C!Calls["read"].posted = "rcount" /\ C!Calls["read"].failed = "stop"
  /\ C!Calls["send"].kind = "write" /\ C!Calls["send"].posted = "wcount" /\ C!Calls["send"].failed = "idle"
  /\ C!After["connect"] = "run" /\ C!After["disc"] = "close" /\ C!After["read"] = "idle" /\ C!After["send"] = "idle"
BY DEF C!Calls, C!Connect, C!Disconnect, C!Read, C!Write, C!AfterFailedConnect, C!AfterFailedRead, C!After

\* WSARecv, WSASend or ConnectEx: the operation is outstanding before it is counted.
LEMMA PostInv ==
  ASSUME C!ConnecterAssumption, CInv, NEW t \in C!Callers, NEW s \in DOMAIN C!Calls, C!Post(t, s)
  PROVE  CInv'
<1> DEFINE k == C!Calls[s].kind
           q == C!Calls[s].posted
<1>0. TheUI
  BY DEF TheUI, C!Callers, C!ConnecterAssumption
<1>1. /\ cpc[t] = s /\ cio' = [cio EXCEPT ![k] = @ + 1] /\ At(t, q, ret[t])
      /\ creqs' = C!Taken(creqs)
      /\ cbufs' = IF k \in {"read", "write"} THEN C!Taken(cbufs) ELSE cbufs
      /\ UNCHANGED <<cstatus, connected, valid, copened, associated, n, messages, writes, early>>
  BY DEF C!Post, C!GoTo, At, CInv, C!TypeOK, C!objVars, C!envVars, C!HasBuf
<1>2. /\ k \in C!OperKinds /\ q \in PostSteps /\ s \notin PostSteps
      /\ Fails(q, ret[t]) <=> Fails(s, ret[t])
      /\ IF t = UI THEN q \in UISteps /\ ret[t] = "idle"
                   ELSE q \in ThreadSteps /\ ret[t] \in {"idle", "error", "failed", "over"}
      /\ k = "connect" => t = UI /\ q = "ccount"
      /\ s = "read" <=> k = "read"
      /\ q \in {"ccount", "run"} => k = "connect"
  BY <1>0, <1>1, CallsAre DEF C!OperKinds, PostSteps, Fails, CInv, Steps, UISteps, ThreadSteps, TheUI
<1> HIDE DEF k, q
<1>3. /\ Steps' /\ cpc'[t] = q /\ ret'[t] = ret[t]
      /\ \A u \in C!Callers : u # t => cpc'[u] = cpc[u] /\ ret'[u] = ret[u]
      /\ cpc' \in [C!Callers -> {"idle", "connect", "ccount", "run", "send", "wcount", "read", "rcount",
                         "stop", "disc", "dcount", "close", "clear", "error", "failed", "ecount", "over"}]
      /\ ret' \in [C!Callers -> {"idle", "error", "failed", "over"}]
      /\ Posts \in Nat /\ Fail \in Nat /\ Posts' = Posts + 1 /\ Fail' = Fail
  BY <1>1, <1>2, AtStep DEF CInv
<1>4. /\ cio' \in [C!OperKinds -> Nat] /\ C!Outstanding' = C!Outstanding + 1 /\ C!Outstanding \in Nat
      /\ cio'[k] = cio[k] + 1 /\ \A j \in C!OperKinds \ {k} : cio'[j] = cio[j]
  BY <1>1, <1>2, OperMore DEF CInv
<1>5. /\ creqs' \in [made : Nat, free : Nat] /\ creqs'.made - creqs'.free = creqs.made - creqs.free + 1
      /\ cbufs' \in [made : Nat, free : Nat]
      /\ cbufs'.made - cbufs'.free = cbufs.made - cbufs.free + (IF k \in {"read", "write"} THEN 1 ELSE 0)
      /\ cbufs.made \in Nat /\ cbufs.free \in Nat /\ creqs.made \in Nat /\ creqs.free \in Nat
  <2>1. creqs \in [made : Nat, free : Nat] /\ cbufs \in [made : Nat, free : Nat]
    BY DEF CInv, C!TypeOK
  <2>2. CASE k \in {"read", "write"}
    BY <1>1, <2>1, <2>2, Lists
  <2>3. CASE k \notin {"read", "write"}
    <3>1. cbufs' = cbufs /\ cbufs'.made - cbufs'.free = cbufs.made - cbufs.free + 0
      BY <1>1, <2>1, <2>3
    <3> QED
      BY <1>1, <2>1, <2>3, <3>1, Lists
  <2> QED
    BY <2>2, <2>3
<1>6. C!TypeOK'
  BY <1>1, <1>3, <1>4, <1>5 DEF CInv, C!TypeOK
<1>7. Unused'
  <2>1. associated
    BY <1>0, <1>1, CallsAre, Used DEF TheUI
  <2> QED
    BY <1>1, <2>1 DEF Unused
<1>8. C!CountersAgree'
  <2>1. Agree'
    BY <1>1, <1>3, <1>4, AgreeIs, CountMore DEF CInv, Agree, C!TypeOK
  <2> QED
    BY <2>1, AgreeIs
<1>9. C!PoolsWhole'
  <2>1. cio["read"] \in Nat /\ cio["write"] \in Nat /\ k \in {"connect", "disconnect", "read", "write"}
    BY <1>2 DEF CInv, C!TypeOK, C!OperKinds
  <2>2. cio'["read"] + cio'["write"] = cio["read"] + cio["write"] + (IF k \in {"read", "write"} THEN 1 ELSE 0)
    BY <1>4, <2>1 DEF C!OperKinds
  <2>3. cbufs'.made \in Nat /\ cbufs'.free \in Nat /\ creqs'.made \in Nat /\ creqs'.free \in Nat
    BY <1>5
  <2>4. cbufs.made = cbufs.free + cio["read"] + cio["write"] /\ creqs.made = creqs.free + C!Outstanding
    BY DEF CInv, C!PoolsWhole
  <2>5. cbufs'.made = cbufs'.free + (cio'["read"] + cio'["write"])
    BY <1>5, <2>1, <2>2, <2>3, <2>4
  <2>6. creqs'.made = creqs'.free + C!Outstanding'
    BY <1>4, <1>5, <2>3, <2>4
  <2>7. cio'["read"] \in Nat /\ cio'["write"] \in Nat
    BY <1>4 DEF C!OperKinds
  <2> QED
    BY <2>3, <2>5, <2>6, <2>7 DEF C!PoolsWhole
<1>10. Chained'
  <2>1. cio["read"] \in Nat /\ cio["connect"] \in Nat
        /\ cio'["connect"] \in Nat /\ cio'["read"] \in Nat
        /\ cio'["connect"] >= cio["connect"] /\ cio'["read"] >= cio["read"]
    BY <1>2, <1>4 DEF CInv, C!TypeOK, C!OperKinds
  <2>2. (k \in {"connect", "read"}) => cio'["connect"] + cio'["read"] > 0
    BY <1>2, <1>4, <2>1 DEF C!OperKinds
  <2>3. CASE k \in {"connect", "read"}
    BY <2>2, <2>3 DEF Chained
  <2>4. CASE k \notin {"connect", "read"}
    <3>1. s \notin {"read", "stop"} /\ q \notin {"ccount", "run"}
      BY <1>2, <2>4, CallsAre
    <3>2. \A u \in Threads : cpc[u] \in {"read", "stop"} => cpc'[u] \in {"read", "stop"}
      BY <1>0, <1>1, <1>3, <3>1 DEF TheUI
    <3>3. cpc'[UI] \in {"ccount", "run"} => cpc[UI] \in {"ccount", "run"}
      BY <1>0, <1>1, <1>3, <3>1 DEF TheUI
    <3> QED
      BY <1>1, <2>1, <3>2, <3>3 DEF Chained, CInv
  <2> QED
    BY <2>3, <2>4
<1> QED
  BY <1>3, <1>6, <1>7, <1>8, <1>9, <1>10 DEF CInv

\* A step that posts, counts and gives back nothing.
LEMMA QuietInv ==
  ASSUME C!ConnecterAssumption, CInv, NEW t \in C!Callers, NEW s, NEW r, At(t, s, r),
         IF t = UI THEN s \in UISteps /\ r = "idle"
                   ELSE s \in ThreadSteps /\ r \in {"idle", "error", "failed", "over"},
         UNCHANGED <<n, cio, cbufs, creqs>>,
         cpc[t] \in PostSteps <=> s \in PostSteps, Fails(cpc[t], ret[t]) <=> Fails(s, r),
         cstatus' \in {"stop", "run", "error"}, connected' \in BOOLEAN, valid' \in BOOLEAN,
         copened' \in BOOLEAN, associated' \in BOOLEAN,
         messages' \in 0 .. MaxMessages, writes' \in 0 .. MaxWrites, early' \in BOOLEAN,
         Unused', Chained'
  PROVE  CInv'
<1>1. /\ Steps' /\ Posts' = Posts /\ Fail' = Fail
      /\ cpc' \in [C!Callers -> {"idle", "connect", "ccount", "run", "send", "wcount", "read", "rcount",
                         "stop", "disc", "dcount", "close", "clear", "error", "failed", "ecount", "over"}]
      /\ ret' \in [C!Callers -> {"idle", "error", "failed", "over"}]
  BY AtStep DEF CInv
<1>2. C!TypeOK'
  BY <1>1 DEF CInv, C!TypeOK
<1>3. C!CountersAgree'
  <2>1. C!Outstanding' = C!Outstanding
    BY DEF C!Outstanding
  <2>2. Agree'
    BY <1>1, <2>1, AgreeIs DEF CInv, Agree
  <2> QED
    BY <2>2, AgreeIs
<1>4. C!PoolsWhole'
  BY DEF CInv, C!PoolsWhole, C!Outstanding
<1> QED
  BY <1>1, <1>2, <1>3, <1>4 DEF CInv

\* The threads of the port are not the dialog's.
LEMMA Apart == C!ConnecterAssumption => TheUI
BY DEF TheUI, C!Callers, C!ConnecterAssumption

LEMMA RunningInv ==
  ASSUME C!ConnecterAssumption, CInv, C!Running
  PROVE  CInv'
<1>0. TheUI
  BY Apart
<1>1. /\ cpc[UI] = "run" /\ At(UI, "idle", "idle") /\ cstatus' = "run"
      /\ UNCHANGED <<connected, valid, copened, associated, n, cio, cbufs, creqs, messages, writes, early>>
  BY DEF C!Running, C!GoTo, At, CInv, Steps, C!TypeOK, C!poolVars, C!envVars, C!Callers
<1>2. \A u \in Threads : cpc'[u] = cpc[u]
  BY <1>0, <1>1 DEF At, TheUI, CInv, C!TypeOK
<1>3. Unused'
  BY <1>1, Used DEF Unused
<1>4. Chained'
  BY <1>1, <1>2 DEF Chained, CInv
<1>5. "idle" \in UISteps /\ "run" \notin PostSteps /\ "idle" \notin PostSteps /\ ret[UI] = "idle"
      /\ ~Fails("run", "idle") /\ ~Fails("idle", "idle")
  BY DEF UISteps, PostSteps, Fails, CInv, Steps
<1> QED
  BY <1>0, <1>1, <1>3, <1>4, <1>5, QuietInv DEF TheUI, CInv, C!TypeOK

LEMMA StopClickInv ==
  ASSUME C!ConnecterAssumption, CInv, C!StopClick
  PROVE  CInv'
<1>0. TheUI
  BY Apart
<1>1. /\ cpc[UI] = "idle" /\ At(UI, "stop", "idle")
      /\ UNCHANGED <<cstatus, connected, valid, copened, associated, n, cio, cbufs, creqs, messages, writes, early>>
  BY DEF C!StopClick, C!CallStop, C!GoTo, At, C!objVars, C!poolVars, C!envVars
<1>2. cpc'[UI] = "stop" /\ \A u \in Threads : cpc'[u] = cpc[u]
  BY <1>0, <1>1 DEF At, TheUI, CInv, C!TypeOK
<1>3. Unused'
  BY <1>1, <1>2 DEF Unused, CInv
<1>4. Chained'
  BY <1>1, <1>2 DEF Chained, CInv
<1>5. "stop" \in UISteps /\ "stop" \notin PostSteps /\ "idle" \notin PostSteps /\ ret[UI] = "idle"
      /\ ~Fails("stop", "idle") /\ ~Fails("idle", "idle")
  BY DEF UISteps, PostSteps, Fails, CInv, Steps
<1> QED
  BY <1>0, <1>1, <1>3, <1>4, <1>5, QuietInv DEF TheUI, CInv, C!TypeOK

LEMMA TimerInv ==
  ASSUME C!ConnecterAssumption, CInv, C!Timer
  PROVE  CInv'
<1>0. TheUI
  BY Apart
<1>1. /\ cpc[UI] = "idle" /\ At(UI, "send", "idle") /\ connected /\ writes < MaxWrites /\ writes' = writes + 1
      /\ UNCHANGED <<cstatus, connected, valid, copened, associated, n, cio, cbufs, creqs, messages, early>>
  BY DEF C!Timer, C!GoTo, At, CInv, Steps, C!TypeOK, C!objVars, C!poolVars, C!Callers
<1>2. cpc'[UI] = "send" /\ \A u \in Threads : cpc'[u] = cpc[u]
  BY <1>0, <1>1 DEF At, TheUI, CInv, C!TypeOK
<1>3. Unused'
  BY <1>1, Used DEF Unused
<1>4. Chained'
  BY <1>1, <1>2 DEF Chained, CInv
<1>5. "send" \in UISteps /\ "send" \notin PostSteps /\ "idle" \notin PostSteps /\ ret[UI] = "idle"
      /\ ~Fails("send", "idle") /\ ~Fails("idle", "idle")
  BY DEF UISteps, PostSteps, Fails, CInv, Steps
<1>6. writes' \in 0 .. MaxWrites
  BY <1>1 DEF CInv, C!TypeOK, C!ConnecterAssumption
<1> QED
  BY <1>0, <1>1, <1>3, <1>4, <1>5, <1>6, QuietInv DEF TheUI, CInv, C!TypeOK

LEMMA StopStatusInv ==
  ASSUME C!ConnecterAssumption, CInv, NEW t \in C!Callers, C!StopStatus(t)
  PROVE  CInv'
<1> DEFINE s == IF ~valid THEN ret[t] ELSE IF connected THEN "disc" ELSE "close"
<1>0. TheUI
  BY Apart
<1>1. /\ cpc[t] = "stop" /\ At(t, s, ret[t]) /\ cstatus' = "stop"
      /\ early' = (early \/ cpc[UI] \in {"ccount", "run"})
      /\ UNCHANGED <<connected, valid, copened, associated, n, cio, cbufs, creqs, messages, writes>>
  BY DEF C!StopStatus, C!GoTo, At, CInv, C!TypeOK, C!poolVars, C!envVars
<1>2. s \in {ret[t], "disc", "close"} /\ (~connected => s \in {ret[t], "close"})
  BY DEF CInv, C!TypeOK
<1> HIDE DEF s
<1>3. /\ cpc'[t] = s /\ \A u \in C!Callers : u # t => cpc'[u] = cpc[u]
  BY <1>1 DEF At, CInv, C!TypeOK
<1>4. Unused'
  <2>1. CASE t = UI
    <3>1. s \in {"idle", "disc", "close"}
      BY <1>2, <2>1 DEF CInv, Steps
    <3> QED
      BY <1>0, <1>1, <1>2, <1>3, <2>1, <3>1, Used DEF Unused, CInv, TheUI, C!TypeOK
  <2>2. CASE t # UI
    BY <1>0, <1>1, <2>2, Used DEF Unused, TheUI
  <2> QED
    BY <2>1, <2>2
<1>5. Chained'
  <2>1. CASE t = UI
    <3>1. s \in {"idle", "disc", "close"}
      BY <1>2, <2>1 DEF CInv, Steps
    <3> QED
      BY <1>1, <1>3, <2>1, <3>1 DEF Chained
  <2>2. CASE t # UI
    BY <1>0, <1>1, <1>3, <2>2 DEF Chained, TheUI
  <2> QED
    BY <2>1, <2>2
<1>6. /\ cpc[t] \in PostSteps <=> s \in PostSteps
      /\ Fails(cpc[t], ret[t]) <=> Fails(s, ret[t])
      /\ IF t = UI THEN s \in UISteps /\ ret[t] = "idle"
                   ELSE s \in ThreadSteps /\ ret[t] \in {"idle", "error", "failed", "over"}
  BY <1>0, <1>1, <1>2 DEF CInv, Steps, TheUI, UISteps, ThreadSteps, PostSteps, Fails
<1>7. early' \in BOOLEAN
  BY <1>1 DEF CInv, C!TypeOK
<1> QED
  BY <1>0, <1>1, <1>4, <1>5, <1>6, <1>7, QuietInv DEF CInv, C!TypeOK

LEMMA CloseInv ==
  ASSUME C!ConnecterAssumption, CInv, NEW t \in C!Callers, C!CloseSocket(t) \/ C!ClearSocket(t)
  PROVE  CInv'
<1> DEFINE s == IF cpc[t] = "close" THEN "clear" ELSE ret[t]
<1>0. TheUI
  BY Apart
<1>1. /\ cpc[t] \in {"close", "clear"} /\ At(t, s, ret[t])
      /\ copened' \in BOOLEAN /\ valid' \in BOOLEAN
      /\ UNCHANGED <<cstatus, connected, associated, n, cio, cbufs, creqs, messages, writes, early>>
  BY DEF C!CloseSocket, C!ClearSocket, C!GoTo, At, CInv, C!TypeOK, C!poolVars, C!envVars
<1>2. s \in {"clear", ret[t]}
  OBVIOUS
<1> HIDE DEF s
<1>3. /\ cpc'[t] = s /\ \A u \in C!Callers : u # t => cpc'[u] = cpc[u]
  BY <1>1 DEF At, CInv, C!TypeOK
<1>4. Unused'
  <2>1. CASE t = UI
    <3>1. s \in {"idle", "clear"}
      BY <1>2, <2>1 DEF CInv, Steps
    <3> QED
      BY <1>0, <1>1, <1>3, <2>1, <3>1 DEF Unused, CInv, TheUI
  <2>2. CASE t # UI
    BY <1>0, <1>1, <2>2, Used DEF Unused, TheUI
  <2> QED
    BY <2>1, <2>2
<1>5. Chained'
  <2>1. \A u \in Threads : cpc[u] \in {"read", "stop"} => cpc'[u] \in {"read", "stop"}
    BY <1>0, <1>1, <1>3 DEF TheUI
  <2>2. cpc'[UI] \in {"ccount", "run"} => cpc[UI] \in {"ccount", "run"}
    <3>1. t = UI => s \in {"idle", "clear"}
      BY <1>2 DEF CInv, Steps
    <3> QED
      BY <1>0, <1>3, <3>1 DEF TheUI
  <2> QED
    BY <1>1, <2>1, <2>2 DEF Chained, CInv
<1>6. /\ cpc[t] \in PostSteps <=> s \in PostSteps
      /\ Fails(cpc[t], ret[t]) <=> Fails(s, ret[t])
      /\ IF t = UI THEN s \in UISteps /\ ret[t] = "idle"
                   ELSE s \in ThreadSteps /\ ret[t] \in {"idle", "error", "failed", "over"}
  BY <1>0, <1>1, <1>2 DEF CInv, Steps, TheUI, UISteps, ThreadSteps, PostSteps, Fails
<1> QED
  BY <1>0, <1>1, <1>4, <1>5, <1>6, QuietInv DEF CInv, C!TypeOK

\* The end of a failure's handling, and of a handler.
LEMMA EndInv ==
  ASSUME C!ConnecterAssumption, CInv, NEW t \in Threads, C!NoteError(t) \/ C!Over(t)
  PROVE  CInv'
<1> DEFINE s == IF cpc[t] = "over" THEN "idle" ELSE IF cpc[t] = "failed" THEN "ecount" ELSE "over"
<1>0. TheUI
  BY Apart
<1>1. /\ cpc[t] \in {"over", "error", "failed"} /\ At(t, s, ret[t])
      /\ cstatus' \in {cstatus, "error"}
      /\ UNCHANGED <<connected, valid, copened, associated, n, cio, cbufs, creqs, messages, writes, early>>
  BY <1>0 DEF C!NoteError, C!Over, C!GoTo, At, CInv, C!TypeOK, C!objVars, C!poolVars, C!envVars, TheUI
<1>2. s \notin PostSteps /\ cpc[t] \notin PostSteps /\ (Fails(cpc[t], ret[t]) <=> Fails(s, ret[t])) /\ s \in ThreadSteps
  BY <1>1 DEF PostSteps, Fails, ThreadSteps
<1> HIDE DEF s
<1>3. \A u \in C!Callers : u # t => cpc'[u] = cpc[u]
  BY <1>1 DEF At, CInv, C!TypeOK
<1>4. Unused'
  BY <1>1, Used DEF Unused
<1>5. Chained'
  <2>1. \A u \in Threads : cpc[u] \in {"read", "stop"} => cpc'[u] = cpc[u]
    BY <1>0, <1>1, <1>3 DEF TheUI
  <2>2. cpc'[UI] = cpc[UI]
    BY <1>0, <1>3 DEF TheUI
  <2> QED
    BY <1>1, <2>1, <2>2 DEF Chained, CInv
<1>6. t \in C!Callers /\ t # UI /\ ret[t] \in {"idle", "error", "failed", "over"}
  BY <1>0 DEF TheUI, CInv, Steps
<1> QED
  BY <1>1, <1>2, <1>4, <1>5, <1>6, QuietInv DEF CInv, C!TypeOK

\* What was posted, and a failure, is counted.
LEMMA CountPostedInv ==
  ASSUME C!ConnecterAssumption, CInv, NEW t \in C!Callers, NEW s \in DOMAIN C!Calls, C!CountPosted(t, s)
  PROVE  CInv'
<1> DEFINE q == C!Calls[s].posted
           a == C!After[s]
           c == C!Posts(C!Calls[s].kind)
<1>0. TheUI
  BY Apart
<1>1. /\ cpc[t] = q /\ At(t, a, ret[t]) /\ n' = C!Counted(c)
      /\ UNCHANGED <<cstatus, connected, valid, copened, associated, cio, cbufs, creqs, messages, writes, early>>
  BY DEF C!CountPosted, C!GoTo, At, CInv, C!TypeOK, C!objVars, C!poolVars, C!envVars
<1>2. /\ q \in PostSteps /\ a \notin PostSteps /\ (Fails(q, ret[t]) <=> Fails(a, ret[t]))
      /\ IF t = UI THEN a \in UISteps /\ ret[t] = "idle"
                   ELSE a \in ThreadSteps /\ ret[t] \in {"idle", "error", "failed", "over"}
      /\ c \in {"recv", "write"} /\ (a \in {"ccount", "run"} => q = "ccount")
  BY <1>0, <1>1, CallsAre DEF PostSteps, Fails, CInv, Steps, UISteps, ThreadSteps, TheUI, C!Posts
<1> HIDE DEF q, a, c
<1>3. /\ Steps' /\ cpc'[t] = a /\ ret'[t] = ret[t]
      /\ \A u \in C!Callers : u # t => cpc'[u] = cpc[u] /\ ret'[u] = ret[u]
      /\ cpc' \in [C!Callers -> {"idle", "connect", "ccount", "run", "send", "wcount", "read", "rcount",
                         "stop", "disc", "dcount", "close", "clear", "error", "failed", "ecount", "over"}]
      /\ ret' \in [C!Callers -> {"idle", "error", "failed", "over"}]
      /\ Posts \in Nat /\ Fail \in Nat /\ Posts' = Posts - 1 /\ Fail' = Fail
  BY <1>1, <1>2, AtStep DEF CInv
<1>4. /\ n' \in [Counters -> Nat] /\ n'.recv + n'.write = n.recv + n.write + 1
      /\ n'.recved + n'.writed + n'.error = n.recved + n.writed + n.error
      /\ n.recv \in Nat /\ n.recved \in Nat /\ n.write \in Nat /\ n.writed \in Nat /\ n.error \in Nat
  BY <1>1, <1>2, CountMore DEF CInv, Counters
<1>5. C!TypeOK'
  BY <1>1, <1>3, <1>4 DEF CInv, C!TypeOK, Counters
<1>6. Unused'
  <2>1. associated
    BY <1>0, <1>1, <1>2, Used DEF TheUI, PostSteps
  <2> QED
    BY <1>1, <2>1 DEF Unused
<1>7. C!CountersAgree'
  <2>1. C!Outstanding' = C!Outstanding /\ C!Outstanding \in Nat
    BY <1>1 DEF C!Outstanding, CInv, C!TypeOK, C!OperKinds
  <2>2. Agree
    BY AgreeIs DEF CInv
  <2>3. Agree'
    BY <1>3, <1>4, <2>1, <2>2 DEF Agree
  <2> QED
    BY <2>3, AgreeIs
<1>8. C!PoolsWhole'
  BY <1>1 DEF CInv, C!PoolsWhole, C!Outstanding
<1>9. Chained'
  <2>1. \A u \in Threads : cpc[u] \in {"read", "stop"} => cpc'[u] \in {"read", "stop"}
    BY <1>0, <1>1, <1>2, <1>3 DEF TheUI, PostSteps
  <2>2. cpc'[UI] \in {"ccount", "run"} => cpc[UI] \in {"ccount", "run"}
    BY <1>0, <1>1, <1>2, <1>3 DEF TheUI
  <2> QED
    BY <1>1, <2>1, <2>2 DEF Chained, CInv
<1> QED
  BY <1>3, <1>5, <1>6, <1>7, <1>8, <1>9 DEF CInv

LEMMA CountErrorInv ==
  ASSUME C!ConnecterAssumption, CInv, NEW t \in Threads, C!CountError(t)
  PROVE  CInv'
<1>0. TheUI
  BY Apart
<1>1. /\ cpc[t] = "ecount" /\ At(t, "over", ret[t]) /\ n' = C!Counted("error") /\ t \in C!Callers /\ t # UI
      /\ UNCHANGED <<cstatus, connected, valid, copened, associated, cio, cbufs, creqs, messages, writes, early>>
  BY <1>0 DEF C!CountError, C!GoTo, At, CInv, C!TypeOK, C!objVars, C!poolVars, C!envVars, TheUI
<1>2. /\ "ecount" \notin PostSteps /\ "over" \notin PostSteps
      /\ Fails("ecount", ret[t]) /\ ~Fails("over", ret[t])
      /\ "over" \in ThreadSteps /\ ret[t] \in {"idle", "error", "failed", "over"}
  BY DEF PostSteps, Fails, CInv, Steps, ThreadSteps
<1>3. /\ Steps' /\ cpc'[t] = "over" /\ ret'[t] = ret[t]
      /\ \A u \in C!Callers : u # t => cpc'[u] = cpc[u] /\ ret'[u] = ret[u]
      /\ cpc' \in [C!Callers -> {"idle", "connect", "ccount", "run", "send", "wcount", "read", "rcount",
                         "stop", "disc", "dcount", "close", "clear", "error", "failed", "ecount", "over"}]
      /\ ret' \in [C!Callers -> {"idle", "error", "failed", "over"}]
      /\ Posts \in Nat /\ Fail \in Nat /\ Posts' = Posts /\ Fail' = Fail - 1
  BY <1>1, <1>2, AtStep DEF CInv
<1>4. /\ n' \in [Counters -> Nat] /\ n'.recv + n'.write = n.recv + n.write
      /\ n'.recved + n'.writed + n'.error = n.recved + n.writed + n.error + 1
      /\ n.recv \in Nat /\ n.recved \in Nat /\ n.write \in Nat /\ n.writed \in Nat /\ n.error \in Nat
  BY <1>1, CountMore DEF CInv, Counters
<1>5. C!TypeOK'
  BY <1>1, <1>3, <1>4 DEF CInv, C!TypeOK, Counters
<1>6. Unused'
  BY <1>1, Used DEF Unused
<1>7. C!CountersAgree'
  <2>1. C!Outstanding' = C!Outstanding /\ C!Outstanding \in Nat
    BY <1>1 DEF C!Outstanding, CInv, C!TypeOK, C!OperKinds
  <2>2. Agree
    BY AgreeIs DEF CInv
  <2>3. Agree'
    BY <1>3, <1>4, <2>1, <2>2 DEF Agree
  <2> QED
    BY <2>3, AgreeIs
<1>8. C!PoolsWhole'
  BY <1>1 DEF CInv, C!PoolsWhole, C!Outstanding
<1>9. Chained'
  BY <1>0, <1>1, <1>3 DEF Chained, CInv, TheUI
<1> QED
  BY <1>3, <1>5, <1>6, <1>7, <1>8, <1>9 DEF CInv

\* A call that fails gives back what it took.
LEMMA PostFailsInv ==
  ASSUME C!ConnecterAssumption, CInv, NEW t \in C!Callers, NEW s \in DOMAIN C!Calls, C!PostFails(t, s)
  PROVE  CInv'
<1> DEFINE f == C!Calls[s].failed
           r == IF s = "connect" THEN "idle" ELSE IF s = "read" THEN "error" ELSE ret[t]
           k == C!Calls[s].kind
<1>0. TheUI
  BY Apart
<1>1. /\ cpc[t] = s /\ At(t, f, r) /\ cstatus' = "error"
      /\ creqs' = C!Back(C!Taken(creqs))
      /\ cbufs' = IF k \in {"read", "write"} THEN C!Back(C!Taken(cbufs)) ELSE cbufs
      /\ UNCHANGED <<connected, valid, copened, associated, n, cio, messages, writes, early>>
  BY DEF C!PostFails, C!GoTo, At, CInv, C!TypeOK, C!envVars, C!HasBuf
<1>2. /\ f \notin PostSteps /\ s \notin PostSteps /\ (Fails(s, ret[t]) <=> Fails(f, r))
      /\ IF t = UI THEN f \in UISteps /\ r = "idle"
                   ELSE f \in ThreadSteps /\ r \in {"idle", "error", "failed", "over"}
      /\ f \notin {"ccount", "run"} /\ s \notin {"ccount", "run", "stop"} /\ (s = "read" => f = "stop")
  BY <1>0, <1>1, CallsAre DEF PostSteps, Fails, CInv, Steps, UISteps, ThreadSteps, TheUI
<1> HIDE DEF f, r, k
<1>3. /\ Steps' /\ cpc'[t] = f /\ Posts' = Posts /\ Fail' = Fail
      /\ \A u \in C!Callers : u # t => cpc'[u] = cpc[u] /\ ret'[u] = ret[u]
      /\ cpc' \in [C!Callers -> {"idle", "connect", "ccount", "run", "send", "wcount", "read", "rcount",
                         "stop", "disc", "dcount", "close", "clear", "error", "failed", "ecount", "over"}]
      /\ ret' \in [C!Callers -> {"idle", "error", "failed", "over"}]
  BY <1>1, <1>2, AtStep DEF CInv
<1>4. /\ creqs' \in [made : Nat, free : Nat] /\ creqs'.made - creqs'.free = creqs.made - creqs.free
      /\ cbufs' \in [made : Nat, free : Nat] /\ cbufs'.made - cbufs'.free = cbufs.made - cbufs.free
  <2>1. creqs \in [made : Nat, free : Nat] /\ cbufs \in [made : Nat, free : Nat]
    BY DEF CInv, C!TypeOK
  <2>2. ASSUME NEW p \in [made : Nat, free : Nat]
        PROVE  /\ C!Back(C!Taken(p)) \in [made : Nat, free : Nat]
               /\ C!Back(C!Taken(p)).made - C!Back(C!Taken(p)).free = p.made - p.free
    <3>1. /\ C!Taken(p) \in [made : Nat, free : Nat]
          /\ C!Taken(p).made - C!Taken(p).free = p.made - p.free + 1 /\ p.made \in Nat /\ p.free \in Nat
      BY Lists
    <3>2. /\ C!Back(C!Taken(p)) \in [made : Nat, free : Nat]
          /\ C!Back(C!Taken(p)).made = C!Taken(p).made /\ C!Back(C!Taken(p)).free = C!Taken(p).free + 1
          /\ C!Taken(p).made \in Nat /\ C!Taken(p).free \in Nat
      BY <3>1, Lists
    <3> QED
      BY <3>1, <3>2
  <2>3. CASE k \in {"read", "write"}
    BY <1>1, <2>1, <2>2, <2>3
  <2>4. CASE k \notin {"read", "write"}
    BY <1>1, <2>1, <2>2, <2>4
  <2> QED
    BY <2>3, <2>4
<1>5. C!TypeOK'
  BY <1>1, <1>3, <1>4 DEF CInv, C!TypeOK
<1>6. Unused'
  <2>1. associated
    BY <1>0, <1>1, CallsAre, Used DEF TheUI
  <2> QED
    BY <1>1, <2>1 DEF Unused
<1>7. C!CountersAgree'
  <2>1. Agree'
    BY <1>1, <1>3, AgreeIs DEF CInv, Agree, C!Outstanding
  <2> QED
    BY <2>1, AgreeIs
<1>8. C!PoolsWhole'
  <2>1. /\ creqs.made \in Nat /\ creqs.free \in Nat /\ creqs'.made \in Nat /\ creqs'.free \in Nat
        /\ cbufs.made \in Nat /\ cbufs.free \in Nat /\ cbufs'.made \in Nat /\ cbufs'.free \in Nat
        /\ cio["read"] \in Nat /\ cio["write"] \in Nat /\ C!Outstanding \in Nat
    BY <1>4 DEF CInv, C!TypeOK, C!Outstanding, C!OperKinds
  <2>2. C!Outstanding' = C!Outstanding
    BY <1>1 DEF C!Outstanding
  <2>3. cbufs.made = cbufs.free + cio["read"] + cio["write"] /\ creqs.made = creqs.free + C!Outstanding
    BY DEF CInv, C!PoolsWhole
  <2>4. cbufs'.made = cbufs'.free + cio["read"] + cio["write"]
    BY <1>4, <2>1, <2>3
  <2>5. creqs'.made = creqs'.free + C!Outstanding
    BY <1>4, <2>1, <2>3
  <2> QED
    BY <1>1, <2>2, <2>4, <2>5 DEF C!PoolsWhole
<1>9. Chained'
  <2>1. \A u \in Threads : cpc[u] \in {"read", "stop"} => cpc'[u] \in {"read", "stop"}
    BY <1>0, <1>1, <1>2, <1>3 DEF TheUI
  <2>2. cpc'[UI] \in {"ccount", "run"} => cpc[UI] \in {"ccount", "run"}
    BY <1>0, <1>1, <1>2, <1>3 DEF TheUI
  <2> QED
    BY <1>1, <2>1, <2>2 DEF Chained, CInv
<1> QED
  BY <1>3, <1>5, <1>6, <1>7, <1>8, <1>9 DEF CInv

\* The counters of a connection that is started are zero, as they were.
LEMMA StartInv ==
  ASSUME C!ConnecterAssumption, CInv, C!Start
  PROVE  CInv'
<1>0. TheUI /\ UI \in C!Callers /\ cpc[UI] = "idle" /\ cstatus # "run"
  BY Apart DEF C!Start, TheUI
<1>1. CASE C!CallStop(UI, "idle") /\ UNCHANGED <<associated, n, connected>>
  <2>1. /\ At(UI, "stop", "idle")
        /\ UNCHANGED <<cstatus, connected, valid, copened, associated, n, cio, cbufs, creqs, messages, writes, early>>
    BY <1>1 DEF C!Start, C!CallStop, C!GoTo, At, C!poolVars, C!envVars
  <2>2. C!StopClick
    BY <1>0, <1>1, <2>1 DEF C!StopClick, C!objVars, C!poolVars, C!envVars
  <2> QED
    BY <2>2, StopClickInv
<1>2. CASE /\ ~associated /\ associated' = TRUE /\ n' = [c \in DOMAIN n |-> 0] /\ connected' = FALSE
           /\ C!GoTo(UI, "connect") /\ UNCHANGED ret
  <2>1. /\ At(UI, "connect", "idle")
        /\ UNCHANGED <<cstatus, valid, copened, cio, cbufs, creqs, messages, writes, early>>
    BY <1>2 DEF C!Start, C!GoTo, At, CInv, Steps, C!TypeOK, C!Callers, C!poolVars, C!envVars
  <2>2. n \in [Counters -> Nat] /\ n.recv = 0 /\ n.write = 0 /\ n.recved = 0 /\ n.writed = 0 /\ n.error = 0
    BY <1>2 DEF CInv, Unused, C!TypeOK, Counters
  <2>3. n' = n
    <3>1. \A c \in Counters : n[c] = 0
      BY <2>2 DEF Counters
    <3> QED
      BY <1>2, <2>2, <3>1
  <2>4. cpc'[UI] = "connect"
    BY <1>0, <2>1 DEF At, CInv, C!TypeOK
  <2>5. Unused' /\ Chained'
    BY <1>0, <1>2, <2>1, <2>4 DEF Unused, Chained
  <2>6. "connect" \in UISteps /\ "connect" \notin PostSteps /\ "idle" \notin PostSteps /\ ret[UI] = "idle"
        /\ ~Fails("connect", "idle") /\ ~Fails("idle", "idle")
    BY DEF UISteps, PostSteps, Fails, CInv, Steps
  <2> QED
    BY <1>0, <1>2, <2>1, <2>3, <2>5, <2>6, QuietInv DEF CInv, C!TypeOK
<1> QED
  BY <1>1, <1>2 DEF C!Start

\* A packet: its operation is over, and it is counted, or the thread has a failure to count.
LEMMA DequeueInv ==
  ASSUME C!ConnecterAssumption, CInv, NEW t \in Threads, NEW k \in C!OperKinds, C!Dequeue(t, k),
         NEW s \in {"idle", "read", "over", "stop"}, NEW r \in {"idle", "error", "failed", "over"}, At(t, s, r),
         \/ n' = C!Counted(C!Passed(k)) /\ ~Fails(s, r)
         \/ n' = n /\ Fails(s, r),
         connected' \in BOOLEAN, messages' \in 0 .. MaxMessages,
         k \in {"connect", "read"} => s \in {"read", "stop"}
  PROVE  CInv'
<1>0. TheUI /\ t \in C!Callers /\ t # UI
  BY Apart DEF TheUI
<1>1. /\ cpc[t] = "idle" /\ cio[k] > 0 /\ cio' = [cio EXCEPT ![k] = @ - 1]
      /\ creqs' = C!Back(creqs)
      /\ cbufs' = IF k \in {"read", "write"} THEN C!Back(cbufs) ELSE cbufs
      /\ UNCHANGED <<cstatus, valid, copened, associated, writes, early>>
  BY DEF C!Dequeue, C!HasBuf
<1>2. /\ s \notin PostSteps /\ "idle" \notin PostSteps /\ ~Fails("idle", ret[t]) /\ s \in ThreadSteps
      /\ C!Passed(k) \in {"recved", "writed"}
  BY DEF PostSteps, Fails, ThreadSteps, C!Passed
<1>3. /\ Steps' /\ cpc'[t] = s
      /\ \A u \in C!Callers : u # t => cpc'[u] = cpc[u] /\ ret'[u] = ret[u]
      /\ cpc' \in [C!Callers -> {"idle", "connect", "ccount", "run", "send", "wcount", "read", "rcount",
                         "stop", "disc", "dcount", "close", "clear", "error", "failed", "ecount", "over"}]
      /\ ret' \in [C!Callers -> {"idle", "error", "failed", "over"}]
      /\ Posts \in Nat /\ Fail \in Nat /\ Posts' = Posts
      /\ Fails(s, r) => Fail' = Fail + 1
      /\ ~Fails(s, r) => Fail' = Fail
  BY <1>0, <1>1, <1>2, AtStep DEF CInv
<1>4. /\ cio' \in [C!OperKinds -> Nat] /\ C!Outstanding' = C!Outstanding - 1 /\ C!Outstanding \in Nat
      /\ cio'[k] = cio[k] - 1 /\ \A j \in C!OperKinds \ {k} : cio'[j] = cio[j]
  BY <1>1, OperLess DEF CInv
<1>5. /\ creqs' \in [made : Nat, free : Nat] /\ creqs'.made = creqs.made /\ creqs'.free = creqs.free + 1
      /\ cbufs' \in [made : Nat, free : Nat] /\ cbufs'.made = cbufs.made
      /\ cbufs'.free = cbufs.free + (IF k \in {"read", "write"} THEN 1 ELSE 0)
      /\ cbufs.made \in Nat /\ cbufs.free \in Nat /\ creqs.made \in Nat /\ creqs.free \in Nat
  <2>1. creqs \in [made : Nat, free : Nat] /\ cbufs \in [made : Nat, free : Nat]
    BY DEF CInv, C!TypeOK
  <2>2. CASE k \in {"read", "write"}
    BY <1>1, <2>1, <2>2, Lists
  <2>3. CASE k \notin {"read", "write"}
    <3>1. cbufs' = cbufs /\ cbufs'.free = cbufs.free + 0
      BY <1>1, <2>1, <2>3
    <3> QED
      BY <1>1, <2>1, <2>3, <3>1, Lists
  <2> QED
    BY <2>2, <2>3
<1>6. /\ n' \in [Counters -> Nat] /\ n'.recv + n'.write = n.recv + n.write
      /\ n'.recved + n'.writed + n'.error
           = n.recved + n.writed + n.error + (IF Fails(s, r) THEN 0 ELSE 1)
      /\ n.recv \in Nat /\ n.recved \in Nat /\ n.write \in Nat /\ n.writed \in Nat /\ n.error \in Nat
  <2>1. n \in [Counters -> Nat]
    BY DEF CInv, C!TypeOK, Counters
  <2>2. n.recv \in Nat /\ n.recved \in Nat /\ n.write \in Nat /\ n.writed \in Nat /\ n.error \in Nat
    BY <2>1 DEF Counters
  <2>3. CASE n' = C!Counted(C!Passed(k)) /\ ~Fails(s, r)
    <3>1. C!Passed(k) \in Counters
      BY <1>2 DEF Counters
    <3>2. n' \in [Counters -> Nat] /\ n'.recv + n'.write = n.recv + n.write
          /\ n'.recved + n'.writed + n'.error = n.recved + n.writed + n.error + 1
      BY <1>2, <2>3, <3>1, CountMore DEF CInv
    <3> QED
      BY <2>2, <2>3, <3>2
  <2>4. CASE n' = n /\ Fails(s, r)
    BY <2>1, <2>2, <2>4
  <2> QED
    BY <2>3, <2>4
<1>7. C!TypeOK'
  BY <1>1, <1>3, <1>4, <1>5, <1>6 DEF CInv, C!TypeOK, Counters
<1>8. Unused'
  <2>1. associated
    BY <1>1, Used
  <2> QED
    BY <1>1, <2>1 DEF Unused
<1>9. C!CountersAgree'
  <2>1. Agree
    BY AgreeIs DEF CInv
  <2>2. /\ Fails(s, r) => n'.recved + n'.writed + n'.error = n.recved + n.writed + n.error /\ Fail' = Fail + 1
        /\ ~Fails(s, r) => n'.recved + n'.writed + n'.error = n.recved + n.writed + n.error + 1 /\ Fail' = Fail
    BY <1>3, <1>6
  <2>3. n'.recved \in Nat /\ n'.writed \in Nat /\ n'.error \in Nat /\ n'.recv \in Nat /\ n'.write \in Nat
    BY <1>6 DEF Counters
  <2>4. Agree'
    BY <1>3, <1>4, <1>6, <2>1, <2>2, <2>3 DEF Agree
  <2> QED
    BY <2>4, AgreeIs
<1>10. C!PoolsWhole'
  <2>1. cio["read"] \in Nat /\ cio["write"] \in Nat /\ k \in {"connect", "disconnect", "read", "write"}
    BY DEF CInv, C!TypeOK, C!OperKinds
  <2>2. cio'["read"] + cio'["write"] = cio["read"] + cio["write"] - (IF k \in {"read", "write"} THEN 1 ELSE 0)
    BY <1>4, <2>1 DEF C!OperKinds
  <2>3. cbufs'.made \in Nat /\ cbufs'.free \in Nat /\ creqs'.made \in Nat /\ creqs'.free \in Nat
    BY <1>5
  <2>4. cbufs.made = cbufs.free + cio["read"] + cio["write"] /\ creqs.made = creqs.free + C!Outstanding
    BY DEF CInv, C!PoolsWhole
  <2>5. cbufs'.made = cbufs'.free + (cio'["read"] + cio'["write"])
    BY <1>5, <2>1, <2>2, <2>3, <2>4
  <2>6. creqs'.made = creqs'.free + C!Outstanding'
    BY <1>4, <1>5, <2>3, <2>4
  <2>7. cio'["read"] \in Nat /\ cio'["write"] \in Nat
    BY <1>4 DEF C!OperKinds
  <2> QED
    BY <2>3, <2>5, <2>6, <2>7 DEF C!PoolsWhole
<1>11. Chained'
  <2>1. CASE k \in {"connect", "read"}
    BY <1>3, <2>1 DEF Chained
  <2>2. CASE k \notin {"connect", "read"}
    <3>1. cio'["connect"] = cio["connect"] /\ cio'["read"] = cio["read"]
      BY <1>4, <2>2 DEF C!OperKinds
    <3>2. \A u \in Threads : cpc[u] \in {"read", "stop"} => cpc'[u] \in {"read", "stop"}
      BY <1>0, <1>1, <1>3 DEF TheUI
    <3>3. cpc'[UI] = cpc[UI]
      BY <1>0, <1>3 DEF TheUI
    <3> QED
      BY <1>1, <3>1, <3>2, <3>3 DEF Chained, CInv
  <2> QED
    BY <2>1, <2>2
<1> QED
  BY <1>3, <1>7, <1>8, <1>9, <1>10, <1>11 DEF CInv

\* A thread takes a packet.
LEMMA PacketInv ==
  ASSUME C!ConnecterAssumption, CInv, NEW t \in Threads, C!Packet(t)
  PROVE  CInv'
<1>0. /\ TheUI /\ t \in C!Callers
      /\ ret[t] \in {"idle", "error", "failed", "over"} /\ connected \in BOOLEAN
      /\ messages \in 0 .. MaxMessages /\ MaxMessages \in Nat
      /\ cpc \in [C!Callers -> {"idle", "connect", "ccount", "run", "send", "wcount", "read", "rcount",
                         "stop", "disc", "dcount", "close", "clear", "error", "failed", "ecount", "over"}]
      /\ ret \in [C!Callers -> {"idle", "error", "failed", "over"}]
  BY Apart DEF TheUI, CInv, Steps, C!TypeOK, C!ConnecterAssumption
<1>1. /\ "connect" \in C!OperKinds /\ "disconnect" \in C!OperKinds /\ "read" \in C!OperKinds /\ "write" \in C!OperKinds
      /\ ~Fails("read", ret[t]) /\ ~Fails("over", ret[t]) /\ ~Fails("stop", "over") /\ ~Fails("idle", ret[t])
      /\ Fails("stop", "failed")
  BY DEF C!OperKinds, Fails
<1>2. CASE C!Connected(t)
  <2>1. C!Dequeue(t, "connect") /\ At(t, "read", ret[t]) /\ n' = C!Counted(C!Passed("connect"))
        /\ connected' = TRUE /\ UNCHANGED messages
    BY <1>0, <1>2 DEF C!Connected, C!GoTo, At
  <2> QED
    BY <1>0, <1>1, <2>1, DequeueInv
<1>3. CASE C!Disconnected(t)
  <2>1. C!Dequeue(t, "disconnect") /\ At(t, "over", ret[t]) /\ n' = C!Counted(C!Passed("disconnect"))
        /\ connected' = FALSE /\ UNCHANGED messages
    BY <1>0, <1>3 DEF C!Disconnected, C!GoTo, At
  <2> QED
    BY <1>0, <1>1, <2>1, DequeueInv
<1>4. CASE C!ReadData(t)
  <2>1. C!Dequeue(t, "read") /\ At(t, "read", ret[t]) /\ n' = C!Counted(C!Passed("read"))
        /\ messages' = messages + 1 /\ messages < MaxMessages /\ UNCHANGED connected
    BY <1>0, <1>4 DEF C!ReadData, C!GoTo, At
  <2>2. messages' \in 0 .. MaxMessages
    BY <1>0, <2>1
  <2> QED
    BY <1>0, <1>1, <2>1, <2>2, DequeueInv
<1>5. CASE C!PeerClosed(t)
  <2>1. C!Dequeue(t, "read") /\ At(t, "stop", "over") /\ n' = C!Counted(C!Passed("read"))
        /\ UNCHANGED <<messages, connected>>
    BY <1>5 DEF C!PeerClosed, C!CallStop, C!GoTo, At
  <2> QED
    BY <1>0, <1>1, <2>1, DequeueInv
<1>6. CASE C!Written(t)
  <2>1. C!Dequeue(t, "write") /\ At(t, "idle", ret[t]) /\ n' = C!Counted(C!Passed("write"))
        /\ UNCHANGED <<messages, connected>>
    BY <1>0, <1>6 DEF C!Written, C!Dequeue, At
  <2> QED
    BY <1>0, <1>1, <2>1, DequeueInv
<1>7. ASSUME NEW k \in C!OperKinds, C!Failed(t, k) PROVE CInv'
  <2>1. C!Dequeue(t, k) /\ At(t, "stop", "failed") /\ UNCHANGED <<n, messages, connected>>
    BY <1>7 DEF C!Failed, C!CallStop, C!GoTo, At
  <2> QED
    BY <1>0, <1>1, <2>1, DequeueInv
<1> QED
  BY <1>2, <1>3, <1>4, <1>5, <1>6, <1>7 DEF C!Packet

\* The initial states.
LEMMA CInit == ASSUME C!ConnecterAssumption, C!Init PROVE CInv
<1>0. TheUI
  BY Apart
<1>1. C!TypeOK
  <2>1. MaxMessages \in Nat /\ MaxWrites \in Nat
    BY DEF C!ConnecterAssumption
  <2>2. /\ n \in [Counters -> Nat] /\ cio \in [C!OperKinds -> Nat]
        /\ cbufs \in [made : Nat, free : Nat] /\ creqs \in [made : Nat, free : Nat]
    BY DEF C!Init, Counters
  <2>3. messages \in 0 .. MaxMessages /\ writes \in 0 .. MaxWrites
    BY <2>1 DEF C!Init
  <2>4. /\ cpc = [t \in C!Callers |-> "idle"] /\ ret = [t \in C!Callers |-> "idle"]
        /\ cstatus = "stop" /\ ~connected /\ valid /\ copened /\ ~associated /\ ~early
        /\ connected \in BOOLEAN /\ valid \in BOOLEAN /\ copened \in BOOLEAN
        /\ associated \in BOOLEAN /\ early \in BOOLEAN
    BY DEF C!Init, C!MakeTcpClientSocket
  <2> QED
    BY <2>2, <2>3, <2>4 DEF C!TypeOK, Counters
<1>2. Steps /\ Unused /\ Chained
  BY <1>0 DEF C!Init, C!MakeTcpClientSocket, Steps, Unused, Chained, UISteps, ThreadSteps, C!Callers, C!OperKinds
<1>3. C!Outstanding = 0 /\ C!PoolsWhole
  BY DEF C!Init, C!Outstanding, C!PoolsWhole, C!OperKinds
<1>4. C!Posting = {} /\ C!Failing = {}
  BY DEF C!Init, C!Posting, C!Failing
<1>5. C!CountersAgree
  <2>1. Posts = 0 /\ Fail = 0
    BY <1>4, FS_EmptySet DEF Posts, Fail
  <2>2. Agree
    BY <1>3, <2>1 DEF Agree, C!Init
  <2> QED
    BY <2>2, AgreeIs
<1> QED
  BY <1>1, <1>2, <1>3, <1>5 DEF CInv

\* The invariant of a connection.
LEMMA ConnecterInvariant == ASSUME C!ConnecterAssumption PROVE C!Spec => []CInv
<1>1. CInv /\ [C!Next]_C!vars => CInv'
  <2> SUFFICES ASSUME CInv, [C!Next]_C!vars PROVE CInv'
    OBVIOUS
  <2>0. TheUI
    BY Apart
  <2>1. CASE C!Start \/ C!Running \/ C!StopClick \/ C!Timer
    BY <2>1, StartInv, RunningInv, StopClickInv, TimerInv
  <2>2. ASSUME NEW t \in C!Callers, C!Call(t) PROVE CInv'
    BY <2>2, PostInv, CountPostedInv, PostFailsInv DEF C!Call
  <2>3. ASSUME NEW t \in C!Callers, C!Stop(t) PROVE CInv'
    BY <2>3, StopStatusInv, CloseInv DEF C!Stop
  <2>4. ASSUME NEW t \in Threads, C!Packet(t) PROVE CInv'
    BY <2>4, PacketInv
  <2>5. ASSUME NEW t \in Threads, C!Handler(t) PROVE CInv'
    BY <2>5, EndInv, CountErrorInv DEF C!Handler
  <2>6. CASE UNCHANGED C!vars
    <3>1. UNCHANGED <<cstatus, connected, valid, copened, associated, n, cio, cbufs, creqs, cpc, ret, messages, writes, early>>
      BY <2>6 DEF C!vars, C!objVars, C!poolVars, C!envVars
    <3>2. C!Outstanding' = C!Outstanding /\ Posts' = Posts /\ Fail' = Fail
      BY <3>1 DEF C!Outstanding, Posts, Fail, C!Posting, C!Failing
    <3>3. C!CountersAgree'
      BY <3>1, <3>2, AgreeIs DEF CInv, Agree
    <3> QED
      BY <3>1, <3>2, <3>3 DEF CInv, C!TypeOK, Steps, Unused, C!PoolsWhole, Chained
  <2> QED
    BY <2>0, <2>1, <2>2, <2>3, <2>4, <2>5, <2>6 DEF C!Next, TheUI
<1>2. C!Init => CInv
  BY CInit
<1> QED
  BY <1>1, <1>2, PTL DEF C!Spec

\* The counters agree with what is outstanding, and "session is over" is logged in time.
LEMMA ConnecterCounts == C!Spec => []C!Accounted
<1>1. CInv => C!Accounted
  <2> SUFFICES ASSUME CInv PROVE C!OverIsTrue
    BY DEF CInv, C!Accounted
  <2>1. n \in [Counters -> Nat] /\ Agree
    BY AgreeIs DEF CInv, C!TypeOK, Counters
  <2>2. n.recv \in Nat /\ n.recved \in Nat /\ n.write \in Nat /\ n.writed \in Nat /\ n.error \in Nat
    BY <2>1 DEF Counters
  <2>3. Posts \in Nat /\ Fail \in Nat /\ C!Outstanding \in Nat
    <3>1. IsFiniteSet(Threads) /\ UI \notin Threads
      BY ConnecterAssumption DEF C!ConnecterAssumption, C!IsFiniteSet, IsFiniteSet
    <3>2. IsFiniteSet(C!Callers)
      BY <3>1, FS_AddElement DEF C!Callers
    <3>3. C!Posting \subseteq C!Callers /\ C!Failing \subseteq C!Callers
      BY DEF C!Posting, C!Failing
    <3>4. Posts \in Nat /\ Fail \in Nat
      BY <3>2, <3>3, FS_Subset, FS_CardinalityType DEF Posts, Fail
    <3>5. C!Outstanding \in Nat
      BY DEF C!Outstanding, CInv, C!TypeOK, C!OperKinds
    <3> QED
      BY <3>4, <3>5
  <2>4. C!IsOver => C!Outstanding <= Posts
    BY <2>1, <2>2, <2>3 DEF C!IsOver, Agree
  <2> QED
    BY <2>4 DEF C!OverIsTrue, Posts, Cardinality, C!Cardinality
<1> QED
  BY <1>1, ConnecterInvariant, ConnecterAssumption, PTL

\* A connection that shows the running status goes on.
LEMMA ConnecterWaits == C!Spec => []C!Alive
<1>1. ASSUME CInv PROVE C!Alive
  BY <1>1, Apart, ConnecterAssumption DEF CInv, Chained, C!Alive, TheUI
<1> QED
  BY <1>1, ConnecterInvariant, ConnecterAssumption, PTL

----------------------------------------------------------------------------
(* The dialog, whose lists, handlers and threads are those of D            *)
(*                                                                         *)
(* A handler runs in several steps, and between them the lists need not be *)
(* in step: the invariant is the plan of the handler that runs, that is,   *)
(* which of its calls are left and what holds of the lists before the next *)

AllKinds == {"recv", "tcp", "client"}
CallNames == {"start", "stop", "uninit", "delete", "erase", "erasetcp", "clear",
              "uninitfile", "erasefile", "closeport"}

DTypes ==
  /\ MaxObjects \in Nat /\ Kinds \subseteq AllKinds
  /\ dmade \in 0 .. MaxObjects
  /\ list \in [AllKinds -> Seq(1 .. dmade)] /\ files \in Seq(1 .. dmade)
  /\ rows = [k \in AllKinds |-> [i \in 1 .. Len(list[k]) |-> D!Row(list[k][i])]]
  /\ stat \in [D!Objects -> {"none", "stopped", "running", "deleted"}]
  /\ dfile \in [D!Objects -> {"none", "open", "failed", "closed"}]
  /\ buffered \in [D!Objects -> BOOLEAN] /\ dio \in [D!Objects -> BOOLEAN]
  /\ processing \in BOOLEAN /\ port \in {"none", "open", "null", "closed"}
  /\ dpc \in [PortThreads -> {"none", "loop", "wait", "report", "end"}]
  /\ dtaken \in [PortThreads -> 0 .. MaxObjects]
  /\ todo \in Seq(CallNames \X (0 .. MaxObjects))
  /\ port = "none" => todo = <<>>

\* An object is in one list, once, and so is a writer.
Separate ==
  /\ \A k \in AllKinds : IsInjective(list[k])
  /\ \A k, m \in AllKinds : k # m => Range(list[k]) \cap Range(list[m]) = {}
  /\ IsInjective(files)
  /\ \A k \in {"tcp", "client"} : Range(files) \cap Range(list[k]) = {}
  /\ \A o \in D!Objects : dfile[o] = "closed" => o <= dmade /\ stat[o] \in {"stopped", "deleted"}

\* The objects of a list are there, and their files are not closed.
Unclosed(k) == \A o \in Range(list[k]) : dfile[o] # "closed"
Live(k)     == Unclosed(k) /\ \A o \in Range(list[k]) : stat[o] # "deleted"
\* All but one.
LiveBut(k, p) == Unclosed(k) /\ \A o \in Range(list[k]) : o # p => stat[o] # "deleted"
Paired == files = list["recv"]

\* What the handler that runs has still to do, and what holds then: it starts or stops;
NoDeletion ==
  /\ \A k \in AllKinds : Live(k)
  /\ Paired
  /\ \A j \in 1 .. Len(todo) :
       /\ todo[j][1] \in {"start", "stop"}
       /\ \E k \in AllKinds : todo[j][2] \in Range(list[k])

\* s is what is left of the calls c.
EndOf(s, c) == /\ Len(s) <= Len(c)
               /\ \A j \in 1 .. Len(s) : s[j] = c[Len(c) - Len(s) + j]

\* it deletes the receiver at place i, with its writer;
ReceiverCalls(i) ==
  << <<"stop", files[i]>>, <<"uninit", files[i]>>, <<"delete", files[i]>>, <<"erase", i>>,
     <<"uninitfile", files[i]>>, <<"erasefile", i>> >>
DeletesReceiver(i) ==
  /\ Live("tcp") /\ Live("client")
  /\ todo # <<>> /\ EndOf(todo, ReceiverCalls(i))
  /\ Len(todo) >= 3 => Paired /\ LiveBut("recv", files[i])
  /\ Len(todo) <= 3 => stat[files[i]] = "deleted"
  /\ Len(todo) <= 2 => list["recv"] = RemoveAt(files, i) /\ Live("recv")

\* or the listener there;
ListenerCalls(i) ==
  << <<"stop", list["tcp"][i]>>, <<"uninit", list["tcp"][i]>>, <<"delete", list["tcp"][i]>>,
     <<"erasetcp", i>> >>
DeletesListener(i) ==
  /\ Live("recv") /\ Live("client") /\ Paired
  /\ todo # <<>> /\ EndOf(todo, ListenerCalls(i))
  /\ LiveBut("tcp", list["tcp"][i])

\* or all connections;
DeletesClients ==
  /\ Live("recv") /\ Live("tcp") /\ Paired /\ Unclosed("client")
  /\ todo # <<>> /\ todo[Len(todo)] = <<"clear", 0>>
  /\ \A j \in 1 .. Len(todo) - 1 :
       todo[j][1] \in {"stop", "delete"} /\ todo[j][2] \in Range(list["client"])

\* or it is the destructor, after which nothing is started.
EndCall(c) == /\ c[1] \in {"uninit", "uninitfile", "closeport", "delete"}
              /\ c[1] \in {"uninit", "uninitfile"} => c[2] \in 1 .. dmade
Before(s, j, c) == \E l \in 1 .. j - 1 : s[l] = c
FilesLast(s) ==
  \A j \in 1 .. Len(s) :
    /\ EndCall(s[j])
    /\ s[j][1] = "uninitfile" =>
         stat[s[j][2]] \in {"stopped", "deleted"} \/ Before(s, j, <<"uninit", s[j][2]>>)
Ends ==
  /\ FilesLast(todo)
  /\ port = "closed" \/ \E j \in 1 .. Len(todo) : todo[j][1] = "closeport"

Plan == \/ NoDeletion \/ DeletesClients \/ Ends
        \/ \E i \in 1 .. Len(files) : DeletesReceiver(i)
        \/ \E i \in 1 .. Len(list["tcp"]) : DeletesListener(i)

DInv == DTypes /\ Separate /\ Plan

LEMMA PlaceRemoved ==
  ASSUME NEW S, NEW s \in Seq(S), NEW i \in 1 .. Len(s)
  PROVE  /\ RemoveAt(s, i) \in Seq(S) /\ Len(RemoveAt(s, i)) = Len(s) - 1
         /\ \A k \in 1 .. Len(s) - 1 : RemoveAt(s, i)[k] = IF k < i THEN s[k] ELSE s[k + 1]
         /\ Range(RemoveAt(s, i)) \subseteq Range(s)
         /\ IsInjective(s) => IsInjective(RemoveAt(s, i)) /\ s[i] \notin Range(RemoveAt(s, i))
<1> DEFINE r == RemoveAt(s, i)
<1>1. /\ r \in Seq(S) /\ Len(r) = Len(s) - 1
      /\ \A k \in 1 .. Len(s) - 1 : r[k] = IF k < i THEN s[k] ELSE s[k + 1]
  BY Removed
<1> HIDE DEF r
<1>2. Len(s) \in Nat /\ DOMAIN s = 1 .. Len(s) /\ DOMAIN r = 1 .. Len(s) - 1
  BY <1>1
<1>3. \A k \in DOMAIN r : \E j \in DOMAIN s : j # i /\ r[k] = s[j]
  BY SMTT(40), <1>1, <1>2
<1>4. Range(r) \subseteq Range(s)
  BY <1>3 DEF Range
<1>5. ASSUME IsInjective(s) PROVE s[i] \notin Range(r)
  BY <1>2, <1>3, <1>5 DEF Range, IsInjective
<1>6. ASSUME IsInjective(s) PROVE IsInjective(r)
  <2> SUFFICES ASSUME NEW k \in 1 .. Len(s) - 1, NEW j \in 1 .. Len(s) - 1, r[k] = r[j] PROVE k = j
    BY <1>2 DEF IsInjective
  <2>1. \A a, b \in 1 .. Len(s) : s[a] = s[b] => a = b
    BY <1>2, <1>6 DEF IsInjective
  <2>2. \A m \in 1 .. Len(s) - 1 : \E a \in 1 .. Len(s) :
           r[m] = s[a] /\ a = IF m < i THEN m ELSE m + 1
    <3> SUFFICES ASSUME NEW m \in 1 .. Len(s) - 1
                 PROVE  \E a \in 1 .. Len(s) : r[m] = s[a] /\ a = IF m < i THEN m ELSE m + 1
      OBVIOUS
    <3>1. m \in 1 .. Len(s) /\ m + 1 \in 1 .. Len(s)
      BY <1>2
    <3>2. r[m] = IF m < i THEN s[m] ELSE s[m + 1]
      BY <1>1
    <3> QED
      BY <3>1, <3>2
  <2>3. PICK a \in 1 .. Len(s) : r[k] = s[a] /\ a = IF k < i THEN k ELSE k + 1
    BY <2>2
  <2>4. PICK b \in 1 .. Len(s) : r[j] = s[b] /\ b = IF j < i THEN j ELSE j + 1
    BY <2>2
  <2>5. a = b
    BY <2>1, <2>3, <2>4
  <2> QED
    BY <1>2, <2>3, <2>4, <2>5
<1> QED
  BY <1>1, <1>4, <1>5, <1>6 DEF r

\* The first call of a handler is made: one less is to do.
LEMMA Popped ==
  ASSUME NEW S, NEW s \in Seq(S), s # <<>>
  PROVE  /\ Tail(s) \in Seq(S) /\ Head(s) = s[1] /\ Head(s) \in S
         /\ Len(s) \in Nat \ {0} /\ Len(Tail(s)) = Len(s) - 1
         /\ \A j \in 1 .. Len(s) - 1 : Tail(s)[j] = s[j + 1]
  OBVIOUS

LEMMA OneLeft ==
  ASSUME NEW S, NEW s \in Seq(S), Len(s) > 1
  PROVE  Tail(s) # <<>>
<1>1. PICK t : t = Tail(s)
  OBVIOUS
<1>2. Len(s) \in Nat /\ s # <<>>
  OBVIOUS
<1>3. t \in Seq(S) /\ Len(t) = Len(s) - 1
  BY <1>1, <1>2, Popped
<1>4. Len(t) # 0
  BY <1>2, <1>3
<1> QED
  BY <1>1, <1>3, <1>4

LEMMA SeqParts ==
  ASSUME NEW S, NEW s \in Seq(S)
  PROVE  /\ Len(s) \in Nat /\ DOMAIN s = 1 .. Len(s) /\ Range(s) \subseteq S
         /\ \A i \in 1 .. Len(s) : s[i] \in S /\ s[i] \in Range(s)
<1>1. Len(s) \in Nat /\ DOMAIN s = 1 .. Len(s) /\ \A i \in 1 .. Len(s) : s[i] \in S
  OBVIOUS
<1> QED
  BY <1>1 DEF Range

LEMMA EndPopped ==
  ASSUME NEW S, NEW s \in Seq(S), s # <<>>, NEW c, Len(c) \in Nat, EndOf(s, c)
  PROVE  /\ EndOf(Tail(s), c) /\ Head(s) = c[Len(c) - Len(s) + 1]
         /\ Len(Tail(s)) = Len(s) - 1 /\ Len(s) \in 1 .. Len(c)
BY Popped DEF EndOf

\* Nothing that the invariant speaks of but the types changes.
LEMMA DFrame ==
  ASSUME DInv, DTypes', UNCHANGED <<list, files, dmade, stat, dfile, todo>>,
         port' = port \/ (todo = <<>> /\ port # "closed")
  PROVE  DInv'
<1>1. Separate'
  BY DEF DInv, Separate
<1>2. CASE todo = <<>> /\ port # "closed"
  <2>1. NoDeletion
    <3>1. Len(todo) = 0
      BY <1>2
    <3> QED
      BY <1>2, <3>1 DEF DInv, Plan, DeletesClients, DeletesReceiver, DeletesListener, Ends
  <2>2. NoDeletion'
    BY <2>1 DEF NoDeletion, Live, Unclosed, Paired
  <2> QED
    BY <1>1, <2>2 DEF DInv, Plan
<1>3. CASE port' = port
  <2>1. Plan'
    <3>1. CASE NoDeletion
      <4>1. NoDeletion'
        BY <3>1 DEF NoDeletion, Live, Unclosed, Paired
      <4> QED BY <4>1 DEF Plan
    <3>2. CASE DeletesClients
      <4>1. DeletesClients'
        BY <3>2 DEF DeletesClients, Live, Unclosed, Paired
      <4> QED BY <4>1 DEF Plan
    <3>3. CASE Ends
      <4>1. Ends'
        BY <1>3, <3>3 DEF Ends, FilesLast, EndCall, Before
      <4> QED BY <4>1 DEF Plan
    <3>4. ASSUME NEW i \in 1 .. Len(files), DeletesReceiver(i) PROVE Plan'
      <4>1. DeletesReceiver(i)'
        BY <3>4 DEF DeletesReceiver, ReceiverCalls, Live, LiveBut, Unclosed, Paired
      <4> QED BY <4>1 DEF Plan
    <3>5. ASSUME NEW i \in 1 .. Len(list["tcp"]), DeletesListener(i) PROVE Plan'
      <4>1. DeletesListener(i)'
        BY <3>5 DEF DeletesListener, ListenerCalls, Live, LiveBut, Unclosed, Paired
      <4> QED BY <4>1 DEF Plan
    <3> QED
      BY <3>1, <3>2, <3>3, <3>4, <3>5 DEF DInv, Plan
  <2> QED
    BY <1>1, <2>1 DEF DInv
<1> QED
  BY <1>2, <1>3

\* The dialog is in its message loop.
LEMMA AtIdle ==
  ASSUME DInv, D!Idle
  PROVE  NoDeletion /\ todo = <<>> /\ port \in {"open", "null"}
<1>1. todo = <<>> /\ port \in {"open", "null"} /\ Len(todo) = 0
  BY DEF D!Idle
<1> QED
  BY <1>1 DEF DInv, Plan, DeletesClients, DeletesReceiver, DeletesListener, Ends

LEMMA InitPortInv == ASSUME DInv, D!InitPort PROVE DInv'
<1>1. port = "none" /\ todo = <<>>
  BY DEF DInv, DTypes, D!InitPort
<1>2. DTypes'
  BY <1>1 DEF DInv, DTypes, D!InitPort, D!listVars, D!objVars
<1> QED
  BY <1>1, <1>2, DFrame DEF D!InitPort, D!listVars, D!objVars

LEMMA PortThreadInv == ASSUME DInv, NEW t \in PortThreads, D!Thread(t) PROVE DInv'
<1>1. CASE D!Loop(t) \/ D!BreakLoop(t)
  <2>1. DTypes'
    BY ZenonT(60), <1>1 DEF DInv, DTypes, D!Loop, D!BreakLoop, D!listVars, D!objVars
  <2> QED
    BY <1>1, <2>1, DFrame DEF D!Loop, D!BreakLoop, D!listVars, D!objVars
<1>2. CASE D!Dequeue(t)
  <2>1. DTypes'
    BY <1>2 DEF DInv, DTypes, D!Dequeue, D!listVars, D!Objects
  <2> QED
    BY <1>2, <2>1, DFrame DEF D!Dequeue, D!listVars
<1>3. CASE D!ReportResult(t)
  <2>1. buffered' \in [D!Objects -> BOOLEAN]
    <3>1. PICK d \in BOOLEAN : buffered' = [buffered EXCEPT ![dtaken[t]] = @ \/ d]
      BY <1>3 DEF D!ReportResult
    <3>2. buffered \in [D!Objects -> BOOLEAN]
      BY DEF DInv, DTypes
    <3> QED
      BY <3>1, <3>2, Zenon
  <2>2. DTypes /\ UNCHANGED <<list, files, rows, dmade, stat, dfile, todo, processing, port>>
    BY <1>3 DEF DInv, D!ReportResult, D!listVars
  <2>3. /\ dio' \in [D!Objects -> BOOLEAN]
        /\ dpc' \in [PortThreads -> {"none", "loop", "wait", "report", "end"}]
        /\ dtaken' \in [PortThreads -> 0 .. MaxObjects]
    <3>1. /\ dio' = [dio EXCEPT ![dtaken[t]] = stat[dtaken[t]] = "running"]
          /\ dtaken' = [dtaken EXCEPT ![t] = 0] /\ dpc' = [dpc EXCEPT ![t] = "loop"]
      BY <1>3 DEF D!ReportResult, D!NoObject
    <3>2. dio \in [D!Objects -> BOOLEAN] /\ MaxObjects \in Nat
          /\ dpc \in [PortThreads -> {"none", "loop", "wait", "report", "end"}]
          /\ dtaken \in [PortThreads -> 0 .. MaxObjects]
      BY <2>2 DEF DTypes
    <3>3. dio' \in [D!Objects -> BOOLEAN]
      BY <3>1, <3>2
    <3> QED
      BY <3>1, <3>2, <3>3
  <2>4. DTypes'
    BY <2>1, <2>2, <2>3 DEF DTypes
  <2> QED
    BY <2>2, <2>4, DFrame
<1> QED
  BY <1>1, <1>2, <1>3 DEF D!Thread

LEMMA RowsAre ==
  ASSUME DInv, NEW k \in AllKinds
  PROVE  /\ DOMAIN rows = AllKinds
         /\ Len(rows[k]) = Len(list[k]) /\ DOMAIN rows[k] = 1 .. Len(list[k]) /\ Len(list[k]) \in Nat
         /\ \A i \in 1 .. Len(list[k]) : rows[k][i] = D!Row(list[k][i])
<1>1. rows = [m \in AllKinds |-> [i \in 1 .. Len(list[m]) |-> D!Row(list[m][i])]]
  BY DEF DInv, DTypes
<1>2. list[k] \in Seq(1 .. dmade)
  BY DEF DInv, DTypes
<1>3. rows[k] = [i \in 1 .. Len(list[k]) |-> D!Row(list[k][i])]
  BY <1>1
<1>4. Len(list[k]) \in Nat
  BY <1>2
<1> HIDE <1>1
<1>5. Len(rows[k]) = Len(list[k])
  BY <1>3, <1>4
<1> QED
  BY <1>1, <1>3, <1>4, <1>5

LEMMA SelectInv == ASSUME DInv, NEW k \in Kinds, D!Select(k) PROVE DInv'
<1>1. UNCHANGED <<list, files, rows, dmade, stat, dfile, buffered, dio, todo, processing, port, dpc, dtaken>>
  BY DEF D!Select, D!objVars, D!threadVars
<1>2. DTypes'
  BY <1>1 DEF DInv, DTypes
<1> QED
  BY <1>1, <1>2, DFrame

LEMMA OnTimerInv == ASSUME DInv, D!OnTimer PROVE DInv'
<1>1. UNCHANGED <<list, files, dmade, stat, dfile, buffered, dio, todo, processing, port, dpc, dtaken>>
  BY DEF D!OnTimer, D!objVars, D!threadVars
<1>2. files = list["recv"]
  BY AtIdle DEF D!OnTimer, NoDeletion, Paired
<1> DEFINE F(k, i) == [rows[k][i] EXCEPT !.shows = list[k][i],
                                        !.fileShows = IF k = "recv" THEN files[i] ELSE @]
<1>3. rows' = [k \in AllKinds |-> [i \in 1 .. Len(rows[k]) |-> F(k, i)]]
  <2>1. DOMAIN rows = AllKinds
    BY DEF DInv, DTypes
  <2> QED
    BY <2>1 DEF D!OnTimer
<1>4. ASSUME NEW k \in AllKinds, NEW i \in 1 .. Len(list[k])
      PROVE  F(k, i) = D!Row(list[k][i])
  <2>1. PICK o : o = list[k][i]
    OBVIOUS
  <2>2. PICK r : r = rows[k][i] /\ r = [of |-> o, shows |-> o, fileShows |-> o]
    BY <2>1, RowsAre DEF D!Row
  <2>3. (IF k = "recv" THEN files[i] ELSE o) = o
    BY <1>2, <2>1
  <2>4. [r EXCEPT !.shows = o, !.fileShows = IF k = "recv" THEN files[i] ELSE @]
          = [of |-> o, shows |-> o, fileShows |-> o]
    <3>1. r.fileShows = o
      BY <2>2
    <3>2. PICK f : f = (IF k = "recv" THEN files[i] ELSE r.fileShows)
      OBVIOUS
    <3>3. f = o
      BY <2>3, <3>1, <3>2
    <3>4. r = [x \in {"of", "shows", "fileShows"} |-> r[x]] /\ r.shows = o
      BY <2>2
    <3>5. [r EXCEPT !.shows = o] = r /\ [r EXCEPT !.fileShows = f] = r
      BY <3>1, <3>3, <3>4
    <3>6. [[r EXCEPT !.shows = o] EXCEPT !.fileShows = f] = r
      BY <3>5
    <3>7. [r EXCEPT !.shows = o, !.fileShows = f] = r
      BY <3>6
    <3> QED
      BY <2>2, <3>2, <3>7, Zenon
  <2> QED
    BY <2>1, <2>2, <2>4 DEF D!Row
<1> HIDE DEF F
<1>5. rows' = [k \in AllKinds |-> [i \in 1 .. Len(list[k]) |-> D!Row(list[k][i])]]
  <2>1. ASSUME NEW k \in AllKinds
        PROVE  [i \in 1 .. Len(rows[k]) |-> F(k, i)] = [i \in 1 .. Len(list[k]) |-> D!Row(list[k][i])]
    <3>1. Len(rows[k]) = Len(list[k])
      BY RowsAre
    <3> QED
      BY <1>4, <3>1
  <2> QED
    BY <1>3, <2>1
<1>6. DTypes'
  BY <1>1, <1>5 DEF DInv, DTypes
<1> QED
  BY <1>1, <1>6, DFrame

LEMMA SeqMore ==
  ASSUME NEW S, NEW T, S \subseteq T, NEW s \in Seq(S)
  PROVE  s \in Seq(T)
OBVIOUS

\* Sequences, one for the rows of each list, are as the lists say.
Shown(s) == [i \in 1 .. Len(s) |-> D!Row(s[i])]
RowSet   == {D!Row(o) : o \in D!Objects}

LEMMA ShownIs ==
  ASSUME DInv, NEW k \in AllKinds
  PROVE  rows[k] = Shown(list[k]) /\ rows[k] \in Seq(RowSet) /\ Len(rows[k]) = Len(list[k])
<1>1. /\ list[k] \in Seq(1 .. dmade) /\ dmade \in 0 .. MaxObjects /\ MaxObjects \in Nat
      /\ rows = [m \in AllKinds |-> [i \in 1 .. Len(list[m]) |-> D!Row(list[m][i])]]
  BY DEF DInv, DTypes
<1>2. rows[k] = Shown(list[k])
  BY <1>1 DEF Shown
<1>3. Len(list[k]) \in Nat /\ \A i \in 1 .. Len(list[k]) : list[k][i] \in D!Objects
  BY <1>1 DEF D!Objects
<1>4. \A i \in 1 .. Len(list[k]) : D!Row(list[k][i]) \in RowSet
  BY <1>3 DEF RowSet
<1> HIDE <1>1
<1>5. Shown(list[k]) \in [1 .. Len(list[k]) -> RowSet]
  BY <1>4 DEF Shown
<1> QED
  BY <1>2, <1>3, <1>5

LEMMA ShownMore ==
  ASSUME NEW s \in Seq(D!Objects), NEW o \in D!Objects
  PROVE  Append(Shown(s), D!Row(o)) = Shown(Append(s, o))
<1>1. Shown(s) \in Seq(RowSet) /\ Len(Shown(s)) = Len(s) /\ Len(s) \in Nat
  <2>1. Len(s) \in Nat /\ \A i \in 1 .. Len(s) : D!Row(s[i]) \in RowSet
    BY DEF RowSet
  <2>2. Shown(s) \in [1 .. Len(s) -> RowSet]
    BY <2>1 DEF Shown
  <2> QED
    BY <2>1, <2>2
<1>2. PICK r : r = D!Row(o) /\ r \in RowSet
  BY DEF RowSet
<1>3. /\ Append(Shown(s), r) \in Seq(RowSet) /\ Len(Append(Shown(s), r)) = Len(s) + 1
      /\ \A i \in 1 .. Len(s) : Append(Shown(s), r)[i] = Shown(s)[i]
      /\ Append(Shown(s), r)[Len(s) + 1] = r
  BY <1>1, <1>2
<1>4. /\ Len(Append(s, o)) = Len(s) + 1
      /\ \A i \in 1 .. Len(s) : Append(s, o)[i] = s[i]
      /\ Append(s, o)[Len(s) + 1] = o
  OBVIOUS
<1>5. /\ DOMAIN Append(Shown(s), r) = 1 .. Len(s) + 1
      /\ Append(Shown(s), r) = [i \in 1 .. Len(s) + 1 |-> Append(Shown(s), r)[i]]
  <2>1. PICK x : x = Append(Shown(s), r)
    OBVIOUS
  <2>2. x \in Seq(RowSet) /\ Len(x) = Len(s) + 1
    BY <1>3, <2>1
  <2>3. DOMAIN x = 1 .. Len(s) + 1 /\ x = [i \in 1 .. Len(s) + 1 |-> x[i]]
    BY <2>2
  <2> QED
    BY <2>1, <2>3
<1>6. \A i \in 1 .. Len(s) + 1 : Append(Shown(s), r)[i] = D!Row(Append(s, o)[i])
  <2> SUFFICES ASSUME NEW i \in 1 .. Len(s) + 1
               PROVE  Append(Shown(s), r)[i] = D!Row(Append(s, o)[i])
    OBVIOUS
  <2>1. CASE i \in 1 .. Len(s)
    <3>1. Shown(s)[i] = D!Row(s[i])
      BY <2>1 DEF Shown
    <3> QED
      BY <1>3, <1>4, <2>1, <3>1
  <2>2. CASE i = Len(s) + 1
    BY <1>2, <1>3, <1>4, <2>2
  <2> QED
    BY <1>1, <2>1, <2>2
<1>7. Append(Shown(s), r) = [i \in 1 .. Len(Append(s, o)) |-> D!Row(Append(s, o)[i])]
  BY <1>4, <1>5, <1>6
<1> QED
  BY <1>2, <1>7 DEF Shown

LEMMA ShownLess ==
  ASSUME NEW s \in Seq(D!Objects), NEW i \in 1 .. Len(s)
  PROVE  RemoveAt(Shown(s), i) = Shown(RemoveAt(s, i))
<1>1. Shown(s) \in Seq(RowSet) /\ Len(Shown(s)) = Len(s) /\ Len(s) \in Nat
  <2>1. Len(s) \in Nat /\ \A k \in 1 .. Len(s) : D!Row(s[k]) \in RowSet
    BY DEF RowSet
  <2>2. Shown(s) \in [1 .. Len(s) -> RowSet]
    BY <2>1 DEF Shown
  <2> QED
    BY <2>1, <2>2
<1> DEFINE r == RemoveAt(Shown(s), i)
<1> DEFINE q == RemoveAt(s, i)
<1>2. /\ r \in Seq(RowSet) /\ Len(r) = Len(s) - 1
      /\ \A k \in 1 .. Len(s) - 1 : r[k] = IF k < i THEN Shown(s)[k] ELSE Shown(s)[k + 1]
  BY <1>1, Removed
<1>3. /\ Len(q) = Len(s) - 1
      /\ \A k \in 1 .. Len(s) - 1 : q[k] = IF k < i THEN s[k] ELSE s[k + 1]
  BY Removed
<1> HIDE DEF r, q
<1>4. \A k \in 1 .. Len(s) - 1 : r[k] = D!Row(q[k])
  <2> SUFFICES ASSUME NEW k \in 1 .. Len(s) - 1 PROVE r[k] = D!Row(q[k])
    OBVIOUS
  <2>1. k \in 1 .. Len(s) /\ k + 1 \in 1 .. Len(s)
    BY <1>1
  <2>2. Shown(s)[k] = D!Row(s[k]) /\ Shown(s)[k + 1] = D!Row(s[k + 1])
    BY <2>1 DEF Shown
  <2>3. r[k] = (IF k < i THEN Shown(s)[k] ELSE Shown(s)[k + 1])
        /\ q[k] = (IF k < i THEN s[k] ELSE s[k + 1])
    BY <1>2, <1>3
  <2> QED
    BY <2>2, <2>3
<1>5. r = [k \in 1 .. Len(s) - 1 |-> r[k]]
  BY <1>1, <1>2
<1>6. r = [k \in 1 .. Len(q) |-> D!Row(q[k])]
  BY <1>3, <1>4, <1>5
<1> QED
  BY <1>6 DEF Shown, r, q

LEMMA AddedInv ==
  ASSUME DInv, NEW k \in AllKinds, D!AddObject(k),
         files' = IF k = "recv" THEN Append(files, dmade + 1) ELSE files,
         dfile' = dfile \/ \E f \in {"open", "failed"} : dfile' = [dfile EXCEPT ![dmade + 1] = f]
  PROVE  DInv'
<1>1. NoDeletion /\ todo = <<>> /\ DTypes /\ Separate
  BY AtIdle DEF D!AddObject, DInv
<1>2. PICK many : many = dmade + 1 /\ many \in D!Objects /\ dmade \in Nat /\ MaxObjects \in Nat
  BY <1>1 DEF DTypes, D!AddObject, D!Objects
<1>3. /\ dmade' = many /\ list' = [list EXCEPT ![k] = Append(@, many)]
      /\ rows' = [rows EXCEPT ![k] = Append(@, D!Row(many))]
      /\ stat' = [stat EXCEPT ![many] = "stopped"]
      /\ UNCHANGED <<buffered, dio, todo, processing, port, dpc, dtaken>>
  BY <1>2 DEF D!AddObject, D!threadVars
<1>4. \A m \in AllKinds : list[m] \in Seq(1 .. dmade) /\ many \notin Range(list[m])
  BY <1>1, <1>2 DEF DTypes, Range
<1>5. /\ list'[k] = Append(list[k], many)
      /\ \A m \in AllKinds : m # k => list'[m] = list[m]
      /\ DOMAIN list' = AllKinds /\ list' = [m \in AllKinds |-> list'[m]]
  BY <1>1, <1>3 DEF DTypes
<1>6. 1 .. dmade \subseteq 1 .. many /\ many \in 1 .. many /\ 1 .. many \subseteq D!Objects
  BY <1>2 DEF D!Objects
<1>7. \A m \in AllKinds : list[m] \in Seq(1 .. many) /\ list[m] \in Seq(D!Objects)
  <2> SUFFICES ASSUME NEW m \in AllKinds PROVE list[m] \in Seq(1 .. many) /\ list[m] \in Seq(D!Objects)
    OBVIOUS
  <2>1. list[m] \in Seq(1 .. many)
    BY <1>4, <1>6, SeqMore
  <2> QED
    BY <1>6, <2>1, SeqMore
<1>8. \A m \in AllKinds : list'[m] \in Seq(1 .. many)
  <2>1. list[k] \in Seq(1 .. many)
    BY <1>7
  <2>2. Append(list[k], many) \in Seq(1 .. many)
    BY <1>6, <2>1
  <2> QED
    BY <1>5, <1>7, <2>2
<1>9. /\ Append(list[k], many) \in Seq(1 .. many)
      /\ Range(Append(list[k], many)) = Range(list[k]) \cup {many}
      /\ IsInjective(list[k]) /\ many \notin Range(list[k]) => IsInjective(Append(list[k], many))
  BY <1>6, <1>7, PushBack DEF Range, ToSet
<1>10. /\ Range(list'[k]) = Range(list[k]) \cup {many} /\ IsInjective(list'[k])
       /\ \A m \in AllKinds : m # k => Range(list'[m]) = Range(list[m])
  BY <1>1, <1>4, <1>5, <1>9 DEF Separate
<1>11. rows' = [m \in AllKinds |-> [i \in 1 .. Len(list'[m]) |-> D!Row(list'[m][i])]]
  <2>1. rows' = [m \in AllKinds |-> IF m = k THEN Append(rows[k], D!Row(many)) ELSE rows[m]]
    BY <1>1, <1>3 DEF DTypes
  <2>2. Append(rows[k], D!Row(many)) = Shown(list'[k])
    BY <1>2, <1>5, <1>7, ShownIs, ShownMore
  <2>3. \A m \in AllKinds : m # k => rows[m] = Shown(list'[m])
    BY <1>5, ShownIs
  <2>4. \A m \in AllKinds : (IF m = k THEN Append(rows[k], D!Row(many)) ELSE rows[m]) = Shown(list'[m])
    BY <2>2, <2>3
  <2>5. rows' = [m \in AllKinds |-> Shown(list'[m])]
    BY <2>1, <2>4
  <2> QED
    BY <2>5 DEF Shown
<1>12. Paired'
  BY <1>1, <1>2, <1>5 DEF NoDeletion, Paired, AllKinds
<1>13. /\ stat' \in [D!Objects -> {"none", "stopped", "running", "deleted"}]
       /\ dfile' \in [D!Objects -> {"none", "open", "failed", "closed"}]
       /\ stat'[many] = "stopped" /\ \A o \in D!Objects : o # many => stat'[o] = stat[o] /\ dfile'[o] = dfile[o]
       /\ dfile'[many] # "closed"
  <2>1. stat \in [D!Objects -> {"none", "stopped", "running", "deleted"}]
        /\ dfile \in [D!Objects -> {"none", "open", "failed", "closed"}]
    BY <1>1 DEF DTypes
  <2>2. dfile[many] # "closed"
    BY <1>1, <1>2 DEF Separate
  <2>3. dfile' = dfile \/ \E f \in {"open", "failed"} : dfile' = [dfile EXCEPT ![many] = f]
    BY <1>2
  <2> QED
    BY <1>2, <1>3, <2>1, <2>2, <2>3
<1>14. DTypes'
  <2>1. many \in 0 .. MaxObjects
    BY <1>2 DEF D!Objects
  <2>2. list' \in [AllKinds -> Seq(1 .. many)] /\ files' \in Seq(1 .. many)
    BY <1>5, <1>8, <1>12 DEF Paired, AllKinds
  <2> QED
    BY <1>1, <1>3, <1>11, <1>13, <2>1, <2>2 DEF DTypes
<1>15. Separate'
  <2>1. IsInjective(files') /\ \A m \in AllKinds : IsInjective(list'[m])
    BY <1>1, <1>5, <1>10, <1>12 DEF Separate, Paired, AllKinds
  <2>2. \A l, m \in AllKinds : l # m => Range(list'[l]) \cap Range(list'[m]) = {}
    <3> SUFFICES ASSUME NEW l \in AllKinds, NEW m \in AllKinds, l # m
                 PROVE  Range(list'[l]) \cap Range(list'[m]) = {}
      OBVIOUS
    <3>1. Range(list[l]) \cap Range(list[m]) = {} /\ many \notin Range(list[l]) /\ many \notin Range(list[m])
      BY <1>1, <1>4 DEF Separate
    <3>2. /\ Range(list'[l]) = IF l = k THEN Range(list[l]) \cup {many} ELSE Range(list[l])
          /\ Range(list'[m]) = IF m = k THEN Range(list[m]) \cup {many} ELSE Range(list[m])
      BY <1>10
    <3> QED
      BY <3>1, <3>2
  <2>3. \A m \in {"tcp", "client"} : Range(files') \cap Range(list'[m]) = {}
    BY <1>12, <2>2 DEF Paired, AllKinds
  <2>4. \A o \in D!Objects : dfile'[o] = "closed" => o <= many /\ stat'[o] \in {"stopped", "deleted"}
    BY <1>1, <1>2, <1>13 DEF Separate, D!Objects
  <2> QED
    BY <1>3, <2>1, <2>2, <2>3, <2>4 DEF Separate
<1>16. \A m \in AllKinds : Live(m)'
  <2>1. \A m \in AllKinds : Range(list[m]) \subseteq D!Objects
    BY <1>7 DEF Range
  <2> QED
    <3> SUFFICES ASSUME NEW m \in AllKinds, NEW o \in Range(list'[m])
                 PROVE  stat'[o] # "deleted" /\ dfile'[o] # "closed"
      BY DEF Live, Unclosed
    <3>1. CASE o = many
      BY <1>13, <3>1
    <3>2. CASE o # many
      <4>1. o \in Range(list[m])
        BY <1>10, <3>2
      <4>2. stat[o] # "deleted" /\ dfile[o] # "closed" /\ o \in D!Objects
        BY <1>1, <2>1, <4>1 DEF NoDeletion, Live, Unclosed
      <4> QED
        BY <1>13, <3>2, <4>2
    <3> QED
      BY <3>1, <3>2
<1>17. NoDeletion'
  BY <1>1, <1>3, <1>12, <1>16 DEF NoDeletion
<1> QED
  BY <1>14, <1>15, <1>17 DEF DInv, Plan

LEMMA AddInv == ASSUME DInv, D!AddReceiver \/ D!AddListener \/ D!AddClient PROVE DInv'
BY AddedInv DEF D!AddReceiver, D!AddListener, D!AddClient, AllKinds

----------------------------------------------------------------------------
(* The buttons                                                             *)

DCalls == CallNames \X (0 .. MaxObjects)

LEMMA HandledInv ==
  ASSUME DInv, NEW calls \in Seq(DCalls), D!Handle(calls), Plan'
  PROVE  DInv'
<1>1. /\ UNCHANGED <<list, files, rows, dmade, stat, dfile, buffered, dio, processing, port, dpc, dtaken>>
      /\ todo' = calls /\ port # "none"
  BY AtIdle DEF D!Handle, D!listVars, D!objVars, D!threadVars
<1>2. DTypes'
  BY <1>1 DEF DInv, DTypes, DCalls
<1>3. Separate'
  BY <1>1 DEF DInv, Separate
<1> QED
  BY <1>2, <1>3 DEF DInv

\* The row that is selected is that of an object.
LEMMA Points ==
  ASSUME DInv, NEW k \in AllKinds, D!Chosen(k) # {}
  PROVE  /\ D!Cursel(k) \in 1 .. Len(list[k])
         /\ D!Pointed(k) = list[k][D!Cursel(k)]
<1>1. D!Chosen(k) \subseteq 1 .. Len(list[k])
  BY ShownIs DEF D!Chosen
<1>2. D!Chosen(k) \in SUBSET Nat
  BY <1>1
<1>3. \E i \in D!Chosen(k) : \A j \in D!Chosen(k) : i <= j
  BY <1>2, LeastNumber
<1>4. D!Cursel(k) \in D!Chosen(k)
  BY <1>3 DEF D!Cursel, D!Min
<1> QED
  BY <1>1, <1>4 DEF D!Pointed

\* As many objects as there are numbers.
LEMMA Pigeons ==
  ASSUME NEW m \in Nat, NEW many \in Nat, NEW f \in [1 .. many -> 1 .. m],
         \A i, j \in 1 .. many : f[i] = f[j] => i = j
  PROVE  many <= m
<1>1. IsFiniteSet(1 .. m) /\ Cardinality(1 .. m) = m /\ IsFiniteSet(1 .. many) /\ Cardinality(1 .. many) = many
  BY FS_Interval
<1> QED
  BY <1>1, FS_PigeonHole

LEMMA InList ==
  ASSUME DInv, NEW k \in AllKinds, NEW i \in 1 .. Len(list[k])
  PROVE  /\ list[k][i] \in Range(list[k]) /\ list[k][i] \in 1 .. dmade
         /\ 1 .. dmade \subseteq 1 .. MaxObjects /\ i \in 0 .. MaxObjects
<1>1. list[k] \in Seq(1 .. dmade) /\ dmade \in 0 .. MaxObjects /\ MaxObjects \in Nat
  BY DEF DInv, DTypes
<1>2. Len(list[k]) \in Nat /\ DOMAIN list[k] = 1 .. Len(list[k]) /\ list[k][i] \in 1 .. dmade
  BY SMTT(40), <1>1
<1>3. list[k][i] \in Range(list[k])
  BY <1>2 DEF Range
<1>4. Len(list[k]) <= dmade
  <2>1. IsInjective(list[k])
    BY DEF DInv, Separate
  <2>2. list[k] \in [1 .. Len(list[k]) -> 1 .. dmade]
    BY <1>1, <1>2
  <2> QED
    <3>1. \A a, b \in 1 .. Len(list[k]) : list[k][a] = list[k][b] => a = b
      BY <1>2, <2>1 DEF IsInjective
    <3>2. dmade \in Nat /\ Len(list[k]) \in Nat
      BY <1>1, <1>2
    <3>3. PICK q : q = list[k]
      OBVIOUS
    <3> QED
      BY <2>2, <3>1, <3>2, <3>3, Pigeons
<1> QED
  BY <1>1, <1>2, <1>3, <1>4

LEMMA ForEachIs ==
  ASSUME DInv, NEW k \in AllKinds, NEW f \in CallNames
  PROVE  /\ D!ForEach(f, list[k]) \in Seq(DCalls)
         /\ Len(D!ForEach(f, list[k])) = Len(list[k])
         /\ \A i \in 1 .. Len(list[k]) :
              D!ForEach(f, list[k])[i] = <<f, list[k][i]>> /\ list[k][i] \in Range(list[k])
<1>1. list[k] \in Seq(1 .. dmade) /\ dmade \in 0 .. MaxObjects /\ MaxObjects \in Nat
  BY DEF DInv, DTypes
<1>2. Len(list[k]) \in Nat
  BY <1>1
<1>3. \A i \in 1 .. Len(list[k]) : <<f, list[k][i]>> \in DCalls /\ list[k][i] \in Range(list[k])
  BY <1>1, InList DEF DCalls
<1>4. PICK s : s = D!ForEach(f, list[k])
  OBVIOUS
<1>5. s = [i \in 1 .. Len(list[k]) |-> <<f, list[k][i]>>]
  BY <1>4 DEF D!ForEach, D!Call
<1> HIDE <1>1
<1>6. s \in [1 .. Len(list[k]) -> DCalls]
  BY <1>3, <1>5
<1>7. s \in Seq(DCalls) /\ Len(s) = Len(list[k])
  BY <1>2, <1>6
<1> QED
  BY <1>3, <1>4, <1>5, <1>7

LEMMA StartStopInv ==
  ASSUME DInv, NEW k \in AllKinds, NEW f \in {"start", "stop"},
         \/ D!Chosen(k) # {} /\ D!Handle(<<D!Call(f, D!Pointed(k))>>)
         \/ D!Handle(D!ForEach(f, list[k]))
  PROVE  DInv'
<1>1. PICK c \in Seq(DCalls) :
        /\ D!Handle(c)
        /\ \A j \in 1 .. Len(c) : c[j][1] = f /\ c[j][2] \in Range(list[k])
  <2>1. CASE D!Chosen(k) # {} /\ D!Handle(<<D!Call(f, D!Pointed(k))>>)
    <3>1. D!Pointed(k) \in Range(list[k]) /\ D!Pointed(k) \in 0 .. MaxObjects
      BY <2>1, Points, InList
    <3>2. PICK o : o = D!Pointed(k)
      OBVIOUS
    <3>3. <<f, o>> \in DCalls
      BY <3>1, <3>2 DEF DCalls, CallNames
    <3>4. << <<f, o>> >> \in Seq(DCalls) /\ Len(<< <<f, o>> >>) = 1
      BY <3>3
    <3> QED
      BY SMTT(40), <2>1, <3>1, <3>2, <3>4 DEF D!Call
  <2>2. CASE D!Handle(D!ForEach(f, list[k]))
    <3>1. f \in CallNames
      BY DEF CallNames
    <3>2. PICK c : c = D!ForEach(f, list[k])
      OBVIOUS
    <3>3. /\ c \in Seq(DCalls) /\ Len(c) = Len(list[k])
          /\ \A j \in 1 .. Len(list[k]) : c[j] = <<f, list[k][j]>> /\ list[k][j] \in Range(list[k])
      BY <3>1, <3>2, ForEachIs
    <3>4. \A j \in 1 .. Len(c) : c[j][1] = f /\ c[j][2] \in Range(list[k])
      BY <3>3
    <3> QED
      BY <2>2, <3>2, <3>3, <3>4
  <2> QED
    BY <2>1, <2>2
<1>2. NoDeletion /\ UNCHANGED <<list, files, stat, dfile>> /\ todo' = c
  BY <1>1, AtIdle DEF D!Handle, D!listVars, D!objVars
<1>3. NoDeletion'
  BY <1>1, <1>2 DEF NoDeletion, Live, Unclosed, Paired
<1> QED
  BY <1>1, <1>3, HandledInv DEF Plan

LEMMA ButtonInv ==
  ASSUME DInv,
         \/ D!StartReceiver \/ D!StartListener \/ D!StartAllReceivers \/ D!StartAllClients
         \/ D!StopReceiver \/ D!StopListener \/ D!StopAllReceivers \/ D!StopAllClients
  PROVE  DInv'
BY StartStopInv
   DEF D!StartReceiver, D!StartListener, D!StartAllReceivers, D!StartAllClients,
       D!StopReceiver, D!StopListener, D!StopAllReceivers, D!StopAllClients,
       D!StartButton, D!StopButton, D!StartAll, D!StopAll, AllKinds

LEMMA DelReceiverInv == ASSUME DInv, D!DelReceiver PROVE DInv'
<1> PICK i : i = D!Cursel("recv")
  OBVIOUS
<1>1. D!Chosen("recv") # {} /\ D!Idle /\ NoDeletion
  BY AtIdle DEF D!DelReceiver, D!Handle
<1>2. files = list["recv"]
  BY <1>1 DEF NoDeletion, Paired
<1>3. i \in 1 .. Len(files) /\ D!Pointed("recv") = files[i]
  BY <1>1, <1>2, Points DEF AllKinds
<1>4. i \in 0 .. MaxObjects /\ files[i] \in 0 .. MaxObjects
  BY <1>2, <1>3, InList DEF AllKinds
<1>5. D!Handle(ReceiverCalls(i))
  BY <1>3 DEF D!DelReceiver, D!Call, ReceiverCalls
<1>6. ReceiverCalls(i) \in Seq(DCalls) /\ Len(ReceiverCalls(i)) = 6
  BY <1>4 DEF ReceiverCalls, DCalls, CallNames
<1>7. /\ UNCHANGED <<list, files, stat, dfile>> /\ todo' = ReceiverCalls(i) /\ todo' # <<>>
  BY SMTT(40), <1>5, <1>6 DEF D!Handle, D!listVars, D!objVars
<1>8. ReceiverCalls(i)' = ReceiverCalls(i)
  BY <1>7 DEF ReceiverCalls
<1>9. EndOf(todo', ReceiverCalls(i)')
  BY <1>6, <1>7, <1>8 DEF EndOf
<1>10. DeletesReceiver(i)'
  <2>1. Live("recv") /\ Live("tcp") /\ Live("client") /\ Paired
    BY <1>1 DEF NoDeletion, AllKinds
  <2>2. Live("tcp")' /\ Live("client")' /\ Paired' /\ LiveBut("recv", files[i])'
    BY <1>7, <2>1 DEF Live, LiveBut, Unclosed, Paired
  <2>3. Len(todo') = 6
    BY <1>6, <1>7
  <2> QED
    BY SMTT(40), <1>7, <1>9, <2>2, <2>3 DEF DeletesReceiver
<1>11. Plan'
  BY <1>3, <1>7, <1>10 DEF Plan
<1> QED
  BY <1>5, <1>6, <1>11, HandledInv

LEMMA DelListenerInv == ASSUME DInv, D!DelListener PROVE DInv'
<1> PICK i : i = D!Cursel("tcp")
  OBVIOUS
<1>1. D!Chosen("tcp") # {} /\ D!Idle /\ NoDeletion
  BY AtIdle DEF D!DelListener, D!Handle
<1>2. i \in 1 .. Len(list["tcp"]) /\ D!Pointed("tcp") = list["tcp"][i]
  BY <1>1, Points DEF AllKinds
<1>3. i \in 0 .. MaxObjects /\ list["tcp"][i] \in 0 .. MaxObjects
  BY <1>2, InList DEF AllKinds
<1>4. D!Handle(ListenerCalls(i))
  BY <1>2 DEF D!DelListener, D!Call, ListenerCalls
<1>5. ListenerCalls(i) \in Seq(DCalls) /\ Len(ListenerCalls(i)) = 4
  BY <1>3 DEF ListenerCalls, DCalls, CallNames
<1>6. /\ UNCHANGED <<list, files, stat, dfile>> /\ todo' = ListenerCalls(i) /\ todo' # <<>>
  BY <1>4, <1>5 DEF D!Handle, D!listVars, D!objVars
<1>7. ListenerCalls(i)' = ListenerCalls(i)
  BY <1>6 DEF ListenerCalls
<1>8. EndOf(todo', ListenerCalls(i)')
  BY <1>5, <1>6, <1>7 DEF EndOf
<1>9. DeletesListener(i)'
  BY <1>1, <1>5, <1>6, <1>7, <1>8 DEF DeletesListener, NoDeletion, Live, LiveBut, Unclosed, Paired, AllKinds
<1>10. Plan'
  BY <1>2, <1>6, <1>9 DEF Plan
<1> QED
  BY <1>4, <1>5, <1>10, HandledInv

LEMMA Joined ==
  ASSUME NEW S, NEW s \in Seq(S), NEW q \in Seq(S)
  PROVE  /\ s \o q \in Seq(S) /\ Len(s \o q) = Len(s) + Len(q) /\ Len(s) \in Nat /\ Len(q) \in Nat
         /\ \A j \in 1 .. Len(s) : (s \o q)[j] = s[j]
         /\ \A j \in 1 .. Len(q) : (s \o q)[Len(s) + j] = q[j]
<1>1. /\ s \o q \in Seq(S) /\ Len(s \o q) = Len(s) + Len(q)
      /\ \A j \in 1 .. Len(s) + Len(q) : (s \o q)[j] = IF j <= Len(s) THEN s[j] ELSE q[j - Len(s)]
  BY ConcatProperties
<1>2. Len(s) \in Nat /\ Len(q) \in Nat
  OBVIOUS
<1>3. ASSUME NEW j \in 1 .. Len(q) PROVE (s \o q)[Len(s) + j] = q[j]
  <2>1. Len(s) + j \in 1 .. Len(s) + Len(q) /\ ~(Len(s) + j <= Len(s)) /\ Len(s) + j - Len(s) = j
    BY <1>2
  <2> QED
    BY <1>1, <2>1
<1> QED
  BY <1>1, <1>2, <1>3

LEMMA DeleteAllClientsInv == ASSUME DInv, D!DeleteAllClients PROVE DInv'
<1> PICK a, b : a = D!ForEach("stop", list["client"]) /\ b = D!ForEach("delete", list["client"])
  OBVIOUS
<1> DEFINE c == a \o b \o << <<"clear", 0>> >>
<1> DEFINE many == Len(list["client"])
<1>1. NoDeletion /\ D!Handle(c)
  BY AtIdle DEF D!DeleteAllClients, D!Handle, D!Call
<1>2. /\ a \in Seq(DCalls) /\ Len(a) = many /\ b \in Seq(DCalls) /\ Len(b) = many /\ many \in Nat
      /\ \A i \in 1 .. many : a[i] = <<"stop", list["client"][i]>> /\ list["client"][i] \in Range(list["client"])
      /\ \A i \in 1 .. many : b[i] = <<"delete", list["client"][i]>>
  BY SMTT(40), ForEachIs DEF AllKinds, CallNames
<1>3. PICK z : z = <<"clear", 0>>
  OBVIOUS
<1>4. z \in DCalls
  <2>1. MaxObjects \in Nat
    BY DEF DInv, DTypes
  <2> QED
    BY <1>3, <2>1 DEF DCalls, CallNames
<1> HIDE DEF many
<1>5. /\ c \in Seq(DCalls) /\ Len(c) = many + many + 1 /\ c[many + many + 1] = z
      /\ \A j \in 1 .. many : c[j] = a[j] /\ c[many + j] = b[j]
  <2>1. PICK d, y : d = a \o b /\ y = <<z>>
    OBVIOUS
  <2>2. c = d \o y /\ y \in Seq(DCalls) /\ Len(y) = 1 /\ y[1] = z
    BY <1>3, <1>4, <2>1
  <2> HIDE DEF c
  <2>3. /\ d \in Seq(DCalls) /\ Len(d) = many + many
        /\ \A j \in 1 .. many : d[j] = a[j] /\ d[many + j] = b[j]
    <3>1. a \in Seq(DCalls) /\ b \in Seq(DCalls) /\ Len(a) = many /\ Len(b) = many
      BY <1>2
    <3>2. /\ d \in Seq(DCalls) /\ Len(d) = Len(a) + Len(b)
          /\ \A j \in 1 .. Len(a) : d[j] = a[j]
          /\ \A j \in 1 .. Len(b) : d[Len(a) + j] = b[j]
      BY <2>1, <3>1, Joined
    <3> QED
      BY <3>1, <3>2
  <2>4. /\ c \in Seq(DCalls) /\ Len(c) = many + many + 1 /\ c[many + many + 1] = z
        /\ \A j \in 1 .. many + many : c[j] = d[j]
    <3>1. /\ c \in Seq(DCalls) /\ Len(c) = Len(d) + Len(y)
          /\ \A j \in 1 .. Len(d) : c[j] = d[j]
          /\ \A j \in 1 .. Len(y) : c[Len(d) + j] = y[j]
      <4>1. d \in Seq(DCalls) /\ y \in Seq(DCalls)
        BY <2>2, <2>3
      <4>2. PICK x : x = d \o y
        OBVIOUS
      <4>3. /\ x \in Seq(DCalls) /\ Len(x) = Len(d) + Len(y)
            /\ \A j \in 1 .. Len(d) : x[j] = d[j]
            /\ \A j \in 1 .. Len(y) : x[Len(d) + j] = y[j]
        BY <4>1, <4>2, Joined
      <4> QED
        BY <2>2, <4>2, <4>3, Zenon
    <3>2. Len(d) = many + many /\ Len(y) = 1 /\ y[1] = z
      BY <2>2, <2>3
    <3> QED
      BY <3>1, <3>2
  <2>5. \A j \in 1 .. many : j \in 1 .. many + many /\ many + j \in 1 .. many + many
    BY <1>2
  <2> QED
    BY <2>3, <2>4, <2>5
<1> HIDE DEF c
<1>6. \A j \in 1 .. Len(c) - 1 :
        c[j][1] \in {"stop", "delete"} /\ c[j][2] \in Range(list["client"])
  <2> SUFFICES ASSUME NEW j \in 1 .. many + many
               PROVE  c[j][1] \in {"stop", "delete"} /\ c[j][2] \in Range(list["client"])
    BY <1>2, <1>5
  <2>1. CASE j \in 1 .. many
    <3>1. c[j] = a[j] /\ a[j] = <<"stop", list["client"][j]>>
          /\ list["client"][j] \in Range(list["client"])
      BY <1>2, <1>5, <2>1
    <3> QED
      BY <3>1
  <2>2. CASE j \in many + 1 .. many + many
    <3>1. PICK i \in 1 .. many : j = many + i
      <4>1. j - many \in 1 .. many /\ j = many + (j - many)
        BY <1>2, <2>2
      <4> QED
        BY <4>1
    <3>2. c[many + i] = b[i] /\ b[i] = <<"delete", list["client"][i]>>
          /\ list["client"][i] \in Range(list["client"])
      BY <1>2, <1>5
    <3> QED
      BY <3>1, <3>2
  <2> QED
    BY <1>2, <2>1, <2>2
<1>7. UNCHANGED <<list, files, stat, dfile>> /\ todo' = c /\ c # <<>>
  BY <1>1, <1>2, <1>5 DEF D!Handle, D!listVars, D!objVars
<1>8. DeletesClients'
  <2>1. Live("recv") /\ Live("tcp") /\ Paired /\ Unclosed("client")
    BY <1>1 DEF NoDeletion, AllKinds, Live
  <2>2. Live("recv")' /\ Live("tcp")' /\ Paired' /\ Unclosed("client")'
    BY <1>7, <2>1 DEF Live, Unclosed, Paired
  <2> QED
    BY <1>3, <1>5, <1>6, <1>7, <2>2 DEF DeletesClients
<1> QED
  BY <1>1, <1>5, <1>8, HandledInv DEF Plan

\* To the calls of the end others can be added that close no file.
LEMMA MoreEnd ==
  ASSUME NEW s \in Seq(DCalls), FilesLast(s), NEW q \in Seq(DCalls),
         \A j \in 1 .. Len(q) : EndCall(q[j]) /\ q[j][1] # "uninitfile"
  PROVE  s \o q \in Seq(DCalls) /\ FilesLast(s \o q)
<1>1. Len(s) \in Nat /\ Len(q) \in Nat
  OBVIOUS
<1>2. PICK r : r = s \o q
  OBVIOUS
<1>3. /\ r \in Seq(DCalls) /\ Len(r) = Len(s) + Len(q)
      /\ \A j \in 1 .. Len(s) : r[j] = s[j]
      /\ \A j \in Len(s) + 1 .. Len(s) + Len(q) : r[j] = q[j - Len(s)]
  BY <1>1, <1>2, ConcatProperties
<1>4. ASSUME NEW j \in 1 .. Len(r)
      PROVE  /\ EndCall(r[j])
             /\ r[j][1] = "uninitfile" =>
                  stat[r[j][2]] \in {"stopped", "deleted"} \/ Before(r, j, <<"uninit", r[j][2]>>)
  <2>1. CASE j \in 1 .. Len(s)
    <3>1. \A l \in 1 .. j - 1 : r[l] = s[l]
      BY <1>1, <1>3, <2>1
    <3> QED
      BY ZenonT(60), <1>3, <2>1, <3>1 DEF FilesLast, Before
  <2>2. CASE j \in Len(s) + 1 .. Len(s) + Len(q)
    <3>1. j - Len(s) \in 1 .. Len(q) /\ r[j] = q[j - Len(s)]
      BY <1>1, <1>3, <2>2
    <3> QED
      BY <3>1
  <2> QED
    BY <1>1, <1>3, <2>1, <2>2
<1> QED
  BY <1>2, <1>3, <1>4 DEF FilesLast

LEMMA DCloseInv == ASSUME DInv, D!Close PROVE DInv'
<1> PICK ur, ut, uf, cp, dr, dt :
      /\ ur = D!ForEach("uninit", list["recv"]) /\ ut = D!ForEach("uninit", list["tcp"])
      /\ uf = D!ForEach("uninitfile", files) /\ cp = << <<"closeport", 0>> >>
      /\ dr = D!ForEach("delete", list["recv"]) /\ dt = D!ForEach("delete", list["tcp"])
  OBVIOUS
<1>1. D!Handle(ur \o ut \o uf \o cp \o dr \o dt) /\ NoDeletion
  BY AtIdle DEF D!Close, D!Handle, D!Call
<1>2. files = list["recv"]
  BY <1>1 DEF NoDeletion, Paired
<1>3. DTypes
  BY DEF DInv
<1>4. ASSUME NEW k \in AllKinds, NEW f \in {"uninit", "delete"}, NEW s, s = D!ForEach(f, list[k])
      PROVE  s \in Seq(DCalls) /\ \A j \in 1 .. Len(s) : EndCall(s[j]) /\ s[j][1] # "uninitfile"
  <2>1. /\ s \in Seq(DCalls) /\ Len(s) = Len(list[k])
        /\ \A i \in 1 .. Len(list[k]) : s[i] = <<f, list[k][i]>>
    <3>1. f \in CallNames
      BY DEF CallNames
    <3> QED
      BY <1>4, <3>1, ForEachIs
  <2>2. \A i \in 1 .. Len(list[k]) : list[k][i] \in 1 .. dmade
    BY InList
  <2> QED
    BY <2>1, <2>2 DEF EndCall
<1>5. ur \in Seq(DCalls) /\ FilesLast(ur)
  <2>1. ur \in Seq(DCalls) /\ \A j \in 1 .. Len(ur) : EndCall(ur[j]) /\ ur[j][1] # "uninitfile"
    BY <1>4 DEF AllKinds
  <2> QED
    BY <2>1 DEF FilesLast
<1>6. ur \o ut \in Seq(DCalls) /\ FilesLast(ur \o ut)
  <2>1. ut \in Seq(DCalls) /\ \A j \in 1 .. Len(ut) : EndCall(ut[j]) /\ ut[j][1] # "uninitfile"
    BY <1>4 DEF AllKinds
  <2> QED
    BY <1>5, <2>1, MoreEnd
<1>7. ur \o ut \o uf \in Seq(DCalls) /\ FilesLast(ur \o ut \o uf)
  <2>1. PICK s : s = ur \o ut
    OBVIOUS
  <2>2. PICK many \in Nat : many = Len(list["recv"])
    BY ForEachIs, <1>3 DEF DTypes, AllKinds
  <2>3. /\ uf \in Seq(DCalls) /\ Len(uf) = many
        /\ \A i \in 1 .. many : uf[i] = <<"uninitfile", list["recv"][i]>>
    BY <1>2, <2>2, ForEachIs DEF AllKinds, CallNames
  <2>4. Len(ur) = many /\ \A i \in 1 .. many : ur[i] = <<"uninit", list["recv"][i]>>
    BY <2>2, ForEachIs DEF AllKinds, CallNames
  <2>5. /\ s \in Seq(DCalls) /\ FilesLast(s) /\ Len(s) >= many
        /\ \A i \in 1 .. many : s[i] = ur[i]
    <3>1. ut \in Seq(DCalls)
      BY <1>4 DEF AllKinds
    <3> QED
      BY <1>5, <1>6, <2>1, <2>4, <3>1, ConcatProperties
  <2>6. PICK r : r = s \o uf
    OBVIOUS
  <2>7. /\ r \in Seq(DCalls) /\ Len(r) = Len(s) + many /\ Len(s) \in Nat
        /\ \A j \in 1 .. Len(s) : r[j] = s[j]
        /\ \A j \in 1 .. many : r[Len(s) + j] = uf[j]
    <3>1. /\ r \in Seq(DCalls) /\ Len(r) = Len(s) + Len(uf) /\ Len(s) \in Nat
          /\ \A j \in 1 .. Len(s) : r[j] = s[j]
          /\ \A j \in 1 .. Len(uf) : r[Len(s) + j] = uf[j]
      BY <2>3, <2>5, <2>6, Joined
    <3>2. Len(uf) = many
      BY <2>3
    <3> QED
      BY <3>1, <3>2
  <2>8. ASSUME NEW j \in 1 .. Len(r)
        PROVE  /\ EndCall(r[j])
               /\ r[j][1] = "uninitfile" =>
                    stat[r[j][2]] \in {"stopped", "deleted"} \/ Before(r, j, <<"uninit", r[j][2]>>)
    <3>1. CASE j \in 1 .. Len(s)
      <4>1. \A l \in 1 .. j - 1 : r[l] = s[l]
        BY <2>7, <3>1
      <4>2. r[j] = s[j] /\ FilesLast(s)
        BY <2>5, <2>7, <3>1
      <4> QED
        BY <3>1, <4>1, <4>2 DEF FilesLast, Before
    <3>2. CASE j \in Len(s) + 1 .. Len(s) + many
      <4>1. PICK i \in 1 .. many : j = Len(s) + i
        <5>1. j - Len(s) \in 1 .. many /\ j = Len(s) + (j - Len(s))
          BY <2>7, <3>2
        <5> QED
          BY <5>1
      <4>2. i \in 1 .. many /\ r[j] = <<"uninitfile", list["recv"][i]>>
        BY <2>3, <2>7, <3>2, <4>1
      <4>3. i \in 1 .. Len(s) /\ i \in 1 .. j - 1
        BY <2>5, <2>7, <3>2, <4>1, <4>2
      <4>4. r[i] = <<"uninit", list["recv"][i]>>
        BY SMTT(40), <2>4, <2>5, <2>7, <4>2, <4>3
      <4>5. list["recv"][i] \in 1 .. dmade
        BY <2>2, <4>2, InList DEF AllKinds
      <4> QED
        BY <4>2, <4>3, <4>4, <4>5 DEF EndCall, Before
    <3> QED
      BY <2>7, <3>1, <3>2
  <2> QED
    BY <2>1, <2>6, <2>7, <2>8 DEF FilesLast
<1>8. ur \o ut \o uf \o cp \in Seq(DCalls) /\ FilesLast(ur \o ut \o uf \o cp)
  <2>1. PICK z : z = <<"closeport", 0>>
    OBVIOUS
  <2>2. z \in DCalls /\ EndCall(z) /\ z[1] # "uninitfile"
    BY <1>3, <2>1 DEF DTypes, DCalls, CallNames, EndCall
  <2>3. cp = <<z>> /\ cp \in Seq(DCalls) /\ Len(cp) = 1 /\ cp[1] = z
    BY <2>1, <2>2
  <2>4. \A j \in 1 .. Len(cp) : EndCall(cp[j]) /\ cp[j][1] # "uninitfile"
    BY <2>2, <2>3
  <2> QED
    BY <1>7, <2>3, <2>4, MoreEnd
<1>9. ur \o ut \o uf \o cp \o dr \in Seq(DCalls) /\ FilesLast(ur \o ut \o uf \o cp \o dr)
  <2>1. dr \in Seq(DCalls) /\ \A j \in 1 .. Len(dr) : EndCall(dr[j]) /\ dr[j][1] # "uninitfile"
    BY <1>4 DEF AllKinds
  <2> QED
    BY <1>8, <2>1, MoreEnd
<1>10. PICK c : c = ur \o ut \o uf \o cp \o dr \o dt
  OBVIOUS
<1>11. c \in Seq(DCalls) /\ FilesLast(c)
  <2>1. dt \in Seq(DCalls) /\ \A j \in 1 .. Len(dt) : EndCall(dt[j]) /\ dt[j][1] # "uninitfile"
    BY <1>4 DEF AllKinds
  <2> QED
    BY <1>9, <1>10, <2>1, MoreEnd
<1>12. \E j \in 1 .. Len(c) : c[j][1] = "closeport"
  <2>1. PICK s : s = ur \o ut \o uf
    OBVIOUS
  <2>2. PICK j : j = Len(s) + 1
    OBVIOUS
  <2>3. s \in Seq(DCalls) /\ cp \in Seq(DCalls) /\ dr \in Seq(DCalls) /\ dt \in Seq(DCalls)
        /\ Len(cp) = 1 /\ cp[1] = <<"closeport", 0>>
    <3>1. PICK z : z = <<"closeport", 0>>
      OBVIOUS
    <3>2. z \in DCalls
      BY <1>3, <3>1 DEF DTypes, DCalls, CallNames
    <3>3. cp \in Seq(DCalls) /\ Len(cp) = 1 /\ cp[1] = z
      BY <3>1, <3>2
    <3> QED
      BY <1>4, <1>7, <2>1, <3>1, <3>3 DEF AllKinds
  <2>4. s \o cp \in Seq(DCalls) /\ j \in 1 .. Len(s \o cp) /\ (s \o cp)[j] = <<"closeport", 0>>
    BY <2>2, <2>3, ConcatProperties
  <2>5. s \o cp \o dr \in Seq(DCalls) /\ j \in 1 .. Len(s \o cp \o dr)
        /\ (s \o cp \o dr)[j] = <<"closeport", 0>>
    BY <2>3, <2>4, ConcatProperties
  <2>6. j \in 1 .. Len(s \o cp \o dr \o dt) /\ (s \o cp \o dr \o dt)[j] = <<"closeport", 0>>
    BY <2>3, <2>5, ConcatProperties
  <2> QED
    BY SMTT(40), <1>10, <2>1, <2>6
<1>13. UNCHANGED <<stat, dmade>> /\ todo' = c /\ D!Handle(c)
  BY <1>1, <1>10 DEF D!Handle, D!listVars, D!objVars
<1>14. Ends'
  BY <1>11, <1>12, <1>13 DEF Ends, FilesLast, EndCall, Before
<1> QED
  BY <1>11, <1>13, <1>14, HandledInv DEF Plan

----------------------------------------------------------------------------
(* The calls                                                               *)

\* A call is made, and the others remain. Left: what is left.
LEMMA CallMade ==
  ASSUME DInv, NEW f, D!Calling(f)
  PROVE  /\ todo \in Seq(DCalls) /\ todo # <<>> /\ todo[1] = Head(todo) /\ todo[1] \in DCalls
         /\ todo[1][1] = f /\ D!Arg = todo[1][2] /\ D!Arg \in 0 .. MaxObjects
         /\ Len(todo) \in Nat \ {0} /\ port # "none"
         /\ Tail(todo) \in Seq(DCalls) /\ Len(Tail(todo)) = Len(todo) - 1
         /\ \A j \in 1 .. Len(todo) - 1 : Tail(todo)[j] = todo[j + 1]
<1>1. todo \in Seq(DCalls) /\ todo # <<>> /\ port # "none"
  BY DEF DInv, DTypes, DCalls, D!Calling
<1>2. /\ Tail(todo) \in Seq(DCalls) /\ Head(todo) = todo[1] /\ Head(todo) \in DCalls
      /\ Len(todo) \in Nat \ {0} /\ Len(Tail(todo)) = Len(todo) - 1
      /\ \A j \in 1 .. Len(todo) - 1 : Tail(todo)[j] = todo[j + 1]
  BY <1>1, Popped
<1>3. D!Arg \in 0 .. MaxObjects
  BY <1>2 DEF D!Arg, DCalls
<1> QED
  BY <1>1, <1>2, <1>3 DEF D!Calling, D!Arg

\* What a call says of the handler that makes it.
LEMMA ReceiverCall ==
  ASSUME todo \in Seq(DCalls), NEW i, DeletesReceiver(i)
  PROVE  /\ Len(todo) \in 1 .. 6 /\ EndOf(Tail(todo), ReceiverCalls(i)) /\ Len(Tail(todo)) = Len(todo) - 1
         /\ Len(todo) = 6 => todo[1] = <<"stop", files[i]>>
         /\ Len(todo) = 5 => todo[1] = <<"uninit", files[i]>>
         /\ Len(todo) = 4 => todo[1] = <<"delete", files[i]>>
         /\ Len(todo) = 3 => todo[1] = <<"erase", i>>
         /\ Len(todo) = 2 => todo[1] = <<"uninitfile", files[i]>>
         /\ Len(todo) = 1 => todo[1] = <<"erasefile", i>>
<1>1. PICK c : c = ReceiverCalls(i)
  OBVIOUS
<1>2. /\ Len(c) = 6 /\ c[1] = <<"stop", files[i]>> /\ c[2] = <<"uninit", files[i]>>
      /\ c[3] = <<"delete", files[i]>> /\ c[4] = <<"erase", i>>
      /\ c[5] = <<"uninitfile", files[i]>> /\ c[6] = <<"erasefile", i>>
  BY <1>1 DEF ReceiverCalls
<1>3. todo # <<>> /\ EndOf(todo, c)
  BY <1>1 DEF DeletesReceiver
<1>4. /\ EndOf(Tail(todo), c) /\ Head(todo) = c[6 - Len(todo) + 1] /\ Head(todo) = todo[1]
      /\ Len(Tail(todo)) = Len(todo) - 1 /\ Len(todo) \in 1 .. 6
  <2>1. PICK s : s = todo
    OBVIOUS
  <2>2. s \in Seq(DCalls) /\ s # <<>> /\ EndOf(s, c) /\ Len(c) \in Nat
    BY <1>2, <1>3, <2>1
  <2>3. /\ EndOf(Tail(s), c) /\ Head(s) = c[Len(c) - Len(s) + 1]
        /\ Len(Tail(s)) = Len(s) - 1 /\ Len(s) \in 1 .. Len(c)
    BY <2>2, EndPopped
  <2>4. Head(s) = s[1]
    BY <2>2
  <2> QED
    BY <1>2, <2>1, <2>3, <2>4
<1>5. PICK many \in 1 .. 6 : many = Len(todo) /\ todo[1] = c[7 - many]
  <2>1. 6 - Len(todo) + 1 = 7 - Len(todo)
    BY <1>4
  <2> QED
    BY <1>4, <2>1
<1>6. /\ Len(todo) \in 1 .. 6 /\ Len(Tail(todo)) = Len(todo) - 1
      /\ EndOf(Tail(todo), c)
  BY <1>4
<1>7. /\ Len(todo) = 6 => todo[1] = c[1]
      /\ Len(todo) = 5 => todo[1] = c[2]
      /\ Len(todo) = 4 => todo[1] = c[3]
      /\ Len(todo) = 3 => todo[1] = c[4]
      /\ Len(todo) = 2 => todo[1] = c[5]
      /\ Len(todo) = 1 => todo[1] = c[6]
  <2>1. PICK e \in 1 .. 6 : e = 7 - Len(todo) /\ todo[1] = c[e]
    <3>1. 7 - many \in 1 .. 6
      BY SMTT(40), <1>5
    <3> QED
      BY <1>5, <3>1
  <2>2. e \in 1 .. 6 /\ Len(todo) = 7 - e
    BY <1>6, <2>1
  <2>3. \A k \in 1 .. 6 : Len(todo) = k => e = 7 - k
    BY <2>2
  <2>4. Len(todo) = 1 => e = 6
    BY <2>3
  <2>5. Len(todo) = 2 => e = 5
    BY <2>3
  <2>6. Len(todo) = 3 => e = 4
    BY <2>3
  <2>7. Len(todo) = 4 => e = 3
    BY <2>3
  <2>8. Len(todo) = 5 => e = 2
    BY <2>3
  <2>9. Len(todo) = 6 => e = 1
    BY <2>3
  <2> QED
    BY <2>1, <2>4, <2>5, <2>6, <2>7, <2>8, <2>9, Zenon
<1>8. EndOf(Tail(todo), ReceiverCalls(i))
  BY <1>1, <1>6
<1> QED
  BY <1>2, <1>6, <1>7, <1>8

LEMMA ListenerCall ==
  ASSUME todo \in Seq(DCalls), NEW i, DeletesListener(i)
  PROVE  /\ Len(todo) \in 1 .. 4 /\ EndOf(Tail(todo), ListenerCalls(i)) /\ Len(Tail(todo)) = Len(todo) - 1
         /\ Len(todo) = 4 => todo[1] = <<"stop", list["tcp"][i]>>
         /\ Len(todo) = 3 => todo[1] = <<"uninit", list["tcp"][i]>>
         /\ Len(todo) = 2 => todo[1] = <<"delete", list["tcp"][i]>>
         /\ Len(todo) = 1 => todo[1] = <<"erasetcp", i>>
<1>1. PICK c : c = ListenerCalls(i)
  OBVIOUS
<1>2. /\ Len(c) = 4 /\ c[1] = <<"stop", list["tcp"][i]>> /\ c[2] = <<"uninit", list["tcp"][i]>>
      /\ c[3] = <<"delete", list["tcp"][i]>> /\ c[4] = <<"erasetcp", i>>
  BY <1>1 DEF ListenerCalls
<1>3. todo # <<>> /\ EndOf(todo, c)
  BY <1>1 DEF DeletesListener
<1>4. /\ EndOf(Tail(todo), c) /\ Head(todo) = c[4 - Len(todo) + 1] /\ Head(todo) = todo[1]
      /\ Len(Tail(todo)) = Len(todo) - 1 /\ Len(todo) \in 1 .. 4
  <2>1. PICK s : s = todo
    OBVIOUS
  <2>2. s \in Seq(DCalls) /\ s # <<>> /\ EndOf(s, c) /\ Len(c) \in Nat
    BY <1>2, <1>3, <2>1
  <2>3. /\ EndOf(Tail(s), c) /\ Head(s) = c[Len(c) - Len(s) + 1]
        /\ Len(Tail(s)) = Len(s) - 1 /\ Len(s) \in 1 .. Len(c)
    BY <2>2, EndPopped
  <2>4. Head(s) = s[1]
    BY <2>2
  <2> QED
    BY <1>2, <2>1, <2>3, <2>4
<1>5. PICK many \in 1 .. 4 : many = Len(todo) /\ todo[1] = c[5 - many]
  <2>1. 4 - Len(todo) + 1 = 5 - Len(todo)
    BY <1>4
  <2> QED
    BY <1>4, <2>1
<1>6. /\ Len(todo) \in 1 .. 4 /\ Len(Tail(todo)) = Len(todo) - 1
      /\ EndOf(Tail(todo), c)
  BY <1>4
<1>7. /\ Len(todo) = 4 => todo[1] = c[1]
      /\ Len(todo) = 3 => todo[1] = c[2]
      /\ Len(todo) = 2 => todo[1] = c[3]
      /\ Len(todo) = 1 => todo[1] = c[4]
  <2>1. PICK e \in 1 .. 4 : e = 5 - Len(todo) /\ todo[1] = c[e]
    <3>1. 5 - many \in 1 .. 4
      BY SMTT(40), <1>5
    <3> QED
      BY <1>5, <3>1
  <2>2. e \in 1 .. 4 /\ Len(todo) = 5 - e
    BY <1>6, <2>1
  <2>3. \A k \in 1 .. 4 : Len(todo) = k => e = 5 - k
    BY <2>2
  <2>4. Len(todo) = 1 => e = 4
    BY <2>3
  <2>5. Len(todo) = 2 => e = 3
    BY <2>3
  <2>6. Len(todo) = 3 => e = 2
    BY <2>3
  <2>7. Len(todo) = 4 => e = 1
    BY <2>3
  <2> QED
    BY <2>1, <2>4, <2>5, <2>6, <2>7, Zenon
<1>8. EndOf(Tail(todo), ListenerCalls(i))
  BY <1>1, <1>6
<1> QED
  BY <1>2, <1>6, <1>7, <1>8

\* A call for which the handler has that name.
LEMMA CallsPlan ==
  ASSUME DInv, NEW f, D!Calling(f)
  PROVE  /\ NoDeletion => /\ f \in {"start", "stop"}
                          /\ \E k \in AllKinds : D!Arg \in Range(list[k])
         /\ DeletesClients => \/ f = "clear" /\ Len(todo) = 1
                              \/ /\ f \in {"stop", "delete"} /\ Len(todo) > 1
                                 /\ D!Arg \in Range(list["client"])
         /\ Ends => f \in {"uninit", "uninitfile", "closeport", "delete"}
         /\ \A i \in 1 .. Len(files) : DeletesReceiver(i) =>
              \/ f = "stop" /\ D!Arg = files[i] /\ Len(todo) = 6
              \/ f = "uninit" /\ D!Arg = files[i] /\ Len(todo) = 5
              \/ f = "delete" /\ D!Arg = files[i] /\ Len(todo) = 4
              \/ f = "erase" /\ D!Arg = i /\ Len(todo) = 3
              \/ f = "uninitfile" /\ D!Arg = files[i] /\ Len(todo) = 2
              \/ f = "erasefile" /\ D!Arg = i /\ Len(todo) = 1
         /\ \A i \in 1 .. Len(list["tcp"]) : DeletesListener(i) =>
              \/ f \in {"stop", "uninit"} /\ D!Arg = list["tcp"][i] /\ Len(todo) > 2
              \/ f = "delete" /\ D!Arg = list["tcp"][i] /\ Len(todo) = 2
              \/ f = "erasetcp" /\ D!Arg = i /\ Len(todo) = 1
<1>1. /\ todo \in Seq(DCalls) /\ todo[1][1] = f /\ D!Arg = todo[1][2] /\ Len(todo) \in Nat \ {0}
  BY CallMade
<1>2. PICK a, many : a = D!Arg /\ many = Len(todo) /\ many \in Nat \ {0} /\ a = todo[1][2]
  BY <1>1
<1>3. 1 \in 1 .. Len(todo) /\ (many > 1 => 1 \in 1 .. Len(todo) - 1)
  BY <1>2
<1>4. NoDeletion => /\ f \in {"start", "stop"}
                    /\ \E k \in AllKinds : D!Arg \in Range(list[k])
  BY <1>1, <1>3 DEF NoDeletion
<1>5. DeletesClients => \/ f = "clear" /\ Len(todo) = 1
                        \/ /\ f \in {"stop", "delete"} /\ Len(todo) > 1
                           /\ D!Arg \in Range(list["client"])
  <2>1. CASE many = 1
    BY <1>1, <1>2, <2>1 DEF DeletesClients
  <2>2. CASE many > 1
    BY <1>1, <1>2, <1>3, <2>2 DEF DeletesClients
  <2> QED
    BY <1>2, <2>1, <2>2
<1>6. Ends => f \in {"uninit", "uninitfile", "closeport", "delete"}
  BY <1>1, <1>3 DEF Ends, FilesLast, EndCall
<1>7. ASSUME NEW i \in 1 .. Len(files), DeletesReceiver(i)
      PROVE  \/ f = "stop" /\ a = files[i] /\ many = 6
             \/ f = "uninit" /\ a = files[i] /\ many = 5
             \/ f = "delete" /\ a = files[i] /\ many = 4
             \/ f = "erase" /\ a = i /\ many = 3
             \/ f = "uninitfile" /\ a = files[i] /\ many = 2
             \/ f = "erasefile" /\ a = i /\ many = 1
  <2>1. /\ many \in 1 .. 6
        /\ many = 6 => todo[1] = <<"stop", files[i]>>
        /\ many = 5 => todo[1] = <<"uninit", files[i]>>
        /\ many = 4 => todo[1] = <<"delete", files[i]>>
        /\ many = 3 => todo[1] = <<"erase", i>>
        /\ many = 2 => todo[1] = <<"uninitfile", files[i]>>
        /\ many = 1 => todo[1] = <<"erasefile", i>>
    BY <1>1, <1>2, <1>7, ReceiverCall
  <2> QED
    BY SMTT(40), <1>1, <1>2, <2>1
<1>8. ASSUME NEW i \in 1 .. Len(list["tcp"]), DeletesListener(i)
      PROVE  \/ f \in {"stop", "uninit"} /\ a = list["tcp"][i] /\ many > 2
             \/ f = "delete" /\ a = list["tcp"][i] /\ many = 2
             \/ f = "erasetcp" /\ a = i /\ many = 1
  <2>1. /\ many \in 1 .. 4
        /\ many = 4 => todo[1] = <<"stop", list["tcp"][i]>>
        /\ many = 3 => todo[1] = <<"uninit", list["tcp"][i]>>
        /\ many = 2 => todo[1] = <<"delete", list["tcp"][i]>>
        /\ many = 1 => todo[1] = <<"erasetcp", i>>
    BY <1>1, <1>2, <1>8, ListenerCall
  <2> QED
    BY <1>1, <1>2, <2>1
<1> QED
  BY <1>2, <1>4, <1>5, <1>6, <1>7, <1>8

\* What is left of the calls that a handler makes is left of them.
LEMMA FewerCalls ==
  ASSUME DInv, NEW f, D!Calling(f)
  PROVE  /\ NoDeletion => \A j \in 1 .. Len(Tail(todo)) :
              /\ Tail(todo)[j][1] \in {"start", "stop"}
              /\ \E k \in AllKinds : Tail(todo)[j][2] \in Range(list[k])
         /\ DeletesClients /\ Len(todo) > 1 =>
              /\ Tail(todo) # <<>> /\ Tail(todo)[Len(Tail(todo))] = <<"clear", 0>>
              /\ \A j \in 1 .. Len(Tail(todo)) - 1 :
                   /\ Tail(todo)[j][1] \in {"stop", "delete"}
                   /\ Tail(todo)[j][2] \in Range(list["client"])
<1>1. PICK t : t = Tail(todo)
  OBVIOUS
<1>2. /\ t \in Seq(DCalls) /\ Len(todo) \in Nat \ {0} /\ Len(t) = Len(todo) - 1
      /\ \A j \in 1 .. Len(todo) - 1 : t[j] = todo[j + 1]
  BY <1>1, CallMade
<1>3. \A j \in 1 .. Len(t) : j + 1 \in 1 .. Len(todo) /\ t[j] = todo[j + 1]
  BY <1>2
<1>4. ASSUME NoDeletion, NEW j \in 1 .. Len(t)
      PROVE  t[j][1] \in {"start", "stop"} /\ \E k \in AllKinds : t[j][2] \in Range(list[k])
  BY <1>3, <1>4 DEF NoDeletion
<1>5. ASSUME DeletesClients, Len(todo) > 1
      PROVE  /\ t # <<>> /\ t[Len(t)] = <<"clear", 0>>
             /\ \A j \in 1 .. Len(t) - 1 : t[j][1] \in {"stop", "delete"} /\ t[j][2] \in Range(list["client"])
  <2>1. Len(t) \in Nat \ {0} /\ t # <<>> /\ Len(t) \in 1 .. Len(t) /\ Len(t) + 1 = Len(todo)
    BY <1>2, <1>5
  <2>2. t[Len(t)] = todo[Len(todo)]
    BY <1>3, <2>1
  <2>3. ASSUME NEW j \in 1 .. Len(t) - 1
        PROVE  t[j][1] \in {"stop", "delete"} /\ t[j][2] \in Range(list["client"])
    <3>1. j \in 1 .. Len(t) /\ j + 1 \in 1 .. Len(todo) - 1
      BY <2>1
    <3> QED
      BY <1>3, <1>5, <3>1 DEF DeletesClients
  <2> QED
    BY <1>5, <2>1, <2>2, <2>3 DEF DeletesClients
<1> QED
  BY <1>1, <1>4, <1>5

LEMMA FewerAtEnd ==
  ASSUME DInv, NEW f, D!Calling(f), FilesLast(todo), todo' = Tail(todo), dmade' = dmade,
         \A o \in D!Objects : stat[o] \in {"stopped", "deleted"} => stat'[o] \in {"stopped", "deleted"},
         f = "uninit" => stat'[D!Arg] \in {"stopped", "deleted"}
  PROVE  FilesLast(todo)'
<1>1. PICK t, s : t = Tail(todo) /\ s = todo
  OBVIOUS
<1>2. /\ t \in Seq(DCalls) /\ Len(s) \in Nat \ {0} /\ Len(t) = Len(s) - 1
      /\ \A j \in 1 .. Len(s) - 1 : t[j] = s[j + 1]
      /\ s[1][1] = f /\ D!Arg = s[1][2]
  BY <1>1, CallMade
<1>3. todo' = t /\ dmade \in 0 .. MaxObjects /\ MaxObjects \in Nat
  BY <1>1 DEF DInv, DTypes
<1>4. ASSUME NEW j \in 1 .. Len(t)
      PROVE  /\ EndCall(t[j])
             /\ t[j][1] = "uninitfile" =>
                  stat'[t[j][2]] \in {"stopped", "deleted"} \/ Before(t, j, <<"uninit", t[j][2]>>)
  <2>1. j + 1 \in 1 .. Len(s) /\ t[j] = s[j + 1]
    BY <1>2
  <2>2. /\ EndCall(t[j])
        /\ t[j][1] = "uninitfile" =>
             stat[t[j][2]] \in {"stopped", "deleted"} \/ Before(s, j + 1, <<"uninit", t[j][2]>>)
    BY <1>1, <2>1 DEF FilesLast
  <2>3. ASSUME t[j][1] = "uninitfile", Before(s, j + 1, <<"uninit", t[j][2]>>)
        PROVE  stat'[t[j][2]] \in {"stopped", "deleted"} \/ Before(t, j, <<"uninit", t[j][2]>>)
    <3>1. PICK l \in 1 .. j : s[l] = <<"uninit", t[j][2]>>
      BY <2>3 DEF Before
    <3>2. CASE l = 1
      BY <1>2, <3>1, <3>2
    <3>3. CASE l # 1
      <4>1. l - 1 \in 1 .. j - 1 /\ l - 1 \in 1 .. Len(s) - 1 /\ (l - 1) + 1 = l
        BY <1>2, <3>1, <3>3
      <4>2. t[l - 1] = s[l]
        BY <1>2, <4>1
      <4> QED
        BY <3>1, <4>1, <4>2 DEF Before
    <3> QED
      BY <3>2, <3>3
  <2>4. ASSUME t[j][1] = "uninitfile" PROVE t[j][2] \in D!Objects
    BY <1>3, <2>2, <2>4 DEF EndCall, D!Objects
  <2> QED
    BY <2>2, <2>3, <2>4
<1>5. FilesLast(todo)' <=> \A j \in 1 .. Len(t) :
        /\ EndCall(t[j])
        /\ t[j][1] = "uninitfile" =>
             stat'[t[j][2]] \in {"stopped", "deleted"} \/ Before(t, j, <<"uninit", t[j][2]>>)
  BY ZenonT(60), <1>3 DEF FilesLast, EndCall, Before
<1> QED
  BY <1>4, <1>5

\* The types of the lists, and of what else a call touches.
LEMMA CallTypes ==
  ASSUME DInv, NEW f, D!Calling(f), UNCHANGED <<dmade, dpc, dtaken, dio>>,
         list' \in [AllKinds -> Seq(1 .. dmade)], files' \in Seq(1 .. dmade),
         rows' = [k \in AllKinds |-> [i \in 1 .. Len(list'[k]) |-> D!Row(list'[k][i])]],
         stat' \in [D!Objects -> {"none", "stopped", "running", "deleted"}],
         dfile' \in [D!Objects -> {"none", "open", "failed", "closed"}],
         buffered' \in [D!Objects -> BOOLEAN], processing' \in BOOLEAN,
         port' = port \/ port' = "closed", todo' = Tail(todo)
  PROVE  DTypes'
<1>1. port # "none" /\ Tail(todo) \in Seq(DCalls)
  BY CallMade
<1>2. port' # "none" /\ port' \in {"none", "open", "null", "closed"}
  BY <1>1 DEF DInv, DTypes
<1> QED
  BY <1>1, <1>2 DEF DInv, DTypes, DCalls

\* A call that leaves the lists as they are.
LEMMA ListTypes ==
  ASSUME DInv, NEW f, D!Calling(f), UNCHANGED <<list, files, rows, dmade, dpc, dtaken, dio, processing, port>>,
         stat' \in [D!Objects -> {"none", "stopped", "running", "deleted"}],
         dfile' \in [D!Objects -> {"none", "open", "failed", "closed"}],
         buffered' \in [D!Objects -> BOOLEAN], todo' = Tail(todo)
  PROVE  DTypes'
BY CallTypes DEF DInv, DTypes

LEMMA ObjectsOf ==
  ASSUME DInv
  PROVE  /\ \A k \in AllKinds : Range(list[k]) \subseteq D!Objects
         /\ Range(files) \subseteq D!Objects
         /\ \A k \in AllKinds : Len(list[k]) \in Nat /\ DOMAIN list[k] = 1 .. Len(list[k])
         /\ Len(files) \in Nat /\ DOMAIN files = 1 .. Len(files)
         /\ \A i \in 1 .. Len(files) : files[i] \in Range(files)
<1>1. dmade \in 0 .. MaxObjects /\ MaxObjects \in Nat /\ files \in Seq(1 .. dmade)
      /\ \A k \in AllKinds : list[k] \in Seq(1 .. dmade)
  BY DEF DInv, DTypes
<1>2. 1 .. dmade \subseteq D!Objects
  BY <1>1 DEF D!Objects
<1>3. ASSUME NEW s \in Seq(1 .. dmade)
      PROVE  /\ Range(s) \subseteq D!Objects /\ Len(s) \in Nat /\ DOMAIN s = 1 .. Len(s)
             /\ \A i \in 1 .. Len(s) : s[i] \in Range(s)
  BY <1>2, SeqParts
<1> QED
  BY <1>1, <1>3

\* The port is still to close.
LEMMA PortLater ==
  ASSUME DInv, Ends, NEW f, D!Calling(f), f # "closeport"
  PROVE  port = "closed" \/ \E j \in 1 .. Len(Tail(todo)) : Tail(todo)[j][1] = "closeport"
<1>1. PICK t : t = Tail(todo) /\ Len(t) = Len(todo) - 1 /\ Len(todo) \in Nat /\ todo[1][1] = f
              /\ \A j \in 1 .. Len(todo) - 1 : t[j] = todo[j + 1]
  BY CallMade
<1>2. CASE port # "closed"
  <2>1. PICK j \in 1 .. Len(todo) : todo[j][1] = "closeport"
    BY <1>2 DEF Ends
  <2>2. j # 1
    BY <1>1, <2>1
  <2>3. j - 1 \in 1 .. Len(t) /\ (j - 1) + 1 = j /\ t[j - 1] = todo[j]
    BY <1>1, <2>1, <2>2
  <2> QED
    BY <1>1, <2>1, <2>3
<1> QED
  BY <1>2

LEMMA DStartInv == ASSUME DInv, D!Start PROVE DInv'
<1>1. D!Calling("start")
  BY DEF D!Start
<1>2. NoDeletion
  BY <1>1, CallsPlan DEF DInv, Plan
<1>3. PICK a, k : a = D!Arg /\ k \in AllKinds /\ a \in Range(list[k]) /\ a \in D!Objects
  BY <1>1, <1>2, CallsPlan, ObjectsOf
<1>4. stat[a] # "deleted" /\ dfile[a] # "closed"
  BY <1>2, <1>3 DEF NoDeletion, Live, Unclosed
<1>5. /\ UNCHANGED <<list, files, rows, selected, dmade, dfile, buffered, processing, port, dpc, dtaken>>
      /\ stat' = stat \/ stat' = [stat EXCEPT ![a] = "running"]
      /\ dio' = dio \/ dio' = [dio EXCEPT ![a] = TRUE]
      /\ todo' = Tail(todo) \/ todo' = << <<"stop", a>> >> \o Tail(todo)
  BY <1>3 DEF D!Start, D!listVars, D!threadVars, D!Done, D!Call
<1>6. DTypes /\ Separate
  BY DEF DInv
<1>7. PICK t : t = Tail(todo) /\ t \in Seq(DCalls) /\ Len(t) \in Nat
  <2>1. Tail(todo) \in Seq(DCalls)
    BY <1>1, CallMade
  <2>2. PICK t : t = Tail(todo)
    OBVIOUS
  <2>3. t \in Seq(DCalls)
    BY <2>1, <2>2
  <2> QED
    BY <2>2, <2>3
<1>8. \A j \in 1 .. Len(t) : t[j][1] \in {"start", "stop"} /\ \E m \in AllKinds : t[j][2] \in Range(list[m])
  BY <1>1, <1>2, <1>7, FewerCalls
<1>9. /\ todo' \in Seq(DCalls)
      /\ \A j \in 1 .. Len(todo') :
           todo'[j][1] \in {"start", "stop"} /\ \E m \in AllKinds : todo'[j][2] \in Range(list[m])
  <2>1. CASE todo' = t
    BY <1>7, <1>8, <2>1
  <2>2. CASE todo' = << <<"stop", a>> >> \o t
    <3>1. PICK c : c = <<"stop", a>>
      OBVIOUS
    <3>2. c \in DCalls
      BY <1>3, <1>6, <3>1 DEF DTypes, DCalls, CallNames, D!Objects
    <3>3. PICK s : s = <<c>>
      OBVIOUS
    <3>4. s \in Seq(DCalls) /\ Len(s) = 1 /\ s[1] = c
      BY <3>2, <3>3
    <3>5. todo' = s \o t
      BY <2>2, <3>1, <3>3
    <3>6. /\ todo' \in Seq(DCalls) /\ Len(todo') = 1 + Len(t) /\ todo'[1] = c
          /\ \A j \in 1 .. Len(t) : todo'[1 + j] = t[j]
      <4>1. PICK x : x = s \o t
        OBVIOUS
      <4>2. /\ x \in Seq(DCalls) /\ Len(x) = Len(s) + Len(t)
            /\ \A j \in 1 .. Len(s) : x[j] = s[j]
            /\ \A j \in 1 .. Len(t) : x[Len(s) + j] = t[j]
        <5>1. t \in Seq(DCalls) /\ s \in Seq(DCalls)
          BY <1>7, <3>4
        <5> QED
          BY <4>1, <5>1, Joined
      <4>3. x[1] = s[1] /\ Len(s) = 1
        BY <3>4, <4>2
      <4> QED
        BY <3>4, <3>5, <4>1, <4>2, <4>3
    <3>7. ASSUME NEW j \in 1 .. Len(todo')
          PROVE  todo'[j][1] \in {"start", "stop"} /\ \E m \in AllKinds : todo'[j][2] \in Range(list[m])
      <4>1. CASE j = 1
        BY <1>3, <3>1, <3>6, <4>1
      <4>2. CASE j # 1
        <5>1. j - 1 \in 1 .. Len(t) /\ 1 + (j - 1) = j
          BY <1>7, <3>6, <4>2
        <5>2. todo'[j] = t[j - 1]
          BY <3>6, <5>1
        <5> QED
          BY <1>8, <5>1, <5>2
      <4> QED
        BY <4>1, <4>2
    <3> QED
      BY <3>6, <3>7
  <2> QED
    BY <1>5, <1>7, <2>1, <2>2
<1>10. /\ stat' \in [D!Objects -> {"none", "stopped", "running", "deleted"}]
       /\ dio' \in [D!Objects -> BOOLEAN]
       /\ stat'[a] # "deleted" /\ \A o \in D!Objects : o # a => stat'[o] = stat[o]
  BY <1>3, <1>4, <1>5, <1>6 DEF DTypes
<1>11. DTypes'
  BY <1>1, <1>5, <1>6, <1>9, <1>10, CallMade DEF DTypes, DCalls
<1>12. Separate'
  BY <1>4, <1>5, <1>6, <1>10 DEF Separate
<1>13. NoDeletion'
  <2>1. \A m \in AllKinds : Live(m)'
    BY <1>2, <1>5, <1>10, ObjectsOf DEF NoDeletion, Live, Unclosed
  <2>2. Paired'
    BY <1>2, <1>5 DEF NoDeletion, Paired
  <2> QED
    BY <1>5, <1>9, <2>1, <2>2 DEF NoDeletion
<1> QED
  BY <1>11, <1>12, <1>13 DEF DInv, Plan

LEMMA DStopInv == ASSUME DInv, D!Stop PROVE DInv'
<1>1. PICK f \in {"stop", "uninit"} : D!Calling(f)
  BY DEF D!Stop
<1>2. PICK a : a = D!Arg
  OBVIOUS
<1>3. /\ UNCHANGED <<list, files, rows, selected, dmade, dfile, dio, processing, port, dpc, dtaken>>
      /\ stat' = [stat EXCEPT ![a] = "stopped"] /\ buffered' = [buffered EXCEPT ![a] = FALSE]
      /\ todo' = Tail(todo)
  BY <1>2 DEF D!Stop, D!listVars, D!threadVars, D!Done
<1>4. DTypes /\ Separate
  BY DEF DInv
<1>5. /\ stat' \in [D!Objects -> {"none", "stopped", "running", "deleted"}]
      /\ \A o \in D!Objects : stat'[o] = stat[o] \/ stat'[o] = "stopped"
      /\ a \in D!Objects => stat'[a] = "stopped"
      /\ \A o \in D!Objects : o # a => stat'[o] = stat[o]
      /\ buffered' \in [D!Objects -> BOOLEAN]
  BY <1>3, <1>4 DEF DTypes
<1>6. DTypes'
  BY <1>1, <1>3, <1>4, <1>5, ListTypes DEF DTypes
<1>7. Separate'
  BY <1>3, <1>4, <1>5 DEF Separate
<1>8. ASSUME NEW k \in AllKinds
      PROVE  (Live(k) => Live(k)') /\ (Unclosed(k) => Unclosed(k)')
  BY <1>3, <1>5, ObjectsOf DEF Live, Unclosed, LiveBut
<1>9. ASSUME NEW k \in AllKinds, NEW p, p' = p, LiveBut(k, p) PROVE LiveBut(k, p)'
  BY <1>3, <1>5, <1>9, ObjectsOf DEF Unclosed, LiveBut
<1>10. Plan'
  <2>1. CASE NoDeletion
    <3>1. NoDeletion'
      BY <1>1, <1>3, <1>8, <2>1, FewerCalls DEF NoDeletion, Paired
    <3> QED BY <3>1 DEF Plan
  <2>2. CASE DeletesClients
    <3>1. Len(todo) > 1
      BY <1>1, <2>2, CallsPlan
    <3>2. DeletesClients'
      BY <1>1, <1>3, <1>8, <2>2, <3>1, FewerCalls DEF DeletesClients, Paired, AllKinds
    <3> QED BY <3>2 DEF Plan
  <2>3. CASE Ends
    <3>1. f = "uninit" /\ a \in D!Objects
      <4>1. f = "uninit"
        BY <1>1, <2>3, CallsPlan
      <4>2. 1 \in 1 .. Len(todo) /\ todo[1][1] = f /\ a = todo[1][2]
        BY <1>1, <1>2, CallMade
      <4>3. a \in 1 .. dmade
        BY <2>3, <4>1, <4>2 DEF Ends, FilesLast, EndCall
      <4> QED
        BY <1>4, <4>1, <4>3 DEF DTypes, D!Objects
    <3>2. FilesLast(todo)'
      BY <1>1, <1>2, <1>3, <1>5, <2>3, <3>1, FewerAtEnd DEF Ends
    <3>3. port = "closed" \/ \E j \in 1 .. Len(Tail(todo)) : Tail(todo)[j][1] = "closeport"
      BY <1>1, <2>3, <3>1, PortLater
    <3>4. Ends'
      BY <1>3, <3>2, <3>3 DEF Ends
    <3> QED BY <3>4 DEF Plan
  <2>4. ASSUME NEW i \in 1 .. Len(files), DeletesReceiver(i) PROVE Plan'
    <3>1. Len(todo) >= 5 /\ Len(todo) \in Nat
      <4>1. Len(todo) = 6 \/ Len(todo) = 5
        BY <1>1, <2>4, CallsPlan
      <4> QED
        BY SMTT(40), <4>1
    <3>2. /\ EndOf(Tail(todo), ReceiverCalls(i)) /\ Len(Tail(todo)) = Len(todo) - 1
          /\ Tail(todo) # <<>>
      <4>1. todo \in Seq(DCalls) /\ Tail(todo) \in Seq(DCalls)
        BY <1>1, CallMade
      <4>2. EndOf(Tail(todo), ReceiverCalls(i)) /\ Len(Tail(todo)) = Len(todo) - 1
        BY <2>4, <4>1, ReceiverCall
      <4>3. Len(todo) > 1
        BY <3>1
      <4>4. Tail(todo) # <<>>
        BY <4>1, <4>3, OneLeft
      <4> QED
        BY <4>2, <4>4
    <3>3. ReceiverCalls(i)' = ReceiverCalls(i) /\ files[i]' = files[i] /\ list' = list
      BY <1>3 DEF ReceiverCalls
    <3>4. EndOf(todo', ReceiverCalls(i)')
      BY <1>3, <3>2, <3>3
    <3>5. Live("tcp")' /\ Live("client")' /\ Paired' /\ LiveBut("recv", files[i])'
      BY <1>3, <1>8, <1>9, <2>4, <3>1, <3>3 DEF DeletesReceiver, Paired, AllKinds
    <3>6. DeletesReceiver(i)'
      BY <1>3, <3>1, <3>2, <3>4, <3>5 DEF DeletesReceiver
    <3> QED BY <1>3, <3>6 DEF Plan
  <2>5. ASSUME NEW i \in 1 .. Len(list["tcp"]), DeletesListener(i) PROVE Plan'
    <3>1. Len(todo) > 2 /\ Len(todo) \in Nat
      BY <1>1, <2>5, CallsPlan, CallMade
    <3>2. /\ EndOf(Tail(todo), ListenerCalls(i)) /\ Len(Tail(todo)) = Len(todo) - 1
          /\ Tail(todo) # <<>>
      <4>1. todo \in Seq(DCalls) /\ Tail(todo) \in Seq(DCalls)
        BY <1>1, CallMade
      <4>2. EndOf(Tail(todo), ListenerCalls(i)) /\ Len(Tail(todo)) = Len(todo) - 1
        BY <2>5, <4>1, ListenerCall
      <4>3. Len(todo) > 1
        BY <3>1
      <4>4. Tail(todo) # <<>>
        BY <4>1, <4>3, OneLeft
      <4> QED
        BY <4>2, <4>4
    <3>3. ListenerCalls(i)' = ListenerCalls(i) /\ list["tcp"][i]' = list["tcp"][i]
      BY <1>3 DEF ListenerCalls
    <3>4. EndOf(todo', ListenerCalls(i)')
      BY <1>3, <3>2, <3>3
    <3>5. Live("recv")' /\ Live("client")' /\ Paired' /\ LiveBut("tcp", list["tcp"][i])'
      BY <1>3, <1>8, <1>9, <2>5, <3>3 DEF DeletesListener, Paired, AllKinds
    <3>6. DeletesListener(i)'
      BY <1>3, <3>2, <3>4, <3>5 DEF DeletesListener
    <3> QED BY <1>3, <3>6 DEF Plan
  <2> QED
    BY <2>1, <2>2, <2>3, <2>4, <2>5 DEF DInv, Plan
<1> QED
  BY <1>6, <1>7, <1>10 DEF DInv

LEMMA DDeleteInv == ASSUME DInv, D!Delete PROVE DInv'
<1>1. D!Calling("delete")
  BY DEF D!Delete
<1>2. PICK a : a = D!Arg
  OBVIOUS
<1>3. /\ UNCHANGED <<list, files, rows, selected, dmade, dfile, buffered, dio, processing, port, dpc, dtaken>>
      /\ stat' = [stat EXCEPT ![a] = "deleted"] /\ todo' = Tail(todo)
  BY <1>2 DEF D!Delete, D!listVars, D!threadVars, D!Done
<1>4. DTypes /\ Separate
  BY DEF DInv
<1>5. /\ stat' \in [D!Objects -> {"none", "stopped", "running", "deleted"}]
      /\ \A o \in D!Objects : stat'[o] = stat[o] \/ stat'[o] = "deleted"
      /\ a \in D!Objects => stat'[a] = "deleted"
      /\ \A o \in D!Objects : o # a => stat'[o] = stat[o]
  BY <1>3, <1>4 DEF DTypes
<1>6. DTypes'
  BY <1>1, <1>3, <1>4, <1>5, ListTypes DEF DTypes
<1>7. Separate'
  BY <1>3, <1>4, <1>5 DEF Separate
<1>8. ASSUME NEW k \in AllKinds
      PROVE  /\ Unclosed(k) => Unclosed(k)'
             /\ Live(k) /\ a \notin Range(list[k]) => Live(k)'
             /\ LiveBut(k, a) => Unclosed(k)' /\ \A o \in Range(list[k]) : o # a => stat'[o] # "deleted"
  BY <1>3, <1>5, ObjectsOf DEF Live, Unclosed, LiveBut
<1>9. Plan'
  <2>1. ~NoDeletion
    BY <1>1, CallsPlan
  <2>2. CASE DeletesClients
    <3>1. Len(todo) > 1 /\ a \in Range(list["client"])
      BY <1>1, <1>2, <2>2, CallsPlan
    <3>2. a \notin Range(list["recv"]) /\ a \notin Range(list["tcp"])
      BY <1>4, <3>1 DEF Separate, AllKinds
    <3>3. /\ Tail(todo) # <<>> /\ Tail(todo)[Len(Tail(todo))] = <<"clear", 0>>
          /\ \A j \in 1 .. Len(Tail(todo)) - 1 :
               /\ Tail(todo)[j][1] \in {"stop", "delete"}
               /\ Tail(todo)[j][2] \in Range(list["client"])
      BY <1>1, <2>2, <3>1, FewerCalls
    <3>4. Live("recv")' /\ Live("tcp")' /\ Paired' /\ Unclosed("client")'
      BY <1>3, <1>8, <2>2, <3>2 DEF DeletesClients, Paired, AllKinds
    <3>5. DeletesClients'
      BY <1>3, <3>3, <3>4 DEF DeletesClients
    <3> QED BY <3>5 DEF Plan
  <2>3. CASE Ends
    <3>1. FilesLast(todo)'
      BY <1>1, <1>2, <1>3, <1>5, <2>3, FewerAtEnd DEF Ends
    <3>2. port = "closed" \/ \E j \in 1 .. Len(Tail(todo)) : Tail(todo)[j][1] = "closeport"
      BY <1>1, <2>3, PortLater
    <3>3. Ends'
      BY <1>3, <3>1, <3>2 DEF Ends
    <3> QED BY <3>3 DEF Plan
  <2>4. ASSUME NEW i \in 1 .. Len(files), DeletesReceiver(i) PROVE Plan'
    <3>1. Len(todo) = 4 /\ a = files[i]
      BY <1>1, <1>2, <2>4, CallsPlan
    <3>2. EndOf(Tail(todo), ReceiverCalls(i)) /\ Len(Tail(todo)) = 3 /\ Tail(todo) # <<>>
      <4>1. todo \in Seq(DCalls) /\ Len(todo) > 1
        BY <1>1, <3>1, CallMade
      <4>2. EndOf(Tail(todo), ReceiverCalls(i)) /\ Len(Tail(todo)) = Len(todo) - 1
        BY <2>4, <4>1, ReceiverCall
      <4>3. Tail(todo) # <<>>
        BY <4>1, OneLeft
      <4> QED
        BY <3>1, <4>2, <4>3
    <3>3. ReceiverCalls(i)' = ReceiverCalls(i) /\ files[i]' = files[i] /\ list' = list
      BY <1>3 DEF ReceiverCalls
    <3>4. EndOf(todo', ReceiverCalls(i)')
      BY <1>3, <3>2, <3>3
    <3>5. Live("tcp") /\ Live("client") /\ Paired /\ LiveBut("recv", a)
      BY <2>4, <3>1 DEF DeletesReceiver
    <3>6. a \in Range(files) /\ a \in D!Objects /\ a \notin Range(list["tcp"]) /\ a \notin Range(list["client"])
      BY <1>4, <3>1, ObjectsOf DEF Separate
    <3>7. Live("tcp")' /\ Live("client")' /\ Paired' /\ LiveBut("recv", files[i])'
      BY <1>3, <1>8, <3>1, <3>3, <3>5, <3>6 DEF Paired, LiveBut, AllKinds
    <3>8. stat'[files[i]] = "deleted"
      BY <1>5, <3>1, <3>6
    <3>9. Len(todo') = 3 /\ todo' # <<>>
      BY <1>3, <3>2
    <3>10. DeletesReceiver(i)'
      BY <3>3, <3>4, <3>7, <3>8, <3>9 DEF DeletesReceiver
    <3> QED BY <1>3, <3>10 DEF Plan
  <2>5. ASSUME NEW i \in 1 .. Len(list["tcp"]), DeletesListener(i) PROVE Plan'
    <3>1. Len(todo) = 2 /\ a = list["tcp"][i]
      BY <1>1, <1>2, <2>5, CallsPlan
    <3>2. EndOf(Tail(todo), ListenerCalls(i)) /\ Tail(todo) # <<>>
      <4>1. todo \in Seq(DCalls) /\ Len(todo) > 1
        BY <1>1, <3>1, CallMade
      <4> QED
        BY <2>5, <4>1, OneLeft, ListenerCall
    <3>3. ListenerCalls(i)' = ListenerCalls(i) /\ list["tcp"][i]' = list["tcp"][i]
      BY <1>3 DEF ListenerCalls
    <3>4. EndOf(todo', ListenerCalls(i)')
      BY <1>3, <3>2, <3>3
    <3>5. Live("recv") /\ Live("client") /\ Paired /\ LiveBut("tcp", a)
      BY <2>5, <3>1 DEF DeletesListener
    <3>6. a \notin Range(list["recv"]) /\ a \notin Range(list["client"])
      <4>1. a \in Range(list["tcp"])
        BY <3>1, InList DEF AllKinds
      <4> QED
        BY <1>4, <4>1 DEF Separate, AllKinds
    <3>7. Live("recv")' /\ Live("client")' /\ Paired' /\ LiveBut("tcp", list["tcp"][i])'
      BY <1>3, <1>8, <3>1, <3>3, <3>5, <3>6 DEF Paired, LiveBut, AllKinds
    <3>8. DeletesListener(i)'
      BY <1>3, <3>2, <3>4, <3>7 DEF DeletesListener
    <3> QED BY <1>3, <3>8 DEF Plan
  <2> QED
    BY <2>1, <2>2, <2>3, <2>4, <2>5 DEF DInv, Plan
<1> QED
  BY <1>6, <1>7, <1>9 DEF DInv

\* A row goes, and what it stands for.
LEMMA RowGone ==
  ASSUME DInv, NEW k \in AllKinds, NEW a \in 1 .. Len(list[k]),
         list' = [list EXCEPT ![k] = RemoveAt(@, a)],
         rows' = [rows EXCEPT ![k] = RemoveAt(@, a)]
  PROVE  /\ list' \in [AllKinds -> Seq(1 .. dmade)]
         /\ rows' = [m \in AllKinds |-> [i \in 1 .. Len(list'[m]) |-> D!Row(list'[m][i])]]
         /\ list'[k] = RemoveAt(list[k], a) /\ \A m \in AllKinds : m # k => list'[m] = list[m]
         /\ IsInjective(list'[k]) /\ list[k][a] \notin Range(list'[k])
         /\ \A m \in AllKinds : Range(list'[m]) \subseteq Range(list[m])
<1>1. /\ list \in [AllKinds -> Seq(1 .. dmade)] /\ dmade \in 0 .. MaxObjects /\ MaxObjects \in Nat
      /\ rows = [m \in AllKinds |-> [i \in 1 .. Len(list[m]) |-> D!Row(list[m][i])]]
      /\ IsInjective(list[k])
  BY DEF DInv, DTypes, Separate
<1>2. 1 .. dmade \subseteq D!Objects
  BY <1>1 DEF D!Objects
<1>3. list[k] \in Seq(1 .. dmade) /\ list[k] \in Seq(D!Objects)
  BY <1>1, <1>2, SeqMore
<1>4. /\ RemoveAt(list[k], a) \in Seq(1 .. dmade)
      /\ Range(RemoveAt(list[k], a)) \subseteq Range(list[k])
      /\ IsInjective(RemoveAt(list[k], a)) /\ list[k][a] \notin Range(RemoveAt(list[k], a))
  BY <1>1, <1>3, PlaceRemoved
<1>5. list'[k] = RemoveAt(list[k], a) /\ \A m \in AllKinds : m # k => list'[m] = list[m]
  BY <1>1
<1>6. list' \in [AllKinds -> Seq(1 .. dmade)]
  BY <1>1, <1>4
<1>7. rows' = [m \in AllKinds |-> Shown(list'[m])]
  <2>1. rows' = [m \in AllKinds |-> IF m = k THEN RemoveAt(rows[k], a) ELSE rows[m]]
    BY <1>1
  <2>2. RemoveAt(rows[k], a) = Shown(list'[k])
    BY <1>3, <1>5, ShownIs, ShownLess
  <2>3. \A m \in AllKinds : (IF m = k THEN RemoveAt(rows[k], a) ELSE rows[m]) = Shown(list'[m])
    BY <1>5, <2>2, ShownIs
  <2> QED
    BY <2>1, <2>3
<1> QED
  BY <1>4, <1>5, <1>6, <1>7 DEF Shown

LEMMA DEraseInv == ASSUME DInv, D!Erase PROVE DInv'
<1>1. PICK f, k : /\ \/ f = "erase" /\ k = "recv"
                     \/ f = "erasetcp" /\ k = "tcp"
                  /\ D!Calling(f) /\ D!EraseRow(k)
  BY DEF D!Erase
<1>2. PICK a : a = D!Arg
  OBVIOUS
<1>3. k \in AllKinds
  BY <1>1 DEF AllKinds
<1>4. /\ list' = [list EXCEPT ![k] = RemoveAt(@, a)] /\ rows' = [rows EXCEPT ![k] = RemoveAt(@, a)]
      /\ UNCHANGED <<files, dmade, stat, dfile, buffered, dio, processing, port, dpc, dtaken>>
      /\ todo' = Tail(todo)
  BY <1>1, <1>2 DEF D!EraseRow, D!WithoutRow, D!objVars, D!threadVars, D!Done, D!RemoveAt, RemoveAt
<1>5. DTypes /\ Separate
  BY DEF DInv
<1>6. ~NoDeletion /\ ~DeletesClients /\ ~Ends
  BY <1>1, CallsPlan
<1>7. CASE f = "erase"
  <2>1. PICK i \in 1 .. Len(files) : DeletesReceiver(i) /\ a = i /\ Len(todo) = 3
    <3>1. \A i \in 1 .. Len(list["tcp"]) : ~DeletesListener(i)
      BY <1>1, <1>7, CallsPlan
    <3>2. PICK i \in 1 .. Len(files) : DeletesReceiver(i)
      BY <1>6, <3>1 DEF DInv, Plan
    <3> QED
      BY <1>1, <1>2, <1>7, <3>2, CallsPlan
  <2>2. k = "recv" /\ files = list["recv"] /\ Live("tcp") /\ Live("client") /\ LiveBut("recv", files[i])
        /\ stat[files[i]] = "deleted"
    BY <1>1, <1>7, <2>1 DEF DeletesReceiver, Paired
  <2>3. a \in 1 .. Len(list[k])
    BY <2>1, <2>2
  <2>4. /\ list' \in [AllKinds -> Seq(1 .. dmade)]
        /\ rows' = [m \in AllKinds |-> [j \in 1 .. Len(list'[m]) |-> D!Row(list'[m][j])]]
        /\ list'[k] = RemoveAt(list[k], a) /\ \A m \in AllKinds : m # k => list'[m] = list[m]
        /\ IsInjective(list'[k]) /\ list[k][a] \notin Range(list'[k])
        /\ \A m \in AllKinds : Range(list'[m]) \subseteq Range(list[m])
    BY <1>3, <1>4, <2>3, RowGone
  <2>5. DTypes'
    BY <1>1, <1>4, <1>5, <2>4, CallTypes DEF DTypes
  <2>6. Separate'
    <3>1. \A m \in AllKinds : IsInjective(list'[m])
      BY <1>5, <2>4 DEF Separate
    <3>2. \A l, m \in AllKinds : l # m => Range(list'[l]) \cap Range(list'[m]) = {}
      BY <1>5, <2>4 DEF Separate
    <3>3. \A m \in {"tcp", "client"} : Range(files') \cap Range(list'[m]) = {}
      BY <1>4, <1>5, <2>4 DEF Separate, AllKinds
    <3> QED
      BY <1>4, <1>5, <3>1, <3>2, <3>3 DEF Separate
  <2>7. Live("tcp")' /\ Live("client")'
    BY <1>4, <2>2, <2>4 DEF Live, Unclosed, AllKinds
  <2>8. Live("recv")' /\ list'["recv"] = RemoveAt(files, i)
    <3>1. files[i] \notin Range(list'["recv"]) /\ Range(list'["recv"]) \subseteq Range(list["recv"])
      BY <2>1, <2>2, <2>4 DEF AllKinds
    <3> QED
      BY <1>4, <2>1, <2>2, <2>4, <3>1 DEF Live, LiveBut, Unclosed
  <2>9. /\ Len(todo') = 2 /\ todo' # <<>> /\ EndOf(todo', ReceiverCalls(i))
    <3>1. todo \in Seq(DCalls) /\ Len(todo) > 1
      BY <1>1, <2>1, CallMade
    <3>2. EndOf(Tail(todo), ReceiverCalls(i)) /\ Len(Tail(todo)) = Len(todo) - 1
      BY <2>1, <3>1, ReceiverCall
    <3>3. Tail(todo) # <<>>
      BY <3>1, OneLeft
    <3> QED
      BY <1>4, <2>1, <3>2, <3>3
  <2>10. ReceiverCalls(i)' = ReceiverCalls(i)
    BY <1>4 DEF ReceiverCalls
  <2>11. DeletesReceiver(i)'
    <3>1. stat'[files'[i]] = "deleted" /\ list'["recv"] = RemoveAt(files', i)
      BY <1>4, <2>2, <2>8
    <3>2. EndOf(todo', ReceiverCalls(i)')
      BY <2>9, <2>10
    <3> QED
      BY <2>7, <2>8, <2>9, <3>1, <3>2 DEF DeletesReceiver
  <2> QED
    BY <1>4, <2>5, <2>6, <2>11 DEF DInv, Plan
<1>8. CASE f = "erasetcp"
  <2>1. PICK i \in 1 .. Len(list["tcp"]) : DeletesListener(i) /\ a = i /\ Len(todo) = 1
    <3>1. \A i \in 1 .. Len(files) : ~DeletesReceiver(i)
      BY <1>1, <1>8, CallsPlan
    <3>2. PICK i \in 1 .. Len(list["tcp"]) : DeletesListener(i)
      BY <1>6, <3>1 DEF DInv, Plan
    <3> QED
      BY <1>1, <1>2, <1>8, <3>2, CallsPlan
  <2>2. k = "tcp" /\ Paired /\ Live("recv") /\ Live("client") /\ LiveBut("tcp", list["tcp"][i])
    BY <1>1, <1>8, <2>1 DEF DeletesListener
  <2>3. a \in 1 .. Len(list[k])
    BY <2>1, <2>2
  <2>4. /\ list' \in [AllKinds -> Seq(1 .. dmade)]
        /\ rows' = [m \in AllKinds |-> [j \in 1 .. Len(list'[m]) |-> D!Row(list'[m][j])]]
        /\ list'[k] = RemoveAt(list[k], a) /\ \A m \in AllKinds : m # k => list'[m] = list[m]
        /\ IsInjective(list'[k]) /\ list[k][a] \notin Range(list'[k])
        /\ \A m \in AllKinds : Range(list'[m]) \subseteq Range(list[m])
    BY <1>3, <1>4, <2>3, RowGone
  <2>5. DTypes'
    BY <1>1, <1>4, <1>5, <2>4, CallTypes DEF DTypes
  <2>6. Separate'
    <3>1. \A m \in AllKinds : IsInjective(list'[m])
      BY <1>5, <2>4 DEF Separate
    <3>2. \A l, m \in AllKinds : l # m => Range(list'[l]) \cap Range(list'[m]) = {}
      BY <1>5, <2>4 DEF Separate
    <3>3. \A m \in {"tcp", "client"} : Range(files') \cap Range(list'[m]) = {}
      BY <1>4, <1>5, <2>4 DEF Separate, AllKinds
    <3> QED
      BY <1>4, <1>5, <3>1, <3>2, <3>3 DEF Separate
  <2>7. Live("recv")' /\ Live("client")' /\ Paired'
    BY <1>4, <2>2, <2>4 DEF Live, Unclosed, Paired, AllKinds
  <2>8. Live("tcp")'
    <3>1. list["tcp"][i] \notin Range(list'["tcp"]) /\ Range(list'["tcp"]) \subseteq Range(list["tcp"])
      BY <2>1, <2>2, <2>4 DEF AllKinds
    <3> QED
      BY <1>4, <2>2, <3>1 DEF Live, LiveBut, Unclosed
  <2>9. Len(todo') = 0
    BY <1>1, <1>4, <2>1, CallMade
  <2>10. NoDeletion'
    BY <2>7, <2>8, <2>9 DEF NoDeletion, AllKinds
  <2> QED
    BY <2>5, <2>6, <2>10 DEF DInv, Plan
<1> QED
  BY <1>1, <1>7, <1>8

LEMMA DClearInv == ASSUME DInv, D!Clear PROVE DInv'
<1>1. D!Calling("clear")
  BY DEF D!Clear
<1>2. /\ list' = [list EXCEPT !["client"] = <<>>] /\ rows' = [rows EXCEPT !["client"] = <<>>]
      /\ UNCHANGED <<files, dmade, stat, dfile, buffered, dio, processing, port, dpc, dtaken>>
      /\ todo' = Tail(todo)
  BY DEF D!Clear, D!objVars, D!threadVars, D!Done
<1>3. DTypes /\ Separate
  BY DEF DInv
<1>4. DeletesClients /\ Len(todo) = 1
  BY <1>1, CallsPlan DEF DInv, Plan
<1>5. /\ list' \in [AllKinds -> Seq(1 .. dmade)] /\ list'["client"] = <<>> /\ Range(list'["client"]) = {}
      /\ \A m \in AllKinds : m # "client" => list'[m] = list[m]
  <2>1. list \in [AllKinds -> Seq(1 .. dmade)] /\ <<>> \in Seq(1 .. dmade) /\ "client" \in AllKinds
    BY <1>3 DEF DTypes, AllKinds
  <2>2. list'["client"] = <<>>
    BY <1>2, <2>1
  <2>3. Range(<<>>) = {}
    BY DEF Range
  <2> QED
    BY <1>2, <2>1, <2>2, <2>3
<1>6. rows' = [m \in AllKinds |-> Shown(list'[m])]
  <2>1. rows' = [m \in AllKinds |-> IF m = "client" THEN <<>> ELSE rows[m]]
    BY <1>2, <1>3 DEF DTypes
  <2>2. Shown(<<>>) = <<>>
    BY DEF Shown
  <2>3. \A m \in AllKinds : (IF m = "client" THEN <<>> ELSE rows[m]) = Shown(list'[m])
    BY <1>5, <2>2, ShownIs
  <2> QED
    BY <2>1, <2>3
<1>7. DTypes'
  <2>1. rows' = [m \in AllKinds |-> [i \in 1 .. Len(list'[m]) |-> D!Row(list'[m][i])]]
    BY <1>6 DEF Shown
  <2> QED
    BY <1>1, <1>2, <1>3, <1>5, <2>1, CallTypes DEF DTypes
<1>8. Separate'
  <2>1. IsInjective(<<>>)
    BY DEF IsInjective
  <2>2. \A m \in AllKinds : IsInjective(list'[m]) /\ Range(list'[m]) \subseteq Range(list[m])
    BY <1>3, <1>5, <2>1 DEF Separate
  <2>3. \A l, m \in AllKinds : l # m => Range(list'[l]) \cap Range(list'[m]) = {}
    BY <1>3, <2>2 DEF Separate
  <2>4. \A m \in {"tcp", "client"} : Range(files') \cap Range(list'[m]) = {}
    BY <1>2, <1>3, <2>2 DEF Separate, AllKinds
  <2> QED
    BY <1>2, <1>3, <2>2, <2>3, <2>4 DEF Separate
<1>9. Live("recv")' /\ Live("tcp")' /\ Live("client")' /\ Paired'
  BY <1>2, <1>4, <1>5 DEF DeletesClients, Live, Unclosed, Paired, AllKinds
<1>10. Len(todo') = 0
  BY <1>1, <1>2, <1>4, CallMade
<1>11. NoDeletion'
  BY <1>9, <1>10 DEF NoDeletion, AllKinds
<1> QED
  BY <1>7, <1>8, <1>11 DEF DInv, Plan

LEMMA DCloseFileInv == ASSUME DInv, D!CloseFile PROVE DInv'
<1>1. D!Calling("uninitfile")
  BY DEF D!CloseFile
<1>2. PICK a : a = D!Arg
  OBVIOUS
<1>3. /\ UNCHANGED <<list, files, rows, selected, dmade, stat, buffered, dio, processing, port, dpc, dtaken>>
      /\ dfile' = [dfile EXCEPT ![a] = "closed"] /\ todo' = Tail(todo)
  BY <1>2 DEF D!CloseFile, D!listVars, D!threadVars, D!Done
<1>4. DTypes /\ Separate
  BY DEF DInv
<1>5. /\ dfile' \in [D!Objects -> {"none", "open", "failed", "closed"}]
      /\ \A o \in D!Objects : o # a => dfile'[o] = dfile[o]
  BY <1>3, <1>4 DEF DTypes
<1>6. DTypes'
  BY <1>1, <1>3, <1>4, <1>5, ListTypes DEF DTypes
<1>7. ~NoDeletion /\ ~DeletesClients /\ \A i \in 1 .. Len(list["tcp"]) : ~DeletesListener(i)
  BY <1>1, CallsPlan
<1>8. CASE Ends
  <2>1. a \in 1 .. dmade /\ stat[a] \in {"stopped", "deleted"}
    <3>1. 1 \in 1 .. Len(todo) /\ todo[1][1] = "uninitfile" /\ a = todo[1][2]
      BY <1>1, <1>2, CallMade
    <3>2. ~Before(todo, 1, <<"uninit", a>>)
      BY DEF Before
    <3> QED
      BY <1>8, <3>1, <3>2 DEF Ends, FilesLast, EndCall
  <2>2. Separate'
    BY <1>3, <1>4, <1>5, <2>1 DEF Separate, DTypes
  <2>3. FilesLast(todo)'
    BY <1>1, <1>2, <1>3, <1>8, FewerAtEnd DEF Ends
  <2>4. port = "closed" \/ \E j \in 1 .. Len(Tail(todo)) : Tail(todo)[j][1] = "closeport"
    BY <1>1, <1>8, PortLater
  <2>5. Ends'
    BY <1>3, <2>3, <2>4 DEF Ends
  <2> QED
    BY <1>6, <2>2, <2>5 DEF DInv, Plan
<1>9. ASSUME NEW i \in 1 .. Len(files), DeletesReceiver(i) PROVE DInv'
  <2>1. a = files[i] /\ Len(todo) = 2
    BY <1>1, <1>2, <1>9, CallsPlan
  <2>2. /\ stat[a] = "deleted" /\ list["recv"] = RemoveAt(files, i)
        /\ Live("recv") /\ Live("tcp") /\ Live("client")
    BY <1>9, <2>1 DEF DeletesReceiver
  <2>3. files \in Seq(1 .. dmade) /\ a \in 1 .. dmade /\ a \in Range(files)
    BY <1>4, <2>1, SeqParts DEF DTypes
  <2>4. a \notin Range(list["recv"])
    BY <1>4, <2>1, <2>2, <2>3, PlaceRemoved DEF Separate
  <2>5. a \notin Range(list["tcp"]) /\ a \notin Range(list["client"])
    BY <1>4, <2>3 DEF Separate
  <2>6. Separate'
    BY <1>3, <1>4, <1>5, <2>2, <2>3 DEF Separate, DTypes
  <2>7. Live("recv")' /\ Live("tcp")' /\ Live("client")'
    BY <1>3, <1>5, <2>2, <2>4, <2>5, ObjectsOf DEF Live, Unclosed, AllKinds
  <2>8. Len(todo') = 1 /\ todo' # <<>> /\ EndOf(todo', ReceiverCalls(i))
    <3>1. todo \in Seq(DCalls) /\ Len(todo) > 1
      BY <1>1, <2>1, CallMade
    <3>2. EndOf(Tail(todo), ReceiverCalls(i)) /\ Len(Tail(todo)) = Len(todo) - 1
      BY <1>9, <3>1, ReceiverCall
    <3>3. Tail(todo) # <<>>
      BY <3>1, OneLeft
    <3> QED
      BY <1>3, <2>1, <3>2, <3>3
  <2>9. ReceiverCalls(i)' = ReceiverCalls(i)
    BY <1>3 DEF ReceiverCalls
  <2>10. stat'[files'[i]] = "deleted" /\ list'["recv"] = RemoveAt(files', i)
    BY <1>3, <2>1, <2>2
  <2>11. DeletesReceiver(i)'
    BY <2>7, <2>8, <2>9, <2>10 DEF DeletesReceiver
  <2> QED
    BY <1>3, <1>6, <2>6, <2>11 DEF DInv, Plan
<1> QED
  BY <1>7, <1>8, <1>9 DEF DInv, Plan

LEMMA DEraseFileInv == ASSUME DInv, D!EraseFile PROVE DInv'
<1>1. D!Calling("erasefile")
  BY DEF D!EraseFile
<1>2. PICK i \in 1 .. Len(files) : DeletesReceiver(i) /\ D!Arg = i /\ Len(todo) = 1
  <2>1. ~NoDeletion /\ ~DeletesClients /\ ~Ends /\ \A i \in 1 .. Len(list["tcp"]) : ~DeletesListener(i)
    BY <1>1, CallsPlan
  <2>2. PICK i \in 1 .. Len(files) : DeletesReceiver(i)
    BY <2>1 DEF DInv, Plan
  <2> QED
    BY <1>1, <2>2, CallsPlan
<1>3. /\ UNCHANGED <<list, rows, selected, dmade, stat, dfile, buffered, dio, processing, port, dpc, dtaken>>
      /\ files' = RemoveAt(files, i) /\ todo' = Tail(todo)
  BY <1>2 DEF D!EraseFile, D!WithoutFile, D!objVars, D!threadVars, D!Done, D!RemoveAt, RemoveAt
<1>4. DTypes /\ Separate
  BY DEF DInv
<1>5. files' = list["recv"] /\ Live("recv") /\ Live("tcp") /\ Live("client")
  BY <1>2, <1>3 DEF DeletesReceiver
<1>6. files' \in Seq(1 .. dmade)
  BY <1>4, <1>5 DEF DTypes, AllKinds
<1>7. DTypes'
  BY <1>1, <1>3, <1>4, <1>6, CallTypes DEF DTypes
<1>8. Separate'
  BY <1>3, <1>4, <1>5 DEF Separate, AllKinds
<1>9. Len(todo') = 0
  BY <1>1, <1>2, <1>3, CallMade
<1>10. NoDeletion'
  BY <1>3, <1>5, <1>9 DEF NoDeletion, Live, Unclosed, Paired, AllKinds
<1> QED
  BY <1>7, <1>8, <1>10 DEF DInv, Plan

LEMMA DClosePortInv == ASSUME DInv, D!ClosePort PROVE DInv'
<1>1. D!Calling("closeport")
  BY DEF D!ClosePort
<1>2. Ends
  BY <1>1, CallsPlan DEF DInv, Plan
<1>3. /\ UNCHANGED <<list, files, rows, selected, dmade, stat, dfile, buffered, dio, dpc, dtaken>>
      /\ port' = "closed" /\ processing' = FALSE /\ todo' = Tail(todo)
  BY DEF D!ClosePort, D!Port, D!listVars, D!objVars, D!Done
<1>4. DTypes'
  BY <1>1, <1>3, CallTypes DEF DInv, DTypes
<1>5. Separate'
  BY <1>3 DEF DInv, Separate
<1>6. FilesLast(todo)'
  BY <1>1, <1>2, <1>3, FewerAtEnd DEF Ends
<1>7. Ends'
  BY <1>3, <1>6 DEF Ends
<1> QED
  BY <1>4, <1>5, <1>7 DEF DInv, Plan

LEMMA DialogInvariant == ASSUME D!DialogAssumption PROVE D!Spec => []DInv
<1>1. D!Init => DInv
  <2> SUFFICES ASSUME D!Init PROVE DInv
    OBVIOUS
  <2>1. /\ list = [k \in AllKinds |-> <<>>] /\ rows = [k \in AllKinds |-> <<>>] /\ files = <<>>
        /\ dmade = 0 /\ todo = <<>> /\ port = "none" /\ processing = FALSE
        /\ stat = [o \in D!Objects |-> "none"] /\ dfile = [o \in D!Objects |-> "none"]
        /\ buffered = [o \in D!Objects |-> FALSE] /\ dio = [o \in D!Objects |-> FALSE]
        /\ dpc = [t \in PortThreads |-> "none"] /\ dtaken = [t \in PortThreads |-> 0]
        /\ MaxObjects \in Nat /\ Kinds \subseteq AllKinds
    BY DEF D!Init, D!DialogAssumption, D!NoObject, AllKinds
  <2>2. rows = [k \in AllKinds |-> [i \in 1 .. Len(list[k]) |-> D!Row(list[k][i])]]
    <3>1. Shown(<<>>) = <<>>
      BY DEF Shown
    <3>2. \A k \in AllKinds : Shown(list[k]) = <<>>
      BY <2>1, <3>1
    <3>3. rows = [k \in AllKinds |-> Shown(list[k])]
      BY <2>1, <3>2
    <3> QED
      BY <3>3 DEF Shown
  <2>3. list \in [AllKinds -> Seq(1 .. dmade)] /\ files \in Seq(1 .. dmade) /\ todo \in Seq(CallNames \X (0 .. MaxObjects))
    BY <2>1
  <2>4. DTypes
    <3>1. dmade \in 0 .. MaxObjects /\ processing \in BOOLEAN /\ port \in {"none", "open", "null", "closed"}
      <4>1. dmade \in 0 .. MaxObjects
        BY <2>1
      <4>2. processing \in BOOLEAN
        BY <2>1, Zenon
      <4>3. port \in {"none", "open", "null", "closed"}
        BY <2>1, Zenon
      <4> QED
        BY <4>1, <4>2, <4>3
    <3>2. /\ stat \in [D!Objects -> {"none", "stopped", "running", "deleted"}]
          /\ dfile \in [D!Objects -> {"none", "open", "failed", "closed"}]
          /\ buffered \in [D!Objects -> BOOLEAN] /\ dio \in [D!Objects -> BOOLEAN]
      BY <2>1
    <3>3. /\ dpc \in [PortThreads -> {"none", "loop", "wait", "report", "end"}]
          /\ dtaken \in [PortThreads -> 0 .. MaxObjects]
      <4>1. dpc = [t \in PortThreads |-> "none"] /\ dtaken = [t \in PortThreads |-> 0]
        BY <2>1
      <4>2. 0 \in 0 .. MaxObjects
        BY <2>1
      <4>3. dpc \in [PortThreads -> {"none", "loop", "wait", "report", "end"}]
        BY <4>1
      <4>4. dtaken \in [PortThreads -> 0 .. MaxObjects]
        BY <4>1, <4>2
      <4> QED
        BY <4>3, <4>4
    <3>4. port = "none" => todo = <<>>
      BY <2>1
    <3>5. MaxObjects \in Nat /\ Kinds \subseteq AllKinds
      BY <2>1
    <3> QED
      BY <2>2, <2>3, <3>1, <3>2, <3>3, <3>4, <3>5 DEF DTypes
  <2>5. Range(<<>>) = {} /\ IsInjective(<<>>)
    BY DEF Range, IsInjective
  <2>6. Separate
    BY <2>1, <2>5 DEF Separate, AllKinds
  <2>7. NoDeletion
    BY <2>1, <2>5 DEF NoDeletion, Live, Unclosed, Paired, AllKinds
  <2> QED
    BY <2>4, <2>6, <2>7 DEF DInv, Plan
<1>2. DInv /\ [D!Next]_(D!vars) => DInv'
  <2> SUFFICES ASSUME DInv, [D!Next]_(D!vars) PROVE DInv'
    OBVIOUS
  <2>1. CASE D!InitPort \/ \E t \in PortThreads : D!Thread(t)
    BY <2>1, InitPortInv, PortThreadInv
  <2>2. CASE D!Buttons
    BY <2>2, AddInv, OnTimerInv, DelReceiverInv, DelListenerInv, DeleteAllClientsInv, DCloseInv,
       SelectInv, ButtonInv DEF D!Buttons
  <2>3. CASE D!Calls
    BY <2>3, DStartInv, DStopInv, DDeleteInv, DEraseInv, DClearInv, DCloseFileInv, DEraseFileInv,
       DClosePortInv DEF D!Calls
  <2>4. CASE UNCHANGED D!vars
    <3>1. UNCHANGED <<list, files, rows, dmade, stat, dfile, buffered, dio, todo, processing, port, dpc, dtaken>>
      BY <2>4 DEF D!vars, D!listVars, D!objVars, D!threadVars
    <3>2. DTypes'
      BY <3>1 DEF DInv, DTypes
    <3> QED
      BY <3>1, <3>2, DFrame
  <2> QED
    BY <2>1, <2>2, <2>3, <2>4 DEF D!Next
<1> QED
  BY <1>1, <1>2, PTL DEF D!Spec

\* The rows show the objects listed at their places; none of these was deleted.
LEMMA DialogLists == D!Spec => []D!ListsInStep
<1>1. DInv => D!ListsInStep
  <2> SUFFICES ASSUME DInv PROVE D!ListsInStep
    OBVIOUS
  <2>1. D!RowsHonest
    <3>1. DOMAIN rows = AllKinds
      BY RowsAre DEF AllKinds
    <3>2. ASSUME NEW k \in AllKinds, NEW i \in 1 .. Len(rows[k])
          PROVE  rows[k][i].shows = rows[k][i].of /\ rows[k][i].fileShows = rows[k][i].of
      <4>1. rows[k][i] = D!Row(list[k][i])
        BY RowsAre
      <4>2. PICK o, r : o = list[k][i] /\ r = rows[k][i] /\ r = [of |-> o, shows |-> o, fileShows |-> o]
        BY <4>1 DEF D!Row
      <4> QED
        BY <4>2
    <3> QED
      BY <3>1, <3>2 DEF D!RowsHonest
  <2>2. D!ListsLive
    <3> SUFFICES ASSUME D!Idle
                 PROVE  /\ \A k \in DOMAIN list : \A o \in Range(list[k]) : stat[o] # "deleted"
                        /\ \A o \in Range(list["recv"]) : dfile[o] # "closed"
      BY DEF D!ListsLive, D!Range, Range
    <3>1. NoDeletion /\ DOMAIN list = AllKinds
      BY AtIdle DEF DInv, DTypes
    <3> QED
      BY <3>1 DEF NoDeletion, Live, Unclosed, AllKinds
  <2>3. D!ClosedAfterStop
    BY DEF DInv, Separate, D!ClosedAfterStop
  <2> QED
    BY <2>1, <2>2, <2>3 DEF D!ListsInStep
<1> QED
  BY <1>1, DialogInvariant, DialogAssumption, PTL

\* The dialog's variables keep their types; a row for each object listed.
LEMMA DialogTypes == ASSUME DInv PROVE D!TypeOK
<1>1. DTypes /\ files \in Seq(1 .. dmade) /\ \A k \in AllKinds : list[k] \in Seq(1 .. dmade)
  BY DEF DInv, DTypes
<1>2. D!Range(files) \subseteq 1 .. dmade
  BY <1>1, SeqParts DEF D!Range, Range
<1>3. \A k \in AllKinds : D!Range(list[k]) \subseteq 1 .. dmade
  BY <1>1, SeqParts DEF D!Range, Range
<1>4. \A k \in DOMAIN list : D!Range(list[k]) \subseteq 1 .. dmade /\ Len(rows[k]) = Len(list[k])
  BY <1>1, <1>3, ShownIs DEF DTypes
<1> QED
  BY <1>1, <1>2, <1>4 DEF DTypes, D!TypeOK

----------------------------------------------------------------------------
(* All of them, as they are checked                                        *)

\* A behaviour of the checked system is one of the receiver, one of the writer, one of a
\* connection and one of the dialog.
LEMMA EachSpec == MCSpec => Spec /\ W!Spec /\ C!Spec /\ D!Spec
<1>1. MCInit => Init /\ W!Init /\ C!Init /\ D!Init
  BY DEF MCInit
<1>2. [MCNext]_mcvars => [Next]_vars
  BY DEF MCNext, mcvars
<1>3. [MCNext]_mcvars => [W!Next]_(W!vars)
  BY DEF MCNext, mcvars, wvars, W!vars, W!poolVars
<1>4. [MCNext]_mcvars => [C!Next]_(C!vars)
  BY DEF MCNext, mcvars, cvars, C!vars, C!objVars, C!poolVars, C!envVars
<1>5. [MCNext]_mcvars => [D!Next]_(D!vars)
  BY DEF MCNext, mcvars, dvars, D!vars, D!listVars, D!objVars, D!threadVars
<1> QED
  BY <1>1, <1>2, <1>3, <1>4, <1>5, PTL DEF MCSpec, Spec, W!Spec, C!Spec, D!Spec

\* The types of all of them; no buffer is filled beyond its end, no counter of a connection
\* falls below zero, and the dialog has a row for each object listed (UdpReceiver.cpp:181-207,
\* FileWriter.cpp:135-195, TcpConnecter.cpp:53-118, TestUdpReceiverDlg.cpp:472-491).
THEOREM ReceiverTypes == MCSpec => []TypesOK
<1>1. Spec /\ W!Spec /\ C!Spec /\ D!Spec => []RInv /\ []WInv /\ []CInv /\ []DInv
  BY ReceiverInvariant, WriterInvariant, WriterAssumption, ConnecterInvariant,
     ConnecterAssumption, DialogInvariant, DialogAssumption
<1>2. RInv /\ WInv /\ CInv /\ DInv => TypesOK
  BY DialogTypes DEF RInv, WInv, CInv, TypesOK
<1> QED
  BY <1>1, <1>2, EachSpec, PTL

\* Every buffer of the receiver and of the observer is in one place, and none is lost; the
\* count of a receiver's buffer is what the observers hold of it (UdpReceiver.cpp:181-207,
\* 386-404, FileWriter.cpp:57, 163-184, 226-239).
THEOREM BufsAreWhole == MCSpec => []BufsWhole
<1>1. Spec /\ W!Spec => []RInv /\ []WInv
  BY ReceiverInvariant, WriterInvariant, WriterAssumption
<1>2. RInv /\ WInv => BufsWhole
  BY WholeBufs, OwnedBufs DEF BufsWhole
<1> QED
  BY <1>1, <1>2, EachSpec, PTL

\* A receiver that shows the running status has a read with the system or a thread that
\* will post one, unless it was told of the failure of a read before that of its success
\* (UdpReceiver.cpp:64, 191-207).
THEOREM ReceiverStaysReading == MCSpec => []Reading
BY ReceiverReads, EachSpec, PTL

\* What the observer took is in the file or in its buffer, whole, once and in order, until a
\* write fails or a flush meets an import (FileWriter.cpp:135-258).
THEOREM NothingIsLost == MCSpec => []NothingLost
<1>1. W!Spec => []W!NothingLost
  BY DataIsKept, WriterAssumption
<1> QED
  BY <1>1, EachSpec, PTL DEF NothingLost

\* For every number of threads, messages and writes: the five counters of a connection
\* account for every operation, "session is over" is logged when nothing is outstanding but
\* what has still to be counted, and no buffer or request is lost, whatever fails
\* (TcpConnecter.cpp:53, 75, 93-118, 163, 219, 352, 477-483, 547, 614).
THEOREM ConnecterAccounted == MCSpec => []Accounted
BY ConnecterCounts, EachSpec, PTL DEF Accounted

\* A connection that shows the running status waits for its connect or for data, unless it
\* was ended before Start had noted its success (TcpConnecter.cpp:218, 301-303).
THEOREM ConnecterAlive == MCSpec => []Alive
BY ConnecterWaits, EachSpec, PTL DEF Alive

\* What the dialog shows and deletes is what the user pointed at, after any sequence of
\* additions and deletions and at every step of every handler: rows, receivers and writers
\* stay in step, no deleted object is listed, and no file is closed before its receiver
\* was stopped (TestUdpReceiverDlg.cpp:64-75, 328-394, 472-491, 737-751).
THEOREM ListsStayInStep == MCSpec => []ListsInStep
BY DialogLists, EachSpec, PTL DEF ListsInStep

=============================================================================
