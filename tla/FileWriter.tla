----------------------------- MODULE FileWriter -----------------------------
(***************************************************************************)
(* The observer that writes a receiver's datagrams to a file, CFileWriter  *)
(* (FileWriter.cpp) of the TestUdpReceiver program.  ImportData collects   *)
(* datagrams in a buffer and writes the buffer when the next one does not  *)
(* fit.  The receiver's threads call it one at a time, under the receiver's *)
(* lock; the dialog's thread calls it too, without the lock, to flush when *)
(* the receiver is stopped.  The lock that the class once had of its own   *)
(* is commented out.                                                       *)
(*                                                                         *)
(* A datagram is a number repeated as often as it has units; a buffer      *)
(* holds BufSize units (640 KB in the code).                               *)
(***************************************************************************)
EXTENDS Integers, Sequences, FiniteSets, SequencesExt, Functions

CONSTANTS
  BufSize,       (* WFILEBUFSIZE                                           *)
  Lengths,       (* the lengths of datagrams                               *)
  MaxBufs,       (* BOUND on the buffers allocated                         *)
  MaxDatagrams,  (* BOUND on the datagrams                                 *)
  MaxStops,      (* BOUND on the clicks on Stop                            *)
  WriteFails     (* whether WriteFile may fail at once                     *)

WriterAssumption ==
  /\ BufSize \in Nat \ {0} /\ Lengths \subseteq 1 .. BufSize
  /\ MaxBufs \in Nat \ {0} /\ MaxDatagrams \in Nat /\ MaxStops \in Nat
  /\ WriteFails \in BOOLEAN

Bufs == 1 .. MaxBufs
Null == 0

VARIABLES
  opened,         \* whether m_hFileDest is open
  cur, fill,      \* m_pCurBuf, m_nCurSize
  data,           \* what each buffer holds
  free, made,     \* m_BufList, buffers allocated
  io,             \* the outstanding writes: buffer, length
  reqs,           \* m_IOReqList: made, free
  file,           \* what was given to the system to write, in order
  pc, ui,         \* step of ImportData in the receiver's thread; of the dialog's
  len,            \* length of the datagram that is imported
  taken, stops,
  raced, failed   \* auxiliary: a flush ran beside an import; a write failed

poolVars == <<free, made, io, reqs, file>>
vars == <<opened, cur, fill, data, poolVars, pc, ui, len, taken, stops, raced, failed>>

----------------------------------------------------------------------------
(* Helpers                                                                 *)

\* m_pCurBuf = m_BufList.PopHead(), or new; m_nCurSize = 0.
NewBuf ==
  \E b \in Bufs :
    /\ \/ free # <<>> /\ b = Head(free) /\ free' = Tail(free) /\ UNCHANGED made
       \/ free = <<>> /\ b = made + 1 /\ made' = b /\ UNCHANGED free
    /\ cur' = b /\ fill' = 0

\* What a write of the first n units of buffer b gives to the file. (Faulty: one less.)
WrittenFaulty(b, n) == IF b = Null THEN <<>> ELSE SubSeq(data[b], 1, n - 1)
Written(b, n) == IF b = Null THEN <<>> ELSE SubSeq(data[b], 1, n)

\* WriteFile at offset 0xffffffff, that is at the end: it pends, or it fails, and
\* then the request goes back but the buffer does not.
WriteFile(b, n) ==
  \/ /\ opened
     /\ reqs' = IF reqs.free > 0 THEN [reqs EXCEPT !.free = @ - 1] ELSE [reqs EXCEPT !.made = @ + 1]
     /\ io' = Append(io, [buf |-> b, len |-> n])
     /\ file' = file \o Written(b, n)
     /\ UNCHANGED failed
  \/ /\ WriteFails \/ ~opened
     /\ reqs' = IF reqs.free > 0 THEN reqs ELSE [made |-> reqs.made + 1, free |-> 1]
     /\ failed' = TRUE
     /\ UNCHANGED <<io, file>>

----------------------------------------------------------------------------
(* ImportData of a datagram, in a thread of the port                       *)

\* With a closed file nothing is done.
Import(d) ==
  /\ pc = "idle" /\ opened /\ taken < MaxDatagrams
  /\ taken' = taken + 1 /\ len' = d
  /\ pc' = "buf"
  /\ raced' = (raced \/ ui # "idle")
  /\ UNCHANGED <<opened, cur, fill, data, poolVars, ui, stops, failed>>

\* The first buffer.
FirstBuf ==
  /\ pc = "buf"
  /\ IF cur = Null THEN NewBuf ELSE UNCHANGED <<cur, fill, free, made>>
  /\ pc' = "fits"
  /\ UNCHANGED <<opened, data, io, reqs, file, ui, len, taken, stops, raced, failed>>

\* Whether the datagram fits.
Fits(n) == n <= BufSize

\* When the datagram does not fit, what there is is written.
WriteFull ==
  /\ pc = "fits"
  /\ IF Fits(fill + len)
     THEN pc' = "copy" /\ UNCHANGED <<reqs, io, file, failed>>
     ELSE pc' = "fresh" /\ WriteFile(cur, fill)
  /\ UNCHANGED <<opened, cur, fill, data, free, made, ui, len, taken, stops, raced>>

\* "get a new buf for cache".
FreshBuf ==
  /\ pc = "fresh"
  /\ NewBuf
  /\ pc' = "copy"
  /\ UNCHANGED <<opened, data, io, reqs, file, ui, len, taken, stops, raced, failed>>

\* memcpy. Without a buffer the program ends here.
Copy ==
  /\ pc = "copy"
  /\ IF cur = Null
     THEN pc' = "crash" /\ UNCHANGED data
     ELSE /\ data' = [data EXCEPT ![cur] = SubSeq(@, 1, fill) \o [i \in 1 .. len |-> taken]]
          /\ pc' = "grow"
  /\ UNCHANGED <<opened, cur, fill, poolVars, ui, len, taken, stops, raced, failed>>

\* The buffer goes back to the receiver.
Grow ==
  /\ pc = "grow"
  /\ fill' = fill + len
  /\ pc' = "idle"
  /\ UNCHANGED <<opened, cur, data, poolVars, ui, len, taken, stops, raced, failed>>

----------------------------------------------------------------------------
(* The dialog's thread                                                     *)

\* Stop: "datasize==0 indicate the process is over ,flush the reserved data to file".
\* A datagram without data is taken for this sign too, in the receiver's thread;
\* then it does what this does when no import is in progress. That two flushes
\* overlap is left out: the buffer is then written twice, as after a race (raced).
Flush ==
  /\ ui = "idle" /\ opened /\ stops < MaxStops
  /\ stops' = stops + 1
  /\ ui' = IF fill > 0 THEN "write" ELSE "null"
  /\ raced' = (raced \/ pc # "idle")
  /\ UNCHANGED <<opened, cur, fill, data, poolVars, pc, len, taken, failed>>

FlushWrite ==
  /\ ui = "write"
  /\ WriteFile(cur, fill)
  /\ ui' = "null"
  /\ UNCHANGED <<opened, cur, fill, data, free, made, pc, len, taken, stops, raced>>

FlushNull ==
  /\ ui = "null"
  /\ cur' = Null
  /\ ui' = "zero"
  /\ UNCHANGED <<opened, fill, data, poolVars, pc, len, taken, stops, raced, failed>>

FlushZero ==
  /\ ui = "zero"
  /\ fill' = 0
  /\ ui' = "idle"
  /\ UNCHANGED <<opened, cur, data, poolVars, pc, len, taken, stops, raced, failed>>

\* UninitObject, which Delete calls after the receiver's Stop.
Close ==
  /\ ui = "idle" /\ opened /\ stops > 0
  /\ opened' = FALSE
  /\ raced' = (raced \/ pc # "idle")
  /\ UNCHANGED <<cur, fill, data, poolVars, pc, ui, len, taken, stops, failed>>

----------------------------------------------------------------------------

\* ConsumeReq: a write is complete, in any order, well or not.
WriteDone(i) ==
  /\ free' = IF io[i].buf = Null THEN free ELSE Append(free, io[i].buf)
  /\ reqs' = [reqs EXCEPT !.free = @ + 1]
  /\ io' = RemoveAt(io, i)
  /\ UNCHANGED <<opened, cur, fill, data, made, file, pc, ui, len, taken, stops, raced, failed>>

\* InitObject.
Init ==
  /\ opened = TRUE /\ cur = Null /\ fill = 0 /\ data = [b \in Bufs |-> <<>>]
  /\ made \in {n \in {2} : n <= MaxBufs} /\ free = [b \in 1 .. made |-> b]
  /\ reqs = [made |-> 1, free |-> 1] /\ io = <<>> /\ file = <<>>
  /\ pc = "idle" /\ ui = "idle" /\ len = 0 /\ taken = 0 /\ stops = 0
  /\ raced = FALSE /\ failed = FALSE

ImportData == (\E d \in Lengths : Import(d)) \/ FirstBuf \/ WriteFull \/ FreshBuf \/ Copy \/ Grow
Dialog     == Flush \/ FlushWrite \/ FlushNull \/ FlushZero \/ Close

Next == ImportData \/ Dialog \/ \E i \in DOMAIN io : WriteDone(i)

Spec == Init /\ [][Next]_vars

----------------------------------------------------------------------------
(* Properties                                                              *)

TypeOK ==
  /\ opened \in BOOLEAN /\ made \in 2 .. MaxBufs
  /\ cur \in 0 .. made /\ fill \in 0 .. BufSize
  /\ data \in [Bufs -> Seq(1 .. MaxDatagrams)] /\ free \in Seq(1 .. made)
  /\ io \in Seq([buf : 0 .. made, len : 0 .. BufSize])
  /\ reqs \in [made : Nat, free : Nat] /\ file \in Seq(1 .. MaxDatagrams)
  /\ pc \in {"idle", "buf", "fits", "fresh", "copy", "grow", "crash"}
  /\ ui \in {"idle", "write", "null", "zero"}
  /\ len \in 0 .. BufSize /\ taken \in 0 .. MaxDatagrams /\ stops \in 0 .. MaxStops
  /\ raced \in BOOLEAN /\ failed \in BOOLEAN

\* What is in the buffer that is being filled and not yet in the file.
Cached ==
  IF cur = Null \/ pc = "fresh" \/ ui \in {"null", "zero"} THEN <<>>
  ELSE SubSeq(data[cur], 1, IF pc = "grow" THEN fill + len ELSE fill)

Imported(s) == {s[i] : i \in DOMAIN s}

\* What ImportData took is in the file or in the buffer, in the order in which it came,
\* each datagram whole and once; in particular nothing is cached after a flush. It
\* holds as long as no write fails and no flush meets an import (FileWriter.cpp:135-258).
NothingLost ==
  ~raced /\ ~failed =>
    LET all  == file \o Cached
        done == IF pc \in {"buf", "fits", "fresh", "copy"} THEN taken - 1 ELSE taken
    IN /\ Imported(all) = 1 .. done
       /\ \A i, j \in DOMAIN all : i < j => all[i] <= all[j]
       /\ pc = "grow" => Cardinality({i \in DOMAIN all : all[i] = taken}) = len

\* While the system writes a buffer nobody fills it, and each buffer is in the
\* list, under a write or the one that is filled, once; it is none of them
\* only after a write that failed at once (FileWriter.cpp:57, 163-177, 184, 226-239).
BufsOwned ==
  ~raced =>
    LET own == free \o [i \in DOMAIN io |-> io[i].buf]
               \o (IF cur # Null /\ pc # "fresh" /\ ui # "null" THEN <<cur>> ELSE <<>>)
    IN /\ IsInjective(own)
       /\ ~failed => Range(own) = 1 .. made

============================================================================
