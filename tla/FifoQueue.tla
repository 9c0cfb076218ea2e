----------------------------- MODULE FifoQueue -----------------------------
(***************************************************************************)
(* What the lock-free list of TestUdpReceiver promises to its callers: a   *)
(* first-in first-out queue.  A call of PushTail or PopHead takes effect   *)
(* at one moment between its beginning and its return; PopHead returns     *)
(* NULL only if the queue is empty at that moment.                         *)
(***************************************************************************)
EXTENDS Integers, Sequences

CONSTANTS
  Pushers,    (* the calls of PushTail that may be in progress             *)
  Poppers,    (* the calls of PopHead that may be in progress              *)
  Elements,   (* what is pushed                                            *)
  NoElement   (* NULL                                                      *)

Calls == Pushers \cup Poppers

VARIABLES
  queue,  (* the elements in the queue                                     *)
  op      (* how far each call is; ele is its argument, then its result    *)

vars == <<queue, op>>

Idle == [phase |-> "idle", ele |-> NoElement]

CallPush(t, e) ==
  /\ op[t] = Idle
  /\ op' = [op EXCEPT ![t] = [phase |-> "called", ele |-> e]]
  /\ UNCHANGED queue

CallPop(t) ==
  /\ op[t] = Idle
  /\ op' = [op EXCEPT ![t] = [phase |-> "called", ele |-> NoElement]]
  /\ UNCHANGED queue

Push(t) ==
  /\ op[t].phase = "called"
  /\ queue' = Append(queue, op[t].ele)
  /\ op' = [op EXCEPT ![t] = [phase |-> "done", ele |-> op[t].ele]]

Pop(t) ==
  /\ op[t].phase = "called"
  /\ queue # <<>>
  /\ queue' = Tail(queue)
  /\ op' = [op EXCEPT ![t] = [phase |-> "done", ele |-> Head(queue)]]

PopNothing(t) ==
  /\ op[t].phase = "called"
  /\ queue = <<>>
  /\ op' = [op EXCEPT ![t] = [phase |-> "done", ele |-> NoElement]]
  /\ UNCHANGED queue

Return(t) ==
  /\ op[t].phase = "done"
  /\ op' = [op EXCEPT ![t] = Idle]
  /\ UNCHANGED queue

Init == queue = <<>> /\ op = [t \in Calls |-> Idle]

Next ==
  \/ \E t \in Pushers : (\E e \in Elements : CallPush(t, e)) \/ Push(t)
  \/ \E t \in Poppers : CallPop(t) \/ Pop(t) \/ PopNothing(t)
  \/ \E t \in Calls : Return(t)

Spec == Init /\ [][Next]_vars
============================================================================
