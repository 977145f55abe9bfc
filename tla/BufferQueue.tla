------------------------------ MODULE BufferQueue ------------------------------
(***************************************************************************)
(* anbox::graphics::BufferQueue (graphics/buffer_queue.{h,cpp}): the ring  *)
(* buffer between the socket and the render thread.  Every *_locked method *)
(* runs with the owner's mutex held and gives it up only inside            *)
(* condition_variable::wait, so a call is one step when it does not block  *)
(* and, when it does, one step up to the wait and one more each time the   *)
(* thread wakes up and evaluates its loop condition again.                 *)
(*                                                                         *)
(* A thread is "idle" outside every call, "asleep" in the wait set of its  *)
(* condition variable (producers: can_push_, consumers: can_pop_) or       *)
(* "woken", out of the wait set but not yet holding the mutex.             *)
(***************************************************************************)
EXTENDS Integers, Sequences, FiniteSets

CONSTANTS Producers,  \* threads that push
          Consumers,  \* threads that pop
          Data,       \* contents of a Buffer
          Capacity,   \* capacity_
          NoData      \* an empty Buffer: what the slots are constructed with

ASSUME QueueAssumption ==
  /\ Capacity \in Nat \ {0}
  /\ Producers \cap Consumers = {}
  /\ NoData \notin Data

VARIABLES pos,      \* pos_
          count,    \* count_
          closed,   \* closed_
          buffers,  \* buffers_
          thread,   \* where each thread is: "idle", "asleep" or "woken"
          arg,      \* the buffer a blocked producer is pushing, else NoData
          call,     \* the blocking call a consumer is in, else "none"
          ret,      \* return code of each thread's last call
          got       \* the buffer each consumer popped last

ringVars == <<pos, count, closed, buffers>>
queueVars == <<pos, count, closed, buffers, thread, arg, call, ret, got>>

Threads == Producers \cup Consumers
Slots == 0 .. Capacity - 1
Codes == {"none", "ok", "EIO", "EAGAIN"}

\* Wrap-around of an index that is at most one lap ahead.
Wrap(k) == IF k >= Capacity THEN k - Capacity ELSE k

QueueTypeOK == /\ pos \in Slots
               /\ count \in 0 .. Capacity
               /\ closed \in BOOLEAN
               /\ buffers \in [Slots -> Data \cup {NoData}]
               /\ thread \in [Threads -> {"idle", "asleep", "woken"}]
               /\ arg \in [Producers -> Data \cup {NoData}]
               /\ \A p \in Producers : thread[p] = "idle" <=> arg[p] = NoData
               /\ call \in [Consumers -> {"none", "pop_locked", "wait_until_not_empty_locked"}]
               /\ \A c \in Consumers : thread[c] = "idle" <=> call[c] = "none"
               /\ ret \in [Threads -> Codes]
               /\ got \in [Consumers -> Data \cup {NoData}]

QueueInit == /\ pos = 0
             /\ count = 0
             /\ closed = FALSE
             /\ buffers = [i \in Slots |-> NoData]
             /\ thread = [t \in Threads |-> "idle"]
             /\ arg = [p \in Producers |-> NoData]
             /\ call = [c \in Consumers |-> "none"]
             /\ ret = [t \in Threads |-> "none"]
             /\ got = [c \in Consumers |-> NoData]
--------------------------------------------------------------------------------
(* Condition variables. *)

CanPush == {p \in Producers : thread[p] = "asleep"}  \* can_push_'s wait set
CanPop  == {c \in Consumers : thread[c] = "asleep"}  \* can_pop_'s wait set

\* The sets of threads that notify_one may wake.
NotifyOne(waiters) == IF waiters = {} THEN {{}} ELSE {{t} : t \in waiters}

\* Thread t leaves its call with the given code, having woken the threads in W.
Return(t, code, W) ==
  /\ ret' = [ret EXCEPT ![t] = code]
  /\ thread' = [u \in Threads |-> IF u = t THEN "idle"
                                  ELSE IF u \in W THEN "woken" ELSE thread[u]]

Sleep(t) == /\ thread' = [thread EXCEPT ![t] = "asleep"]
            /\ UNCHANGED <<pos, count, closed, buffers, ret, got>>
--------------------------------------------------------------------------------
(* The methods, from the point where the caller holds the mutex. *)

\* Fault: the slot index is not wrapped around.
try_push_locked_no_wrap(p, d) ==
  /\ ~closed
  /\ count < Capacity
  /\ buffers' = [buffers EXCEPT ![pos + count] = d]
  /\ count' = count + 1
  /\ \E W \in (IF count = 0 THEN NotifyOne(CanPop) ELSE {{}}) : Return(p, "ok", W)
  /\ UNCHANGED <<pos, closed, got>>

\* notify_one on the empty to non-empty edge only.
try_push_locked(p, d) ==
  \/ /\ closed
     /\ Return(p, "EIO", {})
     /\ UNCHANGED <<pos, count, closed, buffers, got>>
  \/ /\ ~closed
     /\ count >= Capacity
     /\ Return(p, "EAGAIN", {})
     /\ UNCHANGED <<pos, count, closed, buffers, got>>
  \/ /\ ~closed
     /\ count < Capacity
     /\ buffers' = [buffers EXCEPT ![Wrap(pos + count)] = d]
     /\ count' = count + 1
     /\ \E W \in (IF count = 0 THEN NotifyOne(CanPop) ELSE {{}}) : Return(p, "ok", W)
     /\ UNCHANGED <<pos, closed, got>>

push_locked(p, d) ==
  \/ /\ count = Capacity
     /\ closed
     /\ Return(p, "EIO", {})
     /\ UNCHANGED <<pos, count, closed, buffers, got>>
  \/ count = Capacity /\ ~closed /\ Sleep(p)
  \/ count # Capacity /\ try_push_locked(p, d)

\* Fault: the producer is notified on the edge to empty, not on the edge from full.
try_pop_locked_wrong_edge(c) ==
  /\ count # 0
  /\ got' = [got EXCEPT ![c] = buffers[pos]]
  /\ buffers' \in {buffers, [buffers EXCEPT ![pos] = NoData]}
  /\ pos' = Wrap(pos + 1)
  /\ count' = count - 1
  /\ \E W \in (IF count = 1 THEN NotifyOne(CanPush) ELSE {{}}) : Return(c, "ok", W)
  /\ UNCHANGED closed

\* Moving a heap buffer out empties its slot, moving a small one copies it.
try_pop_locked(c) ==
  \/ /\ count = 0
     /\ Return(c, IF closed THEN "EIO" ELSE "EAGAIN", {})
     /\ UNCHANGED <<pos, count, closed, buffers, got>>
  \/ /\ count # 0
     /\ got' = [got EXCEPT ![c] = buffers[pos]]
     /\ buffers' \in {buffers, [buffers EXCEPT ![pos] = NoData]}
     /\ pos' = Wrap(pos + 1)
     /\ count' = count - 1
     /\ \E W \in (IF count = Capacity THEN NotifyOne(CanPush) ELSE {{}}) : Return(c, "ok", W)
     /\ UNCHANGED closed

wait_until_not_empty_locked(c) ==
  \/ /\ count = 0
     /\ closed
     /\ Return(c, "EIO", {})
     /\ UNCHANGED <<pos, count, closed, buffers, got>>
  \/ count = 0 /\ ~closed /\ Sleep(c)
  \/ /\ count # 0
     /\ Return(c, "ok", {})
     /\ UNCHANGED <<pos, count, closed, buffers, got>>

pop_locked(c) ==
  \/ /\ count = 0
     /\ closed
     /\ Return(c, "EIO", {})
     /\ UNCHANGED <<pos, count, closed, buffers, got>>
  \/ count = 0 /\ ~closed /\ Sleep(c)
  \/ count # 0 /\ try_pop_locked(c)

\* Fault: close wakes the producers only.
close_locked_wakes_producers ==
  /\ closed' = TRUE
  /\ LET W == IF count = Capacity THEN CanPush ELSE {}
     IN  thread' = [t \in Threads |-> IF t \in W THEN "woken" ELSE thread[t]]
  /\ UNCHANGED <<pos, count, buffers, arg, call, ret, got>>

close_locked ==
  /\ closed' = TRUE
  /\ LET W == (IF count = Capacity THEN CanPush ELSE {}) \cup (IF count = 0 THEN CanPop ELSE {})
     IN  thread' = [t \in Threads |-> IF t \in W THEN "woken" ELSE thread[t]]
  /\ UNCHANGED <<pos, count, buffers, arg, call, ret, got>>
--------------------------------------------------------------------------------
(* Calls made by the threads. *)

TryPush(p, d) == /\ thread[p] = "idle"
                 /\ try_push_locked(p, d)
                 /\ UNCHANGED <<arg, call>>

Push(p, d) == /\ thread[p] = "idle"
              /\ push_locked(p, d)
              /\ arg' = [arg EXCEPT ![p] = IF thread'[p] = "idle" THEN NoData ELSE d]
              /\ UNCHANGED call

ResumePush(p) == /\ thread[p] = "woken"
                 /\ push_locked(p, arg[p])
                 /\ arg' = [arg EXCEPT ![p] = IF thread'[p] = "idle" THEN NoData ELSE @]
                 /\ UNCHANGED call

TryPop(c) == /\ thread[c] = "idle"
             /\ try_pop_locked(c)
             /\ UNCHANGED <<arg, call>>

Pop(c) == /\ thread[c] = "idle"
          /\ pop_locked(c)
          /\ call' = [call EXCEPT ![c] = IF thread'[c] = "idle" THEN "none" ELSE "pop_locked"]
          /\ UNCHANGED arg

WaitNotEmpty(c) == /\ thread[c] = "idle"
                   /\ wait_until_not_empty_locked(c)
                   /\ call' = [call EXCEPT ![c] = IF thread'[c] = "idle" THEN "none"
                                                  ELSE "wait_until_not_empty_locked"]
                   /\ UNCHANGED arg

ResumePop(c) == /\ thread[c] = "woken"
                /\ \/ call[c] = "pop_locked" /\ pop_locked(c)
                   \/ call[c] = "wait_until_not_empty_locked" /\ wait_until_not_empty_locked(c)
                /\ call' = [call EXCEPT ![c] = IF thread'[c] = "idle" THEN "none" ELSE @]
                /\ UNCHANGED arg

\* condition_variable::wait may return without a notification.
SpuriousWakeup(t) == /\ thread[t] = "asleep"
                     /\ thread' = [thread EXCEPT ![t] = "woken"]
                     /\ UNCHANGED <<pos, count, closed, buffers, arg, call, ret, got>>

QueueNext == \/ \E p \in Producers : ResumePush(p) \/ \E d \in Data : TryPush(p, d) \/ Push(p, d)
             \/ \E c \in Consumers : TryPop(c) \/ Pop(c) \/ WaitNotEmpty(c) \/ ResumePop(c)
             \/ close_locked
             \/ \E t \in Threads : SpuriousWakeup(t)

QueueSpec == QueueInit /\ [][QueueNext]_queueVars

\* A thread taken out of a wait set gets the mutex sooner or later: the
\* critical sections are short and none of them blocks with the mutex held.
\* Nothing obliges a thread to make a call, or to wake up spuriously.
QueueFairness == /\ \A p \in Producers : WF_queueVars(ResumePush(p))
                 /\ \A c \in Consumers : WF_queueVars(ResumePop(c))

QueueFairSpec == QueueSpec /\ QueueFairness
--------------------------------------------------------------------------------
(* Properties. *)

\* The queue's contents, oldest first, read off the ring.
Items == [i \in 1 .. count |-> buffers[Wrap(pos + i - 1)]]

Fifo == INSTANCE BoundedFifo WITH items <- Items, shut <- closed

\* The ring with its wrap-around, its condition variables and its early
\* returns behaves as a bounded first-in first-out queue: what pop_locked hands
\* out is the oldest item accepted and not yet taken, -EIO comes only from a
\* closed queue (for a pop: closed and drained) and -EAGAIN only from a full
\* (empty) one, whatever the interleaving of blocked and woken threads.
IsFifo == Fifo!FifoSpec

\* With one producer and one consumer, which is how BufferedIOStream uses both
\* of its queues, notifying on the empty and full edges only never leaves a
\* thread in a wait set when the condition it waits for has come true or the
\* queue was closed.
NoLostWakeup == /\ CanPop # {} => count = 0 /\ ~closed
                /\ CanPush # {} => count = Capacity /\ ~closed

\* A blocked pop ends once there is something to pop or the queue is closed,
\* and a blocked push once there is room or the queue is closed.
BlockedCallsReturn ==
  /\ \A c \in Consumers : (thread[c] # "idle" /\ (count > 0 \/ closed)) ~> thread[c] = "idle"
  /\ \A p \in Producers : (thread[p] # "idle" /\ (count < Capacity \/ closed)) ~> thread[p] = "idle"
================================================================================
