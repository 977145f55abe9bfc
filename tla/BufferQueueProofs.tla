--------------------------- MODULE BufferQueueProofs ---------------------------
(***************************************************************************)
(* Proofs about BufferQueue, for every capacity, every set of contents and *)
(* every set of threads, and about the two byte streams that go through a  *)
(* queue: the commands and replies of a BufferedIOStream and the sound of  *)
(* the AudioPath, for every size of the pieces and of the buffers.         *)
(***************************************************************************)
EXTENDS BufferQueue, BufferedIOStream, AudioPath, SequenceTheorems, WellFoundedInduction, TLAPS

\* An index at most one lap ahead wraps into the ring.
LEMMA WrapInSlots ==
  ASSUME NEW k \in 0 .. 2 * Capacity - 1
  PROVE  Wrap(k) \in Slots
BY QueueAssumption DEF Wrap, Slots

\* Whatever notify_one does, it wakes members of the wait set.
LEMMA NotifyOneWakesWaiters ==
  ASSUME NEW S, NEW W \in NotifyOne(S)
  PROVE  W \subseteq S
BY DEF NotifyOne

\* Return and Sleep keep the types of the variables they assign.
LEMMA ReturnType ==
  ASSUME QueueTypeOK, NEW t \in Threads, NEW code \in Codes, NEW W, Return(t, code, W)
  PROVE  /\ ret' \in [Threads -> Codes]
         /\ thread' \in [Threads -> {"idle", "asleep", "woken"}]
         /\ thread'[t] = "idle"
         /\ \A u \in Threads \ {t} : thread'[u] = thread[u] \/ (u \in W /\ thread'[u] = "woken")
BY DEF QueueTypeOK, Return

\* The part of the type invariant that a method body preserves, and what it
\* tells about the threads other than the caller: they are idle afterwards
\* exactly if they were before.
RingType == /\ pos \in Slots
            /\ count \in 0 .. Capacity
            /\ closed \in BOOLEAN
            /\ buffers \in [Slots -> Data \cup {NoData}]
            /\ thread \in [Threads -> {"idle", "asleep", "woken"}]
            /\ ret \in [Threads -> Codes]
            /\ got \in [Consumers -> Data \cup {NoData}]

OthersKeepIdle(t) ==
  \A u \in Threads \ {t} : (thread'[u] = "idle") <=> (thread[u] = "idle")

LEMMA SleepType ==
  ASSUME QueueTypeOK, NEW t \in Threads, Sleep(t)
  PROVE  RingType' /\ OthersKeepIdle(t)
BY DEF QueueTypeOK, Sleep, RingType, OthersKeepIdle

LEMMA RefuseType ==
  ASSUME QueueTypeOK, NEW t \in Threads, NEW code \in Codes, Return(t, code, {}),
         UNCHANGED <<pos, count, closed, buffers, got>>
  PROVE  RingType' /\ OthersKeepIdle(t) /\ thread'[t] = "idle"
BY ReturnType DEF QueueTypeOK, RingType, OthersKeepIdle

LEMMA TryPushType ==
  ASSUME QueueTypeOK, NEW p \in Producers, NEW d \in Data, try_push_locked(p, d)
  PROVE  RingType' /\ OthersKeepIdle(p) /\ thread'[p] = "idle"
<1>0. p \in Threads /\ {"ok", "EIO", "EAGAIN"} \subseteq Codes
  BY DEF Threads, Codes
<1>1. CASE closed
  BY <1>0, <1>1, RefuseType DEF try_push_locked
<1>2. CASE ~closed /\ count >= Capacity
  BY <1>0, <1>2, RefuseType, QueueAssumption DEF try_push_locked, QueueTypeOK
<1>3. CASE ~closed /\ count < Capacity
  <2>1. PICK W \in (IF count = 0 THEN NotifyOne(CanPop) ELSE {{}}) : Return(p, "ok", W)
    BY <1>3, QueueAssumption DEF try_push_locked, QueueTypeOK
  <2>2. \A u \in W : thread[u] = "asleep"
    BY <2>1, NotifyOneWakesWaiters DEF CanPop
  <2>3. OthersKeepIdle(p) /\ thread'[p] = "idle"
    BY <1>0, <2>1, <2>2, ReturnType DEF OthersKeepIdle
  <2>4. Wrap(pos + count) \in Slots
    BY <1>3, WrapInSlots, QueueAssumption DEF QueueTypeOK, Slots
  <2>5. buffers' \in [Slots -> Data \cup {NoData}] /\ count' \in 0 .. Capacity
    BY <1>3, <2>4, QueueAssumption DEF QueueTypeOK, try_push_locked
  <2>6. QED BY <1>0, <1>3, <2>1, <2>3, <2>5, ReturnType DEF QueueTypeOK, RingType, try_push_locked
<1>4. QED BY <1>1, <1>2, <1>3, QueueAssumption DEF QueueTypeOK

LEMMA PushType ==
  ASSUME QueueTypeOK, NEW p \in Producers, NEW d \in Data, push_locked(p, d)
  PROVE  RingType' /\ OthersKeepIdle(p)
<1>0. p \in Threads /\ "EIO" \in Codes
  BY DEF Threads, Codes
<1> QED BY <1>0, RefuseType, SleepType, TryPushType DEF push_locked

LEMMA TryPopType ==
  ASSUME QueueTypeOK, NEW c \in Consumers, try_pop_locked(c)
  PROVE  RingType' /\ OthersKeepIdle(c) /\ thread'[c] = "idle"
<1>0. c \in Threads /\ {"ok", "EIO", "EAGAIN"} \subseteq Codes
  BY DEF Threads, Codes
<1>1. CASE count = 0
  BY <1>0, <1>1, RefuseType DEF try_pop_locked
<1>2. CASE count # 0
  <2>1. PICK W \in (IF count = Capacity THEN NotifyOne(CanPush) ELSE {{}}) : Return(c, "ok", W)
    BY <1>2 DEF try_pop_locked
  <2>2. \A u \in W : thread[u] = "asleep"
    BY <2>1, NotifyOneWakesWaiters DEF CanPush
  <2>3. OthersKeepIdle(c) /\ thread'[c] = "idle"
    BY <1>0, <2>1, <2>2, ReturnType DEF OthersKeepIdle
  <2>4. pos' \in Slots /\ count' \in 0 .. Capacity
    BY <1>2, WrapInSlots, QueueAssumption DEF QueueTypeOK, Slots, try_pop_locked
  <2>5. /\ buffers' \in [Slots -> Data \cup {NoData}]
        /\ got' \in [Consumers -> Data \cup {NoData}]
    BY <1>2 DEF QueueTypeOK, try_pop_locked
  <2>6. QED BY <1>0, <1>2, <2>1, <2>3, <2>4, <2>5, ReturnType DEF QueueTypeOK, RingType, try_pop_locked
<1>3. QED BY <1>1, <1>2

LEMMA PopType ==
  ASSUME QueueTypeOK, NEW c \in Consumers, pop_locked(c) \/ wait_until_not_empty_locked(c)
  PROVE  RingType' /\ OthersKeepIdle(c)
<1>0. c \in Threads /\ {"ok", "EIO"} \subseteq Codes
  BY DEF Threads, Codes
<1>1. CASE pop_locked(c)
  BY <1>0, <1>1, RefuseType, SleepType, TryPopType DEF pop_locked
<1>2. CASE wait_until_not_empty_locked(c)
  BY <1>0, <1>2, RefuseType, SleepType DEF wait_until_not_empty_locked
<1>3. QED BY <1>1, <1>2
--------------------------------------------------------------------------------
\* The type invariant is inductive: in particular pos_ and the index computed by
\* try_push_locked stay inside the ring and count_ never passes capacity_.
THEOREM TypeCorrect == QueueSpec => []QueueTypeOK
<1>1. QueueInit => QueueTypeOK
  <2> SUFFICES ASSUME QueueInit PROVE QueueTypeOK
    OBVIOUS
  <2>1. pos \in Slots /\ count \in 0 .. Capacity
    <3>1. pos = 0 /\ count = 0
      BY DEF QueueInit
    <3>2. QED BY <3>1, QueueAssumption DEF Slots
  <2>2. /\ \A p \in Producers : thread[p] = "idle" /\ arg[p] = NoData
        /\ \A c \in Consumers : thread[c] = "idle" /\ call[c] = "none"
    BY DEF QueueInit, Threads
  <2>3. QED BY <2>1, <2>2 DEF QueueInit, QueueTypeOK, Codes
<1>2. QueueTypeOK /\ [QueueNext]_queueVars => QueueTypeOK'
  <2> SUFFICES ASSUME QueueTypeOK, [QueueNext]_queueVars PROVE QueueTypeOK'
    OBVIOUS
  <2>1. ASSUME NEW p \in Producers, NEW d \in Data, TryPush(p, d) PROVE QueueTypeOK'
    BY <2>1, TryPushType, QueueAssumption DEF TryPush, QueueTypeOK, RingType, OthersKeepIdle, Threads
  <2>2. ASSUME NEW p \in Producers, NEW d \in Data, Push(p, d) PROVE QueueTypeOK'
    BY <2>2, PushType, QueueAssumption DEF Push, QueueTypeOK, RingType, OthersKeepIdle, Threads
  <2>3. ASSUME NEW p \in Producers, ResumePush(p) PROVE QueueTypeOK'
    <3>1. arg[p] \in Data
      BY <2>3 DEF ResumePush, QueueTypeOK
    <3>2. QED BY <2>3, <3>1, PushType, QueueAssumption
                  DEF ResumePush, QueueTypeOK, RingType, OthersKeepIdle, Threads
  <2>4. ASSUME NEW c \in Consumers, TryPop(c) PROVE QueueTypeOK'
    BY <2>4, TryPopType, QueueAssumption DEF TryPop, QueueTypeOK, RingType, OthersKeepIdle, Threads
  <2>5. ASSUME NEW c \in Consumers, Pop(c) \/ WaitNotEmpty(c) \/ ResumePop(c) PROVE QueueTypeOK'
    BY <2>5, PopType, QueueAssumption
       DEF Pop, WaitNotEmpty, ResumePop, QueueTypeOK, RingType, OthersKeepIdle, Threads
  <2>6. CASE close_locked
    BY <2>6 DEF close_locked, QueueTypeOK, CanPush, CanPop, Threads
  <2>7. ASSUME NEW t \in Threads, SpuriousWakeup(t) PROVE QueueTypeOK'
    BY <2>7 DEF SpuriousWakeup, QueueTypeOK, Threads
  <2>8. CASE UNCHANGED queueVars
    BY <2>8 DEF queueVars, QueueTypeOK
  <2>9. QED BY <2>1, <2>2, <2>3, <2>4, <2>5, <2>6, <2>7, <2>8 DEF QueueNext
<1>3. QED BY <1>1, <1>2, PTL DEF QueueSpec
--------------------------------------------------------------------------------
\* NoLostWakeup is inductive when each side of the queue has at most one thread.
\* With two consumers it is false: both may sleep on the empty queue, a push
\* wakes one of them, and a second push, which starts from a non-empty queue,
\* notifies nobody.
AtMostOneEach == /\ \A p, q \in Producers : p = q
                 /\ \A c, d \in Consumers : c = d

\* A caller that does not sleep and finds the other side's wait set justified
\* leaves NoLostWakeup intact: what remains to show of each method is the part
\* about the other side.
LEMMA WakeupTryPush ==
  ASSUME AtMostOneEach, QueueTypeOK, NoLostWakeup, NEW p \in Producers, NEW d \in Data,
         thread[p] # "asleep", try_push_locked(p, d)
  PROVE  NoLostWakeup'
<1>0. p \in Threads /\ p \notin Consumers
  BY QueueAssumption DEF Threads
<1>1. CanPush' = {}
  <2>1. thread'[p] = "idle"
    BY TryPushType
  <2>2. QED BY <2>1 DEF CanPush, AtMostOneEach
<1>2. CASE closed \/ count >= Capacity
  <2>1. \E code \in Codes : Return(p, code, {}) /\ UNCHANGED <<count, closed>>
    BY <1>2, QueueAssumption DEF try_push_locked, QueueTypeOK, Codes
  <2>2. \A c \in Consumers : thread'[c] = thread[c]
    BY <1>0, <2>1 DEF Return, Threads
  <2>3. CanPop' = CanPop
    BY <2>2 DEF CanPop
  <2>4. QED BY <1>1, <2>1, <2>3 DEF NoLostWakeup
<1>3. CASE ~closed /\ count < Capacity
  <2>1. PICK W \in (IF count = 0 THEN NotifyOne(CanPop) ELSE {{}}) : Return(p, "ok", W)
    BY <1>3, QueueAssumption DEF try_push_locked, QueueTypeOK
  <2>2. CanPop' = {}
    <3>1. CASE CanPop = {}
      BY <1>0, <2>1, <3>1, NotifyOneWakesWaiters DEF CanPop, Return, Threads, NotifyOne
    <3>2. CASE CanPop # {}
      <4>1. count = 0
        BY <3>2 DEF NoLostWakeup
      <4>2. W # {} /\ W \subseteq CanPop
        BY <2>1, <3>2, <4>1 DEF NotifyOne
      <4>3. W = Consumers
        BY <4>2 DEF AtMostOneEach, CanPop
      <4>4. QED BY <1>0, <2>1, <4>3 DEF CanPop, Return, Threads
    <3>3. QED BY <3>1, <3>2
  <2>3. QED BY <1>1, <2>2 DEF NoLostWakeup
<1>4. QED BY <1>2, <1>3, QueueAssumption DEF QueueTypeOK

LEMMA WakeupTryPop ==
  ASSUME AtMostOneEach, QueueTypeOK, NoLostWakeup, NEW c \in Consumers,
         thread[c] # "asleep", try_pop_locked(c)
  PROVE  NoLostWakeup'
<1>0. c \in Threads /\ c \notin Producers
  BY QueueAssumption DEF Threads
<1>1. CanPop' = {}
  <2>1. thread'[c] = "idle"
    BY TryPopType
  <2>2. QED BY <2>1 DEF CanPop, AtMostOneEach
<1>2. CASE count = 0
  <2>1. \E code \in Codes : Return(c, code, {}) /\ UNCHANGED <<count, closed>>
    BY <1>2 DEF try_pop_locked, Codes
  <2>2. \A p \in Producers : thread'[p] = thread[p]
    BY <1>0, <2>1 DEF Return, Threads
  <2>3. CanPush' = CanPush
    BY <2>2 DEF CanPush
  <2>4. QED BY <1>1, <2>1, <2>3 DEF NoLostWakeup
<1>3. CASE count # 0
  <2>1. PICK W \in (IF count = Capacity THEN NotifyOne(CanPush) ELSE {{}}) : Return(c, "ok", W)
    BY <1>3 DEF try_pop_locked
  <2>2. CanPush' = {}
    <3>1. CASE CanPush = {}
      BY <1>0, <2>1, <3>1, NotifyOneWakesWaiters DEF CanPush, Return, Threads, NotifyOne
    <3>2. CASE CanPush # {}
      <4>1. count = Capacity
        BY <3>2 DEF NoLostWakeup
      <4>2. W # {} /\ W \subseteq CanPush
        BY <2>1, <3>2, <4>1 DEF NotifyOne
      <4>3. W = Producers
        BY <4>2 DEF AtMostOneEach, CanPush
      <4>4. QED BY <1>0, <2>1, <4>3 DEF CanPush, Return, Threads
    <3>3. QED BY <3>1, <3>2
  <2>3. QED BY <1>1, <2>2 DEF NoLostWakeup
<1>4. QED BY <1>2, <1>3

\* A thread that returns without touching the ring, or goes to sleep because
\* its condition is false and the queue open, leaves NoLostWakeup intact.
LEMMA WakeupQuiet ==
  ASSUME QueueTypeOK, NoLostWakeup, NEW t \in Threads, UNCHANGED <<count, closed>>,
         \/ \E code \in Codes : Return(t, code, {})
         \/ /\ Sleep(t)
            /\ ~closed
            /\ t \in Producers => count = Capacity
            /\ t \in Consumers => count = 0
  PROVE  NoLostWakeup'
<1>1. ASSUME NEW code \in Codes, Return(t, code, {}) PROVE NoLostWakeup'
  <2>1. CanPop' \subseteq CanPop /\ CanPush' \subseteq CanPush
    BY <1>1 DEF Return, CanPop, CanPush, Threads
  <2>2. QED BY <2>1 DEF NoLostWakeup
<1>2. CASE /\ Sleep(t)
           /\ ~closed
           /\ t \in Producers => count = Capacity
           /\ t \in Consumers => count = 0
  <2>1. \A u \in Threads : u # t => thread'[u] = thread[u]
    BY <1>2 DEF Sleep, QueueTypeOK
  <2>2. /\ \A c \in CanPop' : c \in CanPop \/ c = t
        /\ \A p \in CanPush' : p \in CanPush \/ p = t
    BY <2>1 DEF CanPop, CanPush, Threads
  <2>3. t \in CanPop' => t \in Consumers
    BY DEF CanPop
  <2>4. t \in CanPush' => t \in Producers
    BY DEF CanPush
  <2>5. CanPop' # {} => count = 0 /\ ~closed
    BY <1>2, <2>2, <2>3 DEF NoLostWakeup
  <2>6. CanPush' # {} => count = Capacity /\ ~closed
    BY <1>2, <2>2, <2>4 DEF NoLostWakeup
  <2>7. QED BY <2>5, <2>6 DEF NoLostWakeup
<1>3. QED BY <1>1, <1>2

\* With at most one thread on each side no wakeup is ever lost, whatever the
\* capacity: notify_one on the two edges is enough.
THEOREM WakeupsNotLost == ASSUME AtMostOneEach PROVE QueueSpec => []NoLostWakeup
<1>1. QueueInit => NoLostWakeup
  BY DEF QueueInit, NoLostWakeup, CanPush, CanPop, Threads
<1>2. QueueTypeOK /\ NoLostWakeup /\ [QueueNext]_queueVars => NoLostWakeup'
  <2> SUFFICES ASSUME QueueTypeOK, NoLostWakeup, [QueueNext]_queueVars PROVE NoLostWakeup'
    OBVIOUS
  <2>0. Producers \subseteq Threads /\ Consumers \subseteq Threads /\ {"ok", "EIO"} \subseteq Codes
    BY DEF Threads, Codes
  <2>1. ASSUME NEW p \in Producers, NEW d \in Data, TryPush(p, d) PROVE NoLostWakeup'
    BY <2>1, WakeupTryPush DEF TryPush
  <2>2. ASSUME NEW p \in Producers, NEW d \in Data, thread[p] # "asleep", push_locked(p, d)
        PROVE  NoLostWakeup'
    BY <2>0, <2>2, WakeupTryPush, WakeupQuiet, QueueAssumption DEF push_locked, Sleep
  <2>3. ASSUME NEW p \in Producers, ResumePush(p) PROVE NoLostWakeup'
    <3>1. arg[p] \in Data /\ thread[p] # "asleep"
      BY <2>3 DEF ResumePush, QueueTypeOK
    <3>2. QED BY <2>2, <2>3, <3>1 DEF ResumePush
  <2>4. ASSUME NEW c \in Consumers, TryPop(c) PROVE NoLostWakeup'
    BY <2>4, WakeupTryPop DEF TryPop
  <2>5. ASSUME NEW c \in Consumers, Pop(c) \/ WaitNotEmpty(c) \/ ResumePop(c)
        PROVE  NoLostWakeup'
    <3>1. thread[c] # "asleep" /\ (pop_locked(c) \/ wait_until_not_empty_locked(c))
      BY <2>5 DEF Pop, WaitNotEmpty, ResumePop
    <3>2. CASE pop_locked(c)
      BY <2>0, <3>1, <3>2, WakeupTryPop, WakeupQuiet, QueueAssumption DEF pop_locked, Sleep
    <3>3. CASE wait_until_not_empty_locked(c)
      BY <2>0, <3>1, <3>3, WakeupQuiet, QueueAssumption DEF wait_until_not_empty_locked, Sleep
    <3>4. QED BY <3>1, <3>2, <3>3
  <2>6. CASE close_locked
    <3>1. CanPop' = {} /\ CanPush' = {}
      BY <2>6 DEF close_locked, NoLostWakeup, CanPop, CanPush, Threads
    <3>2. QED BY <3>1 DEF NoLostWakeup
  <2>7. ASSUME NEW t \in Threads, SpuriousWakeup(t) PROVE NoLostWakeup'
    <3>1. CanPop' \subseteq CanPop /\ CanPush' \subseteq CanPush
      BY <2>7 DEF SpuriousWakeup, CanPop, CanPush, Threads, QueueTypeOK
    <3>2. QED BY <2>7, <3>1 DEF SpuriousWakeup, NoLostWakeup
  <2>8. CASE UNCHANGED queueVars
    BY <2>8 DEF queueVars, NoLostWakeup, CanPop, CanPush
  <2>9. QED BY <2>1, <2>2, <2>3, <2>4, <2>5, <2>6, <2>7, <2>8 DEF QueueNext, Push
<1>3. QED BY <1>1, <1>2, TypeCorrect, PTL DEF QueueSpec
--------------------------------------------------------------------------------
(* The ring implements the abstract queue. *)

\* n slots of a ring b, read from position k on, form a sequence of n elements.
LEMMA RingSequence ==
  ASSUME NEW k \in Slots, NEW n \in 0 .. Capacity, NEW b \in [Slots -> Data \cup {NoData}]
  PROVE  LET s == [i \in 1 .. n |-> b[Wrap(k + i - 1)]]
         IN  /\ s \in Seq(Data \cup {NoData})
             /\ Len(s) = n
             /\ \A i \in 1 .. n : s[i] = b[Wrap(k + i - 1)]
<1>1. ASSUME NEW i \in 1 .. n PROVE b[Wrap(k + i - 1)] \in Data \cup {NoData}
  <2>1. k + i - 1 \in 0 .. 2 * Capacity - 1
    BY QueueAssumption DEF Slots
  <2>2. QED BY <2>1, WrapInSlots
<1>2. n \in Nat
  BY QueueAssumption
<1>3. QED BY <1>1, <1>2

\* Hence Items is a sequence of count elements, before a step and after it.
LEMMA ItemsSequence ==
  ASSUME QueueTypeOK
  PROVE  /\ Items \in Seq(Data \cup {NoData})
         /\ Len(Items) = count
         /\ \A i \in 1 .. count : Items[i] = buffers[Wrap(pos + i - 1)]
BY RingSequence DEF QueueTypeOK, Items

LEMMA ItemsSequenceAfter ==
  ASSUME QueueTypeOK'
  PROVE  /\ Items' \in Seq(Data \cup {NoData})
         /\ Len(Items') = count'
         /\ \A i \in 1 .. count' : Items'[i] = buffers'[Wrap(pos' + i - 1)]
<1>1. pos' \in Slots /\ count' \in 0 .. Capacity /\ buffers' \in [Slots -> Data \cup {NoData}]
  BY DEF QueueTypeOK
<1>2. Items' = [i \in 1 .. count' |-> buffers'[Wrap(pos' + i - 1)]]
  BY DEF Items, Wrap
<1>3. QED BY <1>1, <1>2, RingSequence

\* The slot behind the last item is not the slot of an item.
LEMMA FreeSlot ==
  ASSUME QueueTypeOK, count < Capacity, NEW i \in 1 .. count
  PROVE  Wrap(pos + i - 1) # Wrap(pos + count)
BY QueueAssumption DEF QueueTypeOK, Slots, Wrap

\* After the oldest item has gone, the i-th item sits where the (i+1)-th was,
\* which is not the slot that was emptied.
LEMMA NextSlot ==
  ASSUME QueueTypeOK, NEW i \in 1 .. count - 1
  PROVE  /\ Wrap(Wrap(pos + 1) + i - 1) = Wrap(pos + (i + 1) - 1)
         /\ Wrap(pos + (i + 1) - 1) # pos
BY QueueAssumption DEF QueueTypeOK, Slots, Wrap

LEMMA PutAppends ==
  ASSUME QueueTypeOK, QueueTypeOK', NEW d \in Data, count < Capacity, count' = count + 1, pos' = pos,
         buffers' = [buffers EXCEPT ![Wrap(pos + count)] = d]
  PROVE  Items' = Append(Items, d)
<1>1. /\ Items' \in Seq(Data \cup {NoData})
      /\ Len(Items') = count'
      /\ \A i \in 1 .. count' : Items'[i] = buffers'[Wrap(pos' + i - 1)]
  BY ItemsSequenceAfter
<1>2. Append(Items, d) \in Seq(Data \cup {NoData}) /\ Len(Append(Items, d)) = count + 1
  BY ItemsSequence
<1>3. ASSUME NEW i \in 1 .. count + 1 PROVE Items'[i] = Append(Items, d)[i]
  <2>1. CASE i = count + 1
    <3>1. Wrap(pos + count) \in Slots
      BY WrapInSlots, QueueAssumption DEF QueueTypeOK, Slots
    <3>2. pos + i - 1 = pos + count
      BY <2>1, QueueAssumption DEF QueueTypeOK, Slots
    <3>3. Items'[i] = d
      BY <1>1, <3>1, <3>2 DEF QueueTypeOK
    <3>4. QED BY <2>1, <3>3, ItemsSequence
  <2>2. CASE i \in 1 .. count
    <3>1. Wrap(pos + i - 1) # Wrap(pos + count)
      BY <2>2, FreeSlot
    <3>2. Items'[i] = buffers[Wrap(pos + i - 1)]
      <4>1. Wrap(pos + i - 1) \in Slots
        BY <2>2, WrapInSlots, QueueAssumption DEF QueueTypeOK, Slots
      <4>2. QED BY <1>1, <3>1, <4>1 DEF QueueTypeOK
    <3>3. Append(Items, d)[i] = Items[i]
      BY <2>2, ItemsSequence
    <3>4. QED BY <2>2, <3>2, <3>3, ItemsSequence
  <2>3. i = count + 1 \/ i \in 1 .. count
    <3>1. count \in Nat
      BY QueueAssumption DEF QueueTypeOK
    <3>2. QED BY <1>3, <3>1
  <2>4. QED BY <2>1, <2>2, <2>3
<1>4. QED BY <1>1, <1>2, <1>3, SeqEqual

LEMMA TakeRemovesOldest ==
  ASSUME QueueTypeOK, QueueTypeOK', count # 0, count' = count - 1, pos' = Wrap(pos + 1),
         buffers' \in {buffers, [buffers EXCEPT ![pos] = NoData]}
  PROVE  /\ Items # <<>>
         /\ Head(Items) = buffers[pos]
         /\ Items' = Tail(Items)
<1>1. /\ Items' \in Seq(Data \cup {NoData})
      /\ Len(Items') = count'
      /\ \A i \in 1 .. count' : Items'[i] = buffers'[Wrap(pos' + i - 1)]
  BY ItemsSequenceAfter
<1>2. Items # <<>> /\ count \in Nat /\ count > 0
  BY ItemsSequence, QueueAssumption DEF QueueTypeOK
<1>3. Head(Items) = buffers[pos]
  <2>1. Wrap(pos + 1 - 1) = pos
    BY QueueAssumption DEF QueueTypeOK, Slots, Wrap
  <2>2. QED BY <1>2, <2>1, ItemsSequence
<1>4. /\ Tail(Items) \in Seq(Data \cup {NoData})
      /\ Len(Tail(Items)) = count - 1
      /\ \A i \in 1 .. count - 1 : Tail(Items)[i] = Items[i + 1]
  BY <1>2, ItemsSequence
<1>5. ASSUME NEW i \in 1 .. count - 1 PROVE Items'[i] = Tail(Items)[i]
  <2>1. Items'[i] = buffers'[Wrap(pos + (i + 1) - 1)]
    BY <1>1, NextSlot
  <2>2. Wrap(pos + (i + 1) - 1) \in Slots
    BY WrapInSlots, QueueAssumption DEF QueueTypeOK, Slots
  <2>3. Items'[i] = buffers[Wrap(pos + (i + 1) - 1)]
    BY <2>1, <2>2, NextSlot DEF QueueTypeOK
  <2>4. Items[i + 1] = buffers[Wrap(pos + (i + 1) - 1)]
    BY <1>2, ItemsSequence
  <2>5. QED BY <1>4, <2>3, <2>4
<1>6. Items' = Tail(Items)
  BY <1>1, <1>4, <1>5, SeqEqual
<1>7. QED BY <1>2, <1>3, <1>6

\* A call that returns without touching the ring leaves the abstract queue's
\* items alone.
LEMMA ItemsUnchanged ==
  ASSUME UNCHANGED <<pos, count, buffers>>
  PROVE  Items' = Items
BY DEF Items, Wrap

LEMMA ReturnIsReturns ==
  ASSUME QueueTypeOK, NEW t \in Threads, NEW code, NEW W, Return(t, code, W)
  PROVE  Fifo!Returns(t, code)
BY DEF Return, Fifo!Returns

LEMMA TryPushRefines ==
  ASSUME QueueTypeOK, QueueTypeOK', NEW p \in Producers, NEW d \in Data, try_push_locked(p, d)
  PROVE  Fifo!PutRefused(p) \/ Fifo!Put(p, d)
<1>0. p \in Threads /\ Len(Items) = count
  BY ItemsSequence DEF Threads
<1>1. CASE closed
  BY <1>0, <1>1, ReturnIsReturns, ItemsUnchanged DEF try_push_locked, Fifo!PutRefused
<1>2. CASE ~closed /\ count >= Capacity
  <2>1. count = Capacity
    BY <1>2, QueueAssumption DEF QueueTypeOK
  <2>2. Return(p, "EAGAIN", {}) /\ UNCHANGED <<pos, count, closed, buffers, got>>
    BY <1>2, <2>1, QueueAssumption DEF try_push_locked
  <2>3. QED BY <1>0, <1>2, <2>1, <2>2, ReturnIsReturns, ItemsUnchanged DEF Fifo!PutRefused
<1>3. CASE ~closed /\ count < Capacity
  <2>1. /\ buffers' = [buffers EXCEPT ![Wrap(pos + count)] = d]
        /\ count' = count + 1
        /\ \E W : Return(p, "ok", W)
        /\ UNCHANGED <<pos, closed, got>>
    BY <1>3, QueueAssumption DEF try_push_locked, QueueTypeOK
  <2>2. Items' = Append(Items, d)
    BY <1>3, <2>1, PutAppends
  <2>3. QED BY <1>0, <1>3, <2>1, <2>2, ReturnIsReturns DEF Fifo!Put
<1>4. QED BY <1>1, <1>2, <1>3, QueueAssumption DEF QueueTypeOK

LEMMA TryPopRefines ==
  ASSUME QueueTypeOK, QueueTypeOK', NEW c \in Consumers, try_pop_locked(c)
  PROVE  Fifo!TakeRefused(c) \/ Fifo!Take(c)
<1>0. c \in Threads /\ Len(Items) = count /\ Items \in Seq(Data \cup {NoData})
  BY ItemsSequence DEF Threads
<1>1. CASE count = 0
  <2>1. Items = <<>>
    BY <1>0, <1>1, EmptySeq
  <2>2. QED BY <1>0, <1>1, <2>1, ReturnIsReturns, ItemsUnchanged DEF try_pop_locked, Fifo!TakeRefused
<1>2. CASE count # 0
  <2>1. /\ got' = [got EXCEPT ![c] = buffers[pos]]
        /\ buffers' \in {buffers, [buffers EXCEPT ![pos] = NoData]}
        /\ pos' = Wrap(pos + 1)
        /\ count' = count - 1
        /\ \E W : Return(c, "ok", W)
        /\ UNCHANGED closed
    BY <1>2 DEF try_pop_locked
  <2>2. Items # <<>> /\ Head(Items) = buffers[pos] /\ Items' = Tail(Items)
    BY <1>2, <2>1, TakeRemovesOldest
  <2>3. QED BY <1>0, <2>1, <2>2, ReturnIsReturns DEF Fifo!Take
<1>3. QED BY <1>1, <1>2

\* A thread that goes to sleep takes no abstract step.
LEMMA SleepStutters ==
  ASSUME NEW t, Sleep(t)
  PROVE  UNCHANGED Fifo!fifoVars
BY ItemsUnchanged DEF Sleep, Fifo!fifoVars

LEMMA PushRefines ==
  ASSUME QueueTypeOK, QueueTypeOK', NEW p \in Producers, NEW d \in Data, push_locked(p, d)
  PROVE  Fifo!PutRefused(p) \/ Fifo!Put(p, d) \/ UNCHANGED Fifo!fifoVars
<1>1. CASE count = Capacity /\ closed
  <2>1. p \in Threads
    BY DEF Threads
  <2>2. Return(p, "EIO", {}) /\ UNCHANGED <<pos, count, closed, buffers, got>>
    BY <1>1 DEF push_locked
  <2>3. QED BY <1>1, <2>1, <2>2, ReturnIsReturns, ItemsUnchanged DEF Fifo!PutRefused
<1>2. QED BY <1>1, SleepStutters, TryPushRefines DEF push_locked

LEMMA PopRefines ==
  ASSUME QueueTypeOK, QueueTypeOK', NEW c \in Consumers, pop_locked(c) \/ wait_until_not_empty_locked(c)
  PROVE  Fifo!TakeRefused(c) \/ Fifo!Take(c) \/ Fifo!Peek(c) \/ UNCHANGED Fifo!fifoVars
<1>0. c \in Threads /\ Len(Items) = count /\ Items \in Seq(Data \cup {NoData})
  BY ItemsSequence DEF Threads
<1>1. CASE count = 0 /\ closed
  <2>1. Items = <<>>
    BY <1>0, <1>1, EmptySeq
  <2>2. Return(c, "EIO", {}) /\ UNCHANGED <<pos, count, closed, buffers, got>>
    BY <1>1 DEF pop_locked, wait_until_not_empty_locked
  <2>3. QED BY <1>0, <1>1, <2>1, <2>2, ReturnIsReturns, ItemsUnchanged DEF Fifo!TakeRefused
<1>2. CASE count = 0 /\ ~closed
  BY <1>2, SleepStutters DEF pop_locked, wait_until_not_empty_locked
<1>3. CASE count # 0 /\ pop_locked(c)
  BY <1>3, TryPopRefines DEF pop_locked
<1>4. CASE count # 0 /\ wait_until_not_empty_locked(c)
  <2>1. Items # <<>>
    BY <1>0, <1>4, EmptySeq
  <2>2. Return(c, "ok", {}) /\ UNCHANGED <<pos, count, closed, buffers, got>>
    BY <1>4 DEF wait_until_not_empty_locked
  <2>3. QED BY <1>0, <2>1, <2>2, ReturnIsReturns, ItemsUnchanged DEF Fifo!Peek
<1>5. QED BY <1>1, <1>2, <1>3, <1>4

\* BufferQueue implements the bounded FIFO queue, for every number of threads:
\* a returning call is one abstract step, a sleeping or waking thread none.
THEOREM ImplementsFifo == QueueSpec => IsFifo
<1>1. QueueInit => Fifo!FifoInit
  <2> SUFFICES ASSUME QueueInit PROVE Fifo!FifoInit
    OBVIOUS
  <2>1. Items = <<>>
    BY DEF QueueInit, Items
  <2>2. QED BY <2>1 DEF QueueInit, Fifo!FifoInit, Threads
<1>2. QueueTypeOK /\ QueueTypeOK' /\ [QueueNext]_queueVars => [Fifo!FifoNext]_Fifo!fifoVars
  <2> SUFFICES ASSUME QueueTypeOK, QueueTypeOK', [QueueNext]_queueVars
                    PROVE  Fifo!FifoNext \/ UNCHANGED Fifo!fifoVars
    OBVIOUS
  <2>1. ASSUME NEW p \in Producers, NEW d \in Data, TryPush(p, d)
        PROVE  Fifo!FifoNext
    BY <2>1, TryPushRefines DEF TryPush, Fifo!FifoNext
  <2>2. ASSUME NEW p \in Producers, NEW d \in Data, push_locked(p, d)
        PROVE  Fifo!FifoNext \/ UNCHANGED Fifo!fifoVars
    BY <2>2, PushRefines DEF Fifo!FifoNext
  <2>3. ASSUME NEW p \in Producers, ResumePush(p)
        PROVE  Fifo!FifoNext \/ UNCHANGED Fifo!fifoVars
    <3>1. arg[p] \in Data
      BY <2>3 DEF ResumePush, QueueTypeOK
    <3>2. QED BY <2>2, <2>3, <3>1 DEF ResumePush
  <2>4. ASSUME NEW c \in Consumers, TryPop(c)
        PROVE  Fifo!FifoNext
    BY <2>4, TryPopRefines DEF TryPop, Fifo!FifoNext
  <2>5. ASSUME NEW c \in Consumers, Pop(c) \/ WaitNotEmpty(c) \/ ResumePop(c)
        PROVE  Fifo!FifoNext \/ UNCHANGED Fifo!fifoVars
    <3>1. pop_locked(c) \/ wait_until_not_empty_locked(c)
      BY <2>5 DEF Pop, WaitNotEmpty, ResumePop
    <3>2. QED BY <3>1, PopRefines DEF Fifo!FifoNext
  <2>6. CASE close_locked
    BY <2>6, ItemsUnchanged DEF close_locked, Fifo!Shut, Fifo!FifoNext
  <2>7. ASSUME NEW t \in Threads, SpuriousWakeup(t) PROVE UNCHANGED Fifo!fifoVars
    BY <2>7, ItemsUnchanged DEF SpuriousWakeup, Fifo!fifoVars
  <2>8. CASE UNCHANGED queueVars
    BY <2>8, ItemsUnchanged DEF queueVars, Fifo!fifoVars
  <2>9. QED BY <2>1, <2>2, <2>3, <2>4, <2>5, <2>6, <2>7, <2>8 DEF QueueNext, Push
<1>3. QED BY <1>1, <1>2, TypeCorrect, PTL DEF QueueSpec, IsFifo, Fifo!FifoSpec
--------------------------------------------------------------------------------
(* Byte sequences and what a list of pieces flattens to. *)

\* Concatenation is associative.
LEMMA SeqAssoc == \A a, b, d \in Seq(Nat) : (a \o b) \o d = a \o (b \o d)
OBVIOUS

\* A non-empty set of natural numbers has a smallest member.
LEMMA SmallestMember ==
  ASSUME NEW T, T \subseteq Nat, T # {}
  PROVE  \E m \in T : \A k \in T : m <= k
<1> DEFINE R == {p \in Nat \X Nat : p[1] < p[2]}
<1>1. IsWellFoundedOn(R, Nat)
  BY NatLessThanWellFounded DEF OpToRel
<1> HIDE DEF R
<1>2. PICK m \in T : \A k \in T : ~(<<k, m>> \in R)
  BY <1>1, WFMin
<1>3. ASSUME NEW k \in T PROVE m <= k
  <2>1. m \in Nat /\ k \in Nat
    OBVIOUS
  <2>2. ~(k < m)
    BY <1>2, <2>1 DEF R
  <2> QED BY <2>1, <2>2
<1> QED BY <1>3

\* f gives what the first i of the pieces in q, put behind one another, are.
Joined(q, f, n) ==
  DOMAIN f = 1 .. n /\ \A i \in 1 .. n : f[i] = IF i = 1 THEN q[i] ELSE f[i - 1] \o q[i]

\* Such a function exists, its values are sequences, ...
LEMMA JoinedExists ==
  ASSUME NEW q \in Seq(Seq(Nat)), NEW n \in 0 .. Len(q)
  PROVE  \E f \in [1 .. n -> Seq(Nat)] : Joined(q, f, n)
<1> DEFINE P(m) == \E f \in [1 .. m -> Seq(Nat)] : Joined(q, f, m)
           T == {m \in 0 .. Len(q) : ~P(m)}
<1>0. Len(q) \in Nat /\ \A i \in 1 .. Len(q) : q[i] \in Seq(Nat)
  OBVIOUS
<1>1. P(0)
  <2>1. [i \in 1 .. 0 |-> <<>>] \in [1 .. 0 -> Seq(Nat)] /\ Joined(q, [i \in 1 .. 0 |-> <<>>], 0)
    BY DEF Joined
  <2> QED BY <2>1
<1>2. ASSUME NEW m \in 0 .. Len(q) - 1, P(m) PROVE P(m + 1)
  <2>1. PICK f \in [1 .. m -> Seq(Nat)] : Joined(q, f, m)
    BY <1>2
  <2> DEFINE g == [i \in 1 .. m + 1 |-> IF i <= m THEN f[i] ELSE IF i = 1 THEN q[i] ELSE f[i - 1] \o q[i]]
  <2>2. g \in [1 .. m + 1 -> Seq(Nat)]
    BY <2>1
  <2>3. Joined(q, g, m + 1)
    <3>1. SUFFICES ASSUME NEW i \in 1 .. m + 1
                   PROVE  g[i] = IF i = 1 THEN q[i] ELSE g[i - 1] \o q[i]
      BY DEF Joined
    <3>2. i # 1 => i - 1 \in 1 .. m /\ g[i - 1] = f[i - 1]
      OBVIOUS
    <3>3. CASE i \in 1 .. m
      <4>1. g[i] = f[i] /\ f[i] = IF i = 1 THEN q[i] ELSE f[i - 1] \o q[i]
        BY <2>1, <3>3 DEF Joined
      <4> HIDE DEF g
      <4> QED BY <3>2, <4>1
    <3>4. CASE i = m + 1
      BY <3>2, <3>4
    <3> QED BY <3>3, <3>4
  <2> HIDE DEF g
  <2> QED BY <2>2, <2>3
<1> HIDE DEF P
<1>3. T = {}
  <2>1. SUFFICES ASSUME T # {} PROVE FALSE
    OBVIOUS
  <2>2. T \subseteq Nat
    BY <1>0
  <2>3. PICK m \in T : \A k \in T : m <= k
    BY ONLY <2>1, <2>2, SmallestMember
  <2>4. m \in 1 .. Len(q) /\ m - 1 \in 0 .. Len(q) - 1
    BY <1>0, <1>1, <2>3
  <2>5. P(m - 1)
    BY <1>0, <2>3, <2>4
  <2>6. P(m - 1 + 1)
    BY <1>2, <2>4, <2>5
  <2> QED BY <1>0, <2>3, <2>4, <2>6
<1> QED BY <1>3 DEF P

\* ... and it is the only one.
LEMMA JoinedUnique ==
  ASSUME NEW q, NEW n \in Nat, NEW f, NEW g, Joined(q, f, n), Joined(q, g, n), NEW i \in 1 .. n
  PROVE  f[i] = g[i]
<1> DEFINE T == {k \in 1 .. n : f[k] # g[k]}
<1>1. SUFFICES ASSUME T # {} PROVE FALSE
  OBVIOUS
<1>2. T \subseteq Nat
  OBVIOUS
<1>3. PICK m \in T : \A k \in T : m <= k
  BY ONLY <1>1, <1>2, SmallestMember
<1>4. m # 1 => m - 1 \in 1 .. n /\ f[m - 1] = g[m - 1]
  BY <1>3
<1>5. /\ m \in 1 .. n /\ f[m] # g[m]
      /\ f[m] = IF m = 1 THEN q[m] ELSE f[m - 1] \o q[m]
      /\ g[m] = IF m = 1 THEN q[m] ELSE g[m - 1] \o q[m]
  BY <1>3 DEF Joined
<1> QED BY ONLY <1>4, <1>5

\* FlattenSeq puts the pieces of q behind one another.
LEMMA FlattenIs ==
  ASSUME NEW q \in Seq(Seq(Nat)), Len(q) # 0, NEW h, Joined(q, h, Len(q))
  PROVE  FlattenSeq(q) = h[Len(q)]
<1> DEFINE n == Len(q)
           G(f) == [i \in 1 .. n |-> IF i = 1 THEN q[i] ELSE f[i - 1] \o q[i]]
           f == CHOOSE g : g = G(g)
<1>1. FlattenSeq(q) = f[n]
  BY DEF FlattenSeq
<1>2. PICK u \in [1 .. n -> Seq(Nat)] : Joined(q, u, n)
  BY JoinedExists, SMTT(40)
<1>3. u = G(u)
  BY <1>2 DEF Joined
<1>4. f = G(f)
  BY <1>3
<1> HIDE DEF f
<1>5. Joined(q, f, n)
  BY <1>4 DEF Joined
<1>6. f[n] = h[n]
  BY <1>5, JoinedUnique
<1> QED BY <1>1, <1>6

\* No pieces flatten to no bytes.
LEMMA FlattenEmpty == FlattenSeq(<<>>) = <<>>
BY DEF FlattenSeq

\* Pieces of bytes flatten to bytes.
LEMMA FlattenType ==
  ASSUME NEW q \in Seq(Seq(Nat))
  PROVE  FlattenSeq(q) \in Seq(Nat)
<1>0. Len(q) \in Nat /\ Len(q) \in 0 .. Len(q)
  OBVIOUS
<1>1. CASE Len(q) = 0
  <2>1. q = <<>>
    BY <1>1
  <2> QED BY <2>1, FlattenEmpty, EmptySeq
<1>2. CASE Len(q) # 0
  <2>1. PICK h \in [1 .. Len(q) -> Seq(Nat)] : Joined(q, h, Len(q))
    BY <1>0, JoinedExists
  <2>2. FlattenSeq(q) = h[Len(q)]
    BY <1>2, <2>1, FlattenIs
  <2>3. Len(q) \in 1 .. Len(q)
    BY <1>0, <1>2
  <2> QED BY <2>1, <2>2, <2>3
<1> QED BY <1>1, <1>2

\* A piece appended to the list is appended to the bytes.
LEMMA FlattenAppend ==
  ASSUME NEW q \in Seq(Seq(Nat)), NEW x \in Seq(Nat)
  PROVE  FlattenSeq(Append(q, x)) = FlattenSeq(q) \o x
<1> DEFINE n == Len(q)
           p == Append(q, x)
<1>1. p \in Seq(Seq(Nat)) /\ Len(p) = n + 1 /\ p[n + 1] = x /\ \A i \in 1 .. n : p[i] = q[i]
  OBVIOUS
<1>0. n \in Nat /\ n + 1 \in 0 .. n + 1 /\ n + 1 # 0
  OBVIOUS
<1> HIDE DEF p, n
<1>2. PICK h \in [1 .. n + 1 -> Seq(Nat)] : Joined(p, h, n + 1)
  BY <1>0, <1>1, JoinedExists
<1>3. FlattenSeq(p) = h[n + 1]
  BY <1>0, <1>1, <1>2, FlattenIs
<1>4. CASE n = 0
  BY <1>1, <1>2, <1>3, <1>4, FlattenEmpty DEF Joined, p, n
<1>5. CASE n # 0
  <2> DEFINE g == [i \in 1 .. n |-> h[i]]
  <2>1. Joined(q, g, n)
    <3>1. SUFFICES ASSUME NEW i \in 1 .. n
                   PROVE  g[i] = IF i = 1 THEN q[i] ELSE g[i - 1] \o q[i]
      BY DEF Joined
    <3>2. i \in 1 .. n + 1 /\ p[i] = q[i] /\ (i # 1 => i - 1 \in 1 .. n)
      BY <1>0, <1>1
    <3>3. h[i] = IF i = 1 THEN p[i] ELSE h[i - 1] \o p[i]
      BY <1>2, <3>2 DEF Joined
    <3> QED BY <3>2, <3>3
  <2>2. FlattenSeq(q) = g[n]
    BY <1>5, <2>1, FlattenIs DEF n
  <2>3. g[n] = h[n]
    BY <1>0, <1>5
  <2>4. h[n + 1] = h[n] \o x
    <3>1. PICK k : k = n + 1
      OBVIOUS
    <3>2. k \in 1 .. n + 1 /\ k # 1 /\ k - 1 = n
      BY <1>0, <1>5, <3>1
    <3>3. h[k] = h[k - 1] \o p[k]
      BY <1>2, <3>2 DEF Joined
    <3>4. p[k] = x
      BY <1>1, <3>1
    <3>5. h[k] = h[n] \o x
      BY <3>2, <3>3, <3>4
    <3> QED BY <3>1, <3>5
  <2> HIDE DEF g
  <2> QED BY <1>3, <2>2, <2>3, <2>4 DEF p
<1> QED BY <1>4, <1>5

\* The first piece of a list holds the first of its bytes.
LEMMA FlattenHead ==
  ASSUME NEW q \in Seq(Seq(Nat)), q # <<>>
  PROVE  FlattenSeq(q) = Head(q) \o FlattenSeq(Tail(q))
<1> DEFINE n == Len(q)
           t == Tail(q)
<1>1. n \in Nat \ {0} /\ Head(q) = q[1] /\ q[1] \in Seq(Nat)
  OBVIOUS
<1>2. t \in Seq(Seq(Nat)) /\ Len(t) = n - 1 /\ \A i \in 2 .. n : t[i - 1] = q[i]
  OBVIOUS
<1>a. \A i \in 1 .. n : q[i] \in Seq(Nat)
  OBVIOUS
<1>b. n - 1 \in 0 .. n - 1 /\ n \in 0 .. n
  BY <1>1
<1> HIDE DEF t, n
<1>3. PICK g \in [1 .. n - 1 -> Seq(Nat)] : Joined(t, g, n - 1)
  BY <1>b, <1>2, JoinedExists
<1> DEFINE h == [i \in 1 .. n |-> IF i = 1 THEN q[1] ELSE q[1] \o g[i - 1]]
<1>h. DOMAIN h = 1 .. n /\ h[1] = q[1] /\ \A i \in 2 .. n : h[i] = q[1] \o g[i - 1]
  <2>1. DOMAIN h = 1 .. n /\ h[1] = q[1]
    BY <1>1
  <2>2. ASSUME NEW i \in 2 .. n PROVE h[i] = q[1] \o g[i - 1]
    <3>1. i \in 1 .. n /\ i # 1
      BY <1>1
    <3> QED BY <3>1
  <2> QED BY <2>1, <2>2
<1> HIDE DEF h
<1>4. Joined(q, h, n)
  <2>1. SUFFICES ASSUME NEW i \in 2 .. n PROVE h[i] = h[i - 1] \o q[i]
    <3>1. ASSUME NEW i \in 1 .. n PROVE h[i] = IF i = 1 THEN q[i] ELSE h[i - 1] \o q[i]
      <4>1. i = 1 \/ i \in 2 .. n
        BY <1>1
      <4> QED BY <1>h, <2>1, <4>1
    <3> QED BY <1>h, <3>1 DEF Joined
  <2>2. i - 1 \in 1 .. n - 1 /\ t[i - 1] = q[i]
    BY <1>1, <1>2
  <2>3. CASE i - 1 = 1
    <3>1. g[i - 1] = q[i]
      BY <1>3, <2>2, <2>3 DEF Joined
    <3> QED BY <1>h, <2>3, <3>1
  <2>4. CASE i - 1 # 1
    <3>1. i - 1 \in 2 .. n /\ i - 1 - 1 \in 1 .. n - 1 /\ i \in 1 .. n
      BY <1>1, <2>4
    <3>2. g[i - 1] = g[i - 1 - 1] \o q[i]
      BY <1>3, <2>2, <2>4 DEF Joined
    <3>3. g[i - 1 - 1] \in Seq(Nat) /\ q[i] \in Seq(Nat)
      BY <1>3, <3>1, <1>a
    <3>4. q[1] \o (g[i - 1 - 1] \o q[i]) = (q[1] \o g[i - 1 - 1]) \o q[i]
      <4>1. PICK a, b, d : a = q[1] /\ b = g[i - 1 - 1] /\ d = q[i]
        OBVIOUS
      <4>2. a \in Seq(Nat) /\ b \in Seq(Nat) /\ d \in Seq(Nat)
        BY <1>1, <3>3, <4>1
      <4>3. (a \o b) \o d = a \o (b \o d)
        BY ONLY <4>2, SeqAssoc, ZenonT(60)
      <4> QED BY <4>1, <4>3
    <3>5. h[i] = q[1] \o g[i - 1] /\ h[i - 1] = q[1] \o g[i - 1 - 1]
      BY <1>h, <3>1
    <3> QED BY <3>2, <3>4, <3>5
  <2> QED BY <2>3, <2>4
<1>5. FlattenSeq(q) = h[n]
  BY <1>1, <1>4, FlattenIs DEF n
<1>6. CASE n = 1
  <2>1. FlattenSeq(t) = <<>>
    BY <1>2, <1>6, FlattenEmpty
  <2> QED BY <1>1, <1>5, <1>6, <1>h, <2>1 DEF t
<1>7. CASE n # 1
  <2>1. FlattenSeq(t) = g[n - 1]
    <3>1. Len(t) = n - 1 /\ n - 1 # 0
      BY <1>1, <1>2, <1>7
    <3> QED BY <1>2, <1>3, <3>1, FlattenIs
  <2>2. h[n] = q[1] \o g[n - 1]
    <3>1. n \in 2 .. n
      BY <1>1, <1>7
    <3> QED BY <1>h, <3>1
  <2> QED BY <1>1, <1>5, <2>1, <2>2 DEF t
<1> QED BY <1>6, <1>7

\* The type and the length of a concatenation.
LEMMA ConcatType ==
  ASSUME NEW S, NEW a \in Seq(S), NEW b \in Seq(S)
  PROVE  a \o b \in Seq(S) /\ Len(a \o b) = Len(a) + Len(b)
OBVIOUS

\* The empty sequence changes nothing.
LEMMA ConcatEmpty ==
  ASSUME NEW S, NEW a \in Seq(S)
  PROVE  a \o <<>> = a /\ <<>> \o a = a
OBVIOUS

\* A sequence cut in two.
LEMMA CutInTwo ==
  ASSUME NEW S, NEW a \in Seq(S), NEW n \in 0 .. Len(a)
  PROVE  /\ SubSeq(a, 1, n) \in Seq(S) /\ Len(SubSeq(a, 1, n)) = n
         /\ SubSeq(a, n + 1, Len(a)) \in Seq(S) /\ Len(SubSeq(a, n + 1, Len(a))) = Len(a) - n
         /\ a = SubSeq(a, 1, n) \o SubSeq(a, n + 1, Len(a))
<1>0. Len(a) \in Nat
  OBVIOUS
<1>1. SubSeq(a, 1, n) \in Seq(S) /\ Len(SubSeq(a, 1, n)) = n
  BY <1>0
<1>2. SubSeq(a, n + 1, Len(a)) \in Seq(S) /\ Len(SubSeq(a, n + 1, Len(a))) = Len(a) - n
  BY <1>0
<1>3. a = SubSeq(a, 1, n) \o SubSeq(a, n + 1, Len(a))
  <2>1. \A i \in 1 .. n : SubSeq(a, 1, n)[i] = a[i]
    BY <1>0
  <2>2. \A i \in n + 1 .. Len(a) : SubSeq(a, n + 1, Len(a))[i - n] = a[i]
    BY <1>0
  <2>3. PICK b, d : b = SubSeq(a, 1, n) /\ d = SubSeq(a, n + 1, Len(a))
    OBVIOUS
  <2>4. b \in Seq(S) /\ d \in Seq(S) /\ Len(b) = n /\ Len(d) = Len(a) - n
    BY <1>1, <1>2, <2>3
  <2>5. b \o d \in Seq(S) /\ Len(b \o d) = Len(a)
    BY <1>0, <2>4
  <2>6. ASSUME NEW i \in 1 .. Len(a) PROVE (b \o d)[i] = a[i]
    <3>1. CASE i <= n
      <4>1. i \in 1 .. n
        BY <1>0, <3>1
      <4>2. (b \o d)[i] = b[i]
        BY <1>0, <2>4, <4>1
      <4> QED BY <2>1, <2>3, <4>1, <4>2
    <3>2. CASE i > n
      <4>1. (b \o d)[i] = d[i - n]
        BY <1>0, <2>4, <3>2
      <4>2. d[i - n] = a[i]
        BY <1>0, <2>2, <2>3, <3>2
      <4> QED BY <4>1, <4>2
    <3>3. i <= n \/ i > n
      BY <1>0
    <3> QED BY <3>1, <3>2, <3>3
  <2>7. b \o d = a
    BY <2>5, <2>6, SeqEqual
  <2> QED BY <2>3, <2>7
<1> QED BY <1>1, <1>2, <1>3

\* Bytes(k, n) is a sequence of n bytes.
LEMMA BytesType ==
  ASSUME NEW k \in Nat, NEW n \in Nat
  PROVE  Bytes(k, n) \in Seq(Nat) /\ Len(Bytes(k, n)) = n
BY DEF Bytes

\* Two runs of bytes, one behind the other, are one run.
LEMMA BytesJoin ==
  ASSUME NEW k \in Nat, NEW m \in Nat, NEW n \in Nat
  PROVE  Bytes(k, m) \o Bytes(k + m, n) = Bytes(k, m + n)
BY DEF Bytes

\* a and b, one behind the other, are the n bytes behind byte k.
Parts(a, b, k, n) == a \o b = Bytes(k, n)

\* Both parts are runs of bytes, too.
LEMMA BytesCut ==
  ASSUME NEW k \in Nat, NEW n \in Nat, NEW a \in Seq(Nat), NEW b \in Seq(Nat), Parts(a, b, k, n)
  PROVE  /\ Len(a) \in Nat /\ Len(b) \in Nat /\ Len(a) + Len(b) = n
         /\ \A i \in 1 .. Len(a) : a[i] = k + i
         /\ \A i \in 1 .. Len(b) : b[i] = k + Len(a) + i
<1>1. Len(a) \in Nat /\ Len(b) \in Nat /\ Len(a) + Len(b) = n
  <2>1. Len(a \o b) = Len(a) + Len(b)
    OBVIOUS
  <2>2. Len(a \o b) = n
    BY BytesType DEF Parts
  <2>3. Len(a) \in Nat /\ Len(b) \in Nat
    OBVIOUS
  <2> QED BY <2>1, <2>2, <2>3
<1>2. ASSUME NEW i \in 1 .. Len(a) PROVE a[i] = k + i
  <2>1. i \in 1 .. n /\ (a \o b)[i] = a[i]
    BY <1>1
  <2> QED BY <2>1 DEF Bytes, Parts
<1>3. ASSUME NEW i \in 1 .. Len(b) PROVE b[i] = k + Len(a) + i
  <2>1. Len(a) + i \in 1 .. n /\ (a \o b)[Len(a) + i] = b[i]
    BY <1>1
  <2>2. Bytes(k, n)[Len(a) + i] = k + (Len(a) + i)
    BY <2>1 DEF Bytes
  <2> QED BY <1>1, <2>1, <2>2 DEF Parts
<1> QED BY <1>1, <1>2, <1>3

\* The first part of a run of bytes is the run of its length ...
LEMMA BytesBefore ==
  ASSUME NEW k \in Nat, NEW n \in Nat, NEW a \in Seq(Nat), NEW b \in Seq(Nat), Parts(a, b, k, n),
         NEW m, m = Len(a)
  PROVE  a = Bytes(k, m)
BY BytesCut DEF Bytes

\* ... and the second is the run that follows it.
LEMMA BytesAfter ==
  ASSUME NEW k \in Nat, NEW n \in Nat, NEW a \in Seq(Nat), NEW b \in Seq(Nat), Parts(a, b, k, n),
         NEW m, m = k + Len(a), NEW l, l = n - Len(a)
  PROVE  b = Bytes(m, l)
<1>1. Len(a) \in Nat /\ Len(b) \in Nat /\ l = Len(b)
  BY BytesCut
<1>2. \A i \in 1 .. Len(b) : b[i] = m + i
  BY BytesCut
<1>3. b = Bytes(m, Len(b))
  BY <1>1, <1>2 DEF Bytes
<1> QED BY <1>1, <1>3

\* s rises, up to f at most.
Rising(s, f) == /\ \A i \in 1 .. Len(s) : s[i] <= f
                /\ \A i, j \in 1 .. Len(s) : i < j => s[i] < s[j]

\* The next bytes continue a rising sequence.
LEMMA RisingOn ==
  ASSUME NEW s \in Seq(Nat), NEW f \in Nat, NEW n \in Nat, Rising(s, f)
  PROVE  Rising(s \o Bytes(f, n), f + n)
<1>1. PICK b : b = Bytes(f, n)
  OBVIOUS
<1>2. b \in Seq(Nat) /\ Len(b) = n /\ \A i \in 1 .. n : b[i] = f + i
  BY <1>1, BytesType DEF Bytes
<1>3. Len(s) \in Nat /\ Len(s \o b) = Len(s) + n
  <2>1. Len(s) \in Nat /\ b \in Seq(Nat)
    BY <1>2
  <2>2. Len(s \o b) = Len(s) + Len(b)
    BY ONLY s \in Seq(Nat), <2>1, ConcatType
  <2> QED BY <1>2, <2>1, <2>2
<1>4. \A i \in 1 .. Len(s) : (s \o b)[i] = s[i] /\ s[i] \in Nat /\ s[i] <= f
  BY <1>2, <1>3 DEF Rising
<1>5. \A i \in Len(s) + 1 .. Len(s) + n : (s \o b)[i] = f + (i - Len(s))
  <2>1. SUFFICES ASSUME NEW i \in Len(s) + 1 .. Len(s) + n PROVE (s \o b)[i] = f + (i - Len(s))
    OBVIOUS
  <2>2. i - Len(s) \in 1 .. n
    BY <1>3
  <2>3. (s \o b)[i] = b[i - Len(s)]
    BY <1>2, <1>3
  <2> QED BY <1>2, <2>2, <2>3
<1>6. PICK c : c = s \o b
  OBVIOUS
<1>7. Rising(c, f + n)
  <2>1. Len(c) = Len(s) + n
    BY <1>3, <1>6
  <2>2. \A i \in 1 .. Len(s) : c[i] = s[i] /\ s[i] \in Nat /\ s[i] <= f
    BY <1>4, <1>6
  <2>3. \A i \in Len(s) + 1 .. Len(s) + n : c[i] = f + (i - Len(s))
    BY <1>5, <1>6
  <2>4. \A i, j \in 1 .. Len(s) : i < j => s[i] < s[j]
    BY DEF Rising
  <2>5. ASSUME NEW i \in 1 .. Len(c) PROVE c[i] <= f + n
    <3>1. CASE i \in 1 .. Len(s)
      BY <2>2, <3>1
    <3>2. CASE i \in Len(s) + 1 .. Len(s) + n
      BY <1>3, <2>3, <3>2
    <3> QED BY <1>3, <2>1, <3>1, <3>2
  <2>6. ASSUME NEW i \in 1 .. Len(c), NEW j \in 1 .. Len(c), i < j PROVE c[i] < c[j]
    <3>1. CASE j \in 1 .. Len(s)
      BY <1>3, <2>1, <2>2, <2>4, <2>6, <3>1
    <3>2. CASE i \in 1 .. Len(s) /\ j \in Len(s) + 1 .. Len(s) + n
      BY <1>3, <2>1, <2>2, <2>3, <2>6, <3>2, SMTT(30)
    <3>3. CASE i \in Len(s) + 1 .. Len(s) + n /\ j \in Len(s) + 1 .. Len(s) + n
      BY <1>3, <2>1, <2>3, <2>6, <3>3
    <3> QED BY <1>3, <2>1, <2>6, <3>1, <3>2, <3>3
  <2> QED BY <2>5, <2>6 DEF Rising
<1> QED BY <1>1, <1>6, <1>7

--------------------------------------------------------------------------------
(* The stream. *)

\* What in_queue_ hands out is a sequence of bytes, and forceStop is called
\* three times at most.
StreamBounds == /\ inGot \in [{"render"} -> Seq(Nat)]
                /\ ioPc = "run" => stops = 0
                /\ ioPc \in {"lock", "close", "notify_push", "notify_pop"} => stops <= 2

\* The replies: those up to byte f are written or lost, the others are on their
\* way, in order.
RepliesCut ==
  \E f \in 0 .. replied :
    /\ sending \o FlattenSeq(outItems) = Bytes(f, replied - f)
    /\ ~sendError => sent = Bytes(0, f)
    /\ Rising(sent, f)

\* Nothing is being written outside the loop that writes.
NothingHeld == workerPc # "send" => sending = <<>>

RepliesInv == RepliesCut /\ NothingHeld /\ RepliesDrained

StreamInv == StreamTypeOK /\ StreamBounds /\ CommandsInOrder /\ RepliesInv

\* The bytes in the read buffer are all bytes that were posted and not decoded.
LEMMA BufferedAreLeft ==
  ASSUME StreamTypeOK, CommandsInOrder
  PROVE  /\ FlattenSeq(inItems) \in Seq(Nat)
         /\ posted - decoded \in Nat
         /\ Len(valid) <= posted - decoded
<1>1. valid \in Seq(Nat) /\ left \in Seq(Nat) /\ FlattenSeq(inItems) \in Seq(Nat)
  BY FlattenType DEF StreamTypeOK
<1>2. posted \in Nat /\ decoded \in Nat /\ posted - decoded \in Nat
  BY StreamAssumption DEF StreamTypeOK
<1>3. PICK u : u = left \o FlattenSeq(inItems)
  OBVIOUS
<1>4. u \in Seq(Nat) /\ valid \o u = Bytes(decoded, posted - decoded)
  <2>1. u \in Seq(Nat)
    BY <1>1, <1>3, ConcatType
  <2>2. (valid \o left) \o FlattenSeq(inItems) = valid \o (left \o FlattenSeq(inItems))
    BY ONLY <1>1, SeqAssoc, ZenonT(60)
  <2> QED BY <1>3, <2>1, <2>2 DEF CommandsInOrder
<1>5. Len(valid) \in 0 .. posted - decoded
  <2>1. Len(valid) \in Nat /\ Len(u) \in Nat /\ Len(valid) + Len(u) = posted - decoded
    <3>1. PICK n, k : n = posted - decoded /\ k = decoded
      OBVIOUS
    <3>2. Parts(valid, u, k, n)
      BY <1>4, <3>1 DEF Parts
    <3>3. valid \in Seq(Nat) /\ u \in Seq(Nat) /\ n \in Nat /\ k \in Nat
      BY <1>1, <1>2, <1>4, <3>1
    <3>4. Len(valid) \in Nat /\ Len(u) \in Nat /\ Len(valid) + Len(u) = n
      BY ONLY <3>2, <3>3, BytesCut
    <3> QED BY <3>1, <3>4
  <2> QED BY <2>1
<1> QED BY <1>1, <1>2, <1>5

USE DEF ioVars, inVars, readVars, outVars, sendVars

\* The assumptions on the constants of the stream, each on its own.
LEMMA StreamConstants ==
  /\ CommandBytes \in Nat /\ InCapacity \in Nat \ {0} /\ OutCapacity \in Nat \ {0} /\ BufSize \in Nat \ {0}
  /\ CommandSize \in Nat \ {0} /\ ReplySize \in Nat \ {0}
  /\ \A n \in ChunkSizes : n \in Nat \ {0}
BY StreamAssumption

\* Every step keeps the types and the bounds of the stream.
LEMMA StreamTypeStep ==
  ASSUME StreamTypeOK, StreamBounds, CommandsInOrder, StreamNext
  PROVE  StreamTypeOK' /\ StreamBounds'
<1> USE StreamConstants DEF StreamTypeOK, StreamBounds
<1>1. CASE post_data
  <2>1. PICK n \in ChunkSizes : /\ posted + n <= CommandBytes
                                /\ In!Put("io", Bytes(posted, n))
                                /\ posted' = posted + n
    BY <1>1 DEF post_data
  <2>2. Bytes(posted, n) \in Seq(Nat)
    BY BytesType, SMTT(30)
  <2>3. /\ inItems' = Append(inItems, Bytes(posted, n)) /\ Len(inItems) < InCapacity
        /\ inShut' = inShut /\ inGot' = inGot
    BY <2>1 DEF In!Put
  <2>4. inItems' \in Seq(Seq(Nat)) /\ Len(inItems') <= InCapacity
    <3>1. inItems \in Seq(Seq(Nat)) /\ Len(inItems) \in Nat
      OBVIOUS
    <3>2. Append(inItems, Bytes(posted, n)) \in Seq(Seq(Nat))
      BY <2>2, <3>1, AppendProperties
    <3>3. Len(Append(inItems, Bytes(posted, n))) = Len(inItems) + 1
      BY <2>2, <3>1, AppendProperties
    <3> QED BY <2>3, <3>1, <3>2, <3>3
  <2>5. posted' \in 0 .. CommandBytes /\ decoded \in 0 .. posted'
    <3>1. n \in Nat /\ posted \in Nat
      OBVIOUS
    <3> QED BY <2>1, <3>1
  <2> QED BY <1>1, <2>3, <2>4, <2>5 DEF post_data
<1>2. CASE EndOfFile
  BY <1>2 DEF EndOfFile
<1>3. CASE CloseIn
  BY <1>3 DEF CloseIn, In!Shut
<1>4. CASE CloseOut
  BY <1>4 DEF CloseOut
<1>5. CASE NotifyPush
  BY <1>5 DEF NotifyPush
<1>6. CASE NotifyPop
  BY <1>6 DEF NotifyPop
<1>7. CASE NextDestructor
  BY <1>7 DEF NextDestructor
<1>8. CASE getData
  <2>1. mSize' \in Nat /\ Len(valid) <= mSize'
    BY <1>8 DEF getData
  <2> QED BY <1>8, <2>1 DEF getData
<1>9. CASE ReadCopy
  <2>1. PICK a : a = Least(mSize - Len(valid), Len(left))
    OBVIOUS
  <2>2. a \in 0 .. Len(left) /\ a <= mSize - Len(valid)
    <3>1. Len(left) \in Nat /\ mSize - Len(valid) \in Nat
      OBVIOUS
    <3> QED BY <2>1, <3>1 DEF Least
  <2>3. /\ valid' = valid \o SubSeq(left, 1, a)
        /\ left' = SubSeq(left, a + 1, Len(left))
        /\ fetched' = fetched + a
    BY <1>9, <2>1 DEF ReadCopy
  <2>4. valid' \in Seq(Nat) /\ Len(valid') = Len(valid) + a /\ left' \in Seq(Nat)
    <3>1. /\ SubSeq(left, 1, a) \in Seq(Nat) /\ Len(SubSeq(left, 1, a)) = a
          /\ SubSeq(left, a + 1, Len(left)) \in Seq(Nat)
      <4>1. left \in Seq(Nat)
        OBVIOUS
      <4> QED BY ONLY <2>2, <4>1, CutInTwo
    <3>2. /\ valid \o SubSeq(left, 1, a) \in Seq(Nat)
          /\ Len(valid \o SubSeq(left, 1, a)) = Len(valid) + Len(SubSeq(left, 1, a))
      BY <3>1, ConcatType
    <3> QED BY <2>3, <3>1, <3>2
  <2>5. Len(valid') <= mSize /\ fetched' \in 0 .. Len(valid')
    <3>1. Len(valid) \in Nat /\ Len(left) \in Nat /\ fetched \in 0 .. Len(valid) /\ mSize \in Nat
      OBVIOUS
    <3> QED BY ONLY <2>2, <2>3, <2>4, <3>1
  <2> QED BY <1>9, <2>4, <2>5 DEF ReadCopy
<1>10. CASE ReadPop
  <2>1. Head(inItems) \in Seq(Nat) /\ Tail(inItems) \in Seq(Seq(Nat)) /\ Len(Tail(inItems)) <= InCapacity
    BY <1>10 DEF ReadPop, In!Take
  <2>2. inGot' \in [{"render"} -> Seq(Nat)] /\ left' = Head(inItems)
    BY <1>10, <2>1 DEF ReadPop, In!Take
  <2> QED BY <1>10, <2>1, <2>2 DEF ReadPop, In!Take
<1>11. CASE ReadReturn
  BY <1>11 DEF ReadReturn, In!TakeRefused
<1>12. CASE decode
  <2>1. CASE Len(valid) >= CommandSize
    <3>1. valid' \in Seq(Nat) /\ Len(valid') = Len(valid) - CommandSize
      <4>1. CommandSize \in 0 .. Len(valid)
        BY <2>1
      <4>2. /\ SubSeq(valid, CommandSize + 1, Len(valid)) \in Seq(Nat)
            /\ Len(SubSeq(valid, CommandSize + 1, Len(valid))) = Len(valid) - CommandSize
        <5>1. valid \in Seq(Nat)
          OBVIOUS
        <5> QED BY ONLY <4>1, <5>1, CutInTwo
      <4> QED BY <1>12, <2>1, <4>2 DEF decode
    <3>2. decoded' \in 0 .. posted
      <4>1. Len(valid) <= posted - decoded
        BY BufferedAreLeft
      <4>2. Len(valid) \in Nat /\ decoded' = decoded + CommandSize
        BY <1>12, <2>1 DEF decode
      <4> QED BY <2>1, <4>1, <4>2
    <3>3. Len(valid') <= mSize /\ fetched' \in 0 .. Len(valid')
      BY <1>12, <2>1, <3>1 DEF decode
    <3> QED BY <1>12, <2>1, <3>1, <3>2, <3>3, ZenonT(40) DEF decode
  <2>2. CASE ~(Len(valid) >= CommandSize)
    BY <1>12, <2>2 DEF decode
  <2> QED BY <2>1, <2>2
<1>13. CASE commitBuffer
  BY <1>13 DEF commitBuffer
<1>14. CASE PushReply
  <2>1. Bytes(replied, ReplySize) \in Seq(Nat)
    BY BytesType
  <2>2. outItems' \in Seq(Seq(Nat)) /\ Len(outItems') <= OutCapacity /\ replied' \in Nat
    <3>1. CASE UNCHANGED outVars
      BY <3>1
    <3>2. CASE /\ Len(outItems) < OutCapacity
               /\ outItems' = Append(outItems, Bytes(replied, ReplySize))
               /\ replied' = replied + ReplySize
      <4>1. outItems \in Seq(Seq(Nat)) /\ Len(outItems) \in Nat
        OBVIOUS
      <4>2. outItems' \in Seq(Seq(Nat)) /\ Len(outItems') = Len(outItems) + 1
        BY <2>1, <3>2, <4>1, AppendProperties
      <4> QED BY <3>2, <4>1, <4>2
    <3> QED BY <1>14, <3>1, <3>2 DEF PushReply
  <2> QED BY <1>14, <2>2, ZenonT(40) DEF PushReply
<1>15. CASE PushWait
  BY <1>15 DEF PushWait
<1>16. CASE LockOut
  BY <1>16 DEF LockOut
<1>17. CASE PopReply
  <2>1. outItems' \in Seq(Seq(Nat)) /\ Len(outItems') <= OutCapacity /\ sending' \in Seq(Nat)
    <3>1. CASE UNCHANGED <<outItems, sending>>
      BY <3>1
    <3>2. CASE outItems # <<>> /\ outItems' = Tail(outItems) /\ sending' = Head(outItems)
      <4>1. outItems \in Seq(Seq(Nat)) /\ Len(outItems) \in Nat
        OBVIOUS
      <4>2. /\ Head(outItems) \in Seq(Nat) /\ Tail(outItems) \in Seq(Seq(Nat))
            /\ Len(Tail(outItems)) = Len(outItems) - 1
        BY <3>2, <4>1, HeadTailProperties
      <4> QED BY <3>2, <4>1, <4>2
    <3> QED BY <1>17, <3>1, <3>2 DEF PopReply
  <2>2. renderPc' = renderPc \/ (renderPc = "asleep" /\ renderPc' = "woken")
    BY <1>17 DEF PopReply
  <2>3. /\ workerPc = "pop"
        /\ \/ workerPc' = "done" /\ outLock' = "none"
           \/ workerPc' \in {"to_wait", "send"} /\ outLock' = outLock
    BY <1>17 DEF PopReply
  <2>4. UNCHANGED <<ioVars, inVars, lock, readVars, outShut, replied, sent, sendError>>
    BY <1>17 DEF PopReply
  <2> QED BY <2>1, <2>2, <2>3, <2>4
<1>18. CASE PopWait
  BY <1>18 DEF PopWait
<1>19. CASE send_raw
  <2>1. sending' \in Seq(Nat) /\ sent' \in Seq(Nat)
    <3>1. CASE \E n \in 1 .. Len(sending) : /\ sent' = sent \o SubSeq(sending, 1, n)
                                            /\ sending' = SubSeq(sending, n + 1, Len(sending))
      <4>1. PICK n \in 1 .. Len(sending) : /\ sent' = sent \o SubSeq(sending, 1, n)
                                           /\ sending' = SubSeq(sending, n + 1, Len(sending))
        BY <3>1
      <4>2. n \in 0 .. Len(sending)
        OBVIOUS
      <4>3. SubSeq(sending, 1, n) \in Seq(Nat) /\ SubSeq(sending, n + 1, Len(sending)) \in Seq(Nat)
        BY <4>2, CutInTwo
      <4> QED BY <4>1, <4>3, ConcatType
    <3>2. CASE sending' = <<>> /\ UNCHANGED sent
      BY <3>2
    <3> QED BY <1>19, <3>1, <3>2 DEF send_raw
  <2>2. sendError' = TRUE \/ sendError' = sendError
    BY <1>19 DEF send_raw
  <2>3. UNCHANGED <<ioVars, inVars, lock, readVars, renderPc, outLock, outVars, workerPc>>
    BY <1>19 DEF send_raw
  <2>4. sendError' \in BOOLEAN
    BY <2>2
  <2> QED BY <2>1, <2>3, <2>4
<1>20. CASE ReplyDone
  BY <1>20 DEF ReplyDone
<1>21. CASE SpuriousStreamWakeup
  BY <1>21 DEF SpuriousStreamWakeup
<1> QED
  BY <1>1, <1>2, <1>3, <1>4, <1>5, <1>6, <1>7, <1>8, <1>9, <1>10, <1>11, <1>12, <1>13, <1>14, <1>15,
     <1>16, <1>17, <1>18, <1>19, <1>20, <1>21
  DEF StreamNext, IoDestroys, forceStop, Render, Worker

\* Every step keeps the posted bytes together: what is taken from the front of
\* one buffer is what is put behind the other.
LEMMA CommandsStep ==
  ASSUME StreamTypeOK, StreamBounds, CommandsInOrder, StreamNext
  PROVE  CommandsInOrder'
<1> DEFINE F == FlattenSeq(inItems)
<1>1. /\ valid \in Seq(Nat) /\ left \in Seq(Nat) /\ inItems \in Seq(Seq(Nat)) /\ F \in Seq(Nat)
      /\ posted \in Nat /\ decoded \in Nat /\ posted - decoded \in Nat
      /\ Len(valid) \in Nat /\ Len(left) \in Nat
  BY StreamConstants, BufferedAreLeft DEF StreamTypeOK
<1>2. (valid \o left) \o F = Bytes(decoded, posted - decoded)
  BY DEF CommandsInOrder
<1>3. CASE post_data
  <2>1. PICK n \in ChunkSizes : In!Put("io", Bytes(posted, n)) /\ posted' = posted + n
    BY <1>3 DEF post_data
  <2>2. n \in Nat
    BY StreamConstants
  <2>3. PICK b : b = Bytes(posted, n)
    OBVIOUS
  <2>4. b \in Seq(Nat) /\ inItems' = Append(inItems, b)
    BY <1>1, <2>1, <2>2, <2>3, BytesType DEF In!Put
  <2>5. FlattenSeq(inItems') = F \o b
    BY <1>1, <2>4, FlattenAppend
  <2>6. (valid \o left) \o (F \o b) = ((valid \o left) \o F) \o b
    <3>1. valid \o left \in Seq(Nat)
      BY <1>1, ConcatType
    <3> QED BY ONLY <1>1, <2>4, <3>1, SeqAssoc, ZenonT(60)
  <2>7. Bytes(decoded, posted - decoded) \o Bytes(decoded + (posted - decoded), n)
          = Bytes(decoded, (posted - decoded) + n)
    BY <1>1, <2>2, BytesJoin, ZenonT(40)
  <2>8. decoded + (posted - decoded) = posted /\ (posted - decoded) + n = posted' - decoded
    BY <1>1, <2>1, <2>2
  <2>9. Bytes(decoded, posted - decoded) \o b = Bytes(decoded, posted' - decoded)
    BY <2>3, <2>7, <2>8
  <2>10. (valid \o left) \o FlattenSeq(inItems') = Bytes(decoded, posted' - decoded)
    BY <1>2, <2>5, <2>6, <2>9
  <2>11. valid' = valid /\ left' = left /\ decoded' = decoded
    BY <1>3 DEF post_data
  <2> QED BY <2>10, <2>11 DEF CommandsInOrder
<1>4. CASE ReadCopy
  <2>1. PICK a : a = Least(mSize - Len(valid), Len(left))
    OBVIOUS
  <2>2. a \in 0 .. Len(left)
    <3>1. mSize - Len(valid) \in Nat
      BY <1>1 DEF StreamTypeOK
    <3> QED BY <1>1, <2>1, <3>1 DEF Least
  <2>3. PICK b, d : b = SubSeq(left, 1, a) /\ d = SubSeq(left, a + 1, Len(left))
    OBVIOUS
  <2>4. b \in Seq(Nat) /\ d \in Seq(Nat) /\ left = b \o d
    BY <1>1, <2>2, <2>3, CutInTwo
  <2>5. valid' = valid \o b /\ left' = d /\ UNCHANGED <<inItems, posted, decoded>>
    BY <1>4, <2>1, <2>3 DEF ReadCopy
  <2>6. (valid \o b) \o d = valid \o left
    <3>1. (valid \o b) \o d = valid \o (b \o d)
      BY ONLY <1>1, <2>4, SeqAssoc, ZenonT(60)
    <3> QED BY <2>4, <3>1
  <2> QED BY <1>2, <2>5, <2>6 DEF CommandsInOrder
<1>5. CASE ReadPop
  <2>1. /\ inItems # <<>> /\ inItems' = Tail(inItems) /\ left = <<>>
        /\ UNCHANGED <<valid, posted, decoded>>
    BY <1>5 DEF ReadPop, In!Take
  <2>2. left' = Head(inItems)
    BY <1>5 DEF ReadPop, In!Take, StreamBounds
  <2>3. Head(inItems) \in Seq(Nat) /\ Tail(inItems) \in Seq(Seq(Nat))
    BY <1>1, <2>1, HeadTailProperties
  <2>4. F = Head(inItems) \o FlattenSeq(Tail(inItems)) /\ FlattenSeq(Tail(inItems)) \in Seq(Nat)
    BY <1>1, <2>1, <2>3, FlattenHead, FlattenType
  <2>5. (valid \o Head(inItems)) \o FlattenSeq(Tail(inItems)) = valid \o F
    <3>1. PICK h, t : h = Head(inItems) /\ t = FlattenSeq(Tail(inItems))
      OBVIOUS
    <3>2. valid \in Seq(Nat) /\ h \in Seq(Nat) /\ t \in Seq(Nat)
      BY <1>1, <2>3, <2>4, <3>1
    <3>3. (valid \o h) \o t = valid \o (h \o t)
      BY ONLY <3>2, SeqAssoc, ZenonT(60)
    <3> QED BY <2>4, <3>1, <3>3
  <2>6. valid \o left = valid
    BY <1>1, <2>1, ConcatEmpty
  <2> QED BY <1>2, <2>1, <2>2, <2>5, <2>6 DEF CommandsInOrder
<1>6. CASE decode
  <2>1. CASE Len(valid) >= CommandSize
    <3>1. CommandSize \in 0 .. Len(valid)
      BY <1>1, <2>1, StreamConstants
    <3>2. PICK b, d : b = SubSeq(valid, 1, CommandSize) /\ d = SubSeq(valid, CommandSize + 1, Len(valid))
      OBVIOUS
    <3>3. b \in Seq(Nat) /\ d \in Seq(Nat) /\ valid = b \o d /\ Len(b) = CommandSize
      BY <1>1, <3>1, <3>2, CutInTwo, ZenonT(60)
    <3>t. b \in Seq(Nat) /\ d \in Seq(Nat) /\ left \in Seq(Nat) /\ F \in Seq(Nat)
      BY <1>1, <3>3
    <3>4. PICK u : u = (d \o left) \o F
      OBVIOUS
    <3>5. u \in Seq(Nat) /\ b \o u = Bytes(decoded, posted - decoded)
      <4>1. d \o left \in Seq(Nat) /\ u \in Seq(Nat)
        BY <1>1, <3>3, <3>4, ConcatType
      <4>2. b \o (d \o left) = valid \o left
        <5>1. (b \o d) \o left = b \o (d \o left)
          BY ONLY <3>t, SeqAssoc, ZenonT(60)
        <5> QED BY <3>3, <5>1
      <4>3. b \o ((d \o left) \o F) = (b \o (d \o left)) \o F
        BY ONLY <3>t, <4>1, SeqAssoc, ZenonT(60)
      <4> QED BY <1>2, <3>4, <4>1, <4>2, <4>3
    <3>6. /\ valid' = d /\ decoded' = decoded + CommandSize
          /\ UNCHANGED <<left, inItems, posted>>
      BY <1>6, <2>1, <3>2 DEF decode
    <3>7. posted - decoded' = (posted - decoded) - Len(b)
      BY <1>1, <3>1, <3>3, <3>6
    <3>8. decoded' = decoded + Len(b)
      BY <3>3, <3>6
    <3>9. u = Bytes(decoded', posted - decoded')
      <4>1. Parts(b, u, decoded, posted - decoded)
        BY <3>5 DEF Parts
      <4> QED BY <1>1, <3>t, <3>5, <3>7, <3>8, <4>1, BytesAfter
    <3> QED BY <3>4, <3>6, <3>9 DEF CommandsInOrder
  <2>2. CASE ~(Len(valid) >= CommandSize)
    BY <1>6, <2>2 DEF decode, CommandsInOrder
  <2> QED BY <2>1, <2>2
<1>7. CASE UNCHANGED <<valid, left, inItems, posted, decoded>>
  BY <1>7 DEF CommandsInOrder
<1>8. \/ post_data \/ ReadCopy \/ ReadPop \/ decode
      \/ UNCHANGED <<valid, left, inItems, posted, decoded>>
  BY DEF StreamNext, IoDestroys, forceStop, Render, Worker, EndOfFile, CloseIn, CloseOut, NotifyPush,
         NotifyPop, NextDestructor, getData, ReadReturn, commitBuffer, PushReply, PushWait, LockOut, PopReply,
         PopWait, send_raw, ReplyDone, SpuriousStreamWakeup, In!Shut, In!TakeRefused
<1> QED BY <1>3, <1>4, <1>5, <1>6, <1>7, <1>8

\* Every step keeps the replies together, and with them the cut f between those
\* that left the stream and those that are on their way.
LEMMA RepliesStep ==
  ASSUME StreamTypeOK, RepliesInv, StreamNext
  PROVE  RepliesInv'
<1> DEFINE F == FlattenSeq(outItems)
<1>1. /\ sending \in Seq(Nat) /\ sent \in Seq(Nat) /\ outItems \in Seq(Seq(Nat)) /\ F \in Seq(Nat)
      /\ replied \in Nat /\ Len(sending) \in Nat /\ Len(sent) \in Nat
  BY FlattenType DEF StreamTypeOK
<1>2. PICK f \in 0 .. replied : /\ sending \o F = Bytes(f, replied - f)
                                /\ ~sendError => sent = Bytes(0, f)
                                /\ Rising(sent, f)
  BY DEF RepliesInv, RepliesCut
<1>3. f \in Nat /\ replied - f \in Nat
  BY <1>1
<1>4. CASE /\ PushReply /\ outItems' = Append(outItems, Bytes(replied, ReplySize))
           /\ replied' = replied + ReplySize
  <2>1. PICK b : b = Bytes(replied, ReplySize)
    OBVIOUS
  <2>2. b \in Seq(Nat) /\ ReplySize \in Nat
    BY <1>1, <2>1, BytesType, StreamConstants
  <2>3. FlattenSeq(outItems') = F \o b
    BY <1>1, <1>4, <2>1, <2>2, FlattenAppend
  <2>4. sending \o (F \o b) = (sending \o F) \o b
    BY ONLY <1>1, <2>2, SeqAssoc, ZenonT(60)
  <2>5. Bytes(f, replied - f) \o Bytes(f + (replied - f), ReplySize) = Bytes(f, (replied - f) + ReplySize)
    BY <1>3, <2>2, BytesJoin
  <2>6. f + (replied - f) = replied /\ (replied - f) + ReplySize = replied' - f /\ f \in 0 .. replied'
    BY <1>1, <1>3, <1>4, <2>2
  <2>7. Bytes(f, replied - f) \o b = Bytes(f, replied' - f)
    BY <2>1, <2>5, <2>6
  <2>8. sending \o FlattenSeq(outItems') = Bytes(f, replied' - f)
    BY <1>2, <2>3, <2>4, <2>7
  <2>9. sending' = sending /\ sent' = sent /\ sendError' = sendError /\ ~outShut
    BY <1>4 DEF PushReply
  <2>10. RepliesCut'
    BY <1>2, <2>6, <2>8, <2>9 DEF RepliesCut
  <2>11. workerPc' = workerPc \/ (workerPc = "asleep" /\ workerPc' = "lock")
    BY <1>4 DEF PushReply
  <2> QED BY <2>9, <2>10, <2>11 DEF RepliesInv, NothingHeld, RepliesDrained
<1>5. CASE PopReply /\ outItems # <<>>
  <2>1. /\ outItems' = Tail(outItems) /\ sending' = Head(outItems) /\ workerPc = "pop" /\ workerPc' = "send"
        /\ UNCHANGED <<replied, sent, sendError>>
    BY <1>5 DEF PopReply
  <2>2. sending = <<>>
    BY <2>1 DEF RepliesInv, NothingHeld
  <2>3. F = Head(outItems) \o FlattenSeq(Tail(outItems))
    BY <1>1, <1>5, FlattenHead
  <2>4. sending \o F = F
    BY <1>1, <2>2, ConcatEmpty
  <2>5. RepliesCut'
    BY <1>2, <2>1, <2>3, <2>4 DEF RepliesCut
  <2> QED BY <2>1, <2>5 DEF RepliesInv, NothingHeld, RepliesDrained
<1>6. CASE send_raw
  <2>1. workerPc = "send" /\ UNCHANGED <<outItems, replied, workerPc>>
    BY <1>6 DEF send_raw
  <2>2. ASSUME NEW n \in 1 .. Len(sending), sent' = sent \o SubSeq(sending, 1, n),
               sending' = SubSeq(sending, n + 1, Len(sending)), sendError' = sendError
        PROVE  RepliesCut'
    <3>1. PICK b, d : b = SubSeq(sending, 1, n) /\ d = SubSeq(sending, n + 1, Len(sending))
      OBVIOUS
    <3>2. n \in 0 .. Len(sending) /\ n \in Nat
      BY <1>1
    <3>3. b \in Seq(Nat) /\ d \in Seq(Nat) /\ Len(b) = n /\ sending = b \o d
      BY <1>1, <3>1, <3>2, CutInTwo, ZenonT(60)
    <3>4. PICK u : u = d \o F
      OBVIOUS
    <3>5. u \in Seq(Nat) /\ b \in Seq(Nat) /\ d \in Seq(Nat) /\ F \in Seq(Nat)
      BY <1>1, <3>3, <3>4, ConcatType
    <3>6. (b \o d) \o F = b \o (d \o F)
      BY ONLY <3>5, SeqAssoc, ZenonT(60)
    <3>7. PICK m : m = replied - f
      OBVIOUS
    <3>8. m \in Nat /\ Parts(b, u, f, m)
      BY <1>2, <1>3, <3>3, <3>4, <3>6, <3>7 DEF Parts
    <3>9. Len(b) + Len(u) = m /\ Len(u) \in Nat
      BY <1>3, <3>5, <3>8, BytesCut
    <3>10. b = Bytes(f, n)
      BY <1>3, <3>3, <3>5, <3>8, BytesBefore
    <3>11. PICK g : g = f + n
      OBVIOUS
    <3>12. g \in 0 .. replied /\ replied - g = m - Len(b)
      BY <1>1, <1>3, <3>2, <3>3, <3>7, <3>9, <3>11
    <3>13. u = Bytes(g, replied - g)
      <4>1. PICK l : l = replied - g
        OBVIOUS
      <4>2. l = m - Len(b) /\ g = f + Len(b)
        BY <3>3, <3>11, <3>12, <4>1
      <4>3. u = Bytes(g, l)
        BY ONLY <1>3, <3>5, <3>8, <4>2, BytesAfter
      <4> QED BY <4>1, <4>3
    <3>14. Rising(sent', g)
      BY <1>1, <1>2, <1>3, <2>2, <3>1, <3>2, <3>10, <3>11, RisingOn
    <3>15. ~sendError' => sent' = Bytes(0, g)
      <4>1. Bytes(0, f) \o Bytes(0 + f, n) = Bytes(0, f + n) /\ 0 + f = f
        <5>1. 0 \in Nat /\ f \in Nat /\ n \in Nat /\ 0 + f = f
          BY <1>3, <3>2
        <5> QED BY ONLY <5>1, BytesJoin
      <4> QED BY <1>2, <2>2, <3>1, <3>10, <3>11, <4>1
    <3>16. sending' \o FlattenSeq(outItems') = Bytes(g, replied' - g)
      BY <2>1, <2>2, <3>1, <3>4, <3>13
    <3> QED BY <2>1, <3>12, <3>14, <3>15, <3>16 DEF RepliesCut
  <2>3. ASSUME sending' = <<>>, sendError' = TRUE, sent' = sent
        PROVE  RepliesCut'
    <3>1. PICK m : m = replied - f
      OBVIOUS
    <3>2. m \in Nat /\ Parts(sending, F, f, m)
      BY <1>2, <1>3, <3>1 DEF Parts
    <3>3. Len(sending) + Len(F) = m /\ Len(F) \in Nat
      BY <1>1, <1>3, <3>2, BytesCut
    <3>4. PICK g : g = f + Len(sending)
      OBVIOUS
    <3>5. g \in 0 .. replied /\ replied - g = m - Len(sending) /\ f <= g
      BY <1>1, <1>3, <3>1, <3>3, <3>4
    <3>6. F = Bytes(g, replied - g)
      BY <1>1, <1>3, <3>2, <3>4, <3>5, BytesAfter
    <3>7. Rising(sent, g)
      <4>1. \A i \in 1 .. Len(sent) : sent[i] \in Nat /\ sent[i] <= f
        BY <1>1, <1>2 DEF Rising
      <4>2. \A i \in 1 .. Len(sent) : sent[i] <= g
        BY <1>1, <1>3, <3>5, <4>1
      <4> QED BY <1>2, <4>2 DEF Rising
    <3>8. sending' \o FlattenSeq(outItems') = F
      BY <1>1, <2>1, <2>3, ConcatEmpty
    <3> QED BY <2>1, <2>3, <3>5, <3>6, <3>7, <3>8 DEF RepliesCut
  <2>4. RepliesCut'
    BY <1>6, <2>2, <2>3 DEF send_raw
  <2> QED BY <2>1, <2>4 DEF RepliesInv, NothingHeld, RepliesDrained
<1>7. ASSUME UNCHANGED <<outItems, replied, sending, sent, sendError>>,
             NothingHeld', RepliesDrained'
      PROVE  RepliesInv'
  BY <1>7 DEF RepliesInv, RepliesCut
<1>8. CASE PopReply /\ outItems = <<>>
  BY <1>7, <1>8 DEF PopReply, RepliesInv, NothingHeld, RepliesDrained
<1>9. CASE PushReply /\ UNCHANGED outVars /\ UNCHANGED workerPc
  BY <1>7, <1>9 DEF PushReply, RepliesInv, NothingHeld, RepliesDrained
<1>10. CASE CloseOut
  BY <1>7, <1>10 DEF CloseOut, RepliesInv, NothingHeld, RepliesDrained
<1> DEFINE Quiet == /\ UNCHANGED <<outItems, outShut, replied, sending, sent, sendError>>
                    /\ \/ workerPc' = workerPc
                       \/ workerPc' # "done" /\ workerPc # "send"
                       \/ workerPc' = "lock" /\ sending = <<>>
<1>11. CASE Quiet
  BY <1>7, <1>11 DEF RepliesInv, NothingHeld, RepliesDrained
<1>12. CASE PopReply
  BY <1>5, <1>8, <1>12
<1>13. CASE PushReply
  <2>1. \/ outItems' = Append(outItems, Bytes(replied, ReplySize)) /\ replied' = replied + ReplySize
        \/ UNCHANGED outVars /\ UNCHANGED workerPc
    BY <1>13 DEF PushReply
  <2> QED BY <1>4, <1>9, <1>13, <2>1
<1>14. NotifyPop => Quiet
  BY DEF NotifyPop
<1>15. LockOut \/ PopWait \/ ReplyDone => Quiet
  BY DEF LockOut, PopWait, ReplyDone
<1>16. SpuriousStreamWakeup => Quiet
  BY DEF SpuriousStreamWakeup
<1>17. post_data \/ EndOfFile \/ CloseIn \/ NotifyPush \/ NextDestructor \/ getData \/ ReadCopy \/ ReadPop
         \/ ReadReturn \/ decode \/ commitBuffer \/ PushWait => Quiet
  BY DEF post_data, EndOfFile, CloseIn, NotifyPush, NextDestructor, getData, ReadCopy, ReadPop, ReadReturn,
         decode, commitBuffer, PushWait
<1> HIDE DEF Quiet
<1> QED
  BY <1>6, <1>10, <1>11, <1>12, <1>13, <1>14, <1>15, <1>16, <1>17
  DEF StreamNext, IoDestroys, forceStop, Render, Worker

\* What has been written and what is on its way, put behind one another.
LEMMA RepliesInOrderNow ==
  ASSUME StreamTypeOK, RepliesInv
  PROVE  RepliesIntact
<1> DEFINE F == FlattenSeq(outItems)
<1>1. sending \in Seq(Nat) /\ sent \in Seq(Nat) /\ F \in Seq(Nat) /\ replied \in Nat
  BY FlattenType DEF StreamTypeOK
<1>2. PICK f \in 0 .. replied : /\ sending \o F = Bytes(f, replied - f)
                                /\ ~sendError => sent = Bytes(0, f)
                                /\ Rising(sent, f)
  BY DEF RepliesInv, RepliesCut
<1>3. f \in Nat /\ replied - f \in Nat /\ f + (replied - f) = replied
  BY <1>1
<1>4. PICK r : r = (sent \o sending) \o F
  OBVIOUS
<1>5. r = sent \o Bytes(f, replied - f)
  <2>1. (sent \o sending) \o F = sent \o (sending \o F)
    BY ONLY <1>1, SeqAssoc, ZenonT(60)
  <2> QED BY <1>2, <1>4, <2>1
<1>6. Rising(r, replied)
  BY <1>1, <1>2, <1>3, <1>5, RisingOn
<1>7. ~sendError => r = Bytes(0, replied)
  <2>1. Bytes(0, f) \o Bytes(0 + f, replied - f) = Bytes(0, f + (replied - f)) /\ 0 + f = f
    <3>1. 0 \in Nat /\ 0 + f = f
      BY <1>3
    <3> QED BY ONLY <1>3, <3>1, BytesJoin
  <2> QED BY <1>2, <1>3, <1>5, <2>1
<1>8. \A i \in 1 .. Len(r) - 1 : r[i] < r[i + 1]
  <2>1. Len(r) \in Nat
    BY <1>1, <1>4, ConcatType
  <2> QED BY <1>6, <2>1 DEF Rising
<1>9. RepliesInOrder
  BY <1>4, <1>7, <1>8 DEF RepliesInOrder
<1> QED BY <1>9 DEF RepliesInv, RepliesIntact

\* The invariant holds of a new stream ...
LEMMA StreamInvInit ==
  ASSUME StreamInit
  PROVE  StreamInv
<1>1. StreamTypeOK /\ StreamBounds
  <2>1. <<>> \in Seq(Nat) /\ <<>> \in Seq(Seq(Nat)) /\ Len(<<>>) = 0
    OBVIOUS
  <2>2. inGot \in [{"render"} -> Seq(Nat)]
    BY <2>1 DEF StreamInit, In!FifoInit
  <2>3. StreamBounds
    BY <2>2 DEF StreamInit, StreamBounds
  <2>4. /\ stops \in 0 .. 3 /\ posted \in 0 .. CommandBytes /\ mSize \in Nat /\ Len(valid) <= mSize
        /\ fetched \in 0 .. Len(valid) /\ decoded \in 0 .. posted /\ replied \in Nat
    BY <2>1, StreamConstants DEF StreamInit
  <2>5. /\ inItems \in Seq(Seq(Nat)) /\ Len(inItems) <= InCapacity
        /\ outItems \in Seq(Seq(Nat)) /\ Len(outItems) <= OutCapacity
        /\ left \in Seq(Nat) /\ valid \in Seq(Nat) /\ sending \in Seq(Nat) /\ sent \in Seq(Nat)
    BY <2>1, StreamConstants DEF StreamInit, In!FifoInit
  <2>6. inShut \in BOOLEAN /\ outShut \in BOOLEAN /\ sendError \in BOOLEAN
    BY DEF StreamInit, In!FifoInit
  <2>7. ioPc = "run" /\ renderPc = "getData" /\ workerPc = "lock" /\ lock = "none" /\ outLock = "none"
    BY DEF StreamInit
  <2> QED BY <2>3, <2>4, <2>5, <2>6, <2>7 DEF StreamTypeOK
<1>2. CommandsInOrder
  <2>1. valid = <<>> /\ left = <<>> /\ inItems = <<>> /\ decoded = 0 /\ posted = 0
    BY DEF StreamInit, In!FifoInit
  <2>2. FlattenSeq(inItems) = <<>>
    BY <2>1, FlattenEmpty
  <2>3. Bytes(0, 0 - 0) = <<>>
    BY DEF Bytes
  <2> QED BY <2>1, <2>2, <2>3 DEF CommandsInOrder
<1>3. sending = <<>> /\ sent = <<>> /\ outItems = <<>> /\ replied = 0 /\ workerPc = "lock"
  BY DEF StreamInit
<1>4. RepliesCut
  <2>1. FlattenSeq(outItems) = <<>>
    BY <1>3, FlattenEmpty
  <2>2. Bytes(0, 0) = <<>> /\ 0 - 0 = 0
    BY DEF Bytes
  <2>3. Rising(<<>>, 0)
    BY DEF Rising
  <2> QED BY <1>3, <2>1, <2>2, <2>3 DEF RepliesCut
<1> QED BY <1>1, <1>2, <1>3, <1>4 DEF StreamInv, RepliesInv, NothingHeld, RepliesDrained

\* ... and always.
LEMMA StreamInvariant == StreamSpec => []StreamInv
<1>1. StreamInit => StreamInv
  BY StreamInvInit
<1>2. StreamInv /\ [StreamNext]_streamVars => StreamInv'
  <2> SUFFICES ASSUME StreamInv, [StreamNext]_streamVars PROVE StreamInv'
    OBVIOUS
  <2>1. CASE StreamNext
    BY <2>1, StreamTypeStep, CommandsStep, RepliesStep DEF StreamInv
  <2>2. CASE UNCHANGED streamVars
    <3>1. StreamTypeOK' /\ StreamBounds' /\ CommandsInOrder'
      BY <2>2, SMTT(30) DEF StreamInv, streamVars, StreamTypeOK, StreamBounds, CommandsInOrder
    <3>2. RepliesInv'
      BY <2>2 DEF StreamInv, streamVars, RepliesInv, RepliesCut, NothingHeld, RepliesDrained
    <3> QED BY <3>1, <3>2 DEF StreamInv
  <2> QED BY <2>1, <2>2
<1> QED BY <1>1, <1>2, PTL DEF StreamSpec

\* BufferedIOStream::read and the processor that posts to it lose, repeat and
\* reorder no byte of a command, for every chunk size, command size and capacity.
THEOREM CommandsStayIntact == StreamSpec => []CommandsIntact
<1>1. StreamInv => CommandsIntact
  BY DEF StreamInv, CommandsIntact
<1> QED BY <1>1, StreamInvariant, PTL

\* Replies reach the socket in order and, until a write fails, without a gap, and
\* thread_main ends only with an empty queue: through commitBuffer, pop_locked,
\* partial writes, spurious wake-ups and a close at any moment.
THEOREM RepliesStayIntact == StreamSpec => []RepliesIntact
<1>1. StreamInv => RepliesIntact
  BY RepliesInOrderNow DEF StreamInv
<1> QED BY <1>1, StreamInvariant, PTL

--------------------------------------------------------------------------------
(* Sound. *)

\* The bytes of a connection: played, in the callback's buffer, in the queue, handed to
\* write_data and in the socket, put behind one another.
Chain(p, r, f, h, s) == (((p \o r) \o f) \o h) \o s

\* They are the bytes written, without the first k.
IsChain(p, r, f, h, s, k, w) == Chain(p, r, f, h, s) = Bytes(k, w - k)

\* What is written next continues the run of bytes.
LEMMA BytesWrite ==
  ASSUME NEW a \in Seq(Nat), NEW s \in Seq(Nat), NEW w \in Nat, NEW k \in 0 .. w, NEW n \in Nat,
         Parts(a, s, k, w - k)
  PROVE  Parts(a, s \o Bytes(w, n), k, (w + n) - k)
<1>1. PICK b : b = Bytes(w, n)
  OBVIOUS
<1>2. a \in Seq(Nat) /\ s \in Seq(Nat) /\ b \in Seq(Nat)
  BY <1>1, BytesType
<1>3. (a \o s) \o b = a \o (s \o b)
  BY ONLY <1>2, SeqAssoc, ZenonT(60)
<1>4. k \in Nat /\ w - k \in Nat /\ k + (w - k) = w /\ (w - k) + n = (w + n) - k
  OBVIOUS
<1>5. Bytes(k, w - k) \o Bytes(k + (w - k), n) = Bytes(k, (w - k) + n)
  BY ONLY <1>4, BytesJoin, n \in Nat
<1> QED BY <1>1, <1>3, <1>4, <1>5 DEF Parts

\* The guest writes n bytes to the socket.
LEMMA ChainWrite ==
  ASSUME NEW p \in Seq(Nat), NEW r \in Seq(Nat), NEW f \in Seq(Nat), NEW h \in Seq(Nat), NEW s \in Seq(Nat),
         NEW w \in Nat, NEW k \in 0 .. w, NEW n \in Nat, IsChain(p, r, f, h, s, k, w)
  PROVE  IsChain(p, r, f, h, s \o Bytes(w, n), k, w + n)
<1>1. PICK a : a = ((p \o r) \o f) \o h
  OBVIOUS
<1>2. a \in Seq(Nat)
  BY <1>1, ConcatType
<1>3. Parts(a, s, k, w - k)
  BY <1>1 DEF IsChain, Chain, Parts
<1>4. Parts(a, s \o Bytes(w, n), k, (w + n) - k)
  BY <1>2, <1>3, BytesWrite
<1> QED BY <1>1, <1>4 DEF IsChain, Chain, Parts

\* on_read_size takes the first bytes of the socket.
LEMMA ChainRead ==
  ASSUME NEW p \in Seq(Nat), NEW r \in Seq(Nat), NEW f \in Seq(Nat), NEW b \in Seq(Nat), NEW d \in Seq(Nat),
         NEW k, NEW w, NEW s, s = b \o d, NEW h, h = <<>>, IsChain(p, r, f, h, s, k, w)
  PROVE  IsChain(p, r, f, b, d, k, w)
<1>1. PICK a : a = (p \o r) \o f
  OBVIOUS
<1>2. a \in Seq(Nat)
  BY <1>1, ConcatType
<1>3. a \o <<>> = a
  BY <1>2, ConcatEmpty
<1>4. (a \o b) \o d = a \o (b \o d)
  BY ONLY <1>2, SeqAssoc, ZenonT(60), b \in Seq(Nat), d \in Seq(Nat)
<1> QED BY <1>1, <1>3, <1>4 DEF IsChain, Chain

\* write_data puts them into the queue.
LEMMA ChainPush ==
  ASSUME NEW p \in Seq(Nat), NEW r \in Seq(Nat), NEW f \in Seq(Nat), NEW h \in Seq(Nat), NEW s \in Seq(Nat),
         NEW k, NEW w, IsChain(p, r, f, h, s, k, w)
  PROVE  IsChain(p, r, f \o h, <<>>, s, k, w)
<1>1. PICK a : a = p \o r
  OBVIOUS
<1>2. a \in Seq(Nat) /\ f \o h \in Seq(Nat) /\ a \o (f \o h) \in Seq(Nat)
  BY <1>1, ConcatType
<1>3. (a \o f) \o h = a \o (f \o h)
  <2>1. a \in Seq(Nat) /\ f \in Seq(Nat) /\ h \in Seq(Nat)
    BY <1>2
  <2> QED BY ONLY <2>1, SeqAssoc, ZenonT(60)
<1>4. (a \o (f \o h)) \o <<>> = a \o (f \o h)
  BY <1>2, ConcatEmpty
<1> QED BY <1>1, <1>3, <1>4 DEF IsChain, Chain

\* It skips them for want of a device, before anything was played or queued.
LEMMA ChainSkip ==
  ASSUME NEW h \in Seq(Nat), NEW s \in Seq(Nat), NEW w \in Nat, NEW k \in 0 .. w,
         IsChain(<<>>, <<>>, <<>>, h, s, k, w)
  PROVE  /\ k + Len(h) \in 0 .. w
         /\ IsChain(<<>>, <<>>, <<>>, <<>>, s, k + Len(h), w)
         /\ \A i \in 1 .. Len(h) : h[i] = k + i
<1>1. ((<<>> \o <<>>) \o <<>>) \o h = h /\ (((<<>> \o <<>>) \o <<>>) \o <<>>) \o s = s
  <2>1. <<>> \o <<>> = <<>>
    BY EmptySeq, ConcatEmpty
  <2> QED BY <2>1, ConcatEmpty
<1>2. PICK m : m = w - k
  OBVIOUS
<1>3. m \in Nat /\ k \in Nat
  BY <1>2
<1>4. Parts(h, s, k, m)
  BY <1>1, <1>2 DEF IsChain, Chain, Parts
<1>5. /\ Len(h) \in Nat /\ Len(s) \in Nat /\ Len(h) + Len(s) = m
      /\ \A i \in 1 .. Len(h) : h[i] = k + i
  BY <1>3, <1>4, BytesCut
<1>6. PICK g : g = k + Len(h)
  OBVIOUS
<1>7. g \in 0 .. w /\ w - g = m - Len(h)
  BY <1>2, <1>3, <1>5, <1>6
<1>8. PICK l : l = w - g
  OBVIOUS
<1>9. s = Bytes(g, l)
  <2>1. l = m - Len(h)
    BY <1>7, <1>8
  <2> QED BY <1>3, <1>4, <1>6, <2>1, BytesAfter
<1>10. IsChain(<<>>, <<>>, <<>>, <<>>, s, g, w)
  BY <1>1, <1>8, <1>9 DEF IsChain, Chain
<1> QED BY <1>5, <1>6, <1>7, <1>10

\* read_data copies the first bytes of what is left in its buffer, ...
LEMMA ChainCopy ==
  ASSUME NEW p \in Seq(Nat), NEW b \in Seq(Nat), NEW d \in Seq(Nat), NEW r, r = b \o d,
         NEW f, NEW h, NEW s, NEW k, NEW w, IsChain(p, r, f, h, s, k, w)
  PROVE  IsChain(p \o b, d, f, h, s, k, w)
<1>1. (p \o b) \o d = p \o (b \o d)
  BY ONLY SeqAssoc, ZenonT(60), p \in Seq(Nat), b \in Seq(Nat), d \in Seq(Nat)
<1> QED BY <1>1 DEF IsChain, Chain

\* ... or pops the next buffer.
LEMMA ChainPop ==
  ASSUME NEW p \in Seq(Nat), NEW a \in Seq(Nat), NEW g \in Seq(Nat), NEW f, f = a \o g, NEW r, r = <<>>,
         NEW h, NEW s, NEW k, NEW w, IsChain(p, r, f, h, s, k, w)
  PROVE  IsChain(p, a, g, h, s, k, w)
<1>1. (p \o a) \o g = p \o (a \o g)
  BY ONLY SeqAssoc, ZenonT(60), p \in Seq(Nat), a \in Seq(Nat), g \in Seq(Nat)
<1>2. p \o <<>> = p
  BY ConcatEmpty
<1> QED BY <1>1, <1>2 DEF IsChain, Chain

\* Of two sequences put behind one another, an index behind the first is one of
\* the second.
LEMMA ConcatSecond ==
  ASSUME NEW b \in Seq(Nat), NEW d \in Seq(Nat), NEW i \in Len(b) + 1 .. Len(b) + Len(d)
  PROVE  (b \o d)[i] = d[i - Len(b)]
OBVIOUS

\* m bytes of a buffer, behind its first n.
IsSlice(b, a, n, m) == n + m <= Len(a) /\ b = SubSeq(a, n + 1, n + m)
IsCopy(b, a, n, m) == b \in Seq(Nat) /\ Len(b) = m /\ \A i \in 1 .. m : b[i] = a[n + i]

LEMMA Slice ==
  ASSUME NEW a \in Seq(Nat), NEW n \in Nat, NEW m \in Nat, NEW b, IsSlice(b, a, n, m)
  PROVE  IsCopy(b, a, n, m)
<1>1. \A i \in 1 .. m : n + i \in 1 .. Len(a) /\ a[n + i] \in Nat
  BY DEF IsSlice
<1>2. b = [i \in 1 .. m |-> a[n + i]]
  BY DEF IsSlice
<1> QED BY <1>1, <1>2 DEF IsCopy

\* What is left of a buffer, after the first m of its bytes are copied.
LEMMA CutRest ==
  ASSUME NEW a \in Seq(Nat), NEW l \in 0 .. Len(a), NEW m \in 0 .. l
  PROVE  LET from == Len(a) - l
             b == SubSeq(a, from + 1, from + m)
             d == SubSeq(a, Len(a) - (l - m) + 1, Len(a))
         IN  /\ b \in Seq(Nat) /\ d \in Seq(Nat)
             /\ SubSeq(a, from + 1, Len(a)) = b \o d
<1>0. Len(a) \in Nat /\ l \in Nat /\ m \in Nat /\ l - m \in 0 .. Len(a)
  OBVIOUS
<1>1. PICK n : n = Len(a) - l
  OBVIOUS
<1>2. n \in 0 .. Len(a) /\ n + m \in 0 .. Len(a) /\ Len(a) - (l - m) = n + m
  BY <1>0, <1>1
<1>3. PICK b, d, r : /\ b = SubSeq(a, n + 1, n + m) /\ d = SubSeq(a, (n + m) + 1, Len(a))
                     /\ r = SubSeq(a, n + 1, Len(a))
  OBVIOUS
<1>t. \A i \in 1 .. Len(a) : a[i] \in Nat
  OBVIOUS
<1>4. b \in Seq(Nat) /\ Len(b) = m /\ \A i \in 1 .. m : b[i] = a[n + i]
  <2>1. n \in Nat /\ m \in Nat /\ n + m <= Len(a)
    BY <1>0, <1>2
  <2>2. IsSlice(b, a, n, m)
    BY <1>3, <2>1 DEF IsSlice
  <2>3. IsCopy(b, a, n, m)
    BY ONLY <2>1, <2>2, Slice, a \in Seq(Nat)
  <2> QED BY <2>3 DEF IsCopy
<1>5. d \in Seq(Nat) /\ Len(d) = l - m /\ \A i \in m + 1 .. l : d[i - m] = a[n + i]
  <2>1. PICK x, z : x = n + m /\ z = l - m
    OBVIOUS
  <2>2. x \in Nat /\ z \in Nat /\ x + z = Len(a) /\ d = SubSeq(a, x + 1, x + z)
    BY <1>0, <1>1, <1>2, <1>3, <2>1
  <2>3. d \in Seq(Nat) /\ Len(d) = z /\ \A i \in 1 .. z : d[i] = a[x + i]
    <3>1. IsSlice(d, a, x, z)
      BY <1>0, <2>2 DEF IsSlice
    <3>2. IsCopy(d, a, x, z)
      BY ONLY <2>2, <3>1, Slice, a \in Seq(Nat)
    <3> QED BY <3>2 DEF IsCopy
  <2>4. ASSUME NEW i \in m + 1 .. l PROVE d[i - m] = a[n + i]
    <3>1. i - m \in 1 .. z /\ x + (i - m) = n + i
      BY <1>0, <1>2, <2>1
    <3> QED BY <2>3, <3>1
  <2> QED BY <2>1, <2>3, <2>4
<1>6. r \in Seq(Nat) /\ Len(r) = l /\ \A i \in 1 .. l : r[i] = a[n + i]
  <2>1. n \in Nat /\ n + l = Len(a)
    BY <1>0, <1>1, <1>2
  <2>2. IsSlice(r, a, n, l)
    <3>1. r = SubSeq(a, n + 1, n + l)
      BY ONLY <1>3, <2>1, Zenon
    <3>2. n + l <= Len(a)
      BY ONLY <1>0, <2>1
    <3> QED BY <3>1, <3>2 DEF IsSlice
  <2>3. IsCopy(r, a, n, l)
    BY ONLY <1>0, <2>1, <2>2, Slice, a \in Seq(Nat)
  <2> QED BY <2>3 DEF IsCopy
<1>7. b \o d \in Seq(Nat) /\ Len(b \o d) = l
  <2>1. b \o d \in Seq(Nat) /\ Len(b \o d) = Len(b) + Len(d)
    BY <1>4, <1>5, ConcatType
  <2> QED BY <1>0, <1>4, <1>5, <2>1
<1>8. ASSUME NEW i \in 1 .. l PROVE (b \o d)[i] = r[i]
  <2>1. CASE i <= m
    <3>1. i \in 1 .. m
      BY <1>0, <2>1
    <3>2. (b \o d)[i] = b[i]
      BY <1>0, <1>4, <1>5, <3>1
    <3> QED BY <1>4, <1>6, <3>1, <3>2
  <2>2. CASE i > m
    <3>1. (b \o d)[i] = d[i - m]
      <4>1. b \in Seq(Nat) /\ d \in Seq(Nat) /\ Len(b) = m /\ Len(d) = l - m
        BY <1>4, <1>5
      <4>2. i \in Len(b) + 1 .. Len(b) + Len(d)
        BY <1>0, <2>2, <4>1
      <4>3. (b \o d)[i] = d[i - Len(b)]
        BY ONLY <4>1, <4>2, ConcatSecond
      <4> QED BY <4>1, <4>3
    <3>2. d[i - m] = a[n + i]
      BY <1>0, <1>5, <2>2
    <3> QED BY <1>6, <3>1, <3>2
  <2>3. i <= m \/ i > m
    BY <1>0
  <2> QED BY <2>1, <2>2, <2>3
<1>9. r = b \o d
  BY <1>6, <1>7, <1>8, SeqEqual
<1> QED BY <1>1, <1>2, <1>3, <1>4, <1>5, <1>9

\* The type invariant in parts: the guest, the server and the sinks.
GuestType ==
  /\ holder \in HalThreads \cup {"nobody"}
  /\ pc \in [HalThreads -> {"idle", "connect", "reply", "write", "writing", "read"}]
  /\ at \in [HalThreads -> Conns \cup {None}] /\ stream \in [HalThreads -> Conns \cup {None}] /\ todo \in Nat
  /\ type \in [Conns -> HalThreads \cup {"none"}] /\ fd \in [Conns -> BOOLEAN]
  /\ info \in [Conns -> BOOLEAN] /\ reply \in [Conns -> BOOLEAN] /\ written \in [Conns -> Nat]
  /\ deaths \in 0 .. MaxDeaths
ServerType ==
  /\ accepting \in BOOLEAN /\ broken \in BOOLEAN
  /\ host \in [Conns -> {"none", "backlog", "hello", "read", "write", "push", "removed"}]
  /\ sock \in [Conns -> Seq(Nat)] /\ hand \in [Conns -> Seq(Nat)]
  /\ \A c \in Conns : Len(sock[c]) <= SocketSize
SinkType ==
  /\ device \in [Conns -> BOOLEAN]
  /\ callback \in [Conns -> {"off", "copy", "wait"}] /\ copied \in [Conns -> 0 .. Wanted]
  /\ queue \in [Conns -> Seq(Seq(Nat))]
  /\ buffer \in [Conns -> Seq(Nat)] /\ bufferLeft \in [Conns -> Nat]
  /\ played \in [Conns -> Seq(Nat)] /\ gaps \in [Conns -> SUBSET Nat] /\ skipped \in [Conns -> SUBSET Nat]
  /\ \A c \in Conns : Len(queue[c]) <= QueueSize /\ bufferLeft[c] <= Len(buffer[c])

\* The three parts make up the type invariant.
LEMMA AudioTypeParts == AudioTypeOK <=> GuestType /\ ServerType /\ SinkType
<1>1. AudioTypeOK => GuestType
  BY DEF AudioTypeOK, GuestType
<1>2. AudioTypeOK => ServerType
  BY DEF AudioTypeOK, ServerType
<1>3. AudioTypeOK => SinkType
  BY DEF AudioTypeOK, SinkType
<1>4. GuestType /\ ServerType /\ SinkType => AudioTypeOK
  BY DEF AudioTypeOK, GuestType, ServerType, SinkType
<1> QED BY <1>1, <1>2, <1>3, <1>4

\* A call of the guest that is under way has a connection.
CallsHaveConn == \A t \in HalThreads : pc[t] # "idle" => at[t] \in Conns

\* What a callback has copied was played, and no gap comes before all sound.
Sounded == \A c \in Conns : copied[c] <= Len(played[c]) /\ 0 \notin gaps[c]

\* The bytes of connection c, of which the first k were skipped before it had a
\* device, are in order; write_data has bytes only while it runs, and without a
\* device nothing is queued or played.
SoundAt(c) ==
  /\ \E k \in 0 .. written[c] :
       /\ skipped[c] = 1 .. k
       /\ IsChain(played[c], Rest(c), FlattenSeq(queue[c]), hand[c], sock[c], k, written[c])
  /\ host[c] \notin {"write", "push"} => hand[c] = <<>>
  /\ host[c] = "push" => device[c]
  /\ ~device[c] => played[c] = <<>> /\ queue[c] = <<>> /\ bufferLeft[c] = 0
  /\ type[c] = "none" => host[c] = "none"

AudioInv == GuestType /\ ServerType /\ SinkType /\ CallsHaveConn /\ \A c \in Conns : SoundAt(c)

USE DEF guestVars, connVars, sinkVars

\* The parts of the chain of a connection are sequences of bytes.
LEMMA ChainTypes ==
  ASSUME GuestType, ServerType, SinkType, NEW c \in Conns
  PROVE  /\ played[c] \in Seq(Nat) /\ Rest(c) \in Seq(Nat) /\ FlattenSeq(queue[c]) \in Seq(Nat)
         /\ hand[c] \in Seq(Nat) /\ sock[c] \in Seq(Nat) /\ written[c] \in Nat
<1>1. /\ played[c] \in Seq(Nat) /\ queue[c] \in Seq(Seq(Nat)) /\ buffer[c] \in Seq(Nat)
      /\ bufferLeft[c] \in Nat /\ bufferLeft[c] <= Len(buffer[c]) /\ Len(buffer[c]) \in Nat
  BY DEF SinkType
<1>2. hand[c] \in Seq(Nat) /\ sock[c] \in Seq(Nat) /\ written[c] \in Nat
  BY DEF ServerType, GuestType
<1>3. FlattenSeq(queue[c]) \in Seq(Nat)
  BY <1>1, FlattenType
<1>4. Rest(c) \in Seq(Nat)
  <2>1. PICK a, n, m : a = buffer[c] /\ n = Len(a) - bufferLeft[c] /\ m = bufferLeft[c]
    OBVIOUS
  <2>2. a \in Seq(Nat) /\ n \in Nat /\ m \in Nat /\ n + m = Len(a)
    BY <1>1, <2>1
  <2>3. Rest(c) = SubSeq(a, n + 1, n + m)
    BY <2>1, <2>2 DEF Rest
  <2>4. IsSlice(Rest(c), a, n, m)
    BY <2>2, <2>3 DEF IsSlice
  <2>5. IsCopy(Rest(c), a, n, m)
    BY ONLY <2>2, <2>4, Slice
  <2> QED BY <2>5 DEF IsCopy
<1> QED BY <1>1, <1>2, <1>3, <1>4

\* The assumptions on the constants of the audio path, each on its own.
LEMMA AudioConstants ==
  /\ SocketSize \in Nat \ {0} /\ QueueSize \in Nat \ {0} /\ Wanted \in Nat \ {0}
  /\ MaxConns \in Nat /\ MaxBytes \in Nat /\ MaxDeaths \in Nat
  /\ \A n \in WriteSizes : n \in Nat
BY AudioAssumption

\* What a write does.
LEMMA WriteSomeIs ==
  ASSUME GuestType, ServerType, CallsHaveConn, WriteSome
  PROVE  \E c \in Conns, n \in Nat :
           /\ n <= todo /\ n <= SocketSize - Len(sock[c])
           /\ sock' = [sock EXCEPT ![c] = sock[c] \o Bytes(written[c], n)]
           /\ written' = [written EXCEPT ![c] = written[c] + n]
           /\ todo' = todo - n
<1>1. PICK c, m, n : /\ c = at["player"]
                     /\ m = SocketSize - Len(sock[c])
                     /\ n = IF todo < m THEN todo ELSE m
  OBVIOUS
<1>2. c \in Conns
  BY <1>1 DEF WriteSome, HalThreads, CallsHaveConn
<1>3. todo \in Nat /\ m \in Nat
  <2>1. Len(sock[c]) \in Nat /\ Len(sock[c]) <= SocketSize /\ todo \in Nat
    BY <1>2 DEF ServerType, GuestType
  <2> QED BY <1>1, <2>1, AudioConstants
<1>4. n \in Nat /\ n <= todo /\ n <= m
  BY <1>1, <1>3
<1>5. /\ sock' = [sock EXCEPT ![c] = sock[c] \o Bytes(written[c], n)]
      /\ written' = [written EXCEPT ![c] = written[c] + n]
      /\ todo' = todo - n
  BY <1>1 DEF WriteSome, Bytes
<1> QED BY <1>1, <1>2, <1>4, <1>5

\* The steps of the guest.
LEMMA GuestStep ==
  ASSUME GuestType, ServerType, CallsHaveConn,
         Player \/ Recorder \/ Calls \/ GuestDies
  PROVE  GuestType' /\ CallsHaveConn'
<1> USE AudioConstants DEF GuestType, CallsHaveConn
<1>1. ASSUME NEW t \in HalThreads, SendInfo(t) PROVE GuestType' /\ CallsHaveConn'
  BY <1>1 DEF SendInfo
<1>2. ASSUME NEW t \in HalThreads, GetReply(t) PROVE GuestType' /\ CallsHaveConn'
  BY <1>2 DEF GetReply, Release, HalThreads
<1>3. CASE WriteLocks
  BY <1>3 DEF WriteLocks, HalThreads
<1>4. CASE WriteSome
  <2>1. PICK c \in Conns, n \in Nat : /\ n <= todo /\ written' = [written EXCEPT ![c] = written[c] + n]
                                      /\ todo' = todo - n
    BY <1>4, WriteSomeIs
  <2>2. written[c] + n \in Nat /\ todo' \in Nat
    BY <2>1
  <2>3. written' \in [Conns -> Nat]
    BY <2>1, <2>2
  <2>4. UNCHANGED <<stream, type, fd, info, reply, deaths>>
    BY <1>4 DEF WriteSome
  <2>5. Release("player") \/ UNCHANGED <<holder, pc, at>>
    BY <1>4 DEF WriteSome
  <2>6. CASE Release("player")
    BY <2>2, <2>3, <2>4, <2>6 DEF Release, HalThreads
  <2>7. CASE UNCHANGED <<holder, pc, at>>
    BY <2>2, <2>3, <2>4, <2>7
  <2> QED BY <2>5, <2>6, <2>7
<1>5. CASE out_write
  <2>1. todo' \in Nat
    BY <1>5 DEF out_write
  <2> QED BY <1>5, <2>1 DEF out_write, HalThreads
<1>6. CASE in_read
  BY <1>6 DEF in_read, HalThreads
<1>7. ASSUME NEW t \in HalThreads, adev_open_stream(t) PROVE GuestType' /\ CallsHaveConn'
  BY <1>7 DEF adev_open_stream
<1>8. ASSUME NEW t \in HalThreads, adev_close_stream(t) PROVE GuestType' /\ CallsHaveConn'
  BY <1>8 DEF adev_close_stream
<1>9. CASE GuestDies
  BY <1>9 DEF GuestDies, All
<1> QED
  BY <1>1, <1>2, <1>3, <1>4, <1>5, <1>6, <1>7, <1>8, <1>9 DEF Player, Recorder, Calls, HalThreads

\* The guest changes nothing of a connection but what is in its socket.
LEMMA GuestSound ==
  ASSUME AudioInv, Player \/ Recorder \/ Calls \/ GuestDies
  PROVE  ServerType' /\ SinkType' /\ \A c \in Conns : SoundAt(c)'
<1> USE DEF AudioInv
<1>1. CASE WriteSome
  <2>1. PICK c \in Conns, n \in Nat :
          /\ n <= SocketSize - Len(sock[c])
          /\ sock' = [sock EXCEPT ![c] = sock[c] \o Bytes(written[c], n)]
          /\ written' = [written EXCEPT ![c] = written[c] + n]
    BY <1>1, WriteSomeIs
  <2>2. c \in Conns
    OBVIOUS
  <2>3. n \in Nat /\ n <= SocketSize - Len(sock[c]) /\ Len(sock[c]) \in Nat
    BY <2>1 DEF ServerType
  <2>4. /\ sock' = [sock EXCEPT ![c] = sock[c] \o Bytes(written[c], n)]
        /\ written' = [written EXCEPT ![c] = written[c] + n]
        /\ UNCHANGED <<type, accepting, host, hand, sinkVars, broken>>
    BY <1>1, <2>1 DEF WriteSome
  <2>5. /\ sock[c] \o Bytes(written[c], n) \in Seq(Nat)
        /\ Len(sock[c] \o Bytes(written[c], n)) = Len(sock[c]) + n
    <3>1. sock[c] \in Seq(Nat) /\ written[c] \in Nat
      BY <2>2 DEF ServerType, GuestType
    <3>2. Bytes(written[c], n) \in Seq(Nat) /\ Len(Bytes(written[c], n)) = n
      BY <2>3, <3>1, BytesType
    <3> QED BY <3>1, <3>2, ConcatType
  <2>6. ServerType'
    BY <2>2, <2>3, <2>4, <2>5, AudioConstants DEF ServerType
  <2>7. SinkType'
    BY <2>4 DEF SinkType
  <2>8. ASSUME NEW d \in Conns PROVE SoundAt(d)'
    <3>1. CASE d # c
      <4>1. sock'[d] = sock[d] /\ written'[d] = written[d] /\ SoundAt(d)
        BY <2>4, <3>1 DEF ServerType, GuestType
      <4> QED BY <2>4, <4>1 DEF SoundAt, Rest
    <3>2. CASE d = c
      <4>1. PICK k \in 0 .. written[c] :
              /\ skipped[c] = 1 .. k
              /\ IsChain(played[c], Rest(c), FlattenSeq(queue[c]), hand[c], sock[c], k, written[c])
        BY <2>2 DEF SoundAt
      <4>2. /\ played[c] \in Seq(Nat) /\ Rest(c) \in Seq(Nat) /\ FlattenSeq(queue[c]) \in Seq(Nat)
            /\ hand[c] \in Seq(Nat) /\ sock[c] \in Seq(Nat) /\ written[c] \in Nat
        BY <2>2, ChainTypes
      <4>3. IsChain(played[c], Rest(c), FlattenSeq(queue[c]), hand[c], sock[c] \o Bytes(written[c], n), k,
                    written[c] + n)
        BY <2>3, <4>1, <4>2, ChainWrite
      <4>4. sock'[c] = sock[c] \o Bytes(written[c], n) /\ written'[c] = written[c] + n
        BY <2>2, <2>4 DEF ServerType, GuestType
      <4>5. k \in 0 .. written'[c]
        BY <2>3, <4>2, <4>4
      <4>6. /\ host[c] \notin {"write", "push"} => hand[c] = <<>>
            /\ host[c] = "push" => device[c]
            /\ ~device[c] => played[c] = <<>> /\ queue[c] = <<>> /\ bufferLeft[c] = 0
            /\ type[c] = "none" => host[c] = "none"
        BY DEF SoundAt
      <4>7. \E i \in 0 .. written'[c] :
              /\ skipped[c] = 1 .. i
              /\ IsChain(played[c], Rest(c), FlattenSeq(queue[c]), hand[c], sock'[c], i, written'[c])
        BY <4>1, <4>3, <4>4, <4>5
      <4> QED BY <2>4, <3>2, <4>6, <4>7 DEF SoundAt, Rest
    <3> QED BY <3>1, <3>2
  <2> QED BY <2>6, <2>7, <2>8
<1>2. ASSUME NEW t \in HalThreads, adev_open_stream(t)
      PROVE  ServerType' /\ SinkType' /\ \A d \in Conns : SoundAt(d)'
  <2>1. PICK c \in Conns : /\ type[c] = "none"
                           /\ type' = [type EXCEPT ![c] = t]
                           /\ host' = [host EXCEPT ![c] = "backlog"]
    BY <1>2 DEF adev_open_stream
  <2>2. UNCHANGED <<written, sock, accepting, hand, sinkVars, broken>>
    BY <1>2 DEF adev_open_stream
  <2>3. ServerType' /\ SinkType'
    BY <2>1, <2>2 DEF ServerType, SinkType
  <2>4. t # "none"
    BY DEF HalThreads
  <2>5. ASSUME NEW d \in Conns PROVE SoundAt(d)'
    <3>1. CASE d = c
      <4>1. host'[c] = "backlog" /\ type'[c] # "none" /\ host[c] = "none" /\ SoundAt(c)
        BY <2>1, <2>4, ZenonT(30) DEF SoundAt, GuestType, ServerType
      <4> QED BY <2>2, <3>1, <4>1 DEF SoundAt, Rest
    <3>2. CASE d # c
      <4>1. host'[d] = host[d] /\ type'[d] = type[d] /\ SoundAt(d)
        BY <2>1, <3>2 DEF GuestType, ServerType
      <4> QED BY <2>2, <4>1 DEF SoundAt, Rest
    <3> QED BY <3>1, <3>2
  <2> QED BY <2>3, <2>5
<1>3. ASSUME UNCHANGED <<type, written, sock, accepting, hand, host, sinkVars, broken>>
      PROVE  ServerType' /\ SinkType' /\ \A d \in Conns : SoundAt(d)'
  <2>1. ServerType' /\ SinkType'
    BY <1>3 DEF ServerType, SinkType
  <2>2. ASSUME NEW d \in Conns PROVE SoundAt(d)'
    BY <1>3 DEF SoundAt, Rest
  <2> QED BY <2>1, <2>2
<1>4. \/ WriteSome \/ \E t \in HalThreads : adev_open_stream(t)
      \/ UNCHANGED <<type, written, sock, accepting, hand, host, sinkVars, broken>>
  BY DEF Player, Recorder, Calls, GuestDies, SendInfo, GetReply, WriteLocks, out_write, in_read,
         adev_close_stream
<1> QED BY <1>1, <1>2, <1>3, <1>4

\* Steps of the server and of the sink leave the guest alone, but for replies.
LEMMA HostGuestType ==
  ASSUME GuestType, CallsHaveConn, NEW c \in Conns, Server(c) \/ Callback(c)
  PROVE  GuestType' /\ CallsHaveConn'
<1>1. /\ UNCHANGED <<guestVars, type, fd, info, written, deaths>>
      /\ reply' = reply \/ reply' = [reply EXCEPT ![c] = TRUE]
  BY DEF Server, Callback, Accept, create_connection_for, on_read_size, ReadError, write_data, PushWakes,
         on_data_requested, CopyData, PopData, ReadDone, UseFreedSink
<1> QED BY <1>1 DEF GuestType, CallsHaveConn

\* What a step on behalf of c leaves of the other connections.
OthersSame(c) ==
  \A d \in Conns \ {c} : /\ host'[d] = host[d] /\ hand'[d] = hand[d] /\ sock'[d] = sock[d]
                         /\ device'[d] = device[d] /\ queue'[d] = queue[d] /\ buffer'[d] = buffer[d]
                         /\ bufferLeft'[d] = bufferLeft[d] /\ played'[d] = played[d]
                         /\ skipped'[d] = skipped[d]

\* A step that touches one connection keeps the bytes of the others in order.
LEMMA OthersSound ==
  ASSUME AudioInv, NEW c \in Conns, OthersSame(c), UNCHANGED <<written, type>>, SoundAt(c)'
  PROVE  \A d \in Conns : SoundAt(d)'
<1>1. SUFFICES ASSUME NEW d \in Conns \ {c} PROVE SoundAt(d)'
  OBVIOUS
<1> QED BY <1>1 DEF OthersSame, SoundAt, Rest, AudioInv

\* The server: accepting, reading and writing into the queue.
LEMMA ServerSound ==
  ASSUME AudioInv, NEW c \in Conns, Server(c)
  PROVE  ServerType' /\ SinkType' /\ \A d \in Conns : SoundAt(d)'
<1>1. GuestType /\ ServerType /\ SinkType /\ SoundAt(c)
  BY DEF AudioInv
<1>2. UNCHANGED <<written, type>>
  BY DEF Server, Accept, create_connection_for, on_read_size, ReadError, write_data, PushWakes
<1>3. /\ played[c] \in Seq(Nat) /\ Rest(c) \in Seq(Nat) /\ FlattenSeq(queue[c]) \in Seq(Nat)
      /\ hand[c] \in Seq(Nat) /\ sock[c] \in Seq(Nat) /\ written[c] \in Nat
  BY <1>1, ChainTypes
<1>4. PICK k \in 0 .. written[c] :
        /\ skipped[c] = 1 .. k
        /\ IsChain(played[c], Rest(c), FlattenSeq(queue[c]), hand[c], sock[c], k, written[c])
  BY <1>1 DEF SoundAt
<1>5. ASSUME UNCHANGED <<sock, hand, sinkVars, broken>>, accepting' \in BOOLEAN, NEW h,
             h \in {"none", "hello", "read", "removed"}, host' = [host EXCEPT ![c] = h],
             host[c] \in {"backlog", "hello", "read"}
      PROVE  ServerType' /\ SinkType' /\ \A d \in Conns : SoundAt(d)'
  <2>1. ServerType' /\ SinkType'
    BY <1>1, <1>5 DEF ServerType, SinkType
  <2>2. host'[c] = h /\ OthersSame(c)
    BY <1>1, <1>5 DEF ServerType, OthersSame
  <2>3. type[c] # "none" /\ hand[c] = <<>>
    BY <1>1, <1>5 DEF SoundAt
  <2>4. SoundAt(c)'
    BY <1>1, <1>2, <1>5, <2>3 DEF SoundAt, Rest
  <2> QED BY <1>2, <2>1, <2>2, <2>4, OthersSound
<1>6. CASE Accept(c)
  BY <1>1, <1>5, <1>6 DEF Accept, ServerType
<1>7. CASE create_connection_for(c)
  <2>1. accepting' \in BOOLEAN
    BY <1>1, <1>7 DEF create_connection_for, ServerType
  <2>2. host' = [host EXCEPT ![c] = "read"] \/ host' = [host EXCEPT ![c] = "none"]
    BY <1>7 DEF create_connection_for
  <2> QED BY <1>5, <1>7, <2>1, <2>2 DEF create_connection_for
<1>8. CASE ReadError(c)
  BY <1>1, <1>5, <1>8 DEF ReadError, ServerType
<1>9. CASE on_read_size(c)
  <2>1. PICK n \in 1 .. Len(sock[c]) : /\ hand' = [hand EXCEPT ![c] = SubSeq(sock[c], 1, n)]
                                       /\ sock' = [sock EXCEPT ![c] = SubSeq(sock[c], n + 1, Len(sock[c]))]
    BY <1>9 DEF on_read_size
  <2>2. PICK b, d : b = SubSeq(sock[c], 1, n) /\ d = SubSeq(sock[c], n + 1, Len(sock[c]))
    OBVIOUS
  <2>3. n \in 0 .. Len(sock[c]) /\ Len(sock[c]) \in Nat
    BY <1>3
  <2>4. b \in Seq(Nat) /\ d \in Seq(Nat) /\ sock[c] = b \o d /\ Len(d) = Len(sock[c]) - n
    BY <1>3, <2>2, <2>3, CutInTwo
  <2>5. /\ host[c] = "read" /\ host' = [host EXCEPT ![c] = "write"]
        /\ UNCHANGED <<accepting, sinkVars, broken>>
    BY <1>9 DEF on_read_size
  <2>6. /\ hand'[c] = b /\ sock'[c] = d /\ host'[c] = "write" /\ OthersSame(c)
        /\ hand' = [hand EXCEPT ![c] = b] /\ sock' = [sock EXCEPT ![c] = d]
    BY <1>1, <2>1, <2>2, <2>5 DEF ServerType, OthersSame
  <2>7. ServerType'
    <3>1. Len(d) <= SocketSize
      BY <1>1, <2>3, <2>4, AudioConstants DEF ServerType
    <3> QED BY <1>1, <2>4, <2>5, <2>6, <3>1 DEF ServerType
  <2>8. SinkType'
    BY <1>1, <2>5 DEF SinkType
  <2>9. /\ hand[c] = <<>> /\ type[c] # "none"
        /\ (~device[c] => played[c] = <<>> /\ queue[c] = <<>> /\ bufferLeft[c] = 0)
    BY <1>1, <2>5 DEF SoundAt
  <2>10. IsChain(played[c], Rest(c), FlattenSeq(queue[c]), b, d, k, written[c])
    <3>1. PICK p, q, f, h, s : /\ p = played[c] /\ q = Rest(c) /\ f = FlattenSeq(queue[c])
                               /\ h = hand[c] /\ s = sock[c]
      OBVIOUS
    <3>2. /\ p \in Seq(Nat) /\ q \in Seq(Nat) /\ f \in Seq(Nat) /\ s = b \o d
          /\ h = <<>> /\ IsChain(p, q, f, h, s, k, written[c])
      BY <1>3, <1>4, <2>4, <2>9, <3>1
    <3>3. IsChain(p, q, f, b, d, k, written[c])
      BY ONLY <2>4, <3>2, ChainRead
    <3> QED BY <3>1, <3>3
  <2>11. SoundAt(c)'
    BY <1>2, <1>4, <2>5, <2>6, <2>9, <2>10 DEF SoundAt, Rest
  <2> QED BY <1>2, <2>6, <2>7, <2>8, <2>11, OthersSound
<1>10. ASSUME PushHand(c), (device' = device /\ device[c]) \/ device' = [device EXCEPT ![c] = TRUE],
              host[c] \in {"write", "push"},
              UNCHANGED <<sock, accepting, buffer, bufferLeft, callback, copied, played, gaps, skipped, broken>>
       PROVE  ServerType' /\ SinkType' /\ \A d \in Conns : SoundAt(d)'
  <2>1. /\ queue' = [queue EXCEPT ![c] = Append(queue[c], hand[c])] /\ Len(queue[c]) < QueueSize
        /\ hand' = [hand EXCEPT ![c] = <<>>] /\ host' = [host EXCEPT ![c] = "read"]
    BY <1>10 DEF PushHand
  <2>2. queue[c] \in Seq(Seq(Nat)) /\ Len(queue[c]) \in Nat
    BY <1>1 DEF SinkType
  <2>3. Append(queue[c], hand[c]) \in Seq(Seq(Nat)) /\ Len(Append(queue[c], hand[c])) = Len(queue[c]) + 1
    BY <1>3, <2>2, AppendProperties
  <2>4. /\ queue'[c] = Append(queue[c], hand[c]) /\ hand'[c] = <<>> /\ host'[c] = "read" /\ OthersSame(c)
    BY <1>1, <1>10, <2>1 DEF ServerType, SinkType, OthersSame
  <2>5. ServerType'
    BY <1>1, <1>10, <2>1 DEF ServerType
  <2>6. SinkType'
    <3>1. queue' \in [Conns -> Seq(Seq(Nat))]
      BY <1>1, <2>1, <2>3 DEF SinkType
    <3>2. \A d \in Conns : Len(queue'[d]) <= QueueSize
      BY <1>1, <2>1, <2>2, <2>3, AudioConstants DEF SinkType
    <3>3. device' \in [Conns -> BOOLEAN]
      BY <1>1, <1>10 DEF SinkType
    <3> QED BY <1>1, <1>10, <3>1, <3>2, <3>3 DEF SinkType
  <2>7. FlattenSeq(queue'[c]) = FlattenSeq(queue[c]) \o hand[c]
    BY <1>3, <2>2, <2>4, FlattenAppend
  <2>8. IsChain(played[c], Rest(c), FlattenSeq(queue'[c]), hand'[c], sock[c], k, written[c])
    <3>1. PICK p, q, f, h, s : /\ p = played[c] /\ q = Rest(c) /\ f = FlattenSeq(queue[c])
                               /\ h = hand[c] /\ s = sock[c]
      OBVIOUS
    <3>2. /\ p \in Seq(Nat) /\ q \in Seq(Nat) /\ f \in Seq(Nat) /\ h \in Seq(Nat)
          /\ s \in Seq(Nat) /\ IsChain(p, q, f, h, s, k, written[c])
      BY <1>3, <1>4, <3>1
    <3>3. IsChain(p, q, f \o h, <<>>, s, k, written[c])
      BY ONLY <3>2, ChainPush
    <3> QED BY <2>4, <2>7, <3>1, <3>3
  <2>9. device'[c]
    BY <1>1, <1>10 DEF SinkType
  <2>10. SoundAt(c)'
    <3>1. type[c] # "none"
      BY <1>1, <1>10 DEF SoundAt
    <3> QED BY <1>2, <1>4, <1>10, <2>4, <2>8, <2>9, <3>1 DEF SoundAt, Rest
  <2> QED BY <1>2, <2>4, <2>5, <2>6, <2>10, OthersSound
<1>11. CASE PushWakes(c)
  <2>1. host[c] = "push" /\ device[c]
    BY <1>1, <1>11 DEF PushWakes, SoundAt
  <2> QED BY <1>10, <1>11, <2>1 DEF PushWakes
<1>12. CASE write_data(c)
  <2>1. host[c] = "write" /\ type[c] # "none"
    BY <1>1, <1>12 DEF write_data, SoundAt
  <2>2. CASE device' = [device EXCEPT ![c] = TRUE] /\ PushHand(c) /\ UNCHANGED skipped
    BY <1>10, <1>12, <2>1, <2>2 DEF write_data
  <2>3. CASE /\ device' = [device EXCEPT ![c] = TRUE] /\ host' = [host EXCEPT ![c] = "push"]
             /\ UNCHANGED <<queue, hand, skipped>>
    <3>1. UNCHANGED <<sock, accepting, buffer, bufferLeft, callback, copied, played, gaps, broken>>
      BY <1>12 DEF write_data
    <3>2. device'[c] /\ host'[c] = "push" /\ OthersSame(c)
      BY <1>1, <2>3, <3>1 DEF SinkType, ServerType, OthersSame
    <3>3. ServerType' /\ SinkType'
      BY <1>1, <2>3, <3>1 DEF SinkType, ServerType
    <3>4. SoundAt(c)'
      BY <1>2, <1>4, <2>1, <2>3, <3>1, <3>2 DEF SoundAt, Rest
    <3> QED BY <1>2, <3>2, <3>3, <3>4, OthersSound
  <2>4. CASE /\ ~device[c]
             /\ skipped' = [skipped EXCEPT ![c] = skipped[c] \cup ToSet(hand[c])]
             /\ hand' = [hand EXCEPT ![c] = <<>>]
             /\ host' = [host EXCEPT ![c] = "read"]
             /\ UNCHANGED <<device, queue>>
    <3>1. UNCHANGED <<sock, accepting, buffer, bufferLeft, callback, copied, played, gaps, broken>>
      BY <1>12 DEF write_data
    <3>2. played[c] = <<>> /\ queue[c] = <<>> /\ bufferLeft[c] = 0
      BY <1>1, <2>4 DEF SoundAt
    <3>3. FlattenSeq(queue[c]) = <<>> /\ Rest(c) = <<>>
      <4>1. Len(buffer[c]) \in Nat
        BY <1>1 DEF SinkType
      <4> QED BY <3>2, <4>1, FlattenEmpty, SubSeqEmpty DEF Rest
    <3>4. PICK h, s, g : h = hand[c] /\ s = sock[c] /\ g = k + Len(h)
      OBVIOUS
    <3>5. h \in Seq(Nat) /\ s \in Seq(Nat) /\ IsChain(<<>>, <<>>, <<>>, h, s, k, written[c])
      BY <1>3, <1>4, <3>2, <3>3, <3>4
    <3>6. /\ g \in 0 .. written[c] /\ IsChain(<<>>, <<>>, <<>>, <<>>, s, g, written[c])
          /\ \A i \in 1 .. Len(h) : h[i] = k + i
      <4>1. PICK w : w = written[c]
        OBVIOUS
      <4>2. /\ w \in Nat /\ k \in 0 .. w /\ IsChain(<<>>, <<>>, <<>>, h, s, k, w)
            /\ h \in Seq(Nat) /\ s \in Seq(Nat)
        BY <1>3, <3>5, <4>1
      <4>3. /\ k + Len(h) \in 0 .. w /\ IsChain(<<>>, <<>>, <<>>, <<>>, s, k + Len(h), w)
            /\ \A i \in 1 .. Len(h) : h[i] = k + i
        BY ONLY <4>2, ChainSkip
      <4> QED BY <3>4, <4>1, <4>3
    <3>7. skipped[c] \cup ToSet(hand[c]) = 1 .. g
      <4>1. Len(h) \in Nat /\ k \in Nat /\ DOMAIN h = 1 .. Len(h)
        BY <1>3, <3>5
      <4>2. ToSet(h) = k + 1 .. g
        <5>1. ASSUME NEW x \in ToSet(h) PROVE x \in k + 1 .. g
          BY <3>4, <3>6, <4>1 DEF ToSet
        <5>2. ASSUME NEW x \in k + 1 .. g PROVE x \in ToSet(h)
          <6>1. x - k \in 1 .. Len(h) /\ k + (x - k) = x
            BY <3>4, <4>1
          <6>2. h[x - k] = x
            BY <3>6, <6>1
          <6> QED BY <4>1, <6>1, <6>2 DEF ToSet
        <5> QED BY <5>1, <5>2
      <4> QED BY <1>4, <3>4, <4>1, <4>2
    <3>8. /\ skipped'[c] = 1 .. g /\ hand'[c] = <<>> /\ host'[c] = "read" /\ device'[c] = device[c]
          /\ OthersSame(c)
      BY <1>1, <2>4, <3>1, <3>7 DEF SinkType, ServerType, OthersSame
    <3>9. ServerType'
      BY <1>1, <2>4, <3>1 DEF ServerType
    <3>10. SinkType'
      <4>1. 1 .. g \subseteq Nat
        OBVIOUS
      <4>2. skipped' \in [Conns -> SUBSET Nat]
        BY <1>1, <2>4, <3>7, <4>1 DEF SinkType
      <4> QED BY <1>1, <2>4, <3>1, <4>2 DEF SinkType
    <3>11. IsChain(played[c], Rest(c), FlattenSeq(queue[c]), <<>>, sock[c], g, written[c])
      BY <3>2, <3>3, <3>4, <3>6
    <3>12. SoundAt(c)'
      BY <1>2, <2>1, <2>4, <3>1, <3>2, <3>6, <3>8, <3>11 DEF SoundAt, Rest
    <3> QED BY <1>2, <3>8, <3>9, <3>10, <3>12, OthersSound
  <2> QED BY <1>12, <2>2, <2>3, <2>4 DEF write_data
<1> QED BY <1>6, <1>7, <1>8, <1>9, <1>11, <1>12 DEF Server

\* The callback: copying out of its buffer and popping the next one.
LEMMA CallbackSound ==
  ASSUME AudioInv, NEW c \in Conns, Callback(c)
  PROVE  ServerType' /\ SinkType' /\ \A d \in Conns : SoundAt(d)'
<1>1. GuestType /\ ServerType /\ SinkType /\ SoundAt(c)
  BY DEF AudioInv
<1>2. UNCHANGED <<written, type, sock, accepting, host, hand, device, skipped>>
  BY DEF Callback, on_data_requested, CopyData, PopData, ReadDone, UseFreedSink
<1>3. /\ played[c] \in Seq(Nat) /\ Rest(c) \in Seq(Nat) /\ FlattenSeq(queue[c]) \in Seq(Nat)
      /\ hand[c] \in Seq(Nat) /\ sock[c] \in Seq(Nat) /\ written[c] \in Nat
  BY <1>1, ChainTypes
<1>4. PICK k \in 0 .. written[c] :
        /\ skipped[c] = 1 .. k
        /\ IsChain(played[c], Rest(c), FlattenSeq(queue[c]), hand[c], sock[c], k, written[c])
  BY <1>1 DEF SoundAt
<1>5. ServerType'
  <2>1. broken' = broken \/ broken' = TRUE
    BY DEF Callback, on_data_requested, CopyData, PopData, ReadDone, UseFreedSink
  <2> QED BY <1>1, <1>2, <2>1 DEF ServerType
<1>t. /\ buffer[c] \in Seq(Nat) /\ Len(buffer[c]) \in Nat /\ bufferLeft[c] \in Nat
      /\ bufferLeft[c] <= Len(buffer[c]) /\ copied[c] \in 0 .. Wanted /\ queue[c] \in Seq(Seq(Nat))
  BY <1>1 DEF SinkType
<1>6. ASSUME UNCHANGED <<queue, buffer, bufferLeft, played>>, callback' \in [Conns -> {"off", "copy", "wait"}],
             copied' \in [Conns -> 0 .. Wanted], gaps' \in [Conns -> SUBSET Nat]
      PROVE  SinkType' /\ \A d \in Conns : SoundAt(d)'
  <2>1. SinkType'
    BY <1>1, <1>2, <1>6 DEF SinkType
  <2>2. ASSUME NEW d \in Conns PROVE SoundAt(d)'
    BY <1>2, <1>6 DEF SoundAt, Rest, AudioInv
  <2> QED BY <2>1, <2>2
<1>7. CASE on_data_requested(c)
  <2>1. /\ callback' \in [Conns -> {"off", "copy", "wait"}] /\ copied' \in [Conns -> 0 .. Wanted]
        /\ gaps' \in [Conns -> SUBSET Nat]
    BY <1>1, <1>7, AudioConstants DEF on_data_requested, SinkType
  <2> QED BY <1>5, <1>6, <1>7, <2>1 DEF on_data_requested
<1>8. CASE ReadDone(c)
  <2>1. /\ callback' \in [Conns -> {"off", "copy", "wait"}] /\ copied' \in [Conns -> 0 .. Wanted]
        /\ gaps' \in [Conns -> SUBSET Nat]
    <3>1. Len(played[c]) \in Nat
      BY <1>3
    <3> QED BY <1>1, <1>8, <3>1 DEF ReadDone, SinkType
  <2> QED BY <1>5, <1>6, <1>8, <2>1 DEF ReadDone
<1>9. CASE UseFreedSink(c)
  <2>1. /\ callback' \in [Conns -> {"off", "copy", "wait"}] /\ copied' \in [Conns -> 0 .. Wanted]
        /\ gaps' \in [Conns -> SUBSET Nat]
    BY <1>1, <1>9 DEF UseFreedSink, SinkType
  <2> QED BY <1>5, <1>6, <1>9, <2>1 DEF UseFreedSink
<1>10. CASE CopyData(c)
  <2>1. PICK a, l, m, n : /\ a = buffer[c] /\ l = bufferLeft[c] /\ n = Len(a) - l
                          /\ m = IF Wanted - copied[c] < l THEN Wanted - copied[c] ELSE l
    OBVIOUS
  <2>2. /\ played' = [played EXCEPT ![c] = played[c] \o SubSeq(a, n + 1, n + m)]
        /\ copied' = [copied EXCEPT ![c] = copied[c] + m]
        /\ bufferLeft' = [bufferLeft EXCEPT ![c] = l - m]
        /\ UNCHANGED <<buffer, queue, callback, gaps>> /\ l > 0
    BY <1>10, <2>1 DEF CopyData
  <2>3. a \in Seq(Nat) /\ l \in 0 .. Len(a) /\ m \in 0 .. l /\ copied[c] + m \in 0 .. Wanted
    <3>1. PICK w : w = Wanted - copied[c]
      OBVIOUS
    <3>2. w \in Nat /\ \A i \in 0 .. w : copied[c] + i \in 0 .. Wanted
      BY <1>t, <3>1, AudioConstants
    <3>3. a \in Seq(Nat) /\ l \in Nat /\ l \in 0 .. Len(a)
      BY <1>t, <2>1
    <3>4. m = IF w < l THEN w ELSE l
      BY <2>1, <3>1
    <3>5. m \in 0 .. l /\ m \in 0 .. w
      BY ONLY <3>2, <3>3, <3>4
    <3> QED BY ONLY <3>2, <3>3, <3>5
  <2>4. PICK b, d : b = SubSeq(a, n + 1, n + m) /\ d = SubSeq(a, Len(a) - (l - m) + 1, Len(a))
    OBVIOUS
  <2>5. b \in Seq(Nat) /\ d \in Seq(Nat) /\ SubSeq(a, n + 1, Len(a)) = b \o d
    BY <2>1, <2>3, <2>4, CutRest
  <2>6. Rest(c) = b \o d
    BY <2>1, <2>5 DEF Rest
  <2>7. /\ played'[c] = played[c] \o b /\ bufferLeft'[c] = l - m /\ l - m \in Nat /\ l - m <= Len(a)
        /\ OthersSame(c)
    <3>1. l - m \in Nat /\ l - m <= Len(a)
      <4>1. Len(a) \in Nat
        BY <2>3
      <4> QED BY ONLY <2>3, <4>1
    <3> QED BY <1>1, <1>2, <2>2, <2>4, <3>1 DEF SinkType, OthersSame
  <2>8. Rest(c)' = d
    BY <2>1, <2>2, <2>4, <2>7 DEF Rest
  <2>9. SinkType'
    <3>1. played[c] \o b \in Seq(Nat)
      BY <1>3, <2>5, ConcatType
    <3>2. played' \in [Conns -> Seq(Nat)]
      BY <1>1, <2>2, <2>4, <3>1 DEF SinkType
    <3>3. copied' \in [Conns -> 0 .. Wanted] /\ bufferLeft' \in [Conns -> Nat]
      BY <1>1, <2>2, <2>3, <2>7 DEF SinkType
    <3>4. \A e \in Conns : bufferLeft'[e] <= Len(buffer[e])
      BY <1>1, <2>1, <2>2, <2>7 DEF SinkType
    <3> QED BY <1>1, <1>2, <2>2, <3>2, <3>3, <3>4 DEF SinkType
  <2>10. IsChain(played[c] \o b, d, FlattenSeq(queue[c]), hand[c], sock[c], k, written[c])
    <3>1. PICK p, q, f, h, s : /\ p = played[c] /\ q = Rest(c) /\ f = FlattenSeq(queue[c])
                               /\ h = hand[c] /\ s = sock[c]
      OBVIOUS
    <3>2. p \in Seq(Nat) /\ q = b \o d /\ IsChain(p, q, f, h, s, k, written[c])
      BY <1>3, <1>4, <2>6, <3>1
    <3>3. IsChain(p \o b, d, f, h, s, k, written[c])
      BY ONLY <2>5, <3>2, ChainCopy
    <3> QED BY <3>1, <3>3
  <2>11. device[c]
    BY <1>1, <2>1, <2>2, <1>t DEF SoundAt
  <2>12. SoundAt(c)'
    <3>1. IsChain(played'[c], Rest(c)', FlattenSeq(queue'[c]), hand'[c], sock'[c], k, written'[c])
      BY <1>2, <2>2, <2>7, <2>8, <2>10
    <3>2. /\ host[c] \notin {"write", "push"} => hand[c] = <<>>
          /\ type[c] = "none" => host[c] = "none"
      BY <1>1 DEF SoundAt
    <3> QED BY <1>2, <1>4, <2>11, <3>1, <3>2 DEF SoundAt
  <2> QED BY <1>2, <1>5, <2>7, <2>9, <2>12, OthersSound
<1>11. CASE PopData(c)
  <2>1. CASE queue[c] = <<>>
    <3>1. /\ callback' \in [Conns -> {"off", "copy", "wait"}] /\ copied' \in [Conns -> 0 .. Wanted]
          /\ gaps' \in [Conns -> SUBSET Nat]
      BY <1>1, <1>11, <2>1 DEF PopData, SinkType
    <3> QED BY <1>5, <1>6, <1>11, <2>1, <3>1 DEF PopData
  <2>2. CASE queue[c] # <<>>
    <3>1. /\ bufferLeft[c] = 0
          /\ buffer' = [buffer EXCEPT ![c] = Head(queue[c])]
          /\ bufferLeft' = [bufferLeft EXCEPT ![c] = Len(Head(queue[c]))]
          /\ queue' = [queue EXCEPT ![c] = Tail(queue[c])]
          /\ callback' = [callback EXCEPT ![c] = "copy"]
          /\ UNCHANGED <<copied, played, gaps>>
      BY <1>11, <2>2 DEF PopData
    <3>2. PICK a, t : a = Head(queue[c]) /\ t = Tail(queue[c])
      OBVIOUS
    <3>3. a \in Seq(Nat) /\ t \in Seq(Seq(Nat)) /\ Len(t) = Len(queue[c]) - 1 /\ Len(a) \in Nat
      BY <1>t, <2>2, <3>2, HeadTailProperties
    <3>4. FlattenSeq(queue[c]) = a \o FlattenSeq(t) /\ FlattenSeq(t) \in Seq(Nat)
      BY <1>t, <2>2, <3>2, <3>3, FlattenHead, FlattenType
    <3>5. /\ buffer'[c] = a /\ bufferLeft'[c] = Len(a) /\ queue'[c] = t /\ OthersSame(c)
      BY <1>1, <1>2, <3>1, <3>2 DEF SinkType, OthersSame
    <3>6. Rest(c) = <<>>
      BY <1>t, <3>1, SubSeqEmpty DEF Rest
    <3>7. Rest(c)' = a
      <4>1. Len(a) - Len(a) + 1 = 1
        BY <3>3
      <4>2. SubSeq(a, 1, Len(a)) = a
        BY <3>3, SubSeqFull
      <4> QED BY <3>5, <4>1, <4>2 DEF Rest
    <3>8. SinkType'
      <4>1. /\ buffer' \in [Conns -> Seq(Nat)] /\ bufferLeft' \in [Conns -> Nat]
            /\ queue' \in [Conns -> Seq(Seq(Nat))]
        BY <1>1, <3>1, <3>2, <3>3 DEF SinkType
      <4>2. Len(t) <= QueueSize
        BY <1>1, <1>t, <3>3, AudioConstants DEF SinkType
      <4>3. ASSUME NEW e \in Conns PROVE Len(queue'[e]) <= QueueSize /\ bufferLeft'[e] <= Len(buffer'[e])
        <5>1. CASE e = c
          <6>1. Len(a) <= Len(a)
            BY <3>3
          <6> QED BY <3>5, <4>2, <5>1, <6>1
        <5>2. CASE e # c
          BY <1>1, <3>1, <5>2 DEF SinkType
        <5> QED BY <5>1, <5>2
      <4>4. callback' \in [Conns -> {"off", "copy", "wait"}]
        BY <1>1, <3>1 DEF SinkType
      <4> QED BY <1>1, <1>2, <3>1, <4>1, <4>3, <4>4 DEF SinkType
    <3>9. IsChain(played[c], a, FlattenSeq(t), hand[c], sock[c], k, written[c])
      <4>1. PICK p, q, f, h, s, g : /\ p = played[c] /\ q = Rest(c) /\ f = FlattenSeq(queue[c])
                                    /\ h = hand[c] /\ s = sock[c]
                                    /\ g = FlattenSeq(t)
        OBVIOUS
      <4>2. p \in Seq(Nat) /\ q = <<>> /\ f = a \o g /\ g \in Seq(Nat) /\ IsChain(p, q, f, h, s, k, written[c])
        BY <1>3, <1>4, <3>4, <3>6, <4>1
      <4>3. IsChain(p, a, g, h, s, k, written[c])
        BY ONLY <3>3, <4>2, ChainPop
      <4> QED BY <4>1, <4>3
    <3>10. device[c]
      BY <1>1, <2>2 DEF SoundAt
    <3>11. SoundAt(c)'
      <4>1. IsChain(played'[c], Rest(c)', FlattenSeq(queue'[c]), hand'[c], sock'[c], k, written'[c])
        BY <1>2, <3>1, <3>5, <3>7, <3>9
      <4>2. /\ host[c] \notin {"write", "push"} => hand[c] = <<>>
            /\ type[c] = "none" => host[c] = "none"
        BY <1>1 DEF SoundAt
      <4> QED BY <1>2, <1>4, <3>10, <4>1, <4>2 DEF SoundAt
    <3> QED BY <1>2, <1>5, <3>5, <3>8, <3>11, OthersSound
  <2> QED BY <2>1, <2>2
<1> QED BY <1>7, <1>8, <1>9, <1>10, <1>11 DEF Callback

\* The callback hands over no gap before all sound: it waits for its first byte.
LEMMA SoundedStep ==
  ASSUME AudioInv, Sounded, [AudioNext]_audioVars
  PROVE  Sounded'
<1>1. SinkType /\ AudioInv
  BY DEF AudioInv
<1>2. ASSUME UNCHANGED <<copied, played, gaps>> PROVE Sounded'
  BY <1>2 DEF Sounded
<1>3. ASSUME NEW c \in Conns, on_data_requested(c) PROVE Sounded'
  <2>1. UNCHANGED <<played, gaps>> /\ copied' = [copied EXCEPT ![c] = 0]
    BY <1>3 DEF on_data_requested
  <2>2. \A d \in Conns : Len(played[d]) \in Nat /\ (copied'[d] = 0 \/ copied'[d] = copied[d])
    BY <1>1, <2>1 DEF SinkType
  <2> QED BY <2>1, <2>2 DEF Sounded
<1>4. ASSUME NEW c \in Conns, CopyData(c) PROVE Sounded'
  <2>1. PICK a, l, m, n, b : /\ a = buffer[c] /\ l = bufferLeft[c] /\ n = Len(a) - l
                             /\ m = IF Wanted - copied[c] < l THEN Wanted - copied[c] ELSE l
                             /\ b = SubSeq(a, n + 1, n + m)
    OBVIOUS
  <2>2. /\ played' = [played EXCEPT ![c] = played[c] \o b]
        /\ copied' = [copied EXCEPT ![c] = copied[c] + m] /\ UNCHANGED gaps
    BY <1>4, <2>1 DEF CopyData
  <2>3. /\ a \in Seq(Nat) /\ Len(a) \in Nat /\ l \in 0 .. Len(a) /\ copied[c] \in 0 .. Wanted
        /\ played[c] \in Seq(Nat) /\ Len(played[c]) \in Nat
    <3>1. /\ buffer[c] \in Seq(Nat) /\ Len(buffer[c]) \in Nat /\ bufferLeft[c] \in Nat
          /\ bufferLeft[c] <= Len(buffer[c]) /\ copied[c] \in 0 .. Wanted /\ played[c] \in Seq(Nat)
      BY <1>1 DEF SinkType
    <3> QED BY <2>1, <3>1
  <2>4. m \in 0 .. l /\ n \in Nat /\ n + m \in n .. Len(a)
    <3>1. PICK w : w = Wanted - copied[c]
      OBVIOUS
    <3>2. w \in Nat
      BY <2>3, <3>1, AudioConstants
    <3>3. m = IF w < l THEN w ELSE l
      BY <2>1, <3>1
    <3>4. m \in 0 .. l
      BY ONLY <2>3, <3>2, <3>3
    <3>5. n = Len(a) - l
      BY <2>1
    <3> QED BY ONLY <2>3, <3>4, <3>5
  <2>5. b \in Seq(Nat) /\ Len(b) = m
    <3>1. b = SubSeq(a, n + 1, n + m)
      BY <2>1
    <3>2. \A i \in n + 1 .. n + m : i \in 1 .. Len(a)
      BY ONLY <2>3, <2>4
    <3>3. SubSeq(a, n + 1, n + m) \in Seq(Nat)
          /\ Len(SubSeq(a, n + 1, n + m)) = IF n + 1 <= n + m THEN n + m - (n + 1) + 1 ELSE 0
      BY ONLY <2>3, <2>4, <3>2, SubSeqProperties
    <3> QED BY ONLY <2>4, <3>1, <3>3
  <2>6. Len(played[c] \o b) = Len(played[c]) + m
    BY <2>3, <2>5, ConcatType
  <2>7. copied[c] + m <= Len(played[c]) + m
    BY <2>3, <2>4 DEF Sounded
  <2>8. /\ copied'[c] = copied[c] + m /\ played'[c] = played[c] \o b
        /\ \A d \in Conns : d # c => copied'[d] = copied[d] /\ played'[d] = played[d]
    BY <1>1, <2>2 DEF SinkType
  <2>9. copied'[c] <= Len(played'[c])
    BY <2>6, <2>7, <2>8
  <2> QED BY <2>2, <2>8, <2>9 DEF Sounded
<1>5. ASSUME NEW c \in Conns, ReadDone(c) PROVE Sounded'
  <2>1. /\ UNCHANGED <<played, copied>>
        /\ copied[c] = Wanted \/ copied[c] > 0
        /\ gaps' = [gaps EXCEPT ![c] = IF copied[c] < Wanted THEN gaps[c] \cup {Len(played[c])} ELSE gaps[c]]
    BY <1>5 DEF ReadDone
  <2>2. copied[c] \in 0 .. Wanted /\ Len(played[c]) \in Nat
    BY <1>1 DEF SinkType
  <2>3. copied[c] < Wanted => Len(played[c]) # 0
    BY <2>1, <2>2, AudioConstants DEF Sounded
  <2>4. \A d \in Conns : gaps'[d] = gaps[d] \/ (d = c /\ copied[c] < Wanted /\ gaps'[d] = gaps[d] \cup {Len(played[c])})
    BY <1>1, <2>1 DEF SinkType
  <2>5. ASSUME NEW d \in Conns PROVE 0 \notin gaps'[d]
    BY <2>3, <2>4 DEF Sounded
  <2> QED BY <2>1, <2>5 DEF Sounded
<1>6. \/ UNCHANGED <<copied, played, gaps>>
      \/ \E c \in Conns : on_data_requested(c) \/ CopyData(c) \/ ReadDone(c)
  <2>1. CASE Player \/ Recorder \/ Calls \/ GuestDies \/ UNCHANGED audioVars
    BY <2>1 DEF audioVars, Player, Recorder, Calls, GuestDies, SendInfo, GetReply, WriteLocks, WriteSome, out_write,
                in_read, adev_open_stream, adev_close_stream
  <2>2. ASSUME NEW c \in Conns, Server(c) PROVE UNCHANGED <<copied, played, gaps>>
    BY <2>2 DEF Server, Accept, create_connection_for, on_read_size, ReadError, write_data, PushWakes
  <2>3. ASSUME NEW c \in Conns, PopData(c) \/ UseFreedSink(c) PROVE UNCHANGED <<copied, played, gaps>>
    BY <2>3 DEF PopData, UseFreedSink
  <2> QED BY <2>1, <2>2, <2>3 DEF AudioNext, Callback
<1> QED BY <1>2, <1>3, <1>4, <1>5, <1>6

\* The invariant holds when the guest starts ...
LEMMA AudioInvInit ==
  ASSUME AudioInit
  PROVE  AudioInv
<1>1. GuestType /\ CallsHaveConn
  BY AudioConstants DEF AudioInit, GuestType, CallsHaveConn, All
<1>2. <<>> \in Seq(Nat) /\ <<>> \in Seq(Seq(Nat)) /\ Len(<<>>) = 0
  OBVIOUS
<1>3. ServerType
  <2>1. accepting \in BOOLEAN /\ broken \in BOOLEAN /\ host = [c \in Conns |-> "none"]
    BY DEF AudioInit, All
  <2>2. sock = [c \in Conns |-> <<>>] /\ hand = [c \in Conns |-> <<>>]
    BY DEF AudioInit, All
  <2>3. sock \in [Conns -> Seq(Nat)] /\ hand \in [Conns -> Seq(Nat)]
    BY <1>2, <2>2
  <2>4. \A c \in Conns : Len(sock[c]) <= SocketSize
    BY <1>2, <2>2, AudioConstants
  <2> QED BY <2>1, <2>3, <2>4 DEF ServerType
<1>4. SinkType
  BY <1>2, AudioConstants DEF AudioInit, SinkType, All
<1>5. ASSUME NEW c \in Conns PROVE SoundAt(c)
  <2>1. /\ written[c] = 0 /\ skipped[c] = {} /\ played[c] = <<>> /\ queue[c] = <<>> /\ hand[c] = <<>>
        /\ sock[c] = <<>> /\ buffer[c] = <<>> /\ bufferLeft[c] = 0 /\ host[c] = "none" /\ ~device[c]
    BY DEF AudioInit, All
  <2>2. FlattenSeq(queue[c]) = <<>> /\ Rest(c) = <<>>
    BY <1>2, <2>1, FlattenEmpty, SubSeqEmpty DEF Rest
  <2>3. <<>> \o <<>> = <<>> /\ Bytes(0, 0 - 0) = <<>> /\ 1 .. 0 = {}
    BY <1>2, ConcatEmpty DEF Bytes
  <2>4. IsChain(<<>>, <<>>, <<>>, <<>>, <<>>, 0, 0)
    BY <2>3 DEF IsChain, Chain
  <2> QED BY <2>1, <2>2, <2>3, <2>4 DEF SoundAt
<1> QED BY <1>1, <1>3, <1>4, <1>5 DEF AudioInv

\* ... and always.
LEMMA AudioInvariant == AudioSpec => []AudioInv
<1>1. AudioInit => AudioInv
  BY AudioInvInit
<1>2. AudioInv /\ [AudioNext]_audioVars => AudioInv'
  <2> SUFFICES ASSUME AudioInv, [AudioNext]_audioVars PROVE AudioInv'
    OBVIOUS
  <2>1. CASE Player \/ Recorder \/ Calls \/ GuestDies
    BY <2>1, GuestStep, GuestSound DEF AudioInv
  <2>2. ASSUME NEW c \in Conns, Server(c) PROVE AudioInv'
    BY <2>2, HostGuestType, ServerSound DEF AudioInv
  <2>3. ASSUME NEW c \in Conns, Callback(c) PROVE AudioInv'
    BY <2>3, HostGuestType, CallbackSound DEF AudioInv
  <2>4. CASE UNCHANGED audioVars
    BY <2>4 DEF audioVars, AudioInv, GuestType, ServerType, SinkType, CallsHaveConn, SoundAt, Rest
  <2> QED BY <2>1, <2>2, <2>3, <2>4 DEF AudioNext
<1> QED BY <1>1, <1>2, PTL DEF AudioSpec

\* The invariant gives the property: the bytes in the five places, in this order,
\* are those accepted, each once.
LEMMA SoundNow ==
  ASSUME AudioInv, Sounded
  PROVE  SoundIntact
<1>1. AudioTypeOK
  BY AudioTypeParts DEF AudioInv
<1>2. ASSUME NEW c \in Conns
      PROVE  Enumerates(played[c] \o Rest(c) \o FlattenSeq(queue[c]) \o hand[c] \o sock[c], Accepted(c))
  <2>1. written[c] \in Nat
    BY DEF AudioInv, GuestType
  <2>2. PICK k \in 0 .. written[c] :
          /\ skipped[c] = 1 .. k
          /\ IsChain(played[c], Rest(c), FlattenSeq(queue[c]), hand[c], sock[c], k, written[c])
    BY DEF AudioInv, SoundAt
  <2>3. PICK q, n : q = played[c] \o Rest(c) \o FlattenSeq(queue[c]) \o hand[c] \o sock[c] /\ n = written[c] - k
    OBVIOUS
  <2>4. q = Bytes(k, n) /\ n \in Nat /\ k \in Nat /\ written[c] = k + n
    BY <2>1, <2>2, <2>3 DEF IsChain, Chain
  <2>5. Len(q) = n /\ DOMAIN q = 1 .. n /\ \A i \in 1 .. n : q[i] = k + i
    BY <2>4, BytesType DEF Bytes
  <2>6. ToSet(q) = Accepted(c)
    <3>1. Accepted(c) = k + 1 .. k + n
      BY <2>1, <2>2, <2>4 DEF Accepted
    <3>2. ASSUME NEW x \in ToSet(q) PROVE x \in k + 1 .. k + n
      BY <2>4, <2>5 DEF ToSet
    <3>3. ASSUME NEW x \in k + 1 .. k + n PROVE x \in ToSet(q)
      <4>1. x - k \in 1 .. n /\ k + (x - k) = x
        BY <2>4
      <4>2. q[x - k] = x
        BY <2>5, <4>1
      <4> QED BY <2>5, <4>1, <4>2 DEF ToSet
    <3> QED BY <3>1, <3>2, <3>3
  <2>7. \A i, j \in 1 .. Len(q) : i < j => q[i] < q[j]
    BY <2>4, <2>5
  <2> QED BY <2>3, <2>6, <2>7 DEF Enumerates
<1> QED BY <1>1, <1>2 DEF SoundIntact, PlayedInOrder, StaleAfterSound, Sounded

\* AudioSink plays what the guest wrote once and in order, but for the bytes that came
\* before a device could be opened, for every size of writes, socket, queue and
\* callback buffer and every interleaving of server, callback and guest.
THEOREM SoundStaysIntact == AudioSpec => []SoundIntact
<1>1. AudioInv /\ Sounded => SoundIntact
  BY SoundNow
<1>2. AudioInit => Sounded
  BY DEF AudioInit, Sounded, All
<1>3. AudioInv /\ Sounded /\ [AudioNext]_audioVars => Sounded'
  BY SoundedStep
<1> QED BY <1>1, <1>2, <1>3, AudioInvariant, PTL DEF AudioSpec

\* Until the guest's audio server dies, a connection in the server is open in the guest.
ServedIsOpen ==
  deaths = 0 => /\ ~broken /\ accepting
                /\ \A c \in Conns : host[c] # "removed" /\ (host[c] # "none" => fd[c])

\* No step but the death of the audio server ends that.
LEMMA ServedStaysOpen ==
  ASSUME GuestType, ServerType, ServedIsOpen, AudioNext
  PROVE  ServedIsOpen'
<1>1. CASE GuestDies
  BY <1>1 DEF GuestDies, ServedIsOpen, GuestType
<1>2. ASSUME NEW t \in HalThreads, adev_open_stream(t) PROVE ServedIsOpen'
  BY <1>2 DEF adev_open_stream, ServedIsOpen, GuestType, ServerType
<1>3. ASSUME UNCHANGED <<deaths, broken, accepting, host, fd>> PROVE ServedIsOpen'
  BY <1>3 DEF ServedIsOpen
<1>4. ASSUME NEW c \in Conns, UNCHANGED <<deaths, broken, accepting, fd>>,
             host[c] # "none", NEW h, h \notin {"none", "removed"}, host' = [host EXCEPT ![c] = h]
      PROVE  ServedIsOpen'
  BY <1>4 DEF ServedIsOpen, ServerType
<1>5. ASSUME NEW c \in Conns, Server(c) PROVE ServedIsOpen'
  <2>1. CASE Accept(c)
    BY <1>4, <2>1 DEF Accept
  <2>2. CASE create_connection_for(c)
    <3>1. CASE deaths = 0
      <4>1. fd[c]
        BY <2>2, <3>1 DEF create_connection_for, ServedIsOpen
      <4>2. /\ host[c] # "none" /\ host' = [host EXCEPT ![c] = "read"]
            /\ UNCHANGED <<deaths, broken, accepting, fd>>
        BY <2>2, <4>1 DEF create_connection_for
      <4> QED BY <1>4, <4>2
    <3>2. CASE deaths # 0
      BY <2>2, <3>2 DEF create_connection_for, ServedIsOpen
    <3> QED BY <3>1, <3>2
  <2>3. CASE on_read_size(c)
    BY <1>4, <2>3 DEF on_read_size
  <2>4. CASE ReadError(c)
    BY <2>4 DEF ReadError, ServedIsOpen
  <2>5. CASE write_data(c)
    <3>1. host' = [host EXCEPT ![c] = "read"] \/ host' = [host EXCEPT ![c] = "push"]
      BY <2>5 DEF write_data, PushHand
    <3> QED BY <1>4, <2>5, <3>1 DEF write_data
  <2>6. CASE PushWakes(c)
    BY <1>4, <2>6 DEF PushWakes, PushHand
  <2> QED BY <1>5, <2>1, <2>2, <2>3, <2>4, <2>5, <2>6 DEF Server
<1>6. ASSUME NEW c \in Conns, Callback(c) PROVE ServedIsOpen'
  <2>1. CASE UseFreedSink(c)
    BY <2>1 DEF UseFreedSink, ServedIsOpen
  <2>2. CASE on_data_requested(c) \/ CopyData(c) \/ PopData(c) \/ ReadDone(c)
    BY <1>3, <2>2 DEF on_data_requested, CopyData, PopData, ReadDone
  <2> QED BY <1>6, <2>1, <2>2 DEF Callback
<1>7. \/ GuestDies \/ \E t \in HalThreads : adev_open_stream(t)
      \/ \E c \in Conns : Server(c) \/ Callback(c)
      \/ UNCHANGED <<deaths, broken, accepting, host, fd>>
  BY DEF AudioNext, Player, Recorder, Calls, SendInfo, GetReply, WriteLocks, WriteSome, out_write, in_read,
         adev_close_stream
<1> QED BY <1>1, <1>2, <1>3, <1>5, <1>6, <1>7

\* Closing a stream leaves its socket open (adev_close_output_stream), so no connection
\* ends, no sink is destroyed under its callback and the server goes on accepting until
\* the guest's audio server dies.
THEOREM OnlyDeathHarms == AudioSpec => []HarmOnlyByDeath
<1>1. AudioInit => ServedIsOpen
  BY DEF AudioInit, ServedIsOpen, All
<1>2. AudioInv /\ ServedIsOpen /\ [AudioNext]_audioVars => ServedIsOpen'
  <2>1. ASSUME AudioInv, ServedIsOpen, AudioNext PROVE ServedIsOpen'
    BY <2>1, ServedStaysOpen DEF AudioInv
  <2>2. ASSUME ServedIsOpen, UNCHANGED audioVars PROVE ServedIsOpen'
    BY <2>2 DEF ServedIsOpen, audioVars
  <2> QED BY <2>1, <2>2
<1>3. AudioInv /\ ServedIsOpen => HarmOnlyByDeath
  BY AudioConstants DEF AudioInv, GuestType, ServedIsOpen, HarmOnlyByDeath
<1> QED BY <1>1, <1>2, <1>3, AudioInvariant, PTL DEF AudioSpec
================================================================================
