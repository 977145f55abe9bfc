------------------------------ MODULE BoundedFifo ------------------------------
(***************************************************************************)
(* What a closable bounded queue promises to the threads that use it: a    *)
(* sequence of at most Capacity items, taken in the order they were put,   *)
(* refused with "EIO" only once it is shut (and, for a taker, empty) and   *)
(* with "EAGAIN" only when it is full (empty).  Blocking, wake-ups and the *)
(* layout in memory do not appear: a blocked call has simply not happened  *)
(* yet.  BufferQueue implements this specification.                        *)
(***************************************************************************)
EXTENDS Integers, Sequences

CONSTANTS Producers, Consumers, Data, Capacity, NoData

VARIABLES items,  \* the queued items, oldest first
          shut,   \* the queue accepts no more items
          ret,    \* the return code of each thread's last call
          got     \* the item each consumer took last

fifoVars == <<items, shut, ret, got>>

Returns(t, code) == ret' = [ret EXCEPT ![t] = code]

FifoInit == /\ items = <<>>
            /\ shut = FALSE
            /\ ret = [t \in Producers \cup Consumers |-> "none"]
            /\ got = [c \in Consumers |-> NoData]

Put(p, d) == /\ ~shut
             /\ Len(items) < Capacity
             /\ items' = Append(items, d)
             /\ Returns(p, "ok")
             /\ UNCHANGED <<shut, got>>

Take(c) == /\ items # <<>>
           /\ got' = [got EXCEPT ![c] = Head(items)]
           /\ items' = Tail(items)
           /\ Returns(c, "ok")
           /\ UNCHANGED shut

\* A consumer learns that an item is there, without taking it.
Peek(c) == /\ items # <<>>
           /\ Returns(c, "ok")
           /\ UNCHANGED <<items, shut, got>>

PutRefused(p) == /\ \/ shut /\ Returns(p, "EIO")
                    \/ ~shut /\ Len(items) = Capacity /\ Returns(p, "EAGAIN")
                 /\ UNCHANGED <<items, shut, got>>

TakeRefused(c) == /\ items = <<>>
                  /\ \/ shut /\ Returns(c, "EIO")
                     \/ ~shut /\ Returns(c, "EAGAIN")
                  /\ UNCHANGED <<items, shut, got>>

Shut == /\ shut' = TRUE
        /\ UNCHANGED <<items, ret, got>>

FifoNext == \/ \E p \in Producers : PutRefused(p) \/ \E d \in Data : Put(p, d)
            \/ \E c \in Consumers : Take(c) \/ Peek(c) \/ TakeRefused(c)
            \/ Shut

FifoSpec == FifoInit /\ [][FifoNext]_fifoVars
================================================================================
