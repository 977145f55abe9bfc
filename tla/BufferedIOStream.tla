--------------------------- MODULE BufferedIOStream ----------------------------
(***************************************************************************)
(* One connection of a guest OpenGL ES client: the stream between its      *)
(* socket and its render thread (graphics/buffered_io_stream.cpp), the     *)
(* render thread's read loop (emugl/RenderThread.cpp, emugl/ReadBuffer.cpp)*)
(* and the processor that owns both (opengles_message_processor.cpp).      *)
(*                                                                         *)
(*   io      the pool thread that reads the socket: post_data per read, at *)
(*           end of file the destructors of the processor's members        *)
(*   render  RenderThread::main: read, decode, reply                       *)
(*   worker  BufferedIOStream::thread_main: pop a reply, write it          *)
(*                                                                         *)
(* in_queue_ is used under lock_ only, by one producer and one consumer, so *)
(* it is the abstract queue that BufferQueue is proved to implement: a     *)
(* blocked call is one that has not happened yet.  out_queue_ is used under *)
(* out_lock_ by render and worker but closed by io under lock_, so its      *)
(* waiting and its notifications are modelled step by step.                *)
(*                                                                         *)
(* Commands and replies are streams of bytes; a byte is its position in    *)
(* the stream, counted from 1.                                             *)
(***************************************************************************)
EXTENDS Integers, Sequences, SequencesExt

CONSTANTS CommandBytes,  \* bound: bytes the guest sends before its end closes
          ChunkSizes,    \* sizes of a socket read
          InCapacity,    \* capacity of in_queue_ (1024)
          OutCapacity,   \* capacity of out_queue_ (16)
          BufSize,       \* STREAM_BUFFER_SIZE, initial size of the ReadBuffer
          CommandSize,   \* size of an encoded command
          ReplySize      \* size of a reply

ASSUME StreamAssumption ==
  /\ {CommandBytes, InCapacity, OutCapacity, BufSize, CommandSize, ReplySize} \subseteq Nat \ {0}
  /\ ChunkSizes \subseteq Nat \ {0}

VARIABLES
  ioPc,      \* where io is
  stops,     \* completed calls of forceStop
  posted,    \* bytes read from the socket
  lock,      \* owner of lock_
  inItems, inShut, inRet, inGot,  \* in_queue_
  left,      \* the last read_buffer_left_ bytes of read_buffer_
  renderPc,  \* where render is
  mSize,     \* m_size of the ReadBuffer
  valid,     \* its m_validData bytes
  fetched,   \* count of BufferedIOStream::read: bytes it has copied
  decoded,   \* bytes the decoders consumed
  replied,   \* reply bytes accepted by out_queue_
  outLock,   \* owner of out_lock_
  outItems, outShut,  \* out_queue_
  workerPc,  \* where worker is
  sending,   \* the last bytes_left bytes of the buffer being written
  sent,      \* bytes written to the socket
  sendError  \* send_raw has failed for good

ioVars == <<ioPc, stops, posted>>
inVars == <<inItems, inShut, inRet, inGot>>
readVars == <<left, mSize, valid, fetched, decoded>>
outVars == <<outItems, outShut, replied>>
sendVars == <<sending, sent, sendError>>
streamVars == <<ioVars, inVars, lock, readVars, renderPc, outLock, outVars, workerPc, sendVars>>

In == INSTANCE BoundedFifo
        WITH Producers <- {"io"}, Consumers <- {"render"}, Data <- Seq(Nat), NoData <- <<>>,
             Capacity <- InCapacity, items <- inItems, shut <- inShut, ret <- inRet, got <- inGot

\* The n bytes that follow byte k of a stream.
Bytes(k, n) == [i \in 1 .. n |-> k + i]

Least(m, n) == IF m < n THEN m ELSE n

StreamTypeOK == /\ ioPc \in {"run", "lock", "close", "notify_push", "notify_pop", "stopped", "joined"}
                /\ stops \in 0 .. 3
                /\ posted \in 0 .. CommandBytes
                /\ lock \in {"none", "io", "render"}
                /\ lock = "io" <=> ioPc \in {"close", "notify_push", "notify_pop"}
                /\ lock = "render" <=> renderPc = "read"
                /\ inItems \in Seq(Seq(Nat)) /\ Len(inItems) <= InCapacity
                /\ inShut \in BOOLEAN
                /\ left \in Seq(Nat)
                /\ renderPc \in {"getData", "read", "decode", "reply", "push", "to_wait", "asleep", "woken",
                                 "done"}
                /\ mSize \in Nat
                /\ valid \in Seq(Nat) /\ Len(valid) <= mSize
                /\ fetched \in 0 .. Len(valid)
                /\ decoded \in 0 .. posted
                /\ replied \in Nat
                /\ outLock \in {"none", "render", "worker"}
                /\ outLock = "render" <=> renderPc \in {"push", "to_wait"}
                /\ outLock = "worker" <=> workerPc \in {"pop", "to_wait", "send"}
                /\ outItems \in Seq(Seq(Nat)) /\ Len(outItems) <= OutCapacity
                /\ outShut \in BOOLEAN
                /\ workerPc \in {"lock", "pop", "to_wait", "asleep", "send", "done"}
                /\ sending \in Seq(Nat) /\ sent \in Seq(Nat)
                /\ sendError \in BOOLEAN

StreamInit == /\ ioPc = "run" /\ stops = 0 /\ posted = 0
              /\ lock = "none" /\ In!FifoInit
              /\ left = <<>> /\ fetched = 0
              /\ renderPc = "getData" /\ mSize = BufSize /\ valid = <<>> /\ decoded = 0
              /\ outLock = "none" /\ outItems = <<>> /\ outShut = FALSE /\ replied = 0
              /\ workerPc = "lock" /\ sending = <<>> /\ sent = <<>> /\ sendError = FALSE
--------------------------------------------------------------------------------
(* io *)

\* process_data and post_data for one socket read; blocks while in_queue_ is full.
post_data ==
  /\ ioPc = "run"
  /\ lock = "none"
  /\ \E n \in ChunkSizes : /\ posted + n <= CommandBytes
                           /\ In!Put("io", Bytes(posted, n))
                           /\ posted' = posted + n
  /\ UNCHANGED <<ioPc, stops, lock, readVars, renderPc, outLock, outVars, workerPc, sendVars>>

\* The read fails: the connection and with it the processor is destroyed, which
\* begins with the first forceStop.
EndOfFile ==
  /\ ioPc = "run"
  /\ ioPc' = "lock"
  /\ UNCHANGED <<stops, posted, inVars, lock, readVars, renderPc, outLock, outVars, workerPc, sendVars>>

\* Fault: only out_queue_ is closed.
CloseIn_skipped ==
  /\ ioPc = "lock"
  /\ lock = "none"
  /\ lock' = "io"
  /\ ioPc' = "close"
  /\ UNCHANGED <<stops, posted, inVars, readVars, renderPc, outLock, outVars, workerPc, sendVars>>

\* forceStop takes lock_ and closes in_queue_ ...
CloseIn ==
  /\ ioPc = "lock"
  /\ lock = "none"
  /\ lock' = "io"
  /\ In!Shut
  /\ ioPc' = "close"
  /\ UNCHANGED <<stops, posted, readVars, renderPc, outLock, outVars, workerPc, sendVars>>

\* ... then out_queue_, without out_lock_: each access is a step of its own.
CloseOut ==
  /\ ioPc = "close"
  /\ outShut' = TRUE
  /\ ioPc' = "notify_push"
  /\ UNCHANGED <<stops, posted, inVars, lock, readVars, renderPc, outLock, outItems, replied,
                 workerPc, sendVars>>

NotifyPush ==
  /\ ioPc = "notify_push"
  /\ renderPc' = IF Len(outItems) = OutCapacity /\ renderPc = "asleep" THEN "woken" ELSE renderPc
  /\ ioPc' = "notify_pop"
  /\ UNCHANGED <<stops, posted, inVars, lock, readVars, outLock, outVars, workerPc, sendVars>>

NotifyPop ==
  /\ ioPc = "notify_pop"
  /\ workerPc' = IF outItems = <<>> /\ workerPc = "asleep" THEN "lock" ELSE workerPc
  /\ lock' = "none"
  /\ stops' = stops + 1
  /\ ioPc' = "stopped"
  /\ UNCHANGED <<posted, inVars, readVars, renderPc, outLock, outVars, sendVars>>

\* The destructors: ~OpenGlesMessageProcessor stops the stream and waits for
\* render, ~RenderThread stops it again, ~BufferedIOStream a third time, and
\* then joins worker.
NextDestructor ==
  /\ ioPc = "stopped"
  /\ \/ stops = 1 /\ renderPc = "done" /\ ioPc' = "lock"
     \/ stops = 2 /\ ioPc' = "lock"
     \/ stops = 3 /\ workerPc = "done" /\ ioPc' = "joined"
  /\ UNCHANGED <<stops, posted, inVars, lock, readVars, renderPc, outLock, outVars, workerPc, sendVars>>
--------------------------------------------------------------------------------
(* render *)

\* Fault: the buffer is never enlarged.
getData_no_growth ==
  /\ renderPc = "getData"
  /\ lock = "none"
  /\ left # <<>> \/ inItems # <<>> \/ inShut
  /\ fetched' = 0
  /\ lock' = "render"
  /\ renderPc' = "read"
  /\ UNCHANGED <<ioVars, inVars, left, mSize, valid, decoded, outLock, outVars, workerPc, sendVars>>

\* ReadBuffer::getData up to the point where BufferedIOStream::read holds lock_
\* and does not block: a full buffer is doubled first.
getData ==
  /\ renderPc = "getData"
  /\ lock = "none"
  /\ left # <<>> \/ inItems # <<>> \/ inShut
  /\ mSize' = IF Len(valid) = mSize THEN 2 * mSize ELSE mSize
  /\ fetched' = 0
  /\ lock' = "render"
  /\ renderPc' = "read"
  /\ UNCHANGED <<ioVars, inVars, left, valid, decoded, outLock, outVars, workerPc, sendVars>>

\* The loop of read, first branch: count < wanted and read_buffer_left_ > 0.
ReadCopy ==
  /\ renderPc = "read"
  /\ left # <<>>
  /\ LET avail == Least(mSize - Len(valid), Len(left))
     IN  /\ avail > 0
         /\ valid' = valid \o SubSeq(left, 1, avail)
         /\ left' = SubSeq(left, avail + 1, Len(left))
         /\ fetched' = fetched + avail
  /\ UNCHANGED <<ioVars, inVars, lock, mSize, decoded, renderPc, outLock, outVars, workerPc, sendVars>>

\* Fault: read_buffer_left_ is not set from the popped buffer.
ReadPop_left_not_set ==
  /\ renderPc = "read"
  /\ left = <<>>
  /\ Len(valid) < mSize
  /\ In!Take("render")
  /\ UNCHANGED <<ioVars, lock, readVars, renderPc, outLock, outVars, workerPc, sendVars>>

\* Second branch: pop_locked or try_pop_locked succeeds.
ReadPop ==
  /\ renderPc = "read"
  /\ left = <<>>
  /\ Len(valid) < mSize
  /\ In!Take("render")
  /\ left' = inGot'["render"]
  /\ UNCHANGED <<ioVars, lock, mSize, valid, fetched, decoded, renderPc, outLock, outVars, workerPc,
                 sendVars>>

\* read returns: the buffer is full, or there is no more data.  Without a
\* single byte it returns a null pointer, getData fails and main leaves its loop.
ReadReturn ==
  /\ renderPc = "read"
  /\ \/ Len(valid) = mSize /\ UNCHANGED inVars
     \/ Len(valid) < mSize /\ left = <<>> /\ In!TakeRefused("render")
  /\ renderPc' = IF fetched > 0 THEN "decode" ELSE "done"
  /\ lock' = "none"
  /\ UNCHANGED <<ioVars, readVars, outLock, outVars, workerPc, sendVars>>

\* The decoders consume a whole command at the front of the buffer; some
\* commands are answered.  When nothing is consumed main goes back to getData.
decode ==
  /\ renderPc = "decode"
  /\ IF Len(valid) >= CommandSize
     THEN /\ valid' = SubSeq(valid, CommandSize + 1, Len(valid))
          /\ decoded' = decoded + CommandSize
          /\ fetched' = 0
          /\ renderPc' \in {"decode", "reply"}
     ELSE /\ renderPc' = "getData"
          /\ fetched' = 0
          /\ UNCHANGED <<valid, decoded>>
  /\ UNCHANGED <<ioVars, inVars, lock, left, mSize, outLock, outVars, workerPc, sendVars>>

\* allocBuffer, filling the buffer, and commitBuffer taking out_lock_ (again,
\* after a wake-up inside push_locked).
commitBuffer ==
  /\ renderPc \in {"reply", "woken"}
  /\ outLock = "none"
  /\ outLock' = "render"
  /\ renderPc' = "push"
  /\ UNCHANGED <<ioVars, inVars, lock, readVars, outVars, workerPc, sendVars>>

\* push_locked: a closed queue drops the reply, and commitBuffer ignores it.
PushReply ==
  /\ renderPc = "push"
  /\ \/ /\ outShut
        /\ outLock' = "none" /\ renderPc' = "decode"
        /\ UNCHANGED <<outVars, workerPc>>
     \/ /\ ~outShut /\ Len(outItems) = OutCapacity
        /\ renderPc' = "to_wait"
        /\ UNCHANGED <<outLock, outVars, workerPc>>
     \/ /\ ~outShut /\ Len(outItems) < OutCapacity
        /\ outItems' = Append(outItems, Bytes(replied, ReplySize))
        /\ replied' = replied + ReplySize
        /\ workerPc' = IF outItems = <<>> /\ workerPc = "asleep" THEN "lock" ELSE workerPc
        /\ outLock' = "none" /\ renderPc' = "decode"
        /\ UNCHANGED outShut
  /\ UNCHANGED <<ioVars, inVars, lock, readVars, sendVars>>

\* condition_variable::wait enters the wait set and releases out_lock_.
PushWait ==
  /\ renderPc = "to_wait"
  /\ renderPc' = "asleep"
  /\ outLock' = "none"
  /\ UNCHANGED <<ioVars, inVars, lock, readVars, outVars, workerPc, sendVars>>
--------------------------------------------------------------------------------
(* worker *)

LockOut ==
  /\ workerPc = "lock"
  /\ outLock = "none"
  /\ outLock' = "worker"
  /\ workerPc' = "pop"
  /\ UNCHANGED <<ioVars, inVars, lock, readVars, renderPc, outVars, sendVars>>

\* pop_locked: the thread ends when out_queue_ is empty and closed.
PopReply ==
  /\ workerPc = "pop"
  /\ \/ /\ outItems = <<>> /\ outShut
        /\ workerPc' = "done" /\ outLock' = "none"
        /\ UNCHANGED <<outVars, renderPc, sendVars>>
     \/ /\ outItems = <<>> /\ ~outShut
        /\ workerPc' = "to_wait"
        /\ UNCHANGED <<outLock, outVars, renderPc, sendVars>>
     \/ /\ outItems # <<>>
        /\ outItems' = Tail(outItems)
        /\ sending' = Head(outItems)
        /\ renderPc' = IF Len(outItems) = OutCapacity /\ renderPc = "asleep" THEN "woken" ELSE renderPc
        /\ workerPc' = "send"
        /\ UNCHANGED <<outLock, outShut, replied, sent, sendError>>
  /\ UNCHANGED <<ioVars, inVars, lock, readVars>>

PopWait ==
  /\ workerPc = "to_wait"
  /\ workerPc' = "asleep"
  /\ outLock' = "none"
  /\ UNCHANGED <<ioVars, inVars, lock, readVars, renderPc, outVars, sendVars>>

\* Fault: a partial write is repeated from the start of the buffer.
send_raw_from_start ==
  /\ workerPc = "send"
  /\ sending # <<>>
  /\ \E n \in 1 .. Len(sending) :
       /\ sent' = sent \o SubSeq(sending, 1, n)
       /\ sending' = IF n = Len(sending) THEN <<>> ELSE sending
  /\ UNCHANGED <<ioVars, inVars, lock, readVars, renderPc, outLock, outVars, workerPc, sendError>>

\* The socket takes some of the bytes, or the write fails for good and the rest
\* of the buffer is dropped.  EINTR and EAGAIN change nothing.
send_raw ==
  /\ workerPc = "send"
  /\ sending # <<>>
  /\ \/ \E n \in 1 .. Len(sending) : /\ sent' = sent \o SubSeq(sending, 1, n)
                                     /\ sending' = SubSeq(sending, n + 1, Len(sending))
                                     /\ UNCHANGED sendError
     \/ /\ sending' = <<>>
        /\ sendError' = TRUE
        /\ UNCHANGED sent
  /\ UNCHANGED <<ioVars, inVars, lock, readVars, renderPc, outLock, outVars, workerPc>>

\* End of an iteration: the unique_lock goes out of scope.
ReplyDone ==
  /\ workerPc = "send"
  /\ sending = <<>>
  /\ workerPc' = "lock"
  /\ outLock' = "none"
  /\ UNCHANGED <<ioVars, inVars, lock, readVars, renderPc, outVars, sendVars>>

SpuriousStreamWakeup ==
  /\ \/ renderPc = "asleep" /\ renderPc' = "woken" /\ UNCHANGED workerPc
     \/ workerPc = "asleep" /\ workerPc' = "lock" /\ UNCHANGED renderPc
  /\ UNCHANGED <<ioVars, inVars, lock, readVars, outLock, outVars, sendVars>>
--------------------------------------------------------------------------------
forceStop == CloseIn \/ CloseOut \/ NotifyPush \/ NotifyPop
IoDestroys == forceStop \/ NextDestructor
Render == getData \/ ReadCopy \/ ReadPop \/ ReadReturn \/ decode \/ PushReply \/ PushWait
Worker == PopReply \/ PopWait \/ send_raw \/ ReplyDone

StreamNext == \/ post_data \/ EndOfFile \/ IoDestroys
              \/ Render \/ commitBuffer
              \/ Worker \/ LockOut
              \/ SpuriousStreamWakeup

StreamSpec == StreamInit /\ [][StreamNext]_streamVars

\* Threads run.  A thread that waits for out_lock_ gets it even if the other one
\* keeps taking it, which matters only when that one is woken up spuriously over
\* and over: otherwise it goes to sleep as soon as out_queue_ is empty (full).
\* A write neither fails nor succeeds only while the guest does not read its
\* replies: it does, or closes its end.  The guest owes no commands and no end
\* of file, and nobody a spurious wake-up.
StreamFairness == /\ WF_streamVars(IoDestroys)
                  /\ WF_streamVars(Render) /\ SF_streamVars(commitBuffer)
                  /\ WF_streamVars(Worker) /\ SF_streamVars(LockOut)

StreamFairSpec == StreamSpec /\ StreamFairness
--------------------------------------------------------------------------------
(* Properties. *)

\* Between the socket and the decoders no byte is lost, duplicated or
\* reordered, however the socket reads, the commands and the ReadBuffer are cut:
\* the bytes in the ReadBuffer, in read_buffer_ and in in_queue_, put behind one
\* another, are the bytes posted and not decoded yet.
CommandsInOrder == valid \o left \o FlattenSeq(inItems) = Bytes(decoded, posted - decoded)

\* The path of the commands: the state has its shape, queues and read buffer stay
\* within their sizes, and the bytes stay in order (BufferedIOStream::read).
CommandsIntact == StreamTypeOK /\ CommandsInOrder

\* On the way back the same holds until a write fails for good; after that,
\* whole or partial replies are missing, but never repeated or out of order.
RepliesInOrder ==
  LET replies == sent \o sending \o FlattenSeq(outItems)
  IN  /\ ~sendError => replies = Bytes(0, replied)
      /\ \A i \in 1 .. Len(replies) - 1 : replies[i] < replies[i + 1]

\* Closing does not cut off replies that were accepted: worker ends only after
\* it has handed all of them to the socket.
RepliesDrained == workerPc = "done" => outShut /\ outItems = <<>> /\ sending = <<>>

\* The path of the replies, from commitBuffer to the end of thread_main.
RepliesIntact == RepliesInOrder /\ RepliesDrained

\* A command that has arrived completely is decoded, even when the connection
\* is closed right behind it and when the render thread has to wait for room in
\* out_queue_ in between.
CommandsDecoded ==
  \A n \in 1 .. CommandBytes \div CommandSize :
    posted >= n * CommandSize ~> decoded >= n * CommandSize

\* Once the connection has ended, so does the render thread that
\* ~OpenGlesMessageProcessor waits for.
RenderThreadEnds == ioPc # "run" ~> renderPc = "done"

\* "Wake any potential waiters.", says close_locked: a thread that waits for a
\* reply learns that out_queue_ was closed.
CloseWakesWaiters == stops = 3 ~> workerPc = "done"
================================================================================
