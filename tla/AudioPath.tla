------------------------------- MODULE AudioPath --------------------------------
(***************************************************************************)
(* Sound from the guest to the speaker: the audio HAL of the guest         *)
(* (src/android/audio/audio_hw.cpp), which serves a playback and a record  *)
(* thread under one lock, the server of the host (audio/server.cpp) and    *)
(* the sink with its SDL callback (platform/sdl/audio_sink.cpp).           *)
(*                                                                         *)
(* A byte is its position in the stream of its connection.  The queue of a *)
(* sink is a BufferQueue that is never closed: a bounded FIFO of chunks.   *)
(* Use of a sink after its destruction sets broken and ends the behaviour. *)
(***************************************************************************)
EXTENDS Integers, Sequences, SequencesExt

CONSTANTS MaxConns,    \* bound: connections to the server, numbered as they are made
          MaxBytes,    \* bound: bytes written to all of them
          WriteSizes,  \* sizes of the guest's writes
          SocketSize,  \* bytes a socket holds
          QueueSize,   \* max_queue_size
          Wanted,      \* bytes the callback asks for
          MaxDeaths    \* bound: deaths of the guest's audio server

ASSUME AudioAssumption == /\ MaxConns \in Nat /\ MaxBytes \in Nat /\ MaxDeaths \in Nat
                          /\ WriteSizes \subseteq 1 .. MaxBytes
                          /\ SocketSize \in Nat \ {0} /\ QueueSize \in Nat \ {0} /\ Wanted \in Nat \ {0}

Conns == 1 .. MaxConns
None == 0
HalThreads == {"player", "recorder"}

VARIABLES
  holder,          \* the thread that has adev->lock, or "nobody"
  pc, at,          \* what a thread of the guest does, and with which connection
  stream,          \* adev->output and adev->input: the connection of the open stream, or None
  todo,            \* bytes the write in progress has left
  type, fd,        \* of a connection: what it is for, and whether the guest has it open
  info, reply,     \* the client info was sent, and sent back
  written, sock,   \* bytes written so far, and those in the socket
  accepting,       \* the server accepts connections
  host,            \* the connection in the server: "write" and "push" in write_data
  hand,            \* the bytes write_data was called with
  device,          \* device_id_ is set: SDL calls back
  queue, buffer, bufferLeft, \* queue_, read_buffer_ and read_buffer_left_
  callback, copied, \* read_data: "copy" holds lock_, "wait" is in pop_locked
  played, gaps,    \* bytes handed to SDL, and after how many of them stale ones follow
  skipped,
  deaths, broken

guestVars == <<holder, pc, at, stream, todo>>
connVars == <<type, fd, info, reply, written>>
sinkVars == <<device, queue, buffer, bufferLeft, callback, copied, played, gaps, skipped>>
audioVars == <<holder, pc, at, stream, todo, type, fd, info, reply, written, sock, accepting, host, hand,
               device, queue, buffer, bufferLeft, callback, copied, played, gaps, skipped, deaths, broken>>

AudioTypeOK ==
  /\ holder \in HalThreads \cup {"nobody"}
  /\ pc \in [HalThreads -> {"idle", "connect", "reply", "write", "writing", "read"}]
  /\ at \in [HalThreads -> Conns \cup {None}] /\ stream \in [HalThreads -> Conns \cup {None}] /\ todo \in Nat
  /\ type \in [Conns -> HalThreads \cup {"none"}] /\ fd \in [Conns -> BOOLEAN]
  /\ info \in [Conns -> BOOLEAN] /\ reply \in [Conns -> BOOLEAN] /\ written \in [Conns -> Nat]
  /\ accepting \in BOOLEAN
  /\ host \in [Conns -> {"none", "backlog", "hello", "read", "write", "push", "removed"}]
  /\ device \in [Conns -> BOOLEAN]
  /\ callback \in [Conns -> {"off", "copy", "wait"}] /\ copied \in [Conns -> 0 .. Wanted]
  /\ sock \in [Conns -> Seq(Nat)] /\ hand \in [Conns -> Seq(Nat)] /\ queue \in [Conns -> Seq(Seq(Nat))]
  /\ buffer \in [Conns -> Seq(Nat)] /\ bufferLeft \in [Conns -> Nat]
  /\ played \in [Conns -> Seq(Nat)] /\ gaps \in [Conns -> SUBSET Nat] /\ skipped \in [Conns -> SUBSET Nat]
  /\ \A c \in Conns : /\ Len(sock[c]) <= SocketSize /\ Len(queue[c]) <= QueueSize
                      /\ bufferLeft[c] <= Len(buffer[c])
  /\ deaths \in 0 .. MaxDeaths /\ broken \in BOOLEAN

All(x) == [c \in Conns |-> x]
AudioInit ==
  /\ holder = "nobody" /\ pc = [t \in HalThreads |-> "idle"] /\ at = [t \in HalThreads |-> None]
  /\ stream = [t \in HalThreads |-> None] /\ todo = 0
  /\ type = All("none") /\ fd = All(FALSE) /\ info = All(FALSE) /\ reply = All(FALSE)
  /\ written = All(0) /\ sock = All(<<>>)
  /\ accepting = TRUE /\ host = All("none") /\ hand = All(<<>>)
  /\ device = All(FALSE) /\ queue = All(<<>>) /\ buffer = All(<<>>) /\ bufferLeft = All(0)
  /\ callback = All("off") /\ copied = All(0) /\ played = All(<<>>) /\ gaps = All({}) /\ skipped = All({})
  /\ deaths = 0 /\ broken = FALSE
--------------------------------------------------------------------------------
(* The HAL.  A call that waits for adev->lock has not happened yet; only a write that *)
(* waits for it is told apart.                                                       *)

Release(t) == holder' = "nobody" /\ pc' = [pc EXCEPT ![t] = "idle"] /\ at' = [at EXCEPT ![t] = None]

\* adev_open_output_stream and adev_open_input_stream take the lock and connect; the
\* second one looks at the format first, and fails before it connects.
adev_open_stream(t) ==
  /\ ~broken /\ pc[t] = "idle" /\ holder = "nobody" /\ stream[t] = None
  /\ \E c \in Conns :
       /\ type[c] = "none" /\ \A d \in 1 .. c - 1 : type[d] # "none"
       /\ type' = [type EXCEPT ![c] = t] /\ fd' = [fd EXCEPT ![c] = TRUE]
       /\ host' = [host EXCEPT ![c] = "backlog"]
       /\ at' = [at EXCEPT ![t] = c]
  /\ holder' = t /\ pc' = [pc EXCEPT ![t] = "connect"]
  /\ UNCHANGED <<stream, todo, info, reply, written, sock, accepting, hand, sinkVars, deaths, broken>>

\* The rest of connect_audio_server: the client info is written ...
SendInfo(t) ==
  /\ ~broken /\ pc[t] = "connect"
  /\ info' = [info EXCEPT ![at[t]] = TRUE]
  /\ pc' = [pc EXCEPT ![t] = "reply"]
  /\ UNCHANGED <<holder, at, stream, todo, type, fd, reply, written, sock, accepting, host, hand, sinkVars,
                 deaths, broken>>

\* ... and read back.  An output stream of the wrong format fails only now, and its
\* connection stays open.
GetReply(t) ==
  /\ ~broken /\ pc[t] = "reply" /\ reply[at[t]]
  /\ \/ stream' = [stream EXCEPT ![t] = at[t]]
     \/ t = "player" /\ UNCHANGED stream
  /\ Release(t)
  /\ UNCHANGED <<todo, connVars, sock, accepting, host, hand, sinkVars, deaths, broken>>

\* Fault: the socket is closed with the stream.
adev_close_stream_closes_fd(t) ==
  /\ ~broken /\ pc[t] = "idle" /\ holder = "nobody" /\ stream[t] # None
  /\ fd' = [fd EXCEPT ![stream[t]] = FALSE]
  /\ stream' = [stream EXCEPT ![t] = None]
  /\ UNCHANGED <<holder, pc, at, todo, type, info, reply, written, sock, accepting, host, hand, sinkVars,
                 deaths, broken>>

\* adev_close_output_stream and adev_close_input_stream free the stream; its socket
\* stays open.
adev_close_stream(t) ==
  /\ ~broken /\ pc[t] = "idle" /\ holder = "nobody" /\ stream[t] # None
  /\ stream' = [stream EXCEPT ![t] = None]
  /\ UNCHANGED <<holder, pc, at, todo, connVars, sock, accepting, host, hand, sinkVars, deaths, broken>>

TotalSent == FoldFunction(+, 0, written)

\* out_write is called ...
out_write ==
  /\ ~broken /\ pc["player"] = "idle" /\ stream["player"] # None
  /\ \E n \in WriteSizes : TotalSent + n <= MaxBytes /\ todo' = n
  /\ pc' = [pc EXCEPT !["player"] = "write"] /\ at' = [at EXCEPT !["player"] = stream["player"]]
  /\ UNCHANGED <<holder, stream, connVars, sock, accepting, host, hand, sinkVars, deaths, broken>>

\* ... gets the lock ...
WriteLocks ==
  /\ ~broken /\ pc["player"] = "write" /\ holder = "nobody"
  /\ holder' = "player" /\ pc' = [pc EXCEPT !["player"] = "writing"]
  /\ UNCHANGED <<at, stream, todo, connVars, sock, accepting, host, hand, sinkVars, deaths, broken>>

\* Fault: the lock is not given back.
WriteSome_keeps_lock ==
  /\ ~broken /\ pc["player"] = "writing"
  /\ LET c == at["player"]
         room == SocketSize - Len(sock[c])
         n == IF todo < room THEN todo ELSE room
     IN /\ n > 0
        /\ sock' = [sock EXCEPT ![c] = @ \o [i \in 1 .. n |-> written[c] + i]]
        /\ written' = [written EXCEPT ![c] = @ + n]
        /\ todo' = todo - n
        /\ IF n = todo THEN pc' = [pc EXCEPT !["player"] = "idle"] /\ at' = [at EXCEPT !["player"] = None]
           ELSE UNCHANGED <<pc, at>>
  /\ UNCHANGED <<holder, stream, type, fd, info, reply, accepting, host, hand, sinkVars, deaths, broken>>

\* ... and writes what the socket takes, until all is written.
WriteSome ==
  /\ ~broken /\ pc["player"] = "writing"
  /\ LET c == at["player"]
         room == SocketSize - Len(sock[c])
         n == IF todo < room THEN todo ELSE room
     IN /\ n > 0
        /\ sock' = [sock EXCEPT ![c] = @ \o [i \in 1 .. n |-> written[c] + i]]
        /\ written' = [written EXCEPT ![c] = @ + n]
        /\ todo' = todo - n
        /\ IF n = todo THEN Release("player") ELSE UNCHANGED <<holder, pc, at>>
  /\ UNCHANGED <<stream, type, fd, info, reply, accepting, host, hand, sinkVars, deaths, broken>>

\* in_read keeps the lock while it waits; the host sends nothing on a connection for
\* recording, so it does not return.
in_read ==
  /\ ~broken /\ pc["recorder"] = "idle" /\ stream["recorder"] # None /\ holder = "nobody"
  /\ holder' = "recorder" /\ pc' = [pc EXCEPT !["recorder"] = "read"]
  /\ at' = [at EXCEPT !["recorder"] = stream["recorder"]]
  /\ UNCHANGED <<stream, todo, connVars, sock, accepting, host, hand, sinkVars, deaths, broken>>

\* The guest's audio server dies, and is started again.
GuestDies ==
  /\ ~broken /\ deaths < MaxDeaths
  /\ deaths' = deaths + 1
  /\ holder' = "nobody" /\ pc' = [t \in HalThreads |-> "idle"] /\ at' = [t \in HalThreads |-> None]
  /\ stream' = [t \in HalThreads |-> None] /\ todo' = 0
  /\ fd' = All(FALSE)
  /\ UNCHANGED <<type, info, reply, written, sock, accepting, host, hand, sinkVars, broken>>
--------------------------------------------------------------------------------
(* The server. *)

\* PublishedSocketConnector::on_new_connection; the next one is accepted when
\* create_connection_for has returned.
Accept(c) ==
  /\ ~broken /\ accepting /\ host[c] = "backlog" /\ \A d \in Conns : host[d] # "hello"
  /\ host' = [host EXCEPT ![c] = "hello"]
  /\ UNCHANGED <<guestVars, connVars, sock, accepting, hand, sinkVars, deaths, broken>>

\* create_connection_for: reads the client info, makes the sink and sends the info back.
\* A guest that is gone by then makes send throw, and nobody accepts any more.
create_connection_for(c) ==
  /\ ~broken /\ host[c] = "hello"
  /\ \/ /\ info[c] /\ fd[c]
        /\ reply' = [reply EXCEPT ![c] = TRUE]
        /\ host' = [host EXCEPT ![c] = "read"]
        /\ UNCHANGED accepting
     \/ /\ info[c] /\ ~fd[c]
        /\ accepting' = FALSE
        /\ host' = [host EXCEPT ![c] = "none"]
        /\ UNCHANGED reply
     \/ /\ ~info[c] /\ ~fd[c]
        /\ host' = [host EXCEPT ![c] = "none"]
        /\ UNCHANGED <<accepting, reply>>
  /\ UNCHANGED <<guestVars, type, fd, info, written, sock, hand, sinkVars, deaths, broken>>

\* SocketConnection::on_read_size with some of the bytes.
on_read_size(c) ==
  /\ ~broken /\ host[c] = "read" /\ sock[c] # <<>>
  /\ \E n \in 1 .. Len(sock[c]) :
       /\ hand' = [hand EXCEPT ![c] = SubSeq(sock[c], 1, n)]
       /\ sock' = [sock EXCEPT ![c] = SubSeq(@, n + 1, Len(@))]
  /\ host' = [host EXCEPT ![c] = "write"]
  /\ UNCHANGED <<guestVars, connVars, accepting, sinkVars, deaths, broken>>

\* on_read_size with an error: the connection is removed, and the sink is destroyed
\* with it, without disconnect_audio.
ReadError(c) ==
  /\ ~broken /\ host[c] = "read" /\ sock[c] = <<>> /\ ~fd[c]
  /\ host' = [host EXCEPT ![c] = "removed"]
  /\ UNCHANGED <<guestVars, connVars, sock, accepting, hand, sinkVars, deaths, broken>>
--------------------------------------------------------------------------------
(* The sink; every step has lock_, which only a wait gives up. *)

Unlocked(c) == callback[c] # "copy"

\* push_locked, when there is room.
PushHand(c) ==
  /\ Len(queue[c]) < QueueSize
  /\ queue' = [queue EXCEPT ![c] = Append(@, hand[c])]
  /\ hand' = [hand EXCEPT ![c] = <<>>]
  /\ host' = [host EXCEPT ![c] = "read"]

\* write_data: connect_audio opens the device if it is not open; when that fails the
\* bytes are skipped.
write_data(c) ==
  /\ ~broken /\ host[c] = "write" /\ Unlocked(c)
  /\ \/ /\ device' = [device EXCEPT ![c] = TRUE]
        /\ \/ PushHand(c)
           \/ /\ Len(queue[c]) = QueueSize
              /\ host' = [host EXCEPT ![c] = "push"] /\ UNCHANGED <<queue, hand>>
        /\ UNCHANGED skipped
     \/ /\ ~device[c]
        /\ skipped' = [skipped EXCEPT ![c] = @ \cup ToSet(hand[c])]
        /\ hand' = [hand EXCEPT ![c] = <<>>]
        /\ host' = [host EXCEPT ![c] = "read"]
        /\ UNCHANGED <<device, queue>>
  /\ UNCHANGED <<guestVars, connVars, sock, accepting, buffer, bufferLeft, callback, copied, played, gaps, deaths,
                 broken>>

\* The wait of push_locked ends.
PushWakes(c) ==
  /\ ~broken /\ host[c] = "push" /\ Unlocked(c)
  /\ PushHand(c)
  /\ UNCHANGED <<guestVars, connVars, sock, accepting, device, buffer, bufferLeft, callback, copied, played, gaps,
                 skipped, deaths, broken>>

\* on_data_requested, called by SDL's thread of the device.
on_data_requested(c) ==
  /\ ~broken /\ device[c] /\ host[c] # "removed" /\ callback[c] = "off"
  /\ callback' = [callback EXCEPT ![c] = "copy"] /\ copied' = [copied EXCEPT ![c] = 0]
  /\ UNCHANGED <<guestVars, connVars, sock, accepting, host, hand, device, queue, buffer, bufferLeft, played, gaps,
                 skipped, deaths, broken>>

\* Fault: copies from the start of the buffer.
CopyData_from_start(c) ==
  /\ ~broken /\ host[c] # "removed" /\ callback[c] = "copy" /\ copied[c] < Wanted /\ bufferLeft[c] > 0
  /\ LET avail == IF Wanted - copied[c] < bufferLeft[c] THEN Wanted - copied[c] ELSE bufferLeft[c]
     IN /\ played' = [played EXCEPT ![c] = @ \o SubSeq(buffer[c], 1, avail)]
        /\ copied' = [copied EXCEPT ![c] = @ + avail]
        /\ bufferLeft' = [bufferLeft EXCEPT ![c] = @ - avail]
  /\ UNCHANGED <<guestVars, connVars, sock, accepting, host, hand, device, queue, buffer, callback, gaps,
                 skipped, deaths, broken>>

\* One round of read_data's loop: what is left of the buffer is copied ...
CopyData(c) ==
  /\ ~broken /\ host[c] # "removed" /\ callback[c] = "copy" /\ copied[c] < Wanted /\ bufferLeft[c] > 0
  /\ LET avail == IF Wanted - copied[c] < bufferLeft[c] THEN Wanted - copied[c] ELSE bufferLeft[c]
         from == Len(buffer[c]) - bufferLeft[c]
     IN /\ played' = [played EXCEPT ![c] = @ \o SubSeq(buffer[c], from + 1, from + avail)]
        /\ copied' = [copied EXCEPT ![c] = @ + avail]
        /\ bufferLeft' = [bufferLeft EXCEPT ![c] = @ - avail]
  /\ UNCHANGED <<guestVars, connVars, sock, accepting, host, hand, device, queue, buffer, callback, gaps,
                 skipped, deaths, broken>>

\* ... or a buffer is popped, for which the first round waits.
PopData(c) ==
  /\ ~broken /\ host[c] # "removed" /\ callback[c] \in {"copy", "wait"} /\ copied[c] < Wanted /\ bufferLeft[c] = 0
  /\ IF queue[c] # <<>>
     THEN /\ buffer' = [buffer EXCEPT ![c] = Head(queue[c])]
          /\ bufferLeft' = [bufferLeft EXCEPT ![c] = Len(Head(queue[c]))]
          /\ queue' = [queue EXCEPT ![c] = Tail(@)]
          /\ callback' = [callback EXCEPT ![c] = "copy"]
     ELSE /\ callback[c] = "copy" /\ copied[c] = 0
          /\ callback' = [callback EXCEPT ![c] = "wait"]
          /\ UNCHANGED <<buffer, bufferLeft, queue>>
  /\ UNCHANGED <<guestVars, connVars, sock, accepting, host, hand, device, copied, played, gaps, skipped, deaths,
                 broken>>

\* Fault: what is left of the buffer is forgotten.
ReadDone_drops_rest(c) ==
  /\ ~broken /\ host[c] # "removed" /\ callback[c] = "copy"
  /\ copied[c] = Wanted \/ (copied[c] > 0 /\ bufferLeft[c] = 0 /\ queue[c] = <<>>)
  /\ callback' = [callback EXCEPT ![c] = "off"]
  /\ bufferLeft' = [bufferLeft EXCEPT ![c] = 0]
  /\ gaps' = [gaps EXCEPT ![c] = IF copied[c] < Wanted THEN @ \cup {Len(played[c])} ELSE @]
  /\ UNCHANGED <<guestVars, connVars, sock, accepting, host, hand, device, queue, buffer, copied, played,
                 skipped, deaths, broken>>

\* read_data returns, with the buffer full or with what there was: the rest of SDL's
\* buffer keeps what was in it, and is heard.
ReadDone(c) ==
  /\ ~broken /\ host[c] # "removed" /\ callback[c] = "copy"
  /\ copied[c] = Wanted \/ (copied[c] > 0 /\ bufferLeft[c] = 0 /\ queue[c] = <<>>)
  /\ callback' = [callback EXCEPT ![c] = "off"]
  /\ gaps' = [gaps EXCEPT ![c] = IF copied[c] < Wanted THEN @ \cup {Len(played[c])} ELSE @]
  /\ UNCHANGED <<guestVars, connVars, sock, accepting, host, hand, device, queue, buffer, bufferLeft, copied, played,
                 skipped, deaths, broken>>

\* The callback goes on although the sink is destroyed.
UseFreedSink(c) ==
  /\ ~broken /\ device[c] /\ host[c] = "removed"
  /\ broken' = TRUE
  /\ UNCHANGED <<guestVars, connVars, sock, accepting, host, hand, sinkVars, deaths>>
--------------------------------------------------------------------------------
Player == SendInfo("player") \/ GetReply("player") \/ WriteLocks \/ WriteSome
Recorder == SendInfo("recorder") \/ GetReply("recorder")
Calls == out_write \/ in_read \/ \E t \in HalThreads : adev_open_stream(t) \/ adev_close_stream(t)
Server(c) == Accept(c) \/ create_connection_for(c) \/ on_read_size(c) \/ ReadError(c) \/ write_data(c) \/ PushWakes(c)
Callback(c) == on_data_requested(c) \/ CopyData(c) \/ PopData(c) \/ ReadDone(c) \/ UseFreedSink(c)

AudioNext == \/ Player \/ Recorder \/ Calls \/ GuestDies
             \/ \E c \in Conns : Server(c) \/ Callback(c)

AudioSpec == AudioInit /\ [][AudioNext]_audioVars

\* Threads go on with the calls they are in, a worker of the server takes up what a
\* connection has to do, and SDL calls back.  A lock that is free again and again is
\* taken at last.  Nothing has to be called, and nobody has to die.
AudioFairSpec == /\ AudioSpec /\ SF_audioVars(Player) /\ WF_audioVars(Recorder)
                 /\ \A c \in Conns : SF_audioVars(Server(c)) /\ WF_audioVars(Callback(c))
--------------------------------------------------------------------------------
(* Properties. *)

Rest(c) == SubSeq(buffer[c], Len(buffer[c]) - bufferLeft[c] + 1, Len(buffer[c]))
Accepted(c) == (1 .. written[c]) \ skipped[c]
\* q has the bytes of S, each once and in order.
Enumerates(q, S) == ToSet(q) = S /\ \A i, j \in 1 .. Len(q) : i < j => q[i] < q[j]

\* What was written is played once and in order: what was played, what is on its way
\* and what was skipped for want of a device are all there is, however reads cut it.
PlayedInOrder ==
  \A c \in Conns : host[c] # "removed" =>
    Enumerates(played[c] \o Rest(c) \o FlattenSeq(queue[c]) \o hand[c] \o sock[c], Accepted(c))

\* Stale bytes follow sound: no callback returns without a byte.
StaleAfterSound == \A c \in Conns : 0 \notin gaps[c]

\* The state has its shape, queues and sockets stay within their sizes, the bytes stay in
\* order, and the speaker gets no buffer that is stale from its first byte
\* (AudioSink::write_data and read_data).
SoundIntact == AudioTypeOK /\ PlayedInOrder /\ StaleAfterSound

\* A sink is destroyed under its callback, and the server stops accepting, only after
\* the guest's audio server has died: closing a stream is safe.
HarmOnlyByDeath == (broken \/ ~accepting \/ \E c \in Conns : host[c] = "removed") => deaths > 0

\* A call of the player comes back however little the socket, the queue and the
\* callback take at a time, unless a recording keeps the HAL's lock or the server has
\* stopped accepting.
CallReturns == pc["player"] # "idle" ~> pc["player"] = "idle" \/ pc["recorder"] = "read" \/ ~accepting \/ broken

\* What was written is played to the end, also when the stream is closed meanwhile.
PlayedToTheEnd ==
  \A c \in Conns :
    written[c] > 0 ~> Enumerates(played[c], Accepted(c)) \/ host[c] = "removed" \/ broken
================================================================================
