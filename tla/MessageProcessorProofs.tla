------------------------ MODULE MessageProcessorProofs -------------------------
(***************************************************************************)
(* Proofs about the message processors that read what the guest sends.     *)
(* Framing: for every stream of frames, every way of cutting it into reads *)
(* and both processors.  AdbProxy: for any number of connections of adbd   *)
(* and any size of the worker pool, the listening port is bound by the     *)
(* holder of active_instance_ only, and data is proxied only with a host   *)
(* connection and under the lock.                                          *)
(***************************************************************************)
EXTENDS Framing, AdbProxy, TLAPS

\* The invariant that is inductive: types, and buffer_ begins at a boundary.
FrameInv == FramingTypeOK /\ BrokenOnlyInsideHeader

\* What is known of the stream.
LEMMA StreamFacts ==
  ASSUME FrameInv
  PROVE  /\ HeaderSize \in Nat \ {0} /\ Frames \in Nat /\ SizeRange \in Nat \ {0}
         /\ ends \in [0 .. Frames -> Nat]
         /\ \A i \in 1 .. Frames : /\ ends[i] >= ends[i - 1] + HeaderSize
                                   /\ ends[i] - ends[i - 1] - HeaderSize < SizeRange
         /\ ends[Frames] \in Nat
         /\ arrived \in Nat /\ start \in Nat /\ start <= arrived
         /\ Buffered \in Nat
<1>1. /\ HeaderSize \in Nat \ {0} /\ Frames \in Nat /\ SizeRange \in Nat \ {0}
      /\ ends \in [0 .. Frames -> Nat]
      /\ \A i \in 1 .. Frames : /\ ends[i] >= ends[i - 1] + HeaderSize
                                /\ ends[i] - ends[i - 1] - HeaderSize < SizeRange
  BY FramingAssumption DEF FrameInv, FramingTypeOK
<1>2. ends[Frames] \in Nat
  BY <1>1
<1>3. arrived \in Nat /\ start \in Nat /\ start <= arrived
  BY <1>2 DEF FrameInv, FramingTypeOK
<1>4. QED BY <1>1, <1>2, <1>3 DEF Buffered

\* While frames are left, the header of the next one says how long it is.
LEMMA NextFrame ==
  ASSUME FrameInv, handled # Frames
  PROVE  /\ handled \in 0 .. Frames - 1
         /\ handled + 1 \in 1 .. Frames
         /\ (handled + 1) - 1 = handled
         /\ message_size \in Nat
         /\ ends[handled] \in Nat /\ ends[handled + 1] \in Nat
         /\ ends[handled + 1] = start + HeaderSize + message_size
         /\ ends[handled + 1] - ends[handled] = HeaderSize + message_size
<1>1. /\ handled \in 0 .. Frames - 1 /\ handled + 1 \in 1 .. Frames
      /\ (handled + 1) - 1 = handled /\ handled \in 0 .. Frames
  BY StreamFacts DEF FrameInv, FramingTypeOK
<1>2. ends[handled] \in Nat /\ ends[handled + 1] \in Nat
  <2>1. ends \in [0 .. Frames -> Nat] /\ handled + 1 \in 0 .. Frames
    BY <1>1, StreamFacts
  <2>2. QED BY <1>1, <2>1
<1>3. /\ ends[handled + 1] >= ends[handled] + HeaderSize
      /\ ends[handled + 1] - ends[handled] - HeaderSize < SizeRange
  BY <1>1, StreamFacts
<1>4. BodySize \in Nat /\ BodySize < SizeRange
  BY <1>2, <1>3, StreamFacts DEF BodySize
<1>5. message_size = BodySize
  <2>1. SizeRange \in Nat \ {0}
    BY StreamFacts
  <2>2. QED BY <1>4, <2>1 DEF message_size
<1>6. /\ ends[handled + 1] = ends[handled] + HeaderSize + message_size
      /\ ends[handled + 1] - ends[handled] = HeaderSize + message_size
  BY <1>2, <1>4, <1>5, StreamFacts DEF BodySize
<1>7. start = ends[handled]
  BY DEF FrameInv, BrokenOnlyInsideHeader
<1>8. QED BY <1>1, <1>2, <1>4, <1>5, <1>6, <1>7

\* A byte in buffer_ belongs to a frame that is not handled yet.
LEMMA MoreFrames ==
  ASSUME FrameInv, Buffered > 0
  PROVE  handled # Frames
<1>1. start = ends[handled] /\ arrived <= ends[Frames]
  BY StreamFacts DEF FrameInv, FramingTypeOK, BrokenOnlyInsideHeader
<1>2. QED BY <1>1, StreamFacts DEF Buffered

\* A complete frame is handled and erased as a whole.
LEMMA HandleFrameKeepsInv ==
  ASSUME FrameInv, Buffered >= HeaderSize, Buffered >= HeaderSize + message_size,
         HandleFrame(message_size), pc' \in {"loop", "receive"}
  PROVE  FrameInv'
<1>1. handled # Frames
  BY MoreFrames, StreamFacts
<1>2. /\ handled + 1 \in 1 .. Frames
      /\ message_size \in Nat
      /\ ends[handled + 1] = start + HeaderSize + message_size
  BY <1>1, NextFrame
<1>3. /\ start' = ends[handled + 1] /\ handled' = handled + 1
      /\ UNCHANGED <<protocol, ends, arrived>>
  BY <1>2 DEF HandleFrame
<1>4. start + HeaderSize + message_size <= arrived
  BY <1>2, StreamFacts DEF Buffered
<1>5. start' \in 0 .. arrived
  BY <1>2, <1>3, <1>4, StreamFacts
<1>6. handled' \in 0 .. Frames
  BY <1>2, <1>3, StreamFacts
<1>7. FramingTypeOK'
  BY <1>3, <1>5, <1>6 DEF FrameInv, FramingTypeOK
<1>8. QED BY <1>3, <1>7 DEF FrameInv, BrokenOnlyInsideHeader

\* process_data is ahead of its buffer only when that ends inside a header.
LEMMA OverrunKeepsInv ==
  ASSUME FrameInv, protocol = "rpc", Buffered \in 1 .. HeaderSize - 1, pc' = "overrun",
         UNCHANGED <<protocol, ends, arrived, start, handled>>
  PROVE  FrameInv'
<1>1. handled # Frames
  BY MoreFrames
<1>2. handled \in 0 .. Frames - 1
  BY <1>1, NextFrame
<1>3. start < arrived /\ arrived < start + HeaderSize
  BY StreamFacts DEF Buffered
<1>4. start = ends[handled]
  BY DEF FrameInv, BrokenOnlyInsideHeader
<1>5. InsideHeader(arrived)
  BY <1>2, <1>3, <1>4 DEF InsideHeader
<1>6. FramingTypeOK'
  BY DEF FrameInv, FramingTypeOK
<1>7. QED BY <1>4, <1>5, <1>6 DEF FrameInv, BrokenOnlyInsideHeader, InsideHeader

\* It holds before the first read ...
LEMMA FrameInvInit == FramingInit => FrameInv
<1> SUFFICES ASSUME FramingInit PROVE FrameInv
  OBVIOUS
<1>1. ends \in [0 .. Frames -> Nat] /\ ends[0] = 0 /\ Frames \in Nat
  BY FramingAssumption DEF FramingInit
<1>2. arrived = 0 /\ start = 0 /\ handled = 0
  BY DEF FramingInit
<1>3. arrived \in 0 .. ends[Frames] /\ start \in 0 .. arrived /\ handled \in 0 .. Frames
  BY <1>1, <1>2
<1>4. QED BY <1>1, <1>2, <1>3 DEF FramingInit, FrameInv, FramingTypeOK, BrokenOnlyInsideHeader

\* A read leaves the front of buffer_ alone, an iteration moves it by whole
\* frames.
LEMMA FrameInvStep == FrameInv /\ [FramingNext]_framingVars => FrameInv'
<1> SUFFICES ASSUME FrameInv, [FramingNext]_framingVars PROVE FrameInv'
  OBVIOUS
<1>1. ASSUME NEW n \in ReadSizes, Receive(n) PROVE FrameInv'
  <2>1. n \in Nat
    BY FramingAssumption
  <2>2. arrived' \in 0 .. ends[Frames] /\ start \in 0 .. arrived'
    BY <1>1, <2>1, StreamFacts DEF Receive, FrameInv, FramingTypeOK
  <2>3. QED BY <1>1, <2>2 DEF Receive, FrameInv, FramingTypeOK, BrokenOnlyInsideHeader
<1>2. CASE Break
  BY <1>2 DEF Break, FrameInv, FramingTypeOK, BrokenOnlyInsideHeader
<1>3. CASE rpc_process_data
  <2>1. CASE /\ Buffered >= HeaderSize /\ Buffered - HeaderSize >= message_size
             /\ HandleFrame(message_size)
             /\ UNCHANGED pc
    <3>1. handled # Frames
      BY <2>1, MoreFrames, StreamFacts
    <3>2. message_size \in Nat
      BY <3>1, NextFrame
    <3>3. Buffered >= HeaderSize + message_size
      BY <2>1, <3>2, StreamFacts
    <3>4. pc' = "loop"
      BY <1>3, <2>1 DEF rpc_process_data
    <3>5. QED BY <2>1, <3>3, <3>4, HandleFrameKeepsInv
  <2>2. QED BY <1>2, <1>3, <2>1, OverrunKeepsInv DEF rpc_process_data
<1>4. CASE process_commands
  BY <1>2, <1>4, HandleFrameKeepsInv DEF process_commands
<1>5. CASE UNCHANGED framingVars
  BY <1>5 DEF framingVars, FrameInv, FramingTypeOK, BrokenOnlyInsideHeader, InsideHeader
<1>6. QED BY <1>1, <1>3, <1>4, <1>5 DEF FramingNext

\* For every stream and every sequence of reads, the frames that are handled are
\* those of the stream, in order and each once: always with process_commands, and
\* with process_data up to the first read that ends inside a header.
THEOREM FramesBrokenOnlyInsideHeader == FramingSpec => []BrokenOnlyInsideHeader
<1>1. FrameInv => BrokenOnlyInsideHeader
  BY DEF FrameInv
<1>2. QED BY <1>1, FrameInvInit, FrameInvStep, PTL DEF FramingSpec
--------------------------------------------------------------------------------
\* The loops break only when the next frame is not complete.
LEMMA BreakLeavesNothing ==
  ASSUME FrameInv, Break,
         \/ Buffered < HeaderSize
         \/ Buffered - HeaderSize < message_size
         \/ Buffered < HeaderSize + message_size
  PROVE  LeftBehindOnlyIfEqual'
<1> SUFFICES ASSUME handled < Frames PROVE ~(arrived >= ends[handled + 1])
  BY DEF Break, LeftBehindOnlyIfEqual
<1>1. handled # Frames
  BY StreamFacts DEF FrameInv, FramingTypeOK
<1>2. message_size \in Nat /\ ends[handled + 1] = start + HeaderSize + message_size
  BY <1>1, NextFrame
<1>3. Buffered < HeaderSize + message_size
  BY <1>2, StreamFacts
<1>4. arrived < start + HeaderSize + message_size
  BY <1>2, <1>3, StreamFacts DEF Buffered
<1>5. QED BY <1>2, <1>4, StreamFacts

\* process_commands breaks behind a command that left as much as it was long.
LEMMA EqualLeftBehind ==
  ASSUME FrameInv, Buffered >= HeaderSize, HandleFrame(message_size), protocol = "qemud",
         Buffered - (HeaderSize + message_size) = HeaderSize + message_size
  PROVE  LeftBehindOnlyIfEqual'
<1>1. handled # Frames
  BY MoreFrames, StreamFacts
<1>2. /\ handled + 1 \in 1 .. Frames /\ (handled + 1) - 1 = handled
      /\ message_size \in Nat
      /\ ends[handled + 1] - ends[handled] = HeaderSize + message_size
  BY <1>1, NextFrame
<1>3. /\ handled' = handled + 1 /\ start' = start + HeaderSize + message_size
      /\ UNCHANGED <<protocol, ends, arrived>>
  BY DEF HandleFrame
<1>4. Buffered' = HeaderSize + message_size
  <2>1. Buffered' = arrived - (start + HeaderSize + message_size)
    BY <1>3 DEF Buffered
  <2>2. arrived - (start + HeaderSize + message_size) = HeaderSize + message_size
    BY <1>2, StreamFacts DEF Buffered
  <2>3. QED BY <2>1, <2>2
<1>5. handled' > 0 /\ ends'[handled'] = ends[handled + 1] /\ ends'[handled' - 1] = ends[handled]
  BY <1>2, <1>3, StreamFacts
<1>6. QED BY <1>2, <1>3, <1>4, <1>5 DEF LeftBehindOnlyIfEqual

\* Nothing has arrived, so nothing is left behind.
LEMMA InitLeavesNothing == FramingInit => LeftBehindOnlyIfEqual
<1> SUFFICES ASSUME FramingInit PROVE ~(handled < Frames /\ arrived >= ends[handled + 1])
  BY DEF LeftBehindOnlyIfEqual
<1>1. FrameInv /\ arrived = 0 /\ start = 0
  BY FrameInvInit DEF FramingInit
<1> SUFFICES ASSUME handled < Frames PROVE ~(arrived >= ends[handled + 1])
  OBVIOUS
<1>2. handled # Frames
  BY <1>1, StreamFacts DEF FrameInv, FramingTypeOK
<1>3. message_size \in Nat /\ ends[handled + 1] = start + HeaderSize + message_size
  BY <1>1, <1>2, NextFrame
<1>4. QED BY <1>1, <1>3, StreamFacts

\* For every stream and every sequence of reads: process_data never leaves a
\* complete message behind, process_commands only a rest as long as the command
\* it handled last.
THEOREM LeftBehindConfined == FramingSpec => []LeftBehindOnlyIfEqual
<1>1. FrameInv /\ LeftBehindOnlyIfEqual /\ [FramingNext]_framingVars => LeftBehindOnlyIfEqual'
  <2> SUFFICES ASSUME FrameInv, LeftBehindOnlyIfEqual, [FramingNext]_framingVars PROVE LeftBehindOnlyIfEqual'
    OBVIOUS
  <2>1. CASE pc' # "receive"
    BY <2>1 DEF LeftBehindOnlyIfEqual
  <2>2. CASE rpc_process_data
    <3>1. CASE Buffered = 0 /\ Break
      BY <3>1, BreakLeavesNothing, StreamFacts
    <3>2. CASE Buffered - HeaderSize < message_size /\ Break
      BY <3>2, BreakLeavesNothing
    <3>3. QED BY <2>1, <2>2, <3>1, <3>2 DEF rpc_process_data
  <2>3. CASE process_commands
    <3>1. CASE Buffered < HeaderSize /\ Break
      BY <3>1, BreakLeavesNothing
    <3>2. CASE Buffered < HeaderSize + message_size /\ Break
      BY <3>2, BreakLeavesNothing
    <3>3. QED BY <2>1, <2>3, <3>1, <3>2, EqualLeftBehind DEF process_commands
  <2>4. CASE UNCHANGED framingVars
    BY <2>4 DEF framingVars, LeftBehindOnlyIfEqual, Buffered
  <2>5. QED BY <2>1, <2>2, <2>3, <2>4 DEF FramingNext, Receive
<1>2. QED BY <1>1, FrameInvInit, FrameInvStep, InitLeavesNothing, PTL DEF FramingSpec
--------------------------------------------------------------------------------
(* The adb proxy. *)

Shapes == /\ state \in [Conn -> {"none", "waiting_for_guest_accept_command",
                                 "waiting_for_guest_start_command", "proxying_data", "closed_by_host"}]
          /\ adbd \in [Conn -> {"none", "accept", "ok", "start"}]
          /\ host \in [Conn -> {"none", "up", "down"}]
          /\ dying \in [Conn -> {"no", "connector", "lock", "members"}]
          /\ owner \in Conn \cup {Nobody} /\ port \in Conn \cup {Nobody}
          /\ reading \subseteq Conn /\ blocked \subseteq Conn /\ accepting \subseteq Conn

\* A connection has at most one worker: it is being read, or its worker waits
\* for the lock, or its processor is being destroyed.
OneWorker(c) ==
  /\ c \in reading \cup blocked => dying[c] = "no" /\ state[c] # "none"
  /\ dying[c] # "no" => state[c] # "none"
  /\ ~(c \in reading /\ c \in blocked)

\* Once the destructor has got to lock_, the port has been given up and nobody
\* changes the state any more.
PortGivenUp(c) == dying[c] \in {"lock", "members"} => port # c /\ state[c] = "closed_by_host"

\* adbd is there as long as the processor, and the processor as long as it is
\* bound to the port or reads from the host.
AdbdThere(c) == /\ state[c] # "none" => adbd[c] # "none"
                /\ port = c \/ c \in hostReading => state[c] # "none"

Lifecycle == \A c \in Conn : OneWorker(c) /\ PortGivenUp(c) /\ AdbdThere(c)

\* ProxyHasHost for one connection.
Proxied(c) ==
  state[c] \in {"waiting_for_guest_start_command", "proxying_data"} =>
    host[c] # "none" /\ adbd[c] \in {"ok", "start"} /\ owner = c

AdbInv == Shapes /\ Lifecycle /\ PortUnderLock /\ ProxyHasHost

\* It holds before adbd connects ...
LEMMA AdbInvInit == AdbInit => AdbInv
<1> SUFFICES ASSUME AdbInit PROVE AdbInv
    OBVIOUS
<1>1. Shapes
  BY DEF AdbInit, Shapes
<1>2. Lifecycle
  BY AdbAssumption DEF AdbInit, Lifecycle, OneWorker, PortGivenUp, AdbdThere
<1>3. PortUnderLock /\ ProxyHasHost
  BY DEF AdbInit, PortUnderLock, ProxyHasHost
<1> QED
  BY <1>1, <1>2, <1>3 DEF AdbInv

\* A step leaves what the invariant says of connection d as it is.
Same(d) ==
  /\ state'[d] = state[d] /\ adbd'[d] = adbd[d] /\ host'[d] = host[d] /\ dying'[d] = dying[d]
  /\ d \in reading' <=> d \in reading
  /\ d \in blocked' <=> d \in blocked
  /\ d \in hostReading' => d \in hostReading
  /\ port' = d => port = d
  /\ owner = d => owner' = d

\* A handler works for one connection: the others need no argument.
LEMMA OneConnection ==
  ASSUME AdbInv, NEW c \in Conn, Shapes', PortUnderLock',
         \A d \in Conn \ {c} : Same(d),
         OneWorker(c)', PortGivenUp(c)', AdbdThere(c)', Proxied(c)'
  PROVE  AdbInv'
<1>1. ASSUME NEW d \in Conn PROVE OneWorker(d)' /\ PortGivenUp(d)' /\ AdbdThere(d)' /\ Proxied(d)'
  <2>1. CASE d = c
    BY <2>1
  <2>2. CASE d # c
    <3>1. Same(d)
      BY <2>2
    <3>2. OneWorker(d) /\ PortGivenUp(d) /\ AdbdThere(d) /\ Proxied(d)
      BY DEF AdbInv, Lifecycle, ProxyHasHost, Proxied
    <3> QED
      BY <3>1, <3>2 DEF Same, OneWorker, PortGivenUp, AdbdThere, Proxied
  <2> QED
    BY <2>1, <2>2
<1>2. Lifecycle'
  BY <1>1 DEF Lifecycle
<1>3. ProxyHasHost'
  BY <1>1 DEF ProxyHasHost, Proxied
<1> QED
  BY <1>2, <1>3 DEF AdbInv

USE DEF Shapes, handleVars, guestVars, hostVars

\* Steps of adbd and of the adb server.
LEMMA PeerKeepsInv ==
  ASSUME AdbInv, NEW c \in Conn, GuestOpens(c) \/ GuestSends(c) \/ GuestCloses(c) \/ HostDrops(c)
  PROVE  AdbInv'
<1>0. OneWorker(c) /\ PortGivenUp(c) /\ AdbdThere(c) /\ Proxied(c)
  BY DEF AdbInv, Lifecycle, ProxyHasHost, Proxied
<1>1. Shapes'
  BY <1>0, AdbAssumption DEF AdbInv, GuestOpens, GuestSends, GuestCloses, HostDrops
<1>2. PortUnderLock'
  BY <1>0, AdbAssumption DEF AdbInv, GuestOpens, GuestSends, GuestCloses, HostDrops, PortUnderLock
<1>3. \A d \in Conn \ {c} : Same(d)
  BY <1>0, AdbAssumption DEF AdbInv, GuestOpens, GuestSends, GuestCloses, HostDrops, Same
<1>4. OneWorker(c)'
  BY <1>0, AdbAssumption DEF AdbInv, GuestOpens, GuestSends, GuestCloses, HostDrops, OneWorker
<1>5. PortGivenUp(c)'
  BY <1>0, AdbAssumption DEF AdbInv, GuestOpens, GuestSends, GuestCloses, HostDrops, PortGivenUp,
                             OneWorker
<1>6. AdbdThere(c)'
  BY <1>0, AdbAssumption DEF AdbInv, GuestOpens, GuestSends, GuestCloses, HostDrops, AdbdThere, OneWorker
<1>7. Proxied(c)'
  BY <1>0, AdbAssumption DEF AdbInv, GuestOpens, GuestSends, GuestCloses, HostDrops, Proxied, OneWorker,
                             PortGivenUp, AdbdThere
<1> QED
  BY <1>1, <1>2, <1>3, <1>4, <1>5, <1>6, <1>7, OneConnection

\* Whoever gets the lock finds the port free.
LEMMA LockKeepsInv ==
  ASSUME AdbInv, NEW c \in Conn, wait_for_host_connection(c)
  PROVE  AdbInv'
<1>0. OneWorker(c) /\ PortGivenUp(c) /\ AdbdThere(c) /\ Proxied(c)
  BY DEF AdbInv, Lifecycle, ProxyHasHost, Proxied
<1>8. port = Nobody
  BY AdbAssumption DEF AdbInv, wait_for_host_connection, PortUnderLock
<1>1. Shapes'
  BY <1>0, <1>8, AdbAssumption DEF AdbInv, wait_for_host_connection
<1>2. PortUnderLock'
  BY <1>0, <1>8, AdbAssumption DEF AdbInv, wait_for_host_connection, PortUnderLock
<1>3. \A d \in Conn \ {c} : Same(d)
  BY <1>0, <1>8, AdbAssumption DEF AdbInv, wait_for_host_connection, Same
<1>4. OneWorker(c)'
  BY <1>0, <1>8, AdbAssumption DEF AdbInv, wait_for_host_connection, OneWorker
<1>5. PortGivenUp(c)'
  BY <1>0, <1>8, AdbAssumption DEF AdbInv, wait_for_host_connection, PortGivenUp, OneWorker
<1>6. AdbdThere(c)'
  BY <1>0, <1>8, AdbAssumption DEF AdbInv, wait_for_host_connection, AdbdThere, OneWorker
<1>7. Proxied(c)'
  BY <1>0, <1>8, AdbAssumption DEF AdbInv, wait_for_host_connection, Proxied, OneWorker, PortGivenUp,
                                   AdbdThere
<1> QED
  BY <1>1, <1>2, <1>3, <1>4, <1>5, <1>6, <1>7, OneConnection

\* The adb server connects to whoever has the port and so the lock.
LEMMA HostConnectionKeepsInv ==
  ASSUME AdbInv, NEW c \in Conn, on_host_connection(c)
  PROVE  AdbInv'
<1>0. OneWorker(c) /\ PortGivenUp(c) /\ AdbdThere(c) /\ Proxied(c)
  BY DEF AdbInv, Lifecycle, ProxyHasHost, Proxied
<1>8. port = c /\ owner = c
  BY AdbAssumption DEF AdbInv, on_host_connection, PortUnderLock
<1>1. Shapes'
  BY <1>0, <1>8, AdbAssumption DEF AdbInv, on_host_connection
<1>2. PortUnderLock'
  BY <1>0, <1>8, AdbAssumption DEF AdbInv, on_host_connection, PortUnderLock
<1>3. \A d \in Conn \ {c} : Same(d)
  BY <1>0, <1>8, AdbAssumption DEF AdbInv, on_host_connection, Same
<1>4. OneWorker(c)'
  BY <1>0, <1>8, AdbAssumption DEF AdbInv, on_host_connection, OneWorker
<1>5. PortGivenUp(c)'
  BY <1>0, <1>8, AdbAssumption DEF AdbInv, on_host_connection, PortGivenUp, OneWorker
<1>6. AdbdThere(c)'
  BY <1>0, <1>8, AdbAssumption DEF AdbInv, on_host_connection, AdbdThere, OneWorker
<1>7. Proxied(c)'
  BY <1>0, <1>8, AdbAssumption DEF AdbInv, on_host_connection, Proxied, OneWorker, PortGivenUp, AdbdThere
<1> QED
  BY <1>1, <1>2, <1>3, <1>4, <1>5, <1>6, <1>7, OneConnection

\* A message from adbd.
LEMMA MessageKeepsInv ==
  ASSUME AdbInv, NEW c \in Conn, process_data(c)
  PROVE  AdbInv'
<1>0. OneWorker(c) /\ PortGivenUp(c) /\ AdbdThere(c) /\ Proxied(c)
  BY DEF AdbInv, Lifecycle, ProxyHasHost, Proxied
<1>1. Shapes'
  BY <1>0, AdbAssumption DEF AdbInv, process_data, ProxyToHost, AcceptCommand, StartCommand,
                             WrongCommand, Message
<1>2. PortUnderLock'
  BY <1>0, AdbAssumption DEF AdbInv, process_data, ProxyToHost, AcceptCommand, StartCommand,
                             WrongCommand, Message, PortUnderLock
<1>3. \A d \in Conn \ {c} : Same(d)
  BY <1>0, AdbAssumption DEF AdbInv, process_data, ProxyToHost, AcceptCommand, StartCommand,
                             WrongCommand, Message, Same
<1>4. OneWorker(c)'
  BY <1>0, AdbAssumption DEF AdbInv, process_data, ProxyToHost, AcceptCommand, StartCommand,
                             WrongCommand, Message, OneWorker
<1>5. PortGivenUp(c)'
  BY <1>0, AdbAssumption DEF AdbInv, process_data, ProxyToHost, AcceptCommand, StartCommand,
                             WrongCommand, Message, PortGivenUp, OneWorker
<1>6. AdbdThere(c)'
  BY <1>0, AdbAssumption DEF AdbInv, process_data, ProxyToHost, AcceptCommand, StartCommand,
                             WrongCommand, Message, AdbdThere, OneWorker
<1>7. Proxied(c)'
  BY <1>0, AdbAssumption DEF AdbInv, process_data, ProxyToHost, AcceptCommand, StartCommand,
                             WrongCommand, Message, Proxied, OneWorker, PortGivenUp,
                             AdbdThere
<1> QED
  BY <1>1, <1>2, <1>3, <1>4, <1>5, <1>6, <1>7, OneConnection

\* The other handlers.
LEMMA ErrorKeepsInv ==
  ASSUME AdbInv, NEW c \in Conn, ReadError(c) \/ HostReadError(c) \/ HostDataLost(c)
  PROVE  AdbInv'
<1>0. OneWorker(c) /\ PortGivenUp(c) /\ AdbdThere(c) /\ Proxied(c)
  BY DEF AdbInv, Lifecycle, ProxyHasHost, Proxied
<1>1. Shapes'
  BY <1>0, AdbAssumption DEF AdbInv, ReadError, HostReadError, HostDataLost
<1>2. PortUnderLock'
  BY <1>0, AdbAssumption DEF AdbInv, ReadError, HostReadError, HostDataLost, PortUnderLock
<1>3. \A d \in Conn \ {c} : Same(d)
  BY <1>0, AdbAssumption DEF AdbInv, ReadError, HostReadError, HostDataLost, Same
<1>4. OneWorker(c)'
  BY <1>0, AdbAssumption DEF AdbInv, ReadError, HostReadError, HostDataLost, OneWorker
<1>5. PortGivenUp(c)'
  BY <1>0, AdbAssumption DEF AdbInv, ReadError, HostReadError, HostDataLost, PortGivenUp, OneWorker
<1>6. AdbdThere(c)'
  BY <1>0, AdbAssumption DEF AdbInv, ReadError, HostReadError, HostDataLost, AdbdThere, OneWorker
<1>7. Proxied(c)'
  BY <1>0, AdbAssumption DEF AdbInv, ReadError, HostReadError, HostDataLost, Proxied, OneWorker,
                             PortGivenUp, AdbdThere
<1> QED
  BY <1>1, <1>2, <1>3, <1>4, <1>5, <1>6, <1>7, OneConnection

\* The destructor.
LEMMA DestructorKeepsInv ==
  ASSUME AdbInv, NEW c \in Conn, ResetConnector(c) \/ ReleaseLock(c) \/ DestroyMembers(c)
  PROVE  AdbInv'
<1>0. OneWorker(c) /\ PortGivenUp(c) /\ AdbdThere(c) /\ Proxied(c)
  BY DEF AdbInv, Lifecycle, ProxyHasHost, Proxied
<1>1. Shapes'
  BY <1>0, AdbAssumption DEF AdbInv, ResetConnector, ReleaseLock, DestroyMembers
<1>2. PortUnderLock'
  BY <1>0, AdbAssumption DEF AdbInv, ResetConnector, ReleaseLock, DestroyMembers, PortUnderLock,
                                 PortGivenUp
<1>3. \A d \in Conn \ {c} : Same(d)
  <2>1. port' \in {port, Nobody} /\ (owner' = owner \/ owner = c)
    BY DEF ResetConnector, ReleaseLock, DestroyMembers
  <2>2. \A d \in Conn \ {c} : (port' = d => port = d) /\ (owner = d => owner' = d)
    BY <2>1, AdbAssumption
  <2>3. CASE ResetConnector(c)
    BY <2>2, <2>3 DEF AdbInv, ResetConnector, Same
  <2>4. CASE ReleaseLock(c)
    BY <2>2, <2>4 DEF AdbInv, ReleaseLock, Same
  <2>5. CASE DestroyMembers(c)
    BY <2>2, <2>5 DEF AdbInv, DestroyMembers, Same
  <2> QED
    BY <2>3, <2>4, <2>5
<1>4. OneWorker(c)'
  BY <1>0, AdbAssumption DEF AdbInv, ResetConnector, ReleaseLock, DestroyMembers, OneWorker
<1>5. PortGivenUp(c)'
  <2>1. port' # c
    <3>1. Nobody # c
      BY AdbAssumption
    <3> QED
      BY <1>0, <3>1 DEF ResetConnector, ReleaseLock, DestroyMembers, PortGivenUp
  <2> QED
    BY <1>0, <2>1 DEF AdbInv, ResetConnector, ReleaseLock, DestroyMembers, PortGivenUp, OneWorker
<1>6. AdbdThere(c)'
  BY <1>0, AdbAssumption DEF AdbInv, ResetConnector, ReleaseLock, DestroyMembers, AdbdThere, OneWorker,
                             PortGivenUp
<1>7. Proxied(c)'
  BY <1>0, AdbAssumption DEF AdbInv, ResetConnector, ReleaseLock, DestroyMembers, Proxied, OneWorker,
                             PortGivenUp, AdbdThere
<1> QED
  BY <1>1, <1>2, <1>3, <1>4, <1>5, <1>6, <1>7, OneConnection

\* ... and every step of every actor keeps it.
LEMMA AdbInvStep == AdbInv /\ [AdbNext]_adbVars => AdbInv'
<1> SUFFICES ASSUME AdbInv, [AdbNext]_adbVars PROVE AdbInv'
    OBVIOUS
<1>1. CASE UNCHANGED adbVars
  BY <1>1 DEF adbVars, AdbInv, Lifecycle, OneWorker, PortGivenUp, AdbdThere, PortUnderLock, ProxyHasHost
<1>2. CASE stop
  BY <1>2 DEF stop, AdbInv, Lifecycle, OneWorker, PortGivenUp, AdbdThere, PortUnderLock, ProxyHasHost
<1> QED
  BY <1>1, <1>2, PeerKeepsInv, LockKeepsInv, HostConnectionKeepsInv, MessageKeepsInv, ErrorKeepsInv,
     DestructorKeepsInv
     DEF AdbNext, Handlers, Destructor

\* The types that the invariant does not need, per action.
LEMMA StepType == AdbInv /\ AdbTypeOK /\ [AdbNext]_adbVars => AdbTypeOK'
<1> SUFFICES ASSUME AdbInv, AdbTypeOK, [AdbNext]_adbVars PROVE AdbTypeOK'
    OBVIOUS
<1>0. Shapes' /\ Lifecycle'
  BY AdbInvStep DEF AdbInv
<1>1. blocked' \cap reading' = {}
  BY <1>0 DEF Lifecycle, OneWorker, Shapes
<1> DEFINE Rest == /\ expected \in [Conn -> {"", "accept", "start"}]
                   /\ closed \subseteq Conn /\ hostReading \subseteq Conn /\ threw \subseteq Conn
                   /\ guest \in [Conn -> {"none", "open", "shut"}]
                   /\ inbox \in [Conn -> {"", "accept", "start", "data"}]
                   /\ stopping \in BOOLEAN
<1>2. Rest
  BY DEF AdbTypeOK
<1>3. ASSUME NEW c \in Conn,
             \/ GuestOpens(c) \/ GuestSends(c) \/ GuestCloses(c) \/ HostDrops(c)
             \/ wait_for_host_connection(c) \/ on_host_connection(c)
      PROVE  Rest'
  BY <1>2, <1>3 DEF GuestOpens, GuestSends, GuestCloses, HostDrops, wait_for_host_connection,
                    on_host_connection, guestVars, hostVars, handleVars
<1>4. ASSUME NEW c \in Conn, process_data(c) PROVE Rest'
  BY <1>2, <1>4 DEF process_data, ProxyToHost, AcceptCommand, StartCommand, WrongCommand, Message,
                    guestVars, hostVars, handleVars
<1>5. ASSUME NEW c \in Conn, ReadError(c) \/ HostReadError(c) \/ HostDataLost(c) PROVE Rest'
  BY <1>2, <1>5 DEF ReadError, HostReadError, HostDataLost, guestVars, hostVars, handleVars
<1>6. ASSUME NEW c \in Conn, Destructor(c) PROVE Rest'
  BY <1>2, <1>6 DEF Destructor, ResetConnector, ReleaseLock, DestroyMembers, guestVars, hostVars, handleVars
<1>7. ASSUME stop \/ UNCHANGED adbVars PROVE Rest'
  BY <1>2, <1>7 DEF stop, adbVars, guestVars, hostVars, handleVars
<1>8. Rest'
  <2> HIDE DEF Rest
  <2> QED
    BY <1>3, <1>4, <1>5, <1>6, <1>7 DEF AdbNext, Handlers
<1>9. /\ expected' \in [Conn -> {"", "accept", "start"}]
      /\ closed' \subseteq Conn /\ hostReading' \subseteq Conn /\ threw' \subseteq Conn
      /\ guest' \in [Conn -> {"none", "open", "shut"}]
      /\ inbox' \in [Conn -> {"", "accept", "start", "data"}]
      /\ stopping' \in BOOLEAN
  BY <1>8
<1> QED
  BY <1>0, <1>1, <1>9, Zenon DEF AdbTypeOK, Shapes

\* Every variable of the proxy keeps its type, for any number of connections, and
\* a connection is not read while its worker waits for active_instance_.
THEOREM TypeCorrect == AdbSpec => []AdbTypeOK
<1>1. AdbInit => AdbTypeOK
  <2> SUFFICES ASSUME AdbInit PROVE AdbTypeOK
      OBVIOUS
  <2>1. Shapes
    BY AdbInvInit DEF AdbInv
  <2>2. /\ expected \in [Conn -> {"", "accept", "start"}]
        /\ guest \in [Conn -> {"none", "open", "shut"}]
        /\ inbox \in [Conn -> {"", "accept", "start", "data"}]
    BY DEF AdbInit
  <2>3. /\ closed \subseteq Conn /\ hostReading \subseteq Conn /\ threw \subseteq Conn
        /\ blocked \cap reading = {}
    BY DEF AdbInit
  <2>4. stopping \in BOOLEAN
    BY DEF AdbInit
  <2> QED
    BY <2>1, <2>2, <2>3, <2>4, Zenon DEF AdbTypeOK, Shapes
<1> QED
  BY AdbInvInit, AdbInvStep, StepType, <1>1, PTL DEF AdbSpec

\* The port is bound by the holder of active_instance_ only, for any number of
\* connections of adbd and workers: the destructor's order, connector before
\* lock, is what makes the next one's bind succeed.
THEOREM PortAlwaysUnderLock == AdbSpec => []PortUnderLock
<1>1. AdbInv => PortUnderLock
  BY DEF AdbInv
<1> QED
  BY AdbInvInit, AdbInvStep, <1>1, PTL DEF AdbSpec

\* process_data and read_next_host_message never meet a null host_messenger_,
\* and one connection at a time is proxied.
THEOREM ProxyAlwaysHasHost == AdbSpec => []ProxyHasHost
<1>1. AdbInv => ProxyHasHost
  BY DEF AdbInv
<1> QED
  BY AdbInvInit, AdbInvStep, <1>1, PTL DEF AdbSpec
================================================================================
