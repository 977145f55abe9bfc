# TLA+ models of Anbox

Anbox runs Android in an LXC container on a Linux host. The *session manager*
(`src/src/anbox`, one process per user) draws the windows, answers the requests
of the guest over Unix sockets and offers D-Bus services; the *container
manager* (a privileged daemon) starts and stops the container; daemons and HAL
modules inside the guest (`src/android`) are the other ends of the sockets. This
directory models the parts in which threads, processes, partial reads and writes,
shutdown, deaths and reuse of resources meet, checks them with TLC on small
instances and proves the most important results with TLAPS for all instances.

Paths below are relative to `src/src/anbox` unless they begin with `src/`.

## 1. Inventory

| Component | State | Operations | Hard part |
|---|---|---|---|
| `graphics/buffer_queue` | ring `buffers_`, `pos_`, `count_`, `closed_`, two condition variables | push, pop, try-variants, wait, close | wake-ups only on the empty and full edges; closing with waiters |
| `graphics/buffered_io_stream`, `opengles_message_processor`, `emugl/RenderThread`, `emugl/ReadBuffer` | two queues under two mutexes, the rest of a read buffer, the bytes of a partial write | `post_data`, `read`, `commitBuffer`, `thread_main`, `forceStop`, destructors | three threads, commands cut by reads, shutdown from a fourth place |
| `emugl/Renderer`, `RenderThreadInfo` | handle tables, reference counts, per-thread sets of handles, current context | create, destroy, open, close, attach, resize, bind, drain | clean-up of a crashed client, reuse of handles, pbuffers replaced under another thread |
| `rpc/channel`, `pending_call_cache`, `common/wait_handle`, `bridge/android_api_stub` | next id, the channel of the current connection with its pending calls, counters of expected and received results | `launch` etc., answer, time-out, broken link, the guest connects again | concurrent calls on shared handles, late answers, a channel that is replaced while it is used |
| `rpc/message_processor`, `qemu/qemud_message_processor` | `buffer_` | `process_data` | frames cut anywhere by reads |
| `qemu/adb_message_processor`, `network/socket_connection`, `connections`, `runtime` | proxy state, static mutex, port, messengers, worker pool | accept, start, proxy, host connects and drops, destroy, stop | a mutex held across handlers, order of destruction, exceptions in handlers |
| `network/base_socket_messenger`, `published_socket_connector`, `qemu/pipe_connection_creator` | table of connections | accept, send, remove | partial writes, blocking identification |
| `cmds/session_manager`, `cmds/container_manager`, `container/*` | main thread, starter task, pending calls, connections of the service, `state_`, LXC handle | start, stop, connect, refuse, exit, death and restart of either side | two processes; a container that outlives the one that started it; lxc calls that fail |
| `input/device`, `input/manager`, `fydeos/anbox_input.h`, Wayland touch and pointer | slots, `last_slot`, connected readers | events, accept, fan-out | slots shared by fingers and pointer, readers that join late or go away |
| `fydeos/wayland_window.cc` | `buffers_` with their states, `current_rect_`, `frame_` | dequeue, draw, commit, release, resize, close | drawing and message threads without a lock |
| `src/android/audio/audio_hw.cpp`, `audio/*`, `platform/sdl/audio_sink` | HAL lock, streams, socket, queue of chunks, rest of a chunk | open, write, close, accept, push, callback | four threads in a row, a lock held over blocking calls |
| `src/android/qemud/qemud.c` | clients, handlers (active or closing), packets, channel numbers | accept, register, relay, disconnect, the event loop | events of a round applied to objects freed in the same round; numbers that wrap |
| `wm/*` | windows per task | update from guest, events of windows | calls into the guest under a mutex |
| `graphics/layer_composer` and strategies | none (pure) | layers to windows | geometry |
| `common/message_channel`, other `qemu/*` processors, `bridge`, `application`, `dbus`, `cmds`, `platform`, `ui`, devices | little | single calls | mostly input and output |
| rest of `src/android` (GL encoders, camera, GPS, sensors, power) | that of the Android emulator, from which it is taken | | mostly generated or carried along |

How they interact: the `Runtime` worker pool runs every socket handler.
`PublishedSocketConnector` accepts, a connection creator makes the message
processor, `SocketConnection::on_read_size` feeds it and removes it from
`Connections` on end of file, which runs the processor's destructor on a pool
thread. GL processors hand the bytes to a render thread through
`BufferedIOStream`; render threads share `Renderer` under `m_lock`. The bridge
processor delivers answers to the calls that D-Bus and window-manager threads
wait for through `PendingCallCache` and `WaitHandle`. `PROJECT.json` lists every
component with its sources and its status, and the hazards with their lines.

What makes each component correct (the ones in italics are stated as
properties of the modules below, for the others see section 6):

- queue: *it is a FIFO that loses, repeats and reorders nothing; nobody sleeps on
  a condition that has come true; closing lets everybody go*.
- GL stream: *commands and replies arrive whole, once and in order; what was
  accepted is handed over before the end; every thread ends after the
  connection*; one client does not stop the others.
- renderer: *nothing outlives the thread that would drain it; a handle keeps its
  meaning; buffers that clients closed are gone; clean-up takes what is
  the thread's own; current surfaces are bound to the current context, unless
  another thread resized them*.
- RPC calls: *a call returns its own answer or reports that there was none; the
  counters balance; no answer is written through a stale pointer; no answer stops
  the reading thread while the guest is there; calls come back, unless calls of
  the method went with a replaced channel*.
- framing: *frames are handled whole, once, in order and as soon as they are
  complete*, with the two exceptions the properties name.
- adb proxy: *one processor at a time has lock and port; data is proxied only
  with a host; the loss of the host ends the processor, unless a write threw*.
- sockets: a message is written once, however the socket accepts it; a removed
  connection leaves the table, and removing it blocks nobody else.
- container: *a session never runs on another one's container; the container
  does not stay behind its session; a session that loses the manager ends*.
- input: *slots hold the fingers that are down; every intact reader sees what
  the host holds, positions included but for id 0; a reader of a replaced device
  keeps no finger, unless it was down or cancelled*.
- Wayland buffers: *no buffer is drawn into while it is shown, none is lost, a
  frame has a size the window had, memory grows by resizes only*.
- audio: *what was written is played once, in order and to the end, and stale
  bytes are heard only behind some sound; calls come back; closing a stream is safe*.
- qemud daemon: *channel numbers are unique, host and daemon agree on them,
  queued packets are sent, clients are answered unless refused with a reason,
  freed memory is not used*.
- window manager: one window per task, released when the task is gone; no
  thread waits for an answer that only it can read.
- layer composer: layers end up in the window of their task, inside its frame.
- the rest: single conversions and system calls, best left to unit tests.

## 2. Modules

| Module | Models |
|---|---|
| `BoundedFifo` | the abstract closable queue: what `BufferQueue` promises |
| `BufferQueue` | `buffer_queue.cpp`, one action per call, wait sets and `notify_one` explicit, spurious wake-ups |
| `BufferedIOStream` | one GL connection: io, render and worker threads; `in_queue_` is an instance of `BoundedFifo`, which `BufferQueue` is proved to implement |
| `RpcCalls` | `AndroidApiStub` through `Channel`, `PendingCallCache` and `WaitHandle` |
| `Framing` | the loops of `MessageProcessor::process_data` and `QemudMessageProcessor::process_commands` |
| `Renderer` | the handle tables and the clean-up of `RenderThread::main` |
| `AdbProxy` | `AdbMessageProcessor`, its connections and the worker pool |
| `ContainerLifecycle` | session managers and the container manager, with the connection between them and LXC |
| `TouchInput` | `AnboxInput`'s slots, driven by Wayland touch and pointer, `input::Device`'s fan-out, and what a guest decodes |
| `WaylandBuffers` | `WaylandWindow`'s buffers, between the render threads and the Wayland message loop |
| `Qemud` | the event loop, clients and handlers of `qemud.c`, with the host at the other end of the serial connection |
| `AudioPath` | playback from the guest's HAL to the SDL callback, and a recording that competes for the HAL's lock |
| `MC*` | the instances for TLC |
| `*Proofs` | the TLAPS proofs of the module of that name. `BufferQueueProofs` also holds those of the two byte streams that go through queues, `BufferedIOStream` and `AudioPath`, which share the lemmas about sequences of bytes; `MessageProcessorProofs` those of `Framing` and `AdbProxy` |

Modules whose proofs share a module have their own names for the parts of a
specification (`QueueInit`, `StreamNext`, `AudioSpec`, `FramingTypeOK`, `adbVars`);
in the others these are `Init`, `Next`, `Spec`, `TypeOK` and `vars`.

Each variable's comment names the member it stands for; actions have the names
of the methods, or of the piece of a method that runs between two points where
another thread can step in. Operators whose comment begins with "Fault:" are
wrong versions of the operator that follows them. They are not used in a
specification; put in its place each breaks a property, which shows that the
property depends on that piece of code.

What is one step:

- *BufferQueue*: all methods are called with the caller's mutex held, so a call
  up to its return or its wait is one step. A wait enters the wait set and
  gives up the mutex in one step, as `std::condition_variable::wait` does.
- *BufferedIOStream*: everything between taking and giving up `lock_` on the
  read side is cut into the copies and pops of the loop. `out_queue_` is closed
  without the mutex of its users, so on that side the test, the wait, the
  store to `closed_` and each notification are separate steps. Bytes are their
  positions, so loss, repetition and reordering are all visible.
- *RpcCalls*: `next_id()` is a read and a store, since nothing guards it; each
  access to the pending calls is one step under its mutex; the answer is written
  and completed in two steps, as two locked calls. Results travel in any
  order. A write into a `Request` that has been freed is modelled as a write
  with no visible effect. Connections of the guest are numbered, and each has a
  channel and a cache of its own; what the guest wrote before it hung up is still
  read. `set_rpc_channel` frees the channel before: a thread that is inside it
  when this happens and goes on with it is the absorbing state `freedUse`.
- *Framing*: one iteration of the loop. An access behind the end of `buffer_` is
  the absorbing state `overrun`: nothing can be said about what follows.
- *Renderer*: one public method, all of which run under `m_lock`. Calls with an
  unknown handle change nothing and are left out. EGL is taken to succeed or
  to change nothing. It knows pbuffers, not windows: `egl` holds what EGL has
  current, and a pbuffer that `WindowSurface::resize` replaced is none of its
  window any more. Making the old surfaces current again, at the end of `resize`
  and of the operations on color buffers, fails if one of them was replaced by
  another thread; `detached` remembers the windows this has happened to.
- *AdbProxy*: one handler, except that it can block on `active_instance_`. An
  exception that leaves a handler is swallowed by `exception_safe_run`, and what
  the handler had left to do is not done. Destruction is three steps in the
  order of the destructor's body and the members.
- *ContainerLifecycle*: a handler, cut where the other process or another thread
  can step in: between the preparation of the container and its launch, between
  the work and the answer, between a send and the wait. Every lxc call may fail
  where the code looks at its result. Killing a process and restarting the
  manager are actions of their own; the LXC container stays.
- *TouchInput*: one event of the platform up to its vector of input events, then
  one step per send of the fan-out loop. A write that was cut short is repeated
  from its first byte, as `BaseSocketMessenger::send` does, after which the
  guest's stream is no longer intact. Positions are named by the contact (touch
  point or pointer) that was there, `owner` is the contact that took a slot and
  `mixed` the slots another contact has moved. `init` replaces the device; what
  its guests show from then on is `replaced`.
- *WaylandBuffers*: the search, the creation, each step of the loop that erases,
  and the assignment of a rectangle are separate. A rectangle that is being
  assigned is `Torn`; who reads it meanwhile gets any size, or a mixture. A buffer
  that is erased from `buffers_` is LEAKED, as `release()` leaves it, and stays
  allocated; `era` is the number of resizes before it was made.
- *Qemud*: one test of `fdhandler_event` for one hook of a round. The hooks of a
  round are collected first, as in `looper_loop`. Touching a freed object sets
  `broken`, after which nothing more is claimed. A refusal with a reason is a
  message of its own, since `multiplexer_handle_control` goes by the length;
  `unheard` are the clients that were refused so.
- *AudioPath*: a read, write, push or callback moves a number of bytes, which
  are their positions in the stream; the calls of the HAL are cut where they
  wait, with `lock_` held throughout as in the code. `gaps` are the numbers of bytes
  that had been copied when a callback returned without filling SDL's buffer.

## 3. Runs

| Run | Bounds | Shows |
|---|---|---|
| `queue` | 1 producer, 1 consumer, capacity 3, 2 contents | refines the abstract FIFO; no lost wake-up; blocked calls return |
| `stream` | 6 command bytes in chunks of 1, 2, 4; commands and replies of 2 bytes; queues of 2 and 1; read buffer starts at 1 byte | commands and replies whole, once, in order; accepted replies are handed over before the worker ends; complete commands are decoded; the render thread ends |
| `stream_close` | one command | `forceStop` can lose the notification (section 5) |
| `rpc` | 2 callers, 2 methods, 3 calls, 2 connections of the guest; the first call is fixed | the wait handles are balanced; no pending call without its caller except after a time-out; a wait that ends in time ends with the caller's own answer; no result stops the reader; calls come back |
| `framing` | 4 frames with bodies of 0, 1, 5 bytes, reads of 1 to 12 bytes, both protocols | where framing is safe and where it is not |
| `renderer` | 2 threads, 3 handles, 4 objects, 2 sizes, 2 references; with four objects only `Bindings` or `Lifetimes` of `MCRenderer` | ownership, stability of handles after the wrap-around, reference counts, clean-up takes its own objects, current surfaces are bound |
| `adb` | 2 connections, 3 workers | port under lock, host present while proxying, loss of the host ends the proxy, the standing connection gets its turn |
| `container` | 2 sessions, 1 restart of the manager | own container, no stray container, a session that has gone is stopped, a session that lost the manager ends |
| `touch` | 2 touch points and the pointer (which shares an id with one), 2 slots, 2 guests, 2 calls of `init` | slots match fingers, nothing stuck, guests see what the host holds, guests of a replaced device keep no finger |
| `buffers` | 2 sizes, 3 buffers, 2 resizes, symmetric | use and state of buffers agree, how many buffers a resize leaves behind |
| `qemud` | 2 clients, 3 channel numbers, 4 writes, 1 message of the host's own accord | unique numbers, host and daemon agree, nothing queued is lost, which events lead to use of freed memory, clients are answered unless refused with a reason |
| `audio` | 2 connections, 4 bytes in writes of 2 and 4, socket and queue of 2, callback asks for 2, 1 death of the audio server | order of bytes, stale bytes only behind sound, safe closing, calls come back, everything is played |

Why the bounds are enough. A ring of three slots with two contents has every
combination of wrapped, full and empty; more producers and consumers are
covered by the theorems. In the stream the chunks are smaller than, equal to and
larger than a command, so reads end inside commands, commands span queue
entries, the read buffer grows twice, and `out_queue_` of one is full and empty
in turn. Three calls allow one that was given up, one that shares its handle and
one that comes later, before or after a second connection of the guest. (Threads
and methods are interchangeable; as a `SYMMETRY` is not sound with a temporal
property, an action constraint fixes the first call instead.) Four frames allow two pairs of equal length; reads cut
headers and bodies at every position. Three handles allow
two windows and a context, current for drawing and for reading, and four objects
make `s_nextHandle` wrap with objects alive and give a color buffer of another
size to resize with. Beyond three objects the run follows bindings and lifetimes
separately: which windows are bound and resized does not depend on who made
them, and what is drained does not depend on sizes and on what is current; the
theorems need neither restriction. adbd never has more than one connection
in use and one standing by. Two sessions and one restart give a second client
beside the first, a session after a crashed one, and a manager that finds the
container of its predecessor. Three contacts on two slots run out of slots, and
two guests give an early and a late one. Three buffers are one more than the
compositor and the renderer use at once with two sizes, and two resizes leave
buffers of two earlier sizes behind. Three channel numbers
for two clients wrap, skip a number in use and reuse one; `MaxLast` is so large
that the bound on the counter never holds a client back. A write of four bytes
is cut by a socket of two and spans chunks, and the callback leaves part of a
chunk and takes from two. `CHECK_DEADLOCK FALSE` is set everywhere because
each of these systems may stop: the connection ends, the bounded input is used
up, the queue is closed.

### Fairness

- *queue*: a thread that was taken out of a wait set gets the mutex; no critical
  section blocks. No fairness for making calls or for spurious wake-ups.
- *stream*: each thread runs; strong fairness for the two acquisitions of
  `out_lock_`. It only matters if the other thread is woken spuriously
  for ever. A write to the socket makes progress or fails: a guest that neither
  reads nor closes is excluded. Nothing is assumed about what the guest sends.
- *rpc*: threads run, the guest answers while the link is up. Time-outs are not
  fair, so `CallsAnswered` does not rest on them.
- *adb*: workers run ready handlers while one is free, and go on with what they
  began; a free mutex goes to a waiter. Neither adbd nor the adb server has to do
  anything.
- *container*: the threads of both processes run, lxc calls return, and the three
  seconds of `wait_for_pending` pass. Nobody has to start, stop or die.
- *renderer*, *framing*, *touch*, *buffers*: none, the properties are safety
  properties.
- *qemud*: the daemon's loop runs and the host reads the serial connection and
  answers. Clients do not have to do anything.
- *audio*: threads go on, SDL calls back; strong fairness for the player and the
  server's connections, since a mutex or queue that is free again and again
  is in the end theirs. No fairness for starting a call.

## 4. Proofs

All theorems hold for every value of the constants under the named assumptions.
Each row gives the strengthening an invariant needs to be inductive; TLC checked
these too, on the instances of the runs.

| Theorem | States | Argument |
|---|---|---|
| `BufferQueueProofs!TypeCorrect`, `MessageProcessorProofs!TypeCorrect` | `[]QueueTypeOK`, `[]AdbTypeOK` | of the queue inductive, since `Wrap` of an index less than two laps ahead is a slot; of the proxy with the invariant below |
| `BufferQueueProofs!WakeupsNotLost` | `[]NoLostWakeup` | inductive with `QueueTypeOK`; needs `AtMostOneEach` (one producer, one consumer at most): with a second consumer a notification on the edge can go to a thread that leaves an item behind |
| `BufferQueueProofs!ImplementsFifo` | `IsFifo` | the ring read from `pos_` is the abstract sequence; a push appends to it, a pop takes its head, a sleep is a stuttering step |
| `BufferQueueProofs!CommandsStayIntact` | `[]CommandsIntact` | the bytes in the read buffer, in the rest of the last chunk and in `in_queue_`, one behind the other, are those posted and not decoded; each step takes from the front of one what it puts behind the one before |
| `BufferQueueProofs!RepliesStayIntact` | `[]RepliesIntact` | strengthened by `RepliesCut`: there is a byte up to which replies were written or lost with a failed write, and what is being written and what is in `out_queue_` are all that follow it; `Rising` says that what was written is in order also after a failure |
| `BufferQueueProofs!SoundStaysIntact` | `[]SoundIntact` | strengthened by `SoundAt`: the bytes that were skipped are the first ones, and those played, left of the current chunk, queued, in the hands of the server and in the socket, in this order, are a run up to the last one written (`IsChain`; one lemma per move of bytes between two neighbours); there is neither a queue nor a chunk before a device is open; `Sounded`: what a callback has copied was played, so that a gap comes behind some sound |
| `BufferQueueProofs!OnlyDeathHarms` | `[]HarmOnlyByDeath` | strengthened by `ServedIsOpen`: until the audio server dies every connection the host serves is open in the guest, so that no read fails |
| `MessageProcessorProofs!FramesBrokenOnlyInsideHeader` | `[]BrokenOnlyInsideHeader` | with `FramingTypeOK` it is inductive: the header at `start` gives the distance to the next end |
| `MessageProcessorProofs!LeftBehindConfined` | `[]LeftBehindOnlyIfEqual` | from the invariant above: the loop ends early only if the rest is as long as the frame |
| `RendererProofs!AlwaysOwned` | `[]Owned` | strengthened by `Disjoint` (a handle is not in both tables) and the shapes of the tables |
| `RendererProofs!NamesAlwaysKept` | `HandlesStable` | from the same invariant and `FreshHandle` |
| `RendererProofs!BuffersAlwaysAccounted` | `[]BuffersAccounted` | the type invariant and the inequality of counts are inductive together; `s_nextHandle` stays in the table of handles |
| `RendererProofs!CurrentAlwaysBound` | `[]CurrentSurfacesBound` | strengthened by `CurrentExclusive`: EGL has no pbuffer current in two threads, and what it has current is what the renderer has so, unless `detached`; binding a window then takes it from another thread's context only if it is `detached` |
| `RendererProofs!AlwaysDrainsOwn` | `DrainsOwn` | strengthened by `Unwrapped`: until the wrap a handle is the serial number of its object, and a thread's sets hold what it created |
| `MessageProcessorProofs!PortAlwaysUnderLock` | `[]PortUnderLock` | strengthened by `Lifecycle`: a connection has at most one worker, the port is given up before the lock, nothing outlives the processor |
| `MessageProcessorProofs!ProxyAlwaysHasHost` | `[]ProxyHasHost` | the same invariant |
| `WaylandBuffersProofs!BuffersAlwaysConsistent` | `[]BuffersConsistent` | strengthened by `Places`, which ties the buffer in use and a torn rectangle to where the two threads are |
| `WaylandBuffersProofs!FrameAlwaysCurrent` | `[]FrameCurrent` | not a property of the run; strengthened by `Fresh`: what the render thread has read, and whatever it can read next, was the window's since the frame was submitted |
| `WaylandBuffersProofs!GrowthAlwaysByResize` | `[]GrowthByResize` | by cardinalities: a buffer is made only when none of its size is free (`Bounded`, about `OfEra`, the buffers made since the last resize and not in a race with it); `EraCurrent`: these have the window's size and are never erased until the next resize |
| `RpcCallsProofs!AlwaysAccounted` | `[]CallsAccounted` | strengthened by `IdsLag` (no id is drawn without a call), `TagsOwn` (no two threads have the same call); the balance itself (`ResultsOwed`) is a lower bound on what a handle expects, by cardinalities; the calls of a replaced channel move from the cache to `lost` |
| `RpcCallsProofs!NeverDangling` | `[]NoDanglingRequest` | on top of it, with `InTime`: a thread's current call is in the cache only once it was saved, and not when its wait ended in time |
| `RpcCallsProofs!ReaderAlwaysLives` | `[]ReaderLives` | strengthened by `ReaderInv`: while the guest is there every request and every result on its way has its entry in the cache, and a call is either asked or answered (`Carried`); no answer is in place before its call was sent (`Unanswered`) |
| `RpcCallsProofs!AlwaysOwnAnswer` | `[]OwnAnswer` | on top of both, while ids are unique and the connection stands: `NotSent`, `Awaited`, `Returned` follow one call from its id to its answer; `ViaBehind`: no call goes over a connection that is yet to come |
| `QemudProofs!ClientsAlwaysConsistent` | `[]ClientsConsistent` | strengthened by `Channelled` and `SerialShape`; a free channel is always found, since there are more of them than clients (`SomeFree`, `NextFree`, a pigeonhole argument) |
| `QemudProofs!NothingEverLost` | `[]NothingLost` | strengthened by `HupsReported`: a hang-up is only reported of a client that is gone |
| `QemudProofs!FreedUseAlwaysKnown` | `[]FreedUseKnown` | strengthened by `FreedQuiet`: until a client is thrown out or disconnected no handler is closing, and a freed one has no event left in the round |
| `QemudProofs!HostAlwaysAgrees` | `[]HostAgrees` | per channel both ends and the messages between them are in one of five phases (`Connecting`, `Owned`, `Accepted`, `Settled`, `Leaving`); a connect and its answer are the first message about their channel (`FirstIn`); needs that numbers have not wrapped |
| `TouchInputProofs!SlotsAlwaysConsistent` | `[]SlotsConsistent` | strengthened by `SlotsBounded`: a finger never holds more slots than it has contacts, and as many unless one was dropped |
| `TouchInputProofs!GuestAlwaysSeesFingers` | `[]GuestSeesFingers` | `GuestsInStep`: with the batch on its way decoded, every guest sees the slots of the host and decodes into `last_slot`, or into slot 0 with all slots free, which the next finger takes; `BatchCurrent` covers a guest that connects while a batch is sent, `UntoldBlank` one that is added and not yet told; `OwnersNamed` and `Placed` say whose position a slot has |
| `TouchInputProofs!ReplacedAlwaysShowNone` | `[]ReplacedShowNone` | on top of `SlotsBounded` and `GuestsInStep`: when no finger is down all slots are free, so that a guest with an intact stream shows none when `init` comes |
| `ContainerLifecycleProofs!ContainerAlwaysOwned` | `[]ContainerOwned` | strengthened by `OneServed` (one connection at a time), `Known` (a session that is `state_` running is served and nobody else's container runs; a container that is no orphan runs for a served session, with an LXC handle to stop it by, which `launch` has) and `TwoCalls` (the two calls of a session's life are each to come, under way, worked on or answered, which bounds both directions of the socket) |

Assumptions: `QueueAssumption` (positive capacity, `NoData` is no content),
`FramingAssumption` (positive header size; frames in a stream are at least a
header long and bodies shorter than the header can say; nothing in
`Channel::send_message` enforces the latter), `RendererAssumption`,
`AdbAssumption` (positive numbers, `Nobody` is no connection),
`BufferAssumption` (finitely many buffers; the values for torn and mixed reads
are no sizes), `CallsAssumption` (finitely many calling threads; naturals bound calls and
connections),
`QemudAssumption` (finitely many sockets, fewer than channel numbers, and none of
them is called "serial" or "none"; without it the search for a free channel in
`multiplexer_open_channel` does not end), `TouchAssumption` (ids of touch points
are naturals, at least one slot and one tracking id), `StreamAssumption` and
`AudioAssumption` (pieces, buffers and capacities are positive numbers),
`LifecycleAssumption` (its bounds are naturals). Bounds such as `MaxCalls` or
`MaxClients` are arbitrary naturals: no theorem depends on their size.

Three of the theorems are about what a list of pieces, put behind one another,
contains (`FlattenSeq`, which is defined by a recursive function). That is induction
over data, for which the library's induction theorems cannot be used. Instead
`SmallestMember` (a non-empty set of naturals has a smallest member, from the
well-foundedness of `<`) turns each such fact into a contradiction with the
smallest counterexample: `JoinedExists` and `JoinedUnique` show that the function
behind `FlattenSeq` is the one its equations describe, and `FlattenAppend` and
`FlattenHead` what a push and a pop do to the bytes of a queue.

Only model-checked are the leads-to properties (`BlockedCallsReturn`,
`CommandsDecoded`, `RenderThreadEnds`, `CallsAnswered`, `HostLossEndsProxy`,
`StandingConnectionProceeds`, `GoneSessionStopped`, `LostManagerEndsSession`,
`Answered`, `CallReturns`, `PlayedToTheEnd`): liveness under fairness is out
of the prover's reach. Every invariant and action property of the passing runs,
and the refinement of the abstract queue, is proved.

The type invariant of every module is proved: by a theorem of its own for the
queue and the proxy, within the invariant for the others (`CommandsIntact`,
`SoundIntact`, `ContainerOwned`, `CallsAccounted`, `BuffersAccounted`,
`SlotsConsistent`, `BuffersConsistent` and `ClientsConsistent` name it as a conjunct;
for `Framing` it is part of the inductive invariant).

## 5. Where code and comments disagree

One run, `stream_close`, expects a violation and gives the trace: `close_locked`
says "Wake any potential waiters." (`graphics/buffer_queue.cpp:95`), but
`forceStop` closes `out_queue_` under `lock_` while its users hold `out_lock_`. The
store and the notification can fall between the worker's test and its wait;
`~BufferedIOStream` then joins for ever.

Met while modelling, not runs of their own. The properties of the passing runs state what holds beside
these: each has the exception as a disjunct or a condition.

- "RPC call timed out" (`bridge/android_api_stub.cpp:116`) is thrown only if the
  handle has never seen a result; `wait_for_pending` does not reset it, so after
  one answered call later time-outs return normally.
- Replacing the bridge's channel is called "safe as long as we only support a
  single client" (`cmds/session_manager.cpp:230`). One client at a time it is,
  but a guest that has gone is followed by the next: `set_rpc_channel`
  (`bridge/android_api_stub.cpp:48`) assigns `channel_` without a lock and frees
  the `Channel` and its cache under a thread that is inside `call_method`
  (`freedUse`). The calls pending in the old cache are never completed, while
  the `WaitHandle`s go on counting them: every later call of such a method
  ends by its time-out although the guest answers (`lost` in `CallsAnswered`).
- `force_completion` empties the cache when a send fails. A result the guest
  wrote before it went is then read with no entry, `at()` throws
  (`rpc/pending_call_cache.cpp:43`), reading ends without removing the connection
  from `connections_`, and `ConnectionCreator` refuses every later guest
  (`ReaderLives` is about the time while the guest is there).
- "return and wait until we have all" (`rpc/message_processor.cpp:55`) fails for
  one to three buffered bytes, where `buffer_.size() - header_size` wraps around
  (`BrokenOnlyInsideHeader`).
- Of two qemud commands of equal length in one read the second waits for the
  next read (`qemu/qemud_message_processor.cpp:71`, `LeftBehindOnlyIfEqual`).
- Closing adbd's connection is to free port and lock
  (`qemu/adb_message_processor.cpp:171`), but after a failed write no read is in
  progress whose handler would remove the connection (`threw` in
  `HostLossEndsProxy`).
- `Runtime::stop` (`runtime.h:53`) joins a worker that waits for the adb lock, and
  so may not return.
- "If container manager dies before session manager, the session manager cannot
  exit if it waits for all, so just wait for 3 seconds."
  (`container/management_api_stub.cpp:94`) is done for `stop_container` only;
  `start_container` waits for all (`:71`) on a worker that `rt->stop` joins.
  `LostManagerEndsSession` therefore starts from a session that runs or stops.
- `src/android/qemud/qemud.c:44` promises a channel number "> 0", but after a wrap
  `:1553` gives out 0; `fdhandler_shutdown` is to "auto-free" the handler
  (`:852`), but a closing handler whose packets are sent is not freed.
- A refused connection is to be answered with "ko:connect:<id>:reason-for-failure"
  (`src/android/qemud/qemud.c:63`), but `multiplexer_handle_control` takes a "ko"
  only if `p->len == 13` (`:1455`), which leaves no room for a reason. Such a
  refusal is an unknown control message, and the client waits until it hangs up
  (`unheard` in `Answered`).
- After a wrap of the channel numbers a message on its way can name the number of
  a client that has gone and meet its next owner (`:1446`); `HostAgrees` ends
  there.
- `WindowSurface::resize` (`emugl/WindowSurface.cpp:147`) destroys the pbuffer of a
  window that another thread may have current. Only the calling thread binds the
  new one; EGL lets a third one make it current and `bind` then overwrites
  `mDrawContext` under the first. When the first thread's surfaces are to be made
  current again (`unbind_locked`), EGL refuses, and the helper's context stays
  current there (`detached` in `CurrentSurfacesBound`).
- The pointer has id 0, that of a touch point, and moves whether or not its button
  is pressed (`src/src/fydeos/wayland_pointer.cc:62`): without a slot of its own it
  moves that of touch point 0 (`mixed` in `GuestSeesFingers`).
- `AnboxInput::init` (`src/src/fydeos/anbox_input.h:61`) makes a new device while
  guests stay connected to the old one. A finger that is down at that moment is
  never lifted there (`cancelled` in `ReplacedShowNone`).
- A DIRTY buffer is dropped by `release()` (`src/src/fydeos/wayland_window.cc:540`),
  which leaves the object, its `gbm_bo` and its `wl_buffer` allocated, and IDLE
  buffers of earlier sizes are never made DIRTY: every resize leaves buffers
  behind. `GrowthByResize` bounds how many.
- The audio server "will either deny the request by closing the connection"
  (`src/android/audio/audio_hw.cpp:350`); the end of the file counts as success
  (`:359`).
- `genHandle` looks in `m_contexts` and `m_windows` only
  (`emugl/Renderer.cpp:367`). After 2^32 handles a new object can take the handle of
  a live color buffer; `Renderer.h:40` calls handles unique per type.
- `drainWindowSurface` drops a reference on the attached color buffer
  (`Renderer.cpp:472`) that `setWindowSurfaceColorBuffer` did not take, so a
  buffer can be destroyed while a client holds it. This is why `NoLeakedBuffer`
  is an inequality.

## 6. Not modelled, and limits

- Drawing, shaders, EGL and GL calls; SDL and Wayland; D-Bus encoding; LXC
  itself; command line; files and devices: input and output outside this code.
- The GL encoders of the guest (`src/android/opengl`, some 25 000 lines, mostly
  generated, one function per GL call), its camera, GPS, sensor and power
  modules (taken over from the Android emulator): they make up most of the
  repository's lines and keep no state that the code written for Anbox shares.
  For this reason the share of all lines that the models cover is small.
- The table of windows in `wm/multi_window_manager.cpp`: with the Wayland platform
  every destruction of a window runs into the breakpoint in `~WaylandWindow`
  (`src/src/fydeos/wayland_window.h:117`), so that what follows a removal cannot
  be stated. `update_frame` is part of `WaylandBuffers`.
- `PipeConnectionCreator` and the bridge services: tables of names and
  conversions. Not covered by any property are therefore the blocking read of
  the client's name on the accepting worker, and the end of accepting after an
  unknown one (`qemu/pipe_connection_creator.cpp:103`; `TouchInput` and `AudioPath`
  have the latter for their servers), and the call into the guest made with the
  window manager's mutex held by the thread that would read its answer
  (`wm/multi_window_manager.cpp:77`).
- Native windows, client images and trivial contexts of `Renderer`; the global
  lock that render threads of several connections share. It is held while a
  reply waits for room (`emugl/RenderThread.cpp:64`), so that a client that does
  not read its replies stops the others.
- `AdbProxy` reads whole commands; a command cut by a read is not modelled. A
  handler that is queued when its object is destroyed runs or is cancelled as
  one step.
- `Renderer`: the creation of a pbuffer in `resize` is taken to succeed.
- `BufferedIOStream`: a `realloc` that fails while the read buffer grows
  (`emugl/ReadBuffer.cpp:49`) ends the render thread and is left out.
- The four methods of `AndroidApiStub` are one parameterised method. A failed
  parse of an answer is not modelled.
- `ContainerLifecycle`: the contents of the configuration are one step that
  succeeds or throws. The rest of the session manager is wired up before the
  threads start.
- `TouchInput`: keyboard, wheel and clipboard events keep no state and are left
  out.
- `Qemud`: packets of the serial connection arrive whole; the reassembly in
  `serial_fd_receive` is not modelled. File descriptors are not reused.
- `AudioPath`: getters and setters of the HAL that keep no state are left out, and
  so is the sink of the Wayland platform, which discards its data.

## 7. Plan

Of the properties stated so far, the safety properties are proved; the liveness
properties remain with TLC.

Models worth adding later: several GL connections under the global lock as a
composition with `BufferedIOStream`, and the reassembly of packets in `qemud.c`
beside `Framing`.
