------------------------------- MODULE AdbProxy --------------------------------
(***************************************************************************)
(* The proxy between adbd in the container and the adb server of the host  *)
(* (qemu/adb_message_processor.cpp), with the connections that carry it    *)
(* (network/socket_connection.cpp, network/connections.h,                  *)
(* network/tcp_socket_connector.cpp) and the worker pool that runs its     *)
(* handlers (runtime.cpp).                                                 *)
(*                                                                         *)
(* adbd opens a connection to the pipe and sends "accept"; the proxy then  *)
(* listens on one fixed port, sends "ok" when the adb server connects, and *)
(* copies data in both directions after adbd has sent "start".  adbd opens *)
(* its next connection while one is in use.  active_instance_ lets one      *)
(* processor at a time pass "accept"; a worker blocks on it.               *)
(*                                                                         *)
(* A handler of the io_service is one step, except that it may block on    *)
(* active_instance_.  An exception that leaves a handler is swallowed by    *)
(* exception_safe_run; whatever the handler had left to do is not done.     *)
(* A read returns one command or one piece of data.                        *)
(***************************************************************************)
EXTENDS Integers, FiniteSets

CONSTANTS Conn,        \* connections of adbd to the pipe, used again once gone
          WorkerCount, \* threads of the pool (Runtime::worker_threads)
          Nobody       \* no connection

ASSUME AdbAssumption == Nobody \notin Conn /\ WorkerCount \in Nat \ {0}

VARIABLES
  state,      \* state_ of the processor, "none" without one
  expected,   \* expected_command_, "" when cleared
  blocked,    \* connections whose worker waits for active_instance_
  owner,      \* whose lock_ holds active_instance_
  port,       \* whose host_connector_ is bound to the port
  accepting,  \* connectors that wait for the adb server
  reading,    \* connections with a read in progress on adbd's socket
  closed,     \* connections closed with messenger_->close()
  guest,      \* adbd's side: "none", "open" or "shut"
  inbox,      \* what adbd has sent and nobody has read: "" or a message
  adbd,       \* how far adbd is: it has sent "accept", got "ok", sent "start"
  host,       \* the adb server's side of host_messenger_: "none", "up", "down"
  hostReading,  \* connections with a read in progress on host_messenger_
  dying,      \* what ~AdbMessageProcessor comes to next, "no" while it lives
  threw,      \* connections on which an exception ended the reading of adbd
  stopping    \* Runtime::stop was called

handleVars == <<owner, port>>
guestVars == <<guest, inbox, adbd>>
hostVars == <<host, hostReading>>
adbVars == <<state, expected, blocked, owner, port, accepting, reading, closed, guest, inbox, adbd,
             host, hostReading, dying, threw, stopping>>

AdbTypeOK ==
  /\ state \in [Conn -> {"none", "waiting_for_guest_accept_command", "waiting_for_guest_start_command",
                            "proxying_data", "closed_by_host"}]
  /\ expected \in [Conn -> {"", "accept", "start"}]
  /\ owner \in Conn \cup {Nobody} /\ port \in Conn \cup {Nobody}
  /\ blocked \subseteq Conn /\ accepting \subseteq Conn /\ reading \subseteq Conn
  /\ closed \subseteq Conn /\ hostReading \subseteq Conn /\ threw \subseteq Conn
  /\ blocked \cap reading = {}
  /\ guest \in [Conn -> {"none", "open", "shut"}]
  /\ inbox \in [Conn -> {"", "accept", "start", "data"}]
  /\ adbd \in [Conn -> {"none", "accept", "ok", "start"}]
  /\ host \in [Conn -> {"none", "up", "down"}]
  /\ dying \in [Conn -> {"no", "connector", "lock", "members"}]
  /\ stopping \in BOOLEAN

AdbInit ==
  /\ state = [c \in Conn |-> "none"] /\ expected = [c \in Conn |-> ""]
  /\ blocked = {} /\ owner = Nobody /\ port = Nobody /\ accepting = {}
  /\ reading = {} /\ closed = {}
  /\ guest = [c \in Conn |-> "none"] /\ inbox = [c \in Conn |-> ""]
  /\ adbd = [c \in Conn |-> "none"]
  /\ host = [c \in Conn |-> "none"] /\ hostReading = {}
  /\ dying = [c \in Conn |-> "no"] /\ threw = {} /\ stopping = FALSE

\* A worker is there to run a handler.
WorkerFree == ~stopping /\ Cardinality(blocked) < WorkerCount
--------------------------------------------------------------------------------
(* adbd and the adb server. *)

\* adbd connects to the pipe and sends "accept" at once.
GuestOpens(c) ==
  /\ WorkerFree
  /\ state[c] = "none"
  /\ state' = [state EXCEPT ![c] = "waiting_for_guest_accept_command"]
  /\ expected' = [expected EXCEPT ![c] = "accept"]
  /\ reading' = reading \cup {c}
  /\ guest' = [guest EXCEPT ![c] = "open"]
  /\ inbox' = [inbox EXCEPT ![c] = "accept"]
  /\ adbd' = [adbd EXCEPT ![c] = "accept"]
  /\ UNCHANGED <<blocked, handleVars, accepting, closed, hostVars, dying, threw, stopping>>

\* After "ok" adbd sends "start", once, and then data.
GuestSends(c) ==
  /\ guest[c] = "open" /\ c \notin closed
  /\ adbd[c] \in {"ok", "start"}
  /\ inbox[c] = ""
  /\ inbox' = [inbox EXCEPT ![c] = IF adbd[c] = "ok" THEN "start" ELSE "data"]
  /\ adbd' = [adbd EXCEPT ![c] = "start"]
  /\ UNCHANGED <<state, expected, blocked, handleVars, accepting, reading, closed, guest, hostVars, dying,
                 threw, stopping>>

GuestCloses(c) ==
  /\ guest[c] = "open"
  /\ guest' = [guest EXCEPT ![c] = "shut"]
  /\ UNCHANGED <<state, expected, blocked, handleVars, accepting, reading, closed, inbox, adbd,
                 hostVars, dying, threw, stopping>>

HostDrops(c) ==
  /\ host[c] = "up"
  /\ host' = [host EXCEPT ![c] = "down"]
  /\ UNCHANGED <<state, expected, blocked, handleVars, accepting, reading, closed, guestVars,
                 hostReading, dying, threw, stopping>>
--------------------------------------------------------------------------------
(* The lock and the port. *)

\* lock_.lock() returns.  wait_for_host_connection binds the port and
\* on_read_size starts the next read.  Binding throws if the port is in use, by
\* another processor or by another program.
wait_for_host_connection(c) ==
  /\ c \in blocked
  /\ owner = Nobody
  /\ owner' = c
  /\ blocked' = blocked \ {c}
  /\ \/ /\ port = Nobody
        /\ port' = c
        /\ accepting' = accepting \cup {c}
        /\ reading' = reading \cup {c}
        /\ UNCHANGED threw
     \/ threw' = threw \cup {c} /\ UNCHANGED <<port, accepting, reading>>
  /\ UNCHANGED <<state, expected, closed, guestVars, hostVars, dying, stopping>>

\* The adb server connects.  A messenger it replaces is closed and its read
\* cancelled.  If adbd cannot be sent "ok", the exception also ends accepting.
on_host_connection(c) ==
  /\ WorkerFree
  /\ c \in accepting
  /\ host' = [host EXCEPT ![c] = "up"]
  /\ hostReading' = hostReading \ {c}
  /\ \/ /\ guest[c] = "open" /\ c \notin closed
        /\ adbd' = [adbd EXCEPT ![c] = IF @ = "accept" THEN "ok" ELSE @]
        /\ state' = [state EXCEPT ![c] = "waiting_for_guest_start_command"]
        /\ expected' = [expected EXCEPT ![c] = "start"]
        /\ UNCHANGED accepting
     \/ /\ guest[c] = "shut" \/ c \in closed
        /\ accepting' = accepting \ {c}
        /\ UNCHANGED <<adbd, state, expected>>
  /\ UNCHANGED <<blocked, handleVars, reading, closed, guest, inbox, dying, threw, stopping>>
--------------------------------------------------------------------------------
(* process_data: one message from adbd. *)

Message(c, m) ==
  /\ WorkerFree
  /\ c \in reading /\ c \notin closed
  /\ m # "" /\ inbox[c] = m
  /\ inbox' = [inbox EXCEPT ![c] = ""]

\* While proxying, the message goes to the host; a host that is gone may make
\* the write throw.
ProxyToHost(c, m) ==
  /\ Message(c, m)
  /\ state[c] = "proxying_data"
  /\ \/ UNCHANGED <<reading, threw>>
     \/ /\ host[c] # "up"
        /\ reading' = reading \ {c}
        /\ threw' = threw \cup {c}
  /\ UNCHANGED <<state, expected, blocked, handleVars, accepting, closed, guest, adbd, hostVars, dying,
                 stopping>>

\* Fault: the processor goes on without the lock.
AcceptCommand_no_lock(c, m) ==
  /\ Message(c, m)
  /\ state[c] = "waiting_for_guest_accept_command" /\ expected[c] = "accept" /\ m = "accept"
  /\ expected' = [expected EXCEPT ![c] = ""]
  /\ port = Nobody
  /\ port' = c
  /\ accepting' = accepting \cup {c}
  /\ UNCHANGED <<state, blocked, reading, owner, closed, guest, adbd, hostVars, dying, threw, stopping>>

\* "accept" was expected: advance_state takes the lock.
AcceptCommand(c, m) ==
  /\ Message(c, m)
  /\ state[c] = "waiting_for_guest_accept_command" /\ expected[c] = "accept" /\ m = "accept"
  /\ expected' = [expected EXCEPT ![c] = ""]
  /\ reading' = reading \ {c}
  /\ blocked' = blocked \cup {c}
  /\ UNCHANGED <<state, handleVars, accepting, closed, guest, adbd, hostVars, dying, threw, stopping>>

\* "start" was expected: advance_state starts to proxy.
StartCommand(c, m) ==
  /\ Message(c, m)
  /\ state[c] = "waiting_for_guest_start_command" /\ expected[c] = "start" /\ m = "start"
  /\ expected' = [expected EXCEPT ![c] = ""]
  /\ state' = [state EXCEPT ![c] = "proxying_data"]
  /\ hostReading' = hostReading \cup {c}
  /\ UNCHANGED <<blocked, handleVars, accepting, reading, closed, guest, adbd, host, dying, threw,
                 stopping>>

\* Another message than the expected one: process_data fails and the connection
\* is removed.
WrongCommand(c, m) ==
  /\ Message(c, m)
  /\ state[c] # "proxying_data" /\ expected[c] \notin {"", m}
  /\ reading' = reading \ {c}
  /\ dying' = [dying EXCEPT ![c] = "connector"]
  /\ UNCHANGED <<state, expected, blocked, handleVars, accepting, closed, guest, adbd, hostVars, threw,
                 stopping>>

\* adbd sends nothing between "accept" and "ok", so that there is no message
\* while no command is expected.
process_data(c) ==
  \E m \in {"accept", "start", "data"} :
    ProxyToHost(c, m) \/ AcceptCommand(c, m) \/ StartCommand(c, m) \/ WrongCommand(c, m)

\* Fault: the connection is not removed.
ReadError_not_removed(c) ==
  /\ WorkerFree
  /\ c \in reading
  /\ c \in closed \/ (guest[c] = "shut" /\ inbox[c] = "")
  /\ reading' = reading \ {c}
  /\ UNCHANGED <<state, expected, blocked, handleVars, accepting, closed, guestVars, hostVars, dying, threw,
                 stopping>>

\* on_read_size with an error: adbd has closed its end or messenger_ is closed.
ReadError(c) ==
  /\ WorkerFree
  /\ c \in reading
  /\ c \in closed \/ (guest[c] = "shut" /\ inbox[c] = "")
  /\ reading' = reading \ {c}
  /\ dying' = [dying EXCEPT ![c] = "connector"]
  /\ UNCHANGED <<state, expected, blocked, handleVars, accepting, closed, guestVars, hostVars, threw,
                 stopping>>
--------------------------------------------------------------------------------
(* on_host_read_size. *)

\* Fault: the processor's own state is closed, adbd's connection is not.
HostReadError_keeps_guest(c) ==
  /\ WorkerFree
  /\ c \in hostReading /\ host[c] = "down"
  /\ hostReading' = hostReading \ {c}
  /\ state' = [state EXCEPT ![c] = "closed_by_host"]
  /\ UNCHANGED <<expected, blocked, handleVars, accepting, reading, closed, guestVars, host, dying, threw,
                 stopping>>

\* The adb server is gone.
HostReadError(c) ==
  /\ WorkerFree
  /\ c \in hostReading /\ host[c] = "down"
  /\ hostReading' = hostReading \ {c}
  /\ state' = [state EXCEPT ![c] = "closed_by_host"]
  /\ closed' = closed \cup {c}
  /\ UNCHANGED <<expected, blocked, handleVars, accepting, reading, guestVars, host, dying, threw, stopping>>

\* Data for adbd, who is gone: the write throws and the host is read no more.
HostDataLost(c) ==
  /\ WorkerFree
  /\ c \in hostReading /\ host[c] = "up"
  /\ guest[c] = "shut" \/ c \in closed
  /\ hostReading' = hostReading \ {c}
  /\ UNCHANGED <<state, expected, blocked, handleVars, accepting, reading, closed, guestVars, host, dying,
                 threw, stopping>>
--------------------------------------------------------------------------------
(* ~AdbMessageProcessor, in the worker that removes the connection. *)

\* Fault: host_connector_ is left to the destructors of the members, which come
\* after that of lock_.
ResetConnector_skipped(c) ==
  /\ dying[c] = "connector"
  /\ dying' = [dying EXCEPT ![c] = "lock"]
  /\ state' = [state EXCEPT ![c] = "closed_by_host"]
  /\ UNCHANGED <<expected, blocked, handleVars, accepting, reading, closed, guestVars, hostVars, threw,
                 stopping>>

\* The body of the destructor: host_connector_.reset() releases the port.
ResetConnector(c) ==
  /\ dying[c] = "connector"
  /\ dying' = [dying EXCEPT ![c] = "lock"]
  /\ state' = [state EXCEPT ![c] = "closed_by_host"]
  /\ port' = IF port = c THEN Nobody ELSE port
  /\ accepting' = accepting \ {c}
  /\ UNCHANGED <<expected, blocked, owner, reading, closed, guestVars, hostVars, threw, stopping>>

\* The members, last one first: lock_ releases active_instance_ ...
ReleaseLock(c) ==
  /\ dying[c] = "lock"
  /\ dying' = [dying EXCEPT ![c] = "members"]
  /\ owner' = IF owner = c THEN Nobody ELSE owner
  /\ UNCHANGED <<state, expected, blocked, port, accepting, reading, closed, guestVars, hostVars, threw,
                 stopping>>

\* ... and the others their sockets and what is left of them.
DestroyMembers(c) ==
  /\ dying[c] = "members"
  /\ dying' = [dying EXCEPT ![c] = "no"]
  /\ port' = IF port = c THEN Nobody ELSE port
  /\ accepting' = accepting \ {c}
  /\ state' = [state EXCEPT ![c] = "none"]
  /\ expected' = [expected EXCEPT ![c] = ""]
  /\ closed' = closed \ {c}
  /\ guest' = [guest EXCEPT ![c] = "none"]
  /\ inbox' = [inbox EXCEPT ![c] = ""]
  /\ adbd' = [adbd EXCEPT ![c] = "none"]
  /\ host' = [host EXCEPT ![c] = "none"]
  /\ hostReading' = hostReading \ {c}
  /\ UNCHANGED <<blocked, owner, reading, threw, stopping>>

Destructor(c) == ResetConnector(c) \/ ReleaseLock(c) \/ DestroyMembers(c)
--------------------------------------------------------------------------------
\* Runtime::stop ends the io_service and joins the workers.
stop ==
  /\ ~stopping
  /\ stopping' = TRUE
  /\ UNCHANGED <<state, expected, blocked, handleVars, accepting, reading, closed, guestVars, hostVars,
                 dying, threw>>

Handlers(c) == process_data(c) \/ ReadError(c) \/ HostReadError(c) \/ HostDataLost(c)

AdbNext ==
  \/ \E c \in Conn : \/ GuestOpens(c) \/ GuestSends(c) \/ GuestCloses(c) \/ HostDrops(c)
                         \/ wait_for_host_connection(c) \/ on_host_connection(c)
                         \/ Handlers(c) \/ Destructor(c)
  \/ stop

AdbSpec == AdbInit /\ [][AdbNext]_adbVars

\* Workers run the handlers that are ready and finish what they have begun; a
\* mutex that is free goes to one of those who wait for it.  Neither adbd nor
\* the adb server has to do anything.
AdbFairness == \A c \in Conn : /\ WF_adbVars(Handlers(c))
                               /\ WF_adbVars(Destructor(c))
                               /\ WF_adbVars(wait_for_host_connection(c))

AdbFairSpec == AdbSpec /\ AdbFairness
--------------------------------------------------------------------------------
(* Properties. *)

\* Only the processor that holds active_instance_ is bound to the port, so that
\* no processor keeps another one from binding it: the destructor gives up the
\* port before the lock, which hands both to the connection that waits.
PortUnderLock == /\ port # Nobody => owner = port
                 /\ accepting \subseteq {port}

\* process_data and read_next_host_message use host_messenger_: there is one, and
\* adbd has been told so, whenever data is proxied.
ProxyHasHost ==
  \A c \in Conn : state[c] \in {"waiting_for_guest_start_command", "proxying_data"} =>
    host[c] # "none" /\ adbd[c] \in {"ok", "start"} /\ owner = c

\* When the adb server is gone and no write to it threw, the processor is
\* destroyed, as on_host_read_size intends by closing adbd's connection.
HostLossEndsProxy ==
  \A c \in Conn : state[c] = "closed_by_host" ~> state[c] = "none" \/ c \in threw \/ stopping

\* When adbd has closed the connection in use, whoever waits for the lock gets
\* its turn, whatever the adb server does.
StandingConnectionProceeds ==
  \A c, d \in Conn : (guest[c] = "shut" /\ d \in blocked /\ owner = c)
                       ~> owner # c \/ c \in threw \/ stopping
================================================================================
