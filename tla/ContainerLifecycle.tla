--------------------------- MODULE ContainerLifecycle ---------------------------
(***************************************************************************)
(* Start and stop of the Android container across two processes: session   *)
(* managers (cmds/session_manager.cpp, container/client.cpp,               *)
(* management_api_stub.cpp) and the container manager                      *)
(* (container/service.cpp, management_api_skeleton.cpp, lxc_container.cpp, *)
(* cmds/container_manager.cpp).  A session is one life of a session        *)
(* manager, with one connection.  There is one LXC container, "default",   *)
(* which outlives the process that started it.                             *)
(***************************************************************************)
EXTENDS Integers, FiniteSets, Sequences

CONSTANTS MaxSessions,  \* bound: lives of session managers, numbered as they begin
          MaxRestarts   \* bound: restarts of the container manager

ASSUME LifecycleAssumption == MaxSessions \in Nat /\ MaxRestarts \in Nat

Sessions == 1 .. MaxSessions
Nobody == 0

VARIABLES
  main,      \* where the main thread of a session is: "running" while it waits in trap->run()
  starter,   \* the task that calls Client::start, on a worker of the runtime
  reading,   \* the client has a read pending
  pending, completed, failed,  \* calls in the cache, calls whose closure ran, calls answered with an error
  link,      \* the connection: "shut" by the manager, "gone" with the session
  toManager, toSession,        \* messages on their way
  manager, restarts,
  serving,   \* what the manager does for a session: the table connections_ and the handler
  state,     \* LxcContainer::state_ is running
  handle,    \* container_ is set
  box,       \* the session whose configuration the LXC container runs with, or Nobody
  orphan     \* a manager ended with the container, which still runs

sessionVars == <<main, starter, reading, pending, completed, failed>>
managerVars == <<manager, restarts, serving, state, handle>>
vars == <<main, starter, reading, pending, completed, failed, link, toManager, toSession,
          manager, restarts, serving, state, handle, box, orphan>>

Calls == {"start", "stop"}
Replies == [call : Calls, error : BOOLEAN]

\* connections_, and the sessions a worker of the manager is busy with.
Connections == {s \in Sessions : serving[s] \in {"read", "prepare", "launch", "lost"}}
Busy == {s \in Sessions : serving[s] \in {"prepare", "launch"}}
\* Workers of the session's runtime still run handlers.
Dispatching(s) == main[s] \in {"running", "stop", "wait"}

TypeOK ==
  /\ main \in [Sessions -> {"off", "running", "stop", "wait", "join", "exited"}]
  /\ reading \in [Sessions -> BOOLEAN]
  /\ starter \in [Sessions -> {"none", "queued", "waiting", "done"}]
  /\ pending \in [Sessions -> SUBSET Calls] /\ completed \in [Sessions -> SUBSET Calls]
  /\ failed \in [Sessions -> SUBSET Calls]
  /\ link \in [Sessions -> {"none", "open", "shut", "gone"}]
  /\ toManager \in [Sessions -> Seq(Calls)] /\ toSession \in [Sessions -> Seq(Replies)]
  /\ \A s \in Sessions : Len(toManager[s]) <= 2 /\ Len(toSession[s]) <= 2
  /\ manager \in {"up", "stopping", "down"} /\ restarts \in 0 .. MaxRestarts
  /\ serving \in [Sessions -> {"none", "backlog", "read", "prepare", "launch", "lost"}]
  /\ state \in [Sessions -> BOOLEAN] /\ handle \in [Sessions -> BOOLEAN]
  /\ box \in Sessions \cup {Nobody} /\ orphan \in BOOLEAN

Init ==
  /\ main = [s \in Sessions |-> "off"] /\ starter = [s \in Sessions |-> "none"]
  /\ reading = [s \in Sessions |-> FALSE]
  /\ pending = [s \in Sessions |-> {}] /\ completed = [s \in Sessions |-> {}]
  /\ failed = [s \in Sessions |-> {}]
  /\ link = [s \in Sessions |-> "none"]
  /\ toManager = [s \in Sessions |-> <<>>] /\ toSession = [s \in Sessions |-> <<>>]
  /\ manager = "up" /\ restarts = 0
  /\ serving = [s \in Sessions |-> "none"]
  /\ state = [s \in Sessions |-> FALSE] /\ handle = [s \in Sessions |-> FALSE]
  /\ box = Nobody /\ orphan = FALSE
--------------------------------------------------------------------------------
(* The session manager. *)

\* The constructor of Client connects and reads; start is dispatched, the runtime
\* is started and the main thread waits for a signal.
Launch(s) ==
  /\ main[s] = "off" /\ manager = "up"
  /\ \A r \in 1 .. s - 1 : main[r] # "off"
  /\ main' = [main EXCEPT ![s] = "running"]
  /\ starter' = [starter EXCEPT ![s] = "queued"]
  /\ reading' = [reading EXCEPT ![s] = TRUE]
  /\ link' = [link EXCEPT ![s] = "open"]
  /\ serving' = [serving EXCEPT ![s] = "backlog"]
  /\ UNCHANGED <<pending, completed, failed, toManager, toSession, manager, restarts, state, handle,
                 box, orphan>>

\* Fault: the calls that wait are not completed when the connection is lost.
call_method_no_completion(s, c) ==
  IF link[s] = "open"
  THEN /\ toManager' = [toManager EXCEPT ![s] = Append(@, c)]
       /\ pending' = [pending EXCEPT ![s] = @ \cup {c}]
       /\ UNCHANGED completed
  ELSE UNCHANGED <<toManager, pending, completed>>

\* Channel::call_method: a send that fails completes all pending calls, this one
\* included, and throws.
call_method(s, c) ==
  IF link[s] = "open"
  THEN /\ toManager' = [toManager EXCEPT ![s] = Append(@, c)]
       /\ pending' = [pending EXCEPT ![s] = @ \cup {c}]
       /\ UNCHANGED completed
  ELSE /\ completed' = [completed EXCEPT ![s] = @ \cup pending[s] \cup {c}]
       /\ pending' = [pending EXCEPT ![s] = {}]
       /\ UNCHANGED toManager

\* terminate_callback_ and the signal handler: trap->stop() lets trap->run() return.
terminate(s, cond) == main' = IF cond /\ main[s] = "running" THEN [main EXCEPT ![s] = "stop"] ELSE main

\* ManagementApiStub::start_container up to its wait; Client::start turns an
\* exception into the terminate callback.
start_container(s) ==
  /\ starter[s] = "queued" /\ Dispatching(s)
  /\ call_method(s, "start")
  /\ starter' = [starter EXCEPT ![s] = IF link[s] = "open" THEN "waiting" ELSE "done"]
  /\ terminate(s, link[s] # "open")
  /\ UNCHANGED <<reading, failed, link, toSession, managerVars, box, orphan>>

\* wait_for_all has no time limit.
StartReturns(s) ==
  /\ starter[s] = "waiting" /\ "start" \in completed[s]
  /\ starter' = [starter EXCEPT ![s] = "done"]
  /\ terminate(s, "start" \in failed[s])
  /\ completed' = [completed EXCEPT ![s] = @ \ {"start"}]
  /\ failed' = [failed EXCEPT ![s] = @ \ {"start"}]
  /\ UNCHANGED <<reading, pending, link, toManager, toSession, managerVars, box, orphan>>

Signal(s) ==
  /\ main[s] = "running"
  /\ terminate(s, TRUE)
  /\ UNCHANGED <<starter, reading, pending, completed, failed, link, toManager, toSession, managerVars, box, orphan>>

\* ManagementApiStub::stop_container up to its wait.  An exception leaves the
\* command, and the destructor of the runtime joins the workers.
stop_container(s) ==
  /\ main[s] = "stop"
  /\ call_method(s, "stop")
  /\ main' = [main EXCEPT ![s] = IF link[s] = "open" THEN "wait" ELSE "join"]
  /\ UNCHANGED <<starter, reading, failed, link, toSession, managerVars, box, orphan>>

\* wait_for_pending returns with the answer or after three seconds, and the workers
\* are joined in either case: by rt->stop(), or for an error by ~Runtime.
StopReturns(s) ==
  /\ main[s] = "wait"
  /\ main' = [main EXCEPT ![s] = "join"]
  /\ UNCHANGED <<starter, reading, pending, completed, failed, link, toManager, toSession, managerVars,
                 box, orphan>>

\* The process ends: its memory goes and its socket is closed.
Gone(s) ==
  /\ main' = [main EXCEPT ![s] = "exited"]
  /\ starter' = [starter EXCEPT ![s] = "none"]
  /\ reading' = [reading EXCEPT ![s] = FALSE]
  /\ pending' = [pending EXCEPT ![s] = {}] /\ completed' = [completed EXCEPT ![s] = {}]
  /\ failed' = [failed EXCEPT ![s] = {}]
  /\ toSession' = [toSession EXCEPT ![s] = <<>>]
  /\ link' = [link EXCEPT ![s] = IF @ = "open" THEN "gone" ELSE @]
  /\ UNCHANGED <<toManager, managerVars, box, orphan>>

\* Runtime::stop joins the worker that waits in start_container too.
Exit(s) == main[s] = "join" /\ starter[s] # "waiting" /\ Gone(s)

\* The session manager is killed.
Kill(s) == main[s] \in {"running", "stop", "wait", "join"} /\ Gone(s)

\* Client::on_read_size: an error calls the terminate callback, and nothing is read again.
ClientReadError(s) ==
  /\ reading[s] /\ Dispatching(s) /\ link[s] = "shut"
  /\ reading' = [reading EXCEPT ![s] = FALSE]
  /\ terminate(s, TRUE)
  /\ UNCHANGED <<starter, pending, completed, failed, link, toManager, toSession, managerVars, box, orphan>>

\* An answer is written into the Request of its call and completes it; for a call
\* that is no longer in the cache an exception ends the reading.
ClientReadAnswer(s) ==
  /\ reading[s] /\ Dispatching(s) /\ toSession[s] # <<>>
  /\ toSession' = [toSession EXCEPT ![s] = Tail(@)]
  /\ LET r == Head(toSession[s]) IN
     IF r.call \in pending[s]
     THEN /\ pending' = [pending EXCEPT ![s] = @ \ {r.call}]
          /\ completed' = [completed EXCEPT ![s] = @ \cup {r.call}]
          /\ failed' = IF r.error THEN [failed EXCEPT ![s] = @ \cup {r.call}] ELSE failed
          /\ UNCHANGED reading
     ELSE reading' = [reading EXCEPT ![s] = FALSE] /\ UNCHANGED <<pending, completed, failed>>
  /\ UNCHANGED <<main, starter, link, toManager, managerVars, box, orphan>>
--------------------------------------------------------------------------------
(* The container manager. *)

\* Service::new_client serves one connection and closes any other socket.  (A
\* socket whose peer is gone is served until its first read fails.)
new_client(s) ==
  /\ manager = "up" /\ serving[s] = "backlog"
  /\ LET refused == Cardinality(Connections) >= 1 IN
     /\ serving' = [serving EXCEPT ![s] = IF refused THEN "none" ELSE "read"]
     /\ link' = [link EXCEPT ![s] = IF refused /\ @ = "open" THEN "shut" ELSE @]
     /\ toManager' = [toManager EXCEPT ![s] = IF refused THEN <<>> ELSE @]
  /\ UNCHANGED <<sessionVars, toSession, manager, restarts, state, handle, box, orphan>>

\* LxcContainer::stop: without a handle or a running container it returns and leaves
\* state_ as it is; otherwise lxc stops the container, or fails to.
Stops(s) == handle[s] /\ box # Nobody

\* done->Run(), which is send_response.  When the session is gone it throws, a second
\* time in the handler of invoke, and through on_read_size: the connection is neither
\* read nor removed.
Respond(s, c, e) ==
  IF link[s] = "open"
  THEN /\ toSession' = [toSession EXCEPT ![s] = Append(@, [call |-> c, error |-> e])]
       /\ serving' = [serving EXCEPT ![s] = "read"]
  ELSE serving' = [serving EXCEPT ![s] = "lost"] /\ UNCHANGED toSession

\* A request is taken from the socket and handled by ManagementApiSkeleton.
HandleStart(s) ==
  /\ manager = "up" /\ serving[s] = "read"
  /\ toManager[s] # <<>> /\ Head(toManager[s]) = "start"
  /\ toManager' = [toManager EXCEPT ![s] = Tail(@)]
  /\ IF state[s]
     THEN Respond(s, "start", TRUE)
     ELSE serving' = [serving EXCEPT ![s] = "prepare"] /\ UNCHANGED toSession
  /\ UNCHANGED <<sessionVars, link, manager, restarts, state, handle, box, orphan>>

HandleStop(s) ==
  /\ manager = "up" /\ serving[s] = "read"
  /\ toManager[s] # <<>> /\ Head(toManager[s]) = "stop"
  /\ toManager' = [toManager EXCEPT ![s] = Tail(@)]
  /\ \/ /\ state[s] /\ Stops(s)
        /\ state' = [state EXCEPT ![s] = FALSE]
        /\ box' = Nobody /\ orphan' = FALSE
        /\ Respond(s, "stop", FALSE)
     \/ /\ state[s] => Stops(s)  \* not running, or lxc fails to stop it
        /\ Respond(s, "stop", TRUE)
        /\ UNCHANGED <<state, box, orphan>>
     \/ /\ state[s] /\ ~Stops(s)
        /\ Respond(s, "stop", FALSE)
        /\ UNCHANGED <<state, box, orphan>>
  /\ UNCHANGED <<sessionVars, link, manager, restarts, handle>>

\* LxcContainer::start up to the configuration: a container that still runs is
\* stopped, and whether that succeeded is not looked at.
Prepare(s) ==
  /\ serving[s] = "prepare"
  /\ \/ /\ handle' = [handle EXCEPT ![s] = TRUE]
        /\ \/ box' = Nobody /\ orphan' = FALSE
           \/ box # Nobody /\ UNCHANGED <<box, orphan>>
        /\ serving' = [serving EXCEPT ![s] = "launch"]
        /\ UNCHANGED toSession
     \/ Respond(s, "start", TRUE) /\ UNCHANGED <<handle, box, orphan>>
  /\ UNCHANGED <<sessionVars, link, toManager, manager, restarts, state>>

\* The rest of LxcContainer::start: any configuration step may throw, and lxc may
\* fail to start the container; it always does so for one that is running.
LaunchContainer(s) ==
  /\ serving[s] = "launch"
  /\ \/ /\ box = Nobody
        /\ box' = s
        /\ state' = [state EXCEPT ![s] = TRUE]
        /\ Respond(s, "start", FALSE)
     \/ Respond(s, "start", TRUE) /\ UNCHANGED <<state, box>>
  /\ UNCHANGED <<sessionVars, link, toManager, manager, restarts, handle, orphan>>

\* The manager has ended: its connections and LxcContainers are no more.
Ended ==
  /\ manager' = "down"
  /\ serving' = [s \in Sessions |-> "none"]
  /\ link' = [s \in Sessions |-> IF link[s] = "open" THEN "shut" ELSE link[s]]
  /\ toManager' = [s \in Sessions |-> <<>>]
  /\ state' = [s \in Sessions |-> FALSE] /\ handle' = [s \in Sessions |-> FALSE]
  /\ UNCHANGED <<sessionVars, toSession, restarts>>

\* Fault: the container is put without being stopped.
ServerReadError_no_stop(s) ==
  /\ manager = "up" /\ serving[s] = "read" /\ link[s] = "gone" /\ toManager[s] = <<>>
  /\ serving' = [serving EXCEPT ![s] = "none"]
  /\ state' = [state EXCEPT ![s] = FALSE] /\ handle' = [handle EXCEPT ![s] = FALSE]
  /\ UNCHANGED <<sessionVars, link, toManager, toSession, manager, restarts, box, orphan>>

\* Fault: the end of the stream is taken for an empty message.
ServerReadError_reads_on(s) ==
  /\ manager = "up" /\ serving[s] = "read" /\ link[s] = "gone" /\ toManager[s] = <<>>
  /\ UNCHANGED vars

\* SocketConnection::on_read_size with an error removes the connection and with it
\* the LxcContainer, whose destructor stops the container.  A failure to stop it
\* throws out of the destructor, which terminates the manager.
ServerReadError(s) ==
  /\ manager = "up" /\ serving[s] = "read" /\ link[s] = "gone" /\ toManager[s] = <<>>
  /\ \/ /\ serving' = [serving EXCEPT ![s] = "none"]
        /\ state' = [state EXCEPT ![s] = FALSE] /\ handle' = [handle EXCEPT ![s] = FALSE]
        /\ box' = IF Stops(s) THEN Nobody ELSE box
        /\ orphan' = (orphan /\ ~Stops(s))
        /\ UNCHANGED <<sessionVars, link, toManager, toSession, manager, restarts>>
     \/ Stops(s) /\ Ended /\ orphan' = TRUE /\ UNCHANGED box

\* A signal ends trap->run(): rt->stop() lets the handlers in progress finish.
ManagerStop ==
  /\ manager = "up"
  /\ manager' = "stopping"
  /\ UNCHANGED <<sessionVars, link, toManager, toSession, restarts, serving, state, handle, box, orphan>>

\* ~Service clears the connections, which stops the container or fails to.
ManagerExit ==
  /\ manager = "stopping" /\ Busy = {}
  /\ Ended
  /\ LET stopped == \E s \in Connections : Stops(s) IN
     \/ stopped /\ box' = Nobody /\ orphan' = FALSE
     \/ UNCHANGED box /\ orphan' = (box # Nobody)

ManagerCrash ==
  /\ manager \in {"up", "stopping"}
  /\ Ended
  /\ orphan' = (box # Nobody) /\ UNCHANGED box

ManagerRestart ==
  /\ manager = "down" /\ restarts < MaxRestarts
  /\ manager' = "up" /\ restarts' = restarts + 1
  /\ UNCHANGED <<sessionVars, link, toManager, toSession, serving, state, handle, box, orphan>>

\* Android shuts itself down.
AndroidStops ==
  /\ box # Nobody
  /\ box' = Nobody /\ orphan' = FALSE
  /\ UNCHANGED <<sessionVars, link, toManager, toSession, managerVars>>
--------------------------------------------------------------------------------
Main(s) == stop_container(s) \/ StopReturns(s) \/ Exit(s)
Starter(s) == start_container(s) \/ StartReturns(s)
ClientReader(s) == ClientReadError(s) \/ ClientReadAnswer(s)
Server(s) == \/ new_client(s) \/ HandleStart(s) \/ HandleStop(s) \/ Prepare(s) \/ LaunchContainer(s)
             \/ ServerReadError(s)
Faults == ManagerCrash \/ ManagerRestart \/ AndroidStops \/ \E s \in Sessions : Kill(s)

Next == \/ \E s \in Sessions : Launch(s) \/ Signal(s) \/ Main(s) \/ Starter(s) \/ ClientReader(s) \/ Server(s)
        \/ ManagerStop \/ ManagerExit \/ Faults

Spec == Init /\ [][Next]_vars

\* The threads run, lxc's calls return and three seconds pass; nothing is
\* assumed of signals, of faults or of the restart.
Fairness == /\ \A s \in Sessions : /\ WF_vars(Main(s)) /\ WF_vars(Starter(s))
                                   /\ WF_vars(ClientReader(s)) /\ WF_vars(Server(s))
            /\ WF_vars(ManagerExit)

FairSpec == Spec /\ Fairness
--------------------------------------------------------------------------------
(* Properties. *)

\* A session whose LxcContainer is in state running never has another session's
\* container under it: neither one left over by a crash, which start stops "to
\* ensure its configuration is synchronized", nor one of a second client.
OwnContainer == \A s \in Connections : state[s] => box \in {s, Nobody}

\* The container runs only while the session that started it is connected, unless
\* a manager ended without being able to stop it.
NoStrayContainer == box = Nobody \/ box \in Connections \/ orphan

\* The state has its shape, and LXC's container, the manager's state_ and its table
\* of connections agree on whose container runs.
ContainerOwned == TypeOK /\ OwnContainer /\ NoStrayContainer

\* When a session has gone its container is stopped, unless the manager could not
\* stop it, or the session was gone when its call was to be answered (Respond).
GoneSessionStopped == \A s \in Sessions :
  main[s] = "exited" /\ box = s ~> box # s \/ orphan \/ serving[s] = "lost"

\* A session manager that loses the container manager, or was refused by it, ends
\* by itself, also while its start is not answered.
LostManagerEndsSession == \A s \in Sessions :
  link[s] = "shut" /\ main[s] \in {"running", "stop"} ~> main[s] = "exited"
================================================================================
