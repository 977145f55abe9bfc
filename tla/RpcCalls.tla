------------------------------- MODULE RpcCalls --------------------------------
(***************************************************************************)
(* Calls from the session manager into Android: AndroidApiStub             *)
(* (bridge/android_api_stub.cpp) through rpc::Channel, PendingCallCache    *)
(* and WaitHandle, and the answers as the thread that reads the bridge     *)
(* socket delivers them (rpc/message_processor.cpp).                       *)
(*                                                                         *)
(* launch, set_focused_task, remove_task and resize_task have the same     *)
(* body and one WaitHandle each: Methods is the set of them.  The handle   *)
(* is shared by all calls of a method and never reset.  Callers are the    *)
(* threads that call: D-Bus, window manager, the boot timer.               *)
(*                                                                         *)
(* A call is known by its tag, its number in the order of the calls; a tag *)
(* also stands for the answer to that call.                                *)
(*                                                                         *)
(* Every connection to the bridge socket makes a Channel and a             *)
(* PendingCallCache of its own; links are numbered in their order.  The    *)
(* handles and the ids go on over all of them.                             *)
(***************************************************************************)
EXTENDS Integers, FiniteSets

CONSTANTS Callers, Methods,
          MaxCalls, \* bound: calls in a behaviour
          MaxLinks  \* bound: connections to the bridge socket in a behaviour

ASSUME CallsAssumption == MaxCalls \in Nat /\ MaxLinks \in Nat /\ IsFiniteSet(Callers)

VARIABLES
  link,       \* channel_: the number of the connection it was made for, 0 if there is none
  connected,  \* the connection of channel_ is in connections_
  linkUp,     \* the guest's end of it is open
  lost,       \* pending calls of each method that went with a replaced channel
  freedUse,   \* a thread went on in a Channel that was replaced and freed
  nextId,     \* next_message_id
  drawn,      \* ids drawn from it so far
  clash,      \* an id was drawn twice
  calls,      \* calls so far
  pc, method, tag, id,   \* of each caller: where it is, and its current call
  via,        \* the link of the Channel it entered
  response,   \* the answer written into its Request, 0 if none
  timedOut,   \* wait_for_pending gave up on its current call
  outcome,    \* how its last call ended
  expecting, received,   \* the WaitHandle of each method
  pending,    \* pending_calls_: from ids to the call that is to be completed
  requests,   \* invocations on their way to the guest
  results,    \* results on their way back
  ioPc, ioResult,        \* the reading thread and the result it has in hand
  abandoned   \* tags of calls whose caller returned after a time-out

callerVars == <<calls, pc, method, tag, id, via, response, timedOut, outcome>>
linkVars == <<link, connected, lost, freedUse>>
handleVars == <<expecting, received>>
idVars == <<nextId, drawn, clash>>
wireVars == <<linkUp, requests, results>>
ioVars == <<ioPc, ioResult>>
vars == <<link, connected, linkUp, lost, freedUse, nextId, drawn, clash,
          calls, pc, method, tag, id, via, response, timedOut, outcome,
          expecting, received, pending, requests, results, ioPc, ioResult, abandoned>>

Tags == 1 .. MaxCalls
Ids == 0 .. MaxCalls
NoTag == 0
Messages == [id : Ids, tag : Tags]
NoMessage == [id |-> 0, tag |-> NoTag]

Links == 0 .. MaxLinks

TypeOK == /\ link \in Links /\ connected \in BOOLEAN /\ linkUp \in BOOLEAN
          /\ lost \in [Methods -> Nat] /\ freedUse \in BOOLEAN
          /\ nextId \in Ids /\ drawn \subseteq Ids /\ clash \in BOOLEAN
          /\ calls \in 0 .. MaxCalls
          /\ pc \in [Callers -> {"idle", "read_id", "store_id", "save", "send", "wait", "check"}]
          /\ method \in [Callers -> Methods]
          /\ tag \in [Callers -> Tags \cup {NoTag}]
          /\ id \in [Callers -> Ids] /\ via \in [Callers -> Links]
          /\ response \in [Callers -> Tags \cup {NoTag}]
          /\ timedOut \in [Callers -> BOOLEAN]
          /\ outcome \in [Callers -> {"none", "returned", "timed out", "disconnected"}]
          /\ expecting \in [Methods -> Nat] /\ received \in [Methods -> Nat]
          /\ DOMAIN pending \subseteq Ids
          /\ \A i \in DOMAIN pending : pending[i] \in [tag : Tags, caller : Callers, method : Methods]
          /\ requests \subseteq Messages /\ results \subseteq Messages
          /\ ioPc \in {"read", "complete", "failed"}
          /\ ioResult \in Messages \cup {NoMessage}
          /\ abandoned \subseteq Tags

Init == /\ link = 0 /\ connected = FALSE /\ linkUp = FALSE
        /\ lost = [m \in Methods |-> 0] /\ freedUse = FALSE
        /\ nextId = 0 /\ drawn = {} /\ clash = FALSE /\ calls = 0
        /\ pc = [t \in Callers |-> "idle"]
        /\ method \in [Callers -> Methods]
        /\ \A s, t \in Callers : method[s] = method[t]
        /\ tag = [t \in Callers |-> NoTag] /\ id = [t \in Callers |-> 0] /\ via = [t \in Callers |-> 0]
        /\ response = [t \in Callers |-> NoTag]
        /\ timedOut = [t \in Callers |-> FALSE] /\ outcome = [t \in Callers |-> "none"]
        /\ expecting = [m \in Methods |-> 0] /\ received = [m \in Methods |-> 0]
        /\ pending = <<>> /\ requests = {} /\ results = {}
        /\ ioPc = "read" /\ ioResult = NoMessage
        /\ abandoned = {}
--------------------------------------------------------------------------------
\* Calls of m in the cache, and those that are not there yet.
Pending(m) == {i \in DOMAIN pending : pending[i].method = m}
Unsaved(m) == {t \in Callers : method[t] = m /\ pc[t] \in {"read_id", "store_id", "save"}}

\* A guest connects to the bridge socket, which takes one connection at a time: a
\* new cache and a new Channel, which replaces the one before and frees it with
\* its cache.  What was pending there is not completed.
set_rpc_channel ==
  /\ ~connected
  /\ link < MaxLinks
  /\ link' = link + 1
  /\ connected' = TRUE
  /\ linkUp' = TRUE
  /\ lost' = [m \in Methods |-> lost[m] + Cardinality(Pending(m))]
  /\ pending' = <<>>
  /\ UNCHANGED <<freedUse, idVars, callerVars, handleVars, requests, results, ioVars, abandoned>>

\* The WaitHandle of method m.
expect_result(m) == expecting' = [expecting EXCEPT ![m] = @ + 1]
result_received(m) == received' = [received EXCEPT ![m] = @ + 1]
has_result(m) == received[m] > 0

\* Start of a call: ensure_rpc_channel, the Request and expect_result.
Call(t, m) ==
  /\ pc[t] = "idle"
  /\ link > 0
  /\ calls < MaxCalls
  /\ calls' = calls + 1
  /\ pc' = [pc EXCEPT ![t] = "read_id"]
  /\ method' = [method EXCEPT ![t] = m]
  /\ tag' = [tag EXCEPT ![t] = calls + 1]
  /\ response' = [response EXCEPT ![t] = NoTag]
  /\ timedOut' = [timedOut EXCEPT ![t] = FALSE]
  /\ outcome' = [outcome EXCEPT ![t] = "none"]
  /\ expect_result(m)
  /\ UNCHANGED <<linkVars, idVars, id, via, received, pending, wireVars, ioVars, abandoned>>

\* channel_->call_method enters the Channel; next_id is a static variable, read
\* and written without a lock.
ReadNextId(t) ==
  /\ pc[t] = "read_id"
  /\ via' = [via EXCEPT ![t] = link]
  /\ id' = [id EXCEPT ![t] = nextId]
  /\ drawn' = drawn \cup {nextId}
  /\ clash' = (clash \/ nextId \in drawn)
  /\ pc' = [pc EXCEPT ![t] = "store_id"]
  /\ UNCHANGED <<linkVars, nextId, calls, method, tag, response, timedOut, outcome,
                 handleVars, pending, wireVars, ioVars, abandoned>>

\* The increment: the value read before is stored.
StoreNextId(t) ==
  /\ pc[t] = "store_id"
  /\ nextId' = id[t] + 1
  /\ pc' = [pc EXCEPT ![t] = "save"]
  /\ UNCHANGED <<linkVars, drawn, clash, calls, method, tag, id, via, response, timedOut, outcome,
                 handleVars, pending, wireVars, ioVars, abandoned>>

save_completion_details(t) ==
  /\ pc[t] = "save"
  /\ via[t] = link
  /\ pending' = [i \in DOMAIN pending \cup {id[t]} |->
                  IF i = id[t] THEN [tag |-> tag[t], caller |-> t, method |-> method[t]]
                               ELSE pending[i]]
  /\ pc' = [pc EXCEPT ![t] = "send"]
  /\ UNCHANGED <<linkVars, idVars, calls, method, tag, id, via, response, timedOut, outcome, handleVars,
                 wireVars, ioVars, abandoned>>

\* Fault: the closures run, but the calls are kept.
force_completion_keeps_calls ==
  /\ received' = [m \in Methods |->
                   received[m] + Cardinality({i \in DOMAIN pending : pending[i].method = m})]
  /\ UNCHANGED pending

\* PendingCallCache::force_completion runs every closure and forgets the calls.
force_completion ==
  /\ received' = [m \in Methods |->
                   received[m] + Cardinality({i \in DOMAIN pending : pending[i].method = m})]
  /\ pending' = <<>>

send_message(t) ==
  /\ pc[t] = "send"
  /\ via[t] = link
  /\ \/ /\ linkUp
        /\ requests' = requests \cup {[id |-> id[t], tag |-> tag[t]]}
        /\ pc' = [pc EXCEPT ![t] = "wait"]
        /\ UNCHANGED <<outcome, received, pending>>
     \/ /\ ~linkUp  \* the exception leaves the call after notify_disconnected
        /\ force_completion
        /\ pc' = [pc EXCEPT ![t] = "idle"]
        /\ outcome' = [outcome EXCEPT ![t] = "disconnected"]
        /\ UNCHANGED requests
  /\ UNCHANGED <<linkVars, idVars, calls, method, tag, id, via, response, timedOut, expecting, linkUp, results,
                 ioVars, abandoned>>

\* The Channel the thread is in was replaced: the thread goes on with the members
\* of a freed object.  Nothing is known of the process from here on.
UseFreedChannel(t) ==
  /\ pc[t] \in {"save", "send"}
  /\ via[t] # link
  /\ freedUse' = TRUE
  /\ UNCHANGED <<link, connected, lost, idVars, callerVars, handleVars, pending, wireVars, ioVars, abandoned>>

\* Fault: one result is enough.
WaitReturns_any_result(t) ==
  /\ pc[t] = "wait"
  /\ has_result(method[t])
  /\ pc' = [pc EXCEPT ![t] = "check"]
  /\ UNCHANGED <<linkVars, idVars, calls, method, tag, id, via, response, timedOut, outcome,
                 handleVars, pending, wireVars, ioVars, abandoned>>

\* WaitHandle::wait_for_pending ends when all results are there ...
WaitReturns(t) ==
  /\ pc[t] = "wait"
  /\ received[method[t]] = expecting[method[t]]
  /\ pc' = [pc EXCEPT ![t] = "check"]
  /\ UNCHANGED <<linkVars, idVars, calls, method, tag, id, via, response, timedOut, outcome,
                 handleVars, pending, wireVars, ioVars, abandoned>>

\* Fault: a call that is given up is taken out of the cache.
WaitTimesOut_forgets(t) ==
  /\ pc[t] = "wait"
  /\ received[method[t]] # expecting[method[t]]
  /\ timedOut' = [timedOut EXCEPT ![t] = TRUE]
  /\ pc' = [pc EXCEPT ![t] = "check"]
  /\ pending' = [i \in DOMAIN pending \ {id[t]} |-> pending[i]]
  /\ UNCHANGED <<linkVars, idVars, calls, method, tag, id, via, response, outcome, handleVars,
                 wireVars, ioVars, abandoned>>

\* ... or when 30 seconds have passed.
WaitTimesOut(t) ==
  /\ pc[t] = "wait"
  /\ received[method[t]] # expecting[method[t]]
  /\ timedOut' = [timedOut EXCEPT ![t] = TRUE]
  /\ pc' = [pc EXCEPT ![t] = "check"]
  /\ UNCHANGED <<linkVars, idVars, calls, method, tag, id, via, response, outcome, handleVars, pending,
                 wireVars, ioVars, abandoned>>

\* has_result, then the end of the call, which frees the Request.
Finish(t) ==
  /\ pc[t] = "check"
  /\ outcome' = [outcome EXCEPT ![t] = IF has_result(method[t]) THEN "returned" ELSE "timed out"]
  /\ pc' = [pc EXCEPT ![t] = "idle"]
  /\ abandoned' = IF timedOut[t] THEN abandoned \cup {tag[t]} ELSE abandoned
  /\ UNCHANGED <<linkVars, idVars, calls, method, tag, id, via, response, timedOut, handleVars, pending,
                 wireVars, ioVars>>
--------------------------------------------------------------------------------
(* The guest and the socket. *)

\* The guest answers an invocation, in whatever order it finishes them.
GuestAnswers ==
  /\ linkUp
  /\ \E r \in requests : requests' = requests \ {r} /\ results' = results \cup {r}
  /\ UNCHANGED <<linkVars, linkUp, idVars, callerVars, handleVars, pending, ioVars, abandoned>>

\* The guest goes away: it takes no more requests; results it has written are
\* still there to be read.
GuestDisconnects ==
  /\ linkUp
  /\ linkUp' = FALSE
  /\ requests' = {}
  /\ UNCHANGED <<linkVars, results, idVars, callerVars, handleVars, pending, ioVars, abandoned>>

\* SocketConnection::on_read_size: end of file, after everything that was written;
\* the connection is taken out of connections_.  Nobody tells the cache.
on_read_error ==
  /\ ioPc = "read"
  /\ connected
  /\ ~linkUp
  /\ results = {}
  /\ connected' = FALSE
  /\ UNCHANGED <<link, lost, freedUse, idVars, callerVars, handleVars, pending, wireVars, ioVars, abandoned>>

\* The call of a pending entry still has its Request.
Alive(e) == tag[e.caller] = e.tag /\ pc[e.caller] # "idle"

\* populate_message_for_result writes the answer into the Request of the pending
\* call.  at() throws for an id it does not know: the exception passes through
\* process_data, nobody reads from the connection again, and it stays in
\* connections_ for ever.
populate_message_for_result ==
  /\ ioPc = "read"
  /\ \E r \in results :
       /\ results' = results \ {r}
       /\ ioResult' = r
       /\ IF r.id \in DOMAIN pending
          THEN LET e == pending[r.id] IN
               /\ ioPc' = "complete"
               /\ response' = IF Alive(e) THEN [response EXCEPT ![e.caller] = r.tag] ELSE response
          ELSE ioPc' = "failed" /\ UNCHANGED response
  /\ UNCHANGED <<linkVars, linkUp, idVars, calls, pc, method, tag, id, via, timedOut, outcome, handleVars,
                 pending, requests, abandoned>>

\* Fault: the completed call stays in the cache.
complete_response_not_erased ==
  /\ ioPc = "complete"
  /\ ioPc' = "read"
  /\ ioResult' = NoMessage
  /\ ioResult.id \in DOMAIN pending
  /\ result_received(pending[ioResult.id].method)
  /\ UNCHANGED <<linkVars, idVars, callerVars, expecting, pending, wireVars, abandoned>>

\* Fault: the closure is not run.
complete_response_no_closure ==
  /\ ioPc = "complete"
  /\ ioPc' = "read"
  /\ ioResult' = NoMessage
  /\ pending' = [i \in DOMAIN pending \ {ioResult.id} |-> pending[i]]
  /\ UNCHANGED <<linkVars, idVars, callerVars, expecting, received, wireVars, abandoned>>

\* complete_response takes the call out of the cache, if it is still there, and
\* runs its closure, which is result_received.
complete_response ==
  /\ ioPc = "complete"
  /\ ioPc' = "read"
  /\ ioResult' = NoMessage
  /\ IF ioResult.id \in DOMAIN pending
     THEN /\ result_received(pending[ioResult.id].method)
          /\ pending' = [i \in DOMAIN pending \ {ioResult.id} |-> pending[i]]
     ELSE UNCHANGED <<received, pending>>
  /\ UNCHANGED <<linkVars, idVars, callerVars, expecting, wireVars, abandoned>>
--------------------------------------------------------------------------------
Caller(t) == \/ ReadNextId(t) \/ StoreNextId(t) \/ save_completion_details(t) \/ send_message(t)
             \/ UseFreedChannel(t) \/ WaitReturns(t) \/ Finish(t)
Reader == populate_message_for_result \/ complete_response \/ on_read_error

Next == /\ ~freedUse
        /\ \/ set_rpc_channel
           \/ \E t \in Callers : Caller(t) \/ WaitTimesOut(t) \/ \E m \in Methods : Call(t, m)
           \/ GuestAnswers \/ GuestDisconnects
           \/ Reader

Spec == Init /\ [][Next]_vars

\* Threads run and the guest answers; no time-out is relied upon.
Fairness == /\ \A t \in Callers : WF_vars(Caller(t))
            /\ WF_vars(GuestAnswers) /\ WF_vars(Reader)

FairSpec == Spec /\ Fairness
--------------------------------------------------------------------------------
(* Properties. *)

\* A WaitHandle never has more results than the completed calls account for:
\* every call in the cache, every call on its way there and every call that went
\* with a replaced channel is still owed one.  (When two calls share an id, one
\* more stays owed for ever.)
ResultsOwed == \A m \in Methods :
  expecting[m] >= received[m] + Cardinality(Pending(m)) + Cardinality(Unsaved(m)) + lost[m]

\* The state has its shape and the counters of every WaitHandle balance with the
\* calls of PendingCallCache, over all connections of the guest.
CallsAccounted == TypeOK /\ ResultsOwed

\* An answer is written through the pointers of the cache: a call in the cache
\* still has its caller, except after a time-out, which leaves the entry behind
\* for a late answer.
NoDanglingRequest == \A i \in DOMAIN pending :
  Alive(pending[i]) \/ pending[i].tag \in abandoned

\* Unless two threads drew the same id at the same time or the connection the call
\* was made over broke, a wait that ends before its time-out ends with the caller's
\* own answer in place, although the handle only counts results and all calls of a
\* method share it, and although earlier calls may have been given up.
OwnAnswer == \A t \in Callers :
  /\ response[t] \in {NoTag, tag[t]} \/ clash
  /\ (outcome[t] = "returned" /\ ~timedOut[t]) => response[t] = tag[t] \/ clash \/ ~linkUp \/ via[t] # link

\* Every result the thread that reads the bridge takes belongs to a call of the
\* cache, also when its caller gave up long ago: at() throws, which ends reading
\* for good, only if two calls drew the same id or the guest has gone, when a send
\* that failed has emptied the cache before the last results were read.
ReaderLives == ioPc = "failed" => clash \/ ~linkUp

\* As long as the guest is there, no two calls drew the same id and no call of the
\* method went with a replaced channel, every call comes back without a time-out,
\* also when earlier calls were given up.
CallsAnswered == \A t \in Callers :
  pc[t] = "wait" ~> pc[t] = "idle" \/ clash \/ ~linkUp \/ lost[method[t]] > 0 \/ freedUse
================================================================================
