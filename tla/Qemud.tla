-------------------------------- MODULE Qemud ----------------------------------
(***************************************************************************)
(* The daemon of the guest that multiplexes the connections of local       *)
(* clients over one serial connection to the host (android/qemud/qemud.c). *)
(* One thread runs looper_loop: it collects the events of a round, then    *)
(* calls the handler of each file descriptor, the serial one first.        *)
(*                                                                         *)
(* A message on the serial connection is its type and channel number; a    *)
(* refusal may end in a reason, which makes it another message.  The queue *)
(* of a handler and the bytes on their way are one sequence; a read or a   *)
(* write moves one message.  Use of memory that was freed sets broken,     *)
(* after which the daemon may do anything and the model stops.             *)
(***************************************************************************)
EXTENDS Integers, Sequences, FiniteSets

CONSTANTS Socks,      \* connections of clients
          NumChannels,\* channel numbers are taken modulo this (0x100)
          MaxLast,    \* bound: channel numbers taken
          MaxWrites,  \* bound: writes of all clients
          MaxHost     \* bound: messages the host sends of its own accord

ASSUME QemudAssumption == /\ IsFiniteSet(Socks) /\ NumChannels \in Nat /\ NumChannels > Cardinality(Socks)
                          /\ MaxLast \in Nat /\ MaxWrites \in Nat /\ MaxHost \in Nat
                          /\ "serial" \notin Socks /\ "none" \notin Socks

Events == {"IN", "HUP", "OUT"}
Channels == 0 .. NumChannels - 1
Types == {"connect", "disconnect", "data", "ok", "ko", "ko:reason"}
Messages == [type : Types, ch : Channels]
Msg(t, c) == [type |-> t, ch |-> c]
Nobody == [user |-> "none", channel |-> -1, registered |-> FALSE]

VARIABLES
  client,               \* Client objects: user is none, open or freed
  handler, out,         \* FDHandlers, and their queues of outgoing packets
  inq, hup, writes,     \* sockets: data to be read, peer gone, writes made
  serialIn, serialOut,  \* serial connection, from and to the host
  last,                 \* last_channel
  round, cur,           \* pending hooks with their events; hook being called
  hostOpen, hostSent,   \* channels the host has open; messages it sent by itself
  broken,
  \* History: clients were thrown out, on these channels (-1 for none yet); the host
  \* disconnected a client; a queue was dropped; clients whose refusal was not understood.
  bad, cut, lost, unheard

sockVars == <<inq, hup, writes>>
hostVars == <<hostOpen, hostSent>>
vars == <<client, handler, out, inq, hup, writes, serialIn, serialOut, last, round, cur,
          hostOpen, hostSent, broken, bad, cut, lost, unheard>>

TypeOK ==
  /\ client \in [Socks -> [user : {"none", "open", "freed"}, channel : Channels \cup {-1}, registered : BOOLEAN]]
  /\ handler \in [Socks -> {"none", "active", "closing", "freed"}]
  /\ out \in [Socks -> Seq({"OK", "KO", "data"})]
  /\ inq \in [Socks -> BOOLEAN] /\ hup \in [Socks -> BOOLEAN] /\ writes \in 0 .. MaxWrites
  /\ serialIn \in Seq(Messages) /\ serialOut \in Seq(Messages) /\ last \in 0 .. MaxLast
  /\ round \in [Socks \cup {"serial"} -> SUBSET Events] /\ cur \in Socks \cup {"none"}
  /\ hostOpen \subseteq Channels /\ hostSent \in 0 .. MaxHost
  /\ broken \in BOOLEAN /\ bad \subseteq Channels \cup {-1} /\ cut \in BOOLEAN
  /\ lost \subseteq Socks /\ unheard \subseteq Socks

\* multiplexer_init
Init ==
  /\ client = [s \in Socks |-> Nobody] /\ handler = [s \in Socks |-> "none"]
  /\ out = [s \in Socks |-> <<>>]
  /\ inq = [s \in Socks |-> FALSE] /\ hup = [s \in Socks |-> FALSE] /\ writes = 0
  /\ serialIn = <<>> /\ serialOut = <<>> /\ last = 0
  /\ round = [s \in Socks \cup {"serial"} |-> {}] /\ cur = "none"
  /\ hostOpen = {} /\ hostSent = 0
  /\ broken = FALSE /\ bad = {} /\ cut = FALSE /\ lost = {} /\ unheard = {}
--------------------------------------------------------------------------------
(* Clients and their handlers. *)

\* Clients of a channel (multiplexer_find_client; a freed client is in no list).
OnChannel(c) == {s \in Socks : client[s].user = "open" /\ client[s].channel = c}

\* Fault: what is queued is dropped.
fdhandler_shutdown_now(s) ==
  /\ handler' = [handler EXCEPT ![s] = "freed"]
  /\ lost' = IF out[s] # <<>> THEN lost \cup {s} ELSE lost
  /\ out' = [out EXCEPT ![s] = <<>>]

\* fdhandler_shutdown: a handler with packets to send stays, in the closing list; its
\* receiver is told nothing when it closes, but still gets what is read.
fdhandler_shutdown(s) ==
  /\ handler' = [handler EXCEPT ![s] = IF out[s] # <<>> THEN "closing" ELSE "freed"]
  /\ UNCHANGED <<out, lost>>

\* client_free, with the handler.
client_free(s) ==
  /\ client' = [client EXCEPT ![s] = [Nobody EXCEPT !.user = "freed"]]
  /\ fdhandler_shutdown(s)

\* Fault: the number is not compared with those in use.
Taken_ignored(n) == FALSE

\* A channel number that some client has.
Taken(n) == OnChannel(n % NumChannels) # {}

\* The next free number.
NextChannel == CHOOSE m \in last + 1 .. last + NumChannels :
                 ~Taken(m) /\ \A k \in last + 1 .. m - 1 : Taken(k)

\* multiplexer_open_channel, for the client on s.
multiplexer_open_channel(s) ==
  /\ NextChannel <= MaxLast
  /\ last' = NextChannel
  /\ client' = [client EXCEPT ![s].channel = NextChannel % NumChannels]
  /\ serialOut' = Append(serialOut, Msg("connect", NextChannel % NumChannels))

\* Its other outcome: the service's name is too long, and the number is used up.
NameTooLong(s) ==
  /\ NextChannel <= MaxLast
  /\ last' = NextChannel
  /\ client_free(s)
  /\ bad' = bad \cup {-1}
  /\ UNCHANGED serialOut

\* client_fd_receive: data of a registered client is passed on; data of one that waits
\* for the host's answer makes it a bad client, of which the host is not told; anything
\* else is the name of a service, and a bad client if that is too long.
client_fd_receive(s) ==
  LET c == client[s] IN
  \/ /\ c.registered
     /\ serialOut' = Append(serialOut, Msg("data", c.channel))
     /\ UNCHANGED <<client, handler, out, lost, last, bad>>
  \/ /\ ~c.registered /\ c.channel > 0
     /\ client_free(s)
     /\ bad' = bad \cup {c.channel}
     /\ UNCHANGED <<serialOut, last>>
  \/ /\ ~c.registered /\ c.channel <= 0
     /\ \/ multiplexer_open_channel(s) /\ UNCHANGED <<handler, out, lost, bad>>
        \/ NameTooLong(s)

\* Fault: the host is not told.
client_fd_close_silent(s) ==
  /\ UNCHANGED serialOut
  /\ client' = [client EXCEPT ![s] = [Nobody EXCEPT !.user = "freed"]]

\* client_fd_close, called by fdhandler_close.
client_fd_close(s) ==
  /\ serialOut' = IF client[s].channel > 0
                  THEN Append(serialOut, Msg("disconnect", client[s].channel)) ELSE serialOut
  /\ client' = [client EXCEPT ![s] = [Nobody EXCEPT !.user = "freed"]]

\* fdhandler_close; the close function of a closing handler is unset.
fdhandler_close(s) ==
  /\ IF handler[s] = "active" THEN client_fd_close(s) ELSE UNCHANGED <<client, serialOut>>
  /\ lost' = IF out[s] # <<>> THEN lost \cup {s} ELSE lost
  /\ out' = [out EXCEPT ![s] = <<>>]
  /\ handler' = [handler EXCEPT ![s] = "freed"]
--------------------------------------------------------------------------------
(* fdhandler_event, in the order of its tests; the hook may be one that was deleted *)
(* in the same round, and the first test may have freed the handler.               *)

\* looper_loop calls one pending hook after the other, the serial one first.
MyTurn(s) == cur \in {"none", s} /\ round["serial"] = {} /\ ~broken
Handled(s, E) == /\ round' = [round EXCEPT ![s] = @ \ E]
                 /\ cur' = IF round[s] \subseteq E THEN "none" ELSE s

InEvent(s) ==
  /\ MyTurn(s) /\ "IN" \in round[s] /\ handler[s] = "active"
  /\ Handled(s, {"IN"}) /\ inq' = [inq EXCEPT ![s] = FALSE]
  /\ IF inq[s] THEN client_fd_receive(s)
     ELSE UNCHANGED <<client, handler, out, lost, last, bad, serialOut>>
  /\ UNCHANGED <<hup, writes, serialIn, hostVars, broken, cut, unheard>>

\* Fault: does not return once the handler is freed.
HupEvent_goes_on(s) ==
  /\ MyTurn(s) /\ "IN" \notin round[s] /\ "HUP" \in round[s] /\ handler[s] \in {"active", "closing"}
  /\ fdhandler_close(s)
  /\ Handled(s, {"HUP"})
  /\ UNCHANGED <<sockVars, serialIn, last, hostVars, broken, bad, cut, unheard>>

HupEvent(s) ==
  /\ MyTurn(s) /\ "IN" \notin round[s] /\ "HUP" \in round[s] /\ handler[s] \in {"active", "closing"}
  /\ fdhandler_close(s)
  /\ Handled(s, Events)
  /\ UNCHANGED <<sockVars, serialIn, last, hostVars, broken, bad, cut, unheard>>

OutEvent(s) ==
  /\ MyTurn(s) /\ round[s] = {"OUT"} /\ handler[s] \in {"active", "closing"}
  /\ Handled(s, {"OUT"})
  /\ out' = [out EXCEPT ![s] = IF @ = <<>> THEN @ ELSE Tail(@)]
  /\ UNCHANGED <<client, handler, sockVars, serialIn, serialOut, last, hostVars, broken, bad, cut, lost, unheard>>

\* The handler was freed, or its client was and data for it arrives.
Dangling(s) ==
  /\ MyTurn(s) /\ round[s] # {}
  /\ \/ handler[s] = "freed"
     \/ handler[s] = "closing" /\ "IN" \in round[s] /\ inq[s]
  /\ broken' = TRUE
  /\ UNCHANGED <<client, handler, out, sockVars, serialIn, serialOut, last, round, cur, hostVars, bad, cut, lost, unheard>>

\* A closing handler reads the end of the stream, and nothing more.
InNothing(s) ==
  /\ MyTurn(s) /\ "IN" \in round[s] /\ handler[s] = "closing" /\ ~inq[s]
  /\ Handled(s, {"IN"})
  /\ UNCHANGED <<client, handler, out, sockVars, serialIn, serialOut, last, hostVars, broken, bad, cut, lost, unheard>>
--------------------------------------------------------------------------------
(* The serial connection. *)

\* Fault: the client keeps its channel.
client_registration_keeps_channel(s, ok) ==
  /\ out' = [out EXCEPT ![s] = Append(@, IF ok THEN "OK" ELSE "KO")]
  /\ client' = [client EXCEPT ![s].registered = ok]

client_registration(s, ok) ==
  /\ out' = [out EXCEPT ![s] = Append(@, IF ok THEN "OK" ELSE "KO")]
  /\ client' = [client EXCEPT ![s].registered = ok, ![s].channel = IF ok THEN @ ELSE -1]

\* serial_fd_receive and what it calls; multiplexer_handle_control knows answers and
\* disconnections by their length of 13 too, and a refusal with a reason is longer.
SerialEvent ==
  /\ "IN" \in round["serial"] /\ ~broken
  /\ round' = [round EXCEPT !["serial"] = {}]
  /\ serialIn' = Tail(serialIn)
  /\ LET m == Head(serialIn) IN
     IF OnChannel(m.ch) = {} THEN UNCHANGED <<client, handler, out, lost, cut, unheard>>
     ELSE LET s == CHOOSE x \in OnChannel(m.ch) : TRUE IN
          CASE m.type \in {"ok", "ko"} -> /\ client_registration(s, m.type = "ok")
                                          /\ UNCHANGED <<handler, lost, cut, unheard>>
            [] m.type = "ko:reason"    -> /\ unheard' = unheard \cup {s}
                                          /\ UNCHANGED <<client, handler, out, lost, cut>>
            [] m.type = "disconnect"   -> client_free(s) /\ cut' = TRUE /\ UNCHANGED unheard
            [] m.type = "data"         -> /\ out' = [out EXCEPT ![s] = IF m.ch = 0 THEN @ ELSE Append(@, "data")]
                                          /\ UNCHANGED <<client, handler, lost, cut, unheard>>
  /\ UNCHANGED <<sockVars, serialOut, last, cur, hostVars, broken, bad>>
--------------------------------------------------------------------------------
(* looper_loop. *)

Ready(s) == {e \in Events : /\ handler[s] \in {"active", "closing"}
                            /\ \/ e = "IN" /\ (inq[s] \/ hup[s])
                               \/ e = "HUP" /\ hup[s]
                               \/ e = "OUT" /\ out[s] # <<>>}

\* epoll_wait returns, and all hooks with events are marked pending.
Wait ==
  /\ ~broken /\ cur = "none" /\ \A x \in DOMAIN round : round[x] = {}
  /\ round' = [x \in DOMAIN round |-> IF x = "serial" THEN (IF serialIn # <<>> THEN {"IN"} ELSE {})
                                      ELSE Ready(x)]
  /\ \E x \in DOMAIN round : round'[x] # {}
  /\ UNCHANGED <<client, handler, out, sockVars, serialIn, serialOut, last, cur, hostVars, broken, bad, cut, lost, unheard>>

\* fdhandler_accept_event, multiplexer_control_accept and client_new.
Accept ==
  /\ ~broken /\ cur = "none"
  /\ \E s \in Socks :
       /\ handler[s] = "none"
       /\ handler' = [handler EXCEPT ![s] = "active"]
       /\ client' = [client EXCEPT ![s].user = "open"]
  /\ UNCHANGED <<out, sockVars, serialIn, serialOut, last, round, cur, hostVars, broken, bad, cut, lost, unheard>>
--------------------------------------------------------------------------------
(* Clients and host. *)

ClientWrites ==
  /\ ~broken
  /\ \E s \in Socks :
       /\ handler[s] # "none" /\ ~hup[s] /\ ~inq[s] /\ writes < MaxWrites
       /\ inq' = [inq EXCEPT ![s] = TRUE] /\ writes' = writes + 1
  /\ UNCHANGED <<client, handler, out, hup, serialIn, serialOut, last, round, cur, hostVars, broken, bad, cut, lost, unheard>>

ClientCloses ==
  /\ ~broken
  /\ \E s \in Socks : handler[s] # "none" /\ ~hup[s] /\ hup' = [hup EXCEPT ![s] = TRUE]
  /\ UNCHANGED <<client, handler, out, inq, writes, serialIn, serialOut, last, round, cur, hostVars, broken, bad, cut, lost, unheard>>

\* The host answers the next message; what it does with data is its own affair.
HostReceives ==
  /\ ~broken /\ serialOut # <<>>
  /\ serialOut' = Tail(serialOut)
  /\ LET m == Head(serialOut) IN
     \/ /\ m.type = "connect"
        /\ \E answer \in {"ok", "ko", "ko:reason"} :
             /\ serialIn' = Append(serialIn, Msg(answer, m.ch))
             /\ hostOpen' = IF answer = "ok" THEN hostOpen \cup {m.ch} ELSE hostOpen
     \/ m.type = "disconnect" /\ hostOpen' = hostOpen \ {m.ch} /\ UNCHANGED serialIn
     \/ m.type = "data" /\ UNCHANGED <<hostOpen, serialIn>>
  /\ UNCHANGED <<client, handler, out, sockVars, last, round, cur, hostSent, broken, bad, cut, lost, unheard>>

HostSends ==
  /\ ~broken /\ hostSent < MaxHost
  /\ hostSent' = hostSent + 1
  /\ \E c \in hostOpen, t \in {"data", "disconnect"} :
       /\ serialIn' = Append(serialIn, Msg(t, c))
       /\ hostOpen' = IF t = "data" THEN hostOpen ELSE hostOpen \ {c}
  /\ UNCHANGED <<client, handler, out, sockVars, serialOut, last, round, cur, broken, bad, cut, lost, unheard>>
--------------------------------------------------------------------------------
FdEvent(s) == InEvent(s) \/ InNothing(s) \/ HupEvent(s) \/ OutEvent(s) \/ Dangling(s)
Loop == Wait \/ SerialEvent \/ \E s \in Socks : FdEvent(s)

Next == Loop \/ Accept \/ ClientWrites \/ ClientCloses \/ HostReceives \/ HostSends

Spec == Init /\ [][Next]_vars
\* The daemon's thread runs, and the host reads what it is sent.
FairSpec == Spec /\ WF_vars(Loop) /\ WF_vars(HostReceives)
--------------------------------------------------------------------------------
(* Properties. *)

Wrapped == last >= NumChannels
Quiet == serialIn = <<>> /\ serialOut = <<>> /\ ~broken

\* No two clients have the same channel number, also after the numbers have wrapped.
UniqueChannels ==
  \A s, t \in Socks : client[s].channel = client[t].channel /\ client[s].channel # -1 => s = t

\* A handler in the active list has its client; a client that is freed has its handler
\* closing or freed.
HandlersMatchClients ==
  \A s \in Socks : client[s].user = "open" <=> handler[s] = "active"

\* The state has its shape (channel numbers are cut to eight bits), numbers are unique,
\* and clients and handlers come and go together, whatever a round of events does.
ClientsConsistent == TypeOK /\ UniqueChannels /\ HandlersMatchClients

\* When nothing is under way the host has open exactly the channels of the registered
\* clients, unless a client was thrown out while it registered: the host is not told of
\* it (and until the numbers wrap, when messages on their way can meet a new client).
HostAgrees ==
  Quiet /\ ~Wrapped =>
    LET Registered == {client[s].channel : s \in {t \in Socks : client[t].registered}}
    IN Registered \subseteq hostOpen /\ hostOpen \ Registered \subseteq bad

\* Packets queued for a client are dropped only when the client is gone: a disconnection
\* by the host and a bad client both let them be sent first.
NothingLost == \A s \in lost : hup[s]

\* Freed memory is used only after a client was thrown out or disconnected by the host:
\* clients that come and go, refused registrations and data for clients that are gone
\* are harmless.
FreedUseKnown == broken => bad # {} \/ cut

\* A client waits for the answer to the name of its service.
Waiting(s) == client[s].user = "open" /\ client[s].channel >= 0 /\ ~client[s].registered

\* A client that asked for a service is answered, or is gone, unless the host refused it
\* with a reason, which multiplexer_handle_control does not understand.
Answered == \A s \in Socks : Waiting(s) ~> ~Waiting(s) \/ broken \/ s \in unheard
================================================================================
