------------------------------ MODULE QemudProofs ------------------------------
(***************************************************************************)
(* Proofs about the daemon of the guest: channel numbers are unique,       *)
(* packets are only dropped when their client is gone, freed memory is     *)
(* only used after a client was thrown out, and the host agrees with the   *)
(* daemon about the open channels, for any number of clients and channel   *)
(* numbers and any bounds.                                                 *)
(***************************************************************************)
EXTENDS Qemud, FiniteSetTheorems, FunctionTheorems, WellFoundedInduction, TLAPS

(* The strengthenings. *)

\* A client without an open connection has no channel; a registered one has.
Channelled == \A s \in Socks :
  /\ client[s].user # "open" => client[s].channel = -1 /\ ~client[s].registered
  /\ client[s].registered => client[s].channel # -1

\* The host sends no connect, and the serial hook is pending only with data.
SerialShape == /\ \A i \in 1 .. Len(serialIn) : serialIn[i].type # "connect"
               /\ \A i \in 1 .. Len(serialOut) : serialOut[i].type \in {"connect", "disconnect", "data"}
               /\ "IN" \in round["serial"] => serialIn # <<>>

Consistent == ClientsConsistent /\ Channelled /\ SerialShape

\* A hang-up is only reported of a client that is gone.
HupsReported == \A s \in Socks : "HUP" \in round[s] => hup[s]

\* Unless a client was thrown out or disconnected, no handler is closing, and none
\* that is freed has events left.
FreedQuiet == bad # {} \/ cut \/ \A s \in Socks : /\ handler[s] # "closing"
                                                  /\ handler[s] = "freed" => round[s] = {}

\* A message on its way, as the queue q carries it.
Carries(q, t, c) == \E i \in 1 .. Len(q) : q[i].type = t /\ q[i].ch = c
Mentions(q, c) == \E i \in 1 .. Len(q) : q[i].ch = c

\* A message of a type in T is the first in q about its channel.
FirstIn(q, T) == \A i, j \in 1 .. Len(q) : i < j /\ q[i].ch = q[j].ch => q[j].type \notin T

Holds(c) == \E s \in Socks : client[s].channel = c
Registers(c) == \E s \in Socks : client[s].channel = c /\ client[s].registered

\* Only numbers that were taken are in use.
Known == /\ \A c \in Channels : Holds(c) \/ Mentions(serialOut, c) \/ Mentions(serialIn, c) => c \in 1 .. last
         /\ hostOpen \subseteq 1 .. last

\* While a connect is on its way nothing else is known of the channel, and the client
\* is there or the host will be told, or it was thrown out.
Connecting(c) == Carries(serialOut, "connect", c) =>
  /\ ~Mentions(serialIn, c) /\ c \notin hostOpen /\ ~Registers(c)
  /\ Holds(c) \/ Carries(serialOut, "disconnect", c) \/ c \in bad

\* The host is told of a client that is gone.
Leaving(c) == Carries(serialOut, "disconnect", c) => ~Holds(c)

\* The channel of a registered client is open, or the host has just closed it.
Settled(c) == Registers(c) =>
  /\ c \in hostOpen \/ Carries(serialIn, "disconnect", c)
  /\ ~Carries(serialIn, "ok", c) /\ ~Carries(serialIn, "ko", c)

\* An open channel has its client, or the host will be told, or the client was thrown out.
Owned(c) == c \in hostOpen =>
  /\ ~Carries(serialIn, "disconnect", c) /\ ~Carries(serialIn, "ko", c)
  /\ \/ Registers(c) \/ (Holds(c) /\ Carries(serialIn, "ok", c))
     \/ Carries(serialOut, "disconnect", c) \/ c \in bad

\* A client that was accepted has an open channel, or the host has just closed it.
Accepted(c) == Carries(serialIn, "ok", c) /\ Holds(c) =>
  c \in hostOpen \/ Carries(serialIn, "disconnect", c)

Agreed(c) == Connecting(c) /\ Leaving(c) /\ Settled(c) /\ Owned(c) /\ Accepted(c)

HostParts == /\ Known
             /\ FirstIn(serialOut, {"connect"}) /\ FirstIn(serialIn, {"ok", "ko"})
             /\ \A c \in Channels : Agreed(c)

\* Until the numbers wrap.
HostInv == ~Wrapped => HostParts
--------------------------------------------------------------------------------
(* Channel numbers. *)

LEMMA NumbersFacts ==
  /\ NumChannels \in Nat /\ NumChannels >= 1
  /\ MaxLast \in Nat /\ MaxWrites \in Nat /\ MaxHost \in Nat
  /\ Cardinality(Socks) \in Nat /\ NumChannels > Cardinality(Socks)
<1>1. Cardinality(Socks) \in Nat
  BY QemudAssumption, FS_CardinalityType
<1> QED
  BY <1>1, QemudAssumption

\* A remainder, as the numbers use it.
LEMMA Remainder ==
  ASSUME NEW n \in Nat
  PROVE  /\ n % NumChannels \in Channels
         /\ n < NumChannels => n % NumChannels = n
<1>1. NumChannels \in Nat /\ NumChannels >= 1
  BY NumbersFacts
<1>2. n % NumChannels \in 0 .. NumChannels - 1
  BY <1>1
<1>3. n < NumChannels => n % NumChannels = n
  BY <1>1
<1> QED
  BY <1>2, <1>3 DEF Channels

\* Fewer than NumChannels consecutive numbers have different remainders.
LEMMA RemaindersDiffer ==
  ASSUME NEW i \in Nat, NEW j \in Nat, i < j, j < i + NumChannels
  PROVE  i % NumChannels # j % NumChannels
<1> DEFINE n == NumChannels
<1>1. n \in Nat /\ n >= 1
  BY NumbersFacts
<1> HIDE DEF n
<1>2. ASSUME NEW m \in Nat PROVE \E p \in Int : m = p * n + (m % n)
  <2>1. m \div n \in Int /\ m = (m \div n) * n + (m % n)
    BY <1>1
  <2> QED
    BY <2>1
<1>3. PICK p \in Int, q \in Int : i = p * n + (i % n) /\ j = q * n + (j % n)
  BY <1>2
<1>4. SUFFICES ASSUME i % n = j % n PROVE FALSE
  BY DEF n
<1>5. j - i = (q - p) * n
  BY <1>1, <1>3, <1>4
<1>6. 0 < j - i /\ j - i < n
  BY <1>1 DEF n
<1>7. CASE q - p <= 0
  BY <1>1, <1>5, <1>6, <1>7
<1>8. CASE q - p >= 1
  <2>1. (q - p) * n >= n
    BY <1>1, <1>8
  <2> QED
    BY <1>1, <1>5, <1>6, <2>1
<1> QED
  BY <1>7, <1>8

LEMMA SomeFree ==
  ASSUME last \in Nat
  PROVE  \E m \in last + 1 .. last + NumChannels : ~Taken(m)
<1>1. NumChannels \in Nat /\ Cardinality(Socks) \in Nat /\ NumChannels > Cardinality(Socks)
  BY NumbersFacts
<1> SUFFICES ASSUME \A m \in last + 1 .. last + NumChannels : Taken(m) PROVE FALSE
  OBVIOUS
<1> DEFINE Range0 == last + 1 .. last + NumChannels
           f == [m \in Range0 |-> CHOOSE s \in Socks : s \in OnChannel(m % NumChannels)]
<1>2. \A m \in Range0 : f[m] \in Socks /\ client[f[m]].channel = m % NumChannels
  BY DEF Taken, OnChannel
<1>3. \A i, j \in Range0 : f[i] = f[j] => i = j
  <2>1. ASSUME NEW i \in Range0, NEW j \in Range0, i < j PROVE f[i] # f[j]
    <3>1. i \in Nat /\ j \in Nat /\ j < i + NumChannels
      BY <1>1, <2>1
    <3> QED
      BY <1>2, <2>1, <3>1, RemaindersDiffer
  <2>2. Range0 \subseteq Int
    BY <1>1
  <2> HIDE DEF f, Range0
  <2> QED
    BY <2>1, <2>2
<1>4. f \in Injection(Range0, Socks)
  BY <1>2, <1>3, Fun_IsInj
<1>5. Cardinality(Range0) = NumChannels
  BY <1>1, FS_Interval
<1>6. Cardinality(Range0) <= Cardinality(Socks)
  BY <1>4, FS_Injection, QemudAssumption
<1> QED
  BY <1>1, <1>5, <1>6

LEMMA NextFree ==
  ASSUME last \in Nat
  PROVE  /\ NextChannel \in last + 1 .. last + NumChannels
         /\ ~Taken(NextChannel)
         /\ NextChannel \in Nat
<1>1. NumChannels \in Nat
  BY NumbersFacts
<1> DEFINE T == {m \in last + 1 .. last + NumChannels : ~Taken(m)}
<1>2. T \subseteq Nat /\ T # {}
  BY <1>1, SomeFree
<1> DEFINE R == {p \in Nat \X Nat : p[1] < p[2]}
<1>w. IsWellFoundedOn(R, Nat)
  BY NatLessThanWellFounded DEF OpToRel
<1> HIDE DEF R
<1>3. PICK m \in T : \A k \in T : ~(<<k, m>> \in R)
  BY <1>2, <1>w, WFMin
<1>4. \A k \in last + 1 .. m - 1 : Taken(k)
  <2> SUFFICES ASSUME NEW k \in last + 1 .. m - 1, ~Taken(k) PROVE FALSE
    OBVIOUS
  <2>1. m \in Nat /\ m <= last + NumChannels /\ k \in Nat /\ k < m
    BY <1>1
  <2>2. k \in T
    BY <1>1, <2>1
  <2>3. <<k, m>> \in R
    BY <2>1 DEF R
  <2> QED
    BY <1>3, <2>2, <2>3
<1>5. \E x \in last + 1 .. last + NumChannels : ~Taken(x) /\ \A k \in last + 1 .. x - 1 : Taken(k)
  BY <1>4
<1>6. NextChannel \in last + 1 .. last + NumChannels /\ ~Taken(NextChannel)
  BY <1>5 DEF NextChannel
<1> QED
  BY <1>1, <1>6
--------------------------------------------------------------------------------
(* Queues, clients and rounds: what the updates of the model do. *)

ClientType == [user : {"none", "open", "freed"}, channel : Channels \cup {-1}, registered : BOOLEAN]

LEMMA MsgIs ==
  ASSUME NEW t \in Types, NEW c \in Channels
  PROVE  Msg(t, c) \in Messages /\ Msg(t, c).type = t /\ Msg(t, c).ch = c
BY DEF Msg, Messages

LEMMA Appended ==
  ASSUME NEW q \in Seq(Messages), NEW m \in Messages
  PROVE  /\ Append(q, m) \in Seq(Messages)
         /\ Len(q) \in Nat /\ Len(Append(q, m)) = Len(q) + 1
         /\ \A i \in 1 .. Len(q) : Append(q, m)[i] = q[i]
         /\ Append(q, m)[Len(q) + 1] = m
OBVIOUS

LEMMA Tailed ==
  ASSUME NEW q \in Seq(Messages), q # <<>>
  PROVE  /\ Tail(q) \in Seq(Messages)
         /\ Len(q) \in Nat /\ Len(q) >= 1 /\ Len(Tail(q)) = Len(q) - 1
         /\ \A i \in 1 .. Len(q) - 1 : Tail(q)[i] = q[i + 1]
         /\ Head(q) = q[1] /\ q[1] \in Messages
OBVIOUS

LEMMA Freed ==
  ASSUME client \in [Socks -> ClientType], NEW s \in Socks,
         client' = [client EXCEPT ![s] = [Nobody EXCEPT !.user = "freed"]]
  PROVE  /\ client' \in [Socks -> ClientType]
         /\ client'[s].user = "freed" /\ client'[s].channel = -1 /\ client'[s].registered = FALSE
         /\ \A u \in Socks : u # s => client'[u] = client[u]
<1> DEFINE r == [Nobody EXCEPT !.user = "freed"]
<1>1. r \in ClientType /\ r.user = "freed" /\ r.channel = -1 /\ r.registered = FALSE
  BY DEF Nobody, ClientType
<1> HIDE DEF r
<1> QED
  BY <1>1 DEF r

LEMMA ChannelSet ==
  ASSUME NEW k \in [Socks -> ClientType], NEW s \in Socks, NEW c \in Channels \cup {-1},
         NEW f, f = [k EXCEPT ![s].channel = c]
  PROVE  /\ f \in [Socks -> ClientType]
         /\ f[s].channel = c /\ f[s].user = k[s].user /\ f[s].registered = k[s].registered
         /\ \A u \in Socks : u # s => f[u] = k[u]
<1>1. k[s] \in ClientType
  OBVIOUS
<1>2. f = [k EXCEPT ![s] = [k[s] EXCEPT !.channel = c]]
  OBVIOUS
<1>3. [k[s] EXCEPT !.channel = c] \in ClientType
  BY <1>1 DEF ClientType
<1> QED
  BY <1>1, <1>2, <1>3 DEF ClientType

LEMMA UserSet ==
  ASSUME NEW s \in Socks, client \in [Socks -> ClientType], client' = [client EXCEPT ![s].user = "open"]
  PROVE  /\ client' \in [Socks -> ClientType]
         /\ client'[s].user = "open" /\ client'[s].channel = client[s].channel
         /\ client'[s].registered = client[s].registered
         /\ \A u \in Socks : u # s => client'[u] = client[u]
<1>1. client[s] \in ClientType
  OBVIOUS
<1>2. client' = [client EXCEPT ![s] = [client[s] EXCEPT !.user = "open"]]
  OBVIOUS
<1>3. [client[s] EXCEPT !.user = "open"] \in ClientType
  BY <1>1 DEF ClientType
<1> QED
  BY <1>1, <1>2, <1>3 DEF ClientType

LEMMA RegistrationSet ==
  ASSUME NEW s \in Socks, client \in [Socks -> ClientType], NEW b \in BOOLEAN,
         client' = [client EXCEPT ![s].registered = b, ![s].channel = IF b THEN @ ELSE -1]
  PROVE  /\ client' \in [Socks -> ClientType]
         /\ client'[s].registered = b /\ client'[s].user = client[s].user
         /\ client'[s].channel = IF b THEN client[s].channel ELSE -1
         /\ \A u \in Socks : u # s => client'[u] = client[u]
<1> DEFINE g == [client EXCEPT ![s].registered = b]
           d == IF b THEN client[s].channel ELSE -1
<1>1. client[s] \in ClientType
  OBVIOUS
<1>2. /\ g \in [Socks -> ClientType]
      /\ g[s].registered = b /\ g[s].user = client[s].user /\ g[s].channel = client[s].channel
      /\ \A u \in Socks : u # s => g[u] = client[u]
  <2>1. g = [client EXCEPT ![s] = [client[s] EXCEPT !.registered = b]]
    OBVIOUS
  <2>2. [client[s] EXCEPT !.registered = b] \in ClientType
    BY <1>1 DEF ClientType
  <2> QED
    BY <1>1, <2>1, <2>2 DEF ClientType
<1>3. client' = [g EXCEPT ![s].channel = d]
  BY <1>2
<1>4. d \in Channels \cup {-1}
  BY <1>1 DEF ClientType
<1> HIDE DEF g, d
<1>5. /\ client' \in [Socks -> ClientType]
      /\ client'[s].channel = d /\ client'[s].user = g[s].user /\ client'[s].registered = g[s].registered
      /\ \A u \in Socks : u # s => client'[u] = g[u]
  <2>1. g \in [Socks -> ClientType]
    BY <1>2
  <2>2. client' = [g EXCEPT ![s] = [g[s] EXCEPT !.channel = d]]
    BY <1>3
  <2>3. g[s] \in ClientType
    BY <1>2
  <2> DEFINE r == [g[s] EXCEPT !.channel = d]
  <2>4. /\ r \in ClientType
        /\ r.channel = d /\ r.user = g[s].user /\ r.registered = g[s].registered
    BY <1>4, <2>3 DEF ClientType
  <2> HIDE DEF r
  <2>5. client' = [g EXCEPT ![s] = r]
    BY <2>2 DEF r
  <2>6. client'[s] = r /\ client' \in [Socks -> ClientType] /\ \A u \in Socks : u # s => client'[u] = g[u]
    BY <2>1, <2>4, <2>5
  <2> QED
    BY <2>4, <2>6
<1> QED
  BY <1>2, <1>5 DEF d

LEMMA RoundHandled ==
  ASSUME TypeOK, NEW s \in Socks, NEW E, Handled(s, E)
  PROVE  /\ round' \in [Socks \cup {"serial"} -> SUBSET Events] /\ cur' \in Socks \cup {"none"}
         /\ round'["serial"] = round["serial"]
         /\ round'[s] = round[s] \ E
         /\ \A u \in Socks : u # s => round'[u] = round[u]
<1>1. round \in [Socks \cup {"serial"} -> SUBSET Events] /\ "serial" \notin Socks
  BY QemudAssumption DEF TypeOK
<1>2. round' = [round EXCEPT ![s] = round[s] \ E] /\ cur' \in {"none", s}
  BY DEF Handled
<1>3. round[s] \ E \in SUBSET Events
  BY <1>1
<1> QED
  BY <1>1, <1>2, <1>3
--------------------------------------------------------------------------------
(* Clients and their handlers. *)

\* What Consistent says of clients and handlers, and of the serial connection.
ClientsOK == /\ client \in [Socks -> ClientType]
             /\ handler \in [Socks -> {"none", "active", "closing", "freed"}]
             /\ UniqueChannels /\ HandlersMatchClients /\ Channelled
OutOK == /\ serialOut \in Seq(Messages)
         /\ \A i \in 1 .. Len(serialOut) : serialOut[i].type \in {"connect", "disconnect", "data"}
InOK == /\ serialIn \in Seq(Messages)
        /\ \A i \in 1 .. Len(serialIn) : serialIn[i].type # "connect"
        /\ "IN" \in round["serial"] => serialIn # <<>>
RestOK == /\ out \in [Socks -> Seq({"OK", "KO", "data"})]
          /\ inq \in [Socks -> BOOLEAN] /\ hup \in [Socks -> BOOLEAN] /\ writes \in 0 .. MaxWrites
          /\ round \in [Socks \cup {"serial"} -> SUBSET Events] /\ cur \in Socks \cup {"none"}
          /\ last \in 0 .. MaxLast /\ hostOpen \subseteq Channels /\ hostSent \in 0 .. MaxHost
          /\ broken \in BOOLEAN /\ bad \subseteq Channels \cup {-1} /\ cut \in BOOLEAN
          /\ lost \subseteq Socks /\ unheard \subseteq Socks

LEMMA Parts == Consistent <=> ClientsOK /\ OutOK /\ InOK /\ RestOK
BY DEF Consistent, ClientsConsistent, TypeOK, ClientType, SerialShape, ClientsOK, OutOK, InOK, RestOK

LEMMA PartsNext == Consistent' <=> ClientsOK' /\ OutOK' /\ InOK' /\ RestOK'
BY DEF Consistent, ClientsConsistent, TypeOK, ClientType, SerialShape, ClientsOK, OutOK, InOK, RestOK

LEMMA ClientGone ==
  ASSUME ClientsOK, NEW s \in Socks, NEW h \in {"closing", "freed"},
         client' = [client EXCEPT ![s] = [Nobody EXCEPT !.user = "freed"]],
         handler' = [handler EXCEPT ![s] = h]
  PROVE  ClientsOK'
<1>1. /\ client' \in [Socks -> ClientType]
      /\ client'[s].user = "freed" /\ client'[s].channel = -1 /\ client'[s].registered = FALSE
      /\ \A u \in Socks : u # s => client'[u] = client[u]
  BY Freed DEF ClientsOK
<1>2. /\ handler' \in [Socks -> {"none", "active", "closing", "freed"}]
      /\ handler'[s] = h /\ \A u \in Socks : u # s => handler'[u] = handler[u]
  BY DEF ClientsOK
<1>3. UniqueChannels'
  BY <1>1 DEF UniqueChannels, ClientsOK
<1>4. HandlersMatchClients'
  BY <1>1, <1>2 DEF HandlersMatchClients, ClientsOK
<1>5. Channelled'
  BY <1>1 DEF Channelled, ClientsOK
<1> QED
  BY <1>1, <1>2, <1>3, <1>4, <1>5 DEF ClientsOK, ClientType, Channels

LEMMA ChannelOpened ==
  ASSUME ClientsOK, last \in 0 .. MaxLast, NEW s \in Socks, client[s].user = "open",
         client' = [client EXCEPT ![s].channel = NextChannel % NumChannels],
         UNCHANGED handler
  PROVE  ClientsOK'
<1> DEFINE c == NextChannel % NumChannels
<1>1. last \in Nat
  BY NumbersFacts
<1>2. c \in Channels /\ ~Taken(NextChannel)
  BY <1>1, NextFree, Remainder
<1>3. \A u \in Socks : client[u].channel # c
  <2>1. c # -1
    BY <1>2, NumbersFacts DEF Channels
  <2> HIDE DEF c
  <2>2. \A u \in Socks : client[u].user = "open" => client[u].channel # c
    BY <1>2 DEF Taken, OnChannel, c
  <2> QED
    BY <2>1, <2>2 DEF ClientsOK, Channelled
<1> HIDE DEF c
<1>4. /\ client' \in [Socks -> ClientType]
      /\ client'[s].channel = c /\ client'[s].user = "open"
      /\ client'[s].registered = client[s].registered
      /\ \A u \in Socks : u # s => client'[u] = client[u]
  BY <1>2, ChannelSet DEF ClientsOK, c
<1>5. c # -1
  BY <1>2, NumbersFacts DEF Channels
<1>6. UniqueChannels'
  BY <1>3, <1>4 DEF UniqueChannels, ClientsOK
<1>7. HandlersMatchClients'
  BY <1>4 DEF HandlersMatchClients, ClientsOK
<1>8. Channelled'
  BY <1>4, <1>5 DEF Channelled, ClientsOK
<1> QED
  BY <1>4, <1>6, <1>7, <1>8 DEF ClientsOK, ClientType, Channels

LEMMA ClientRegistered ==
  ASSUME ClientsOK, NEW s \in Socks, NEW ok \in BOOLEAN,
         client[s].user = "open", client[s].channel # -1,
         client' = [client EXCEPT ![s].registered = ok, ![s].channel = IF ok THEN @ ELSE -1],
         UNCHANGED handler
  PROVE  ClientsOK'
<1>1. /\ client' \in [Socks -> ClientType]
      /\ client'[s].registered = ok /\ client'[s].user = "open"
      /\ client'[s].channel = IF ok THEN client[s].channel ELSE -1
      /\ \A u \in Socks : u # s => client'[u] = client[u]
  BY RegistrationSet DEF ClientsOK
<1>2. UniqueChannels'
  BY <1>1 DEF UniqueChannels, ClientsOK
<1>3. HandlersMatchClients'
  BY <1>1 DEF HandlersMatchClients, ClientsOK
<1>4. Channelled'
  BY <1>1 DEF Channelled, ClientsOK
<1> QED
  BY <1>1, <1>2, <1>3, <1>4 DEF ClientsOK, ClientType, Channels

LEMMA ClientAccepted ==
  ASSUME ClientsOK, NEW s \in Socks, handler[s] = "none",
         handler' = [handler EXCEPT ![s] = "active"],
         client' = [client EXCEPT ![s].user = "open"]
  PROVE  ClientsOK'
<1>1. /\ client' \in [Socks -> ClientType]
      /\ client'[s].user = "open" /\ client'[s].channel = client[s].channel
      /\ client'[s].registered = client[s].registered
      /\ \A u \in Socks : u # s => client'[u] = client[u]
  BY UserSet DEF ClientsOK
<1>2. /\ handler' \in [Socks -> {"none", "active", "closing", "freed"}]
      /\ handler'[s] = "active" /\ \A u \in Socks : u # s => handler'[u] = handler[u]
  BY DEF ClientsOK
<1>3. UniqueChannels'
  BY <1>1 DEF UniqueChannels, ClientsOK
<1>4. HandlersMatchClients'
  BY <1>1, <1>2 DEF HandlersMatchClients, ClientsOK
<1>5. Channelled'
  BY <1>1 DEF Channelled, ClientsOK
<1> QED
  BY <1>1, <1>2, <1>3, <1>4, <1>5 DEF ClientsOK, ClientType, Channels

LEMMA OutAppended ==
  ASSUME OutOK, NEW t \in {"connect", "disconnect", "data"}, NEW c \in Channels,
         serialOut' = Append(serialOut, Msg(t, c))
  PROVE  OutOK'
<1>1. Msg(t, c) \in Messages /\ Msg(t, c).type = t
  BY MsgIs DEF Types
<1> DEFINE m == Msg(t, c)
<1> HIDE DEF m
<1>2. /\ serialOut' \in Seq(Messages) /\ Len(serialOut) \in Nat /\ Len(serialOut') = Len(serialOut) + 1
      /\ \A i \in 1 .. Len(serialOut) : serialOut'[i] = serialOut[i]
      /\ serialOut'[Len(serialOut) + 1] = m
  BY <1>1, Appended DEF OutOK, m
<1>3. ASSUME NEW i \in 1 .. Len(serialOut') PROVE serialOut'[i].type \in {"connect", "disconnect", "data"}
  <2>1. i \in 1 .. Len(serialOut) \/ i = Len(serialOut) + 1
    BY <1>2
  <2> QED
    BY <1>1, <1>2, <2>1 DEF OutOK, m
<1> QED
  BY <1>2, <1>3 DEF OutOK, Messages, Channels

LEMMA InAppended ==
  ASSUME InOK, NEW t \in {"ok", "ko", "ko:reason", "disconnect", "data"}, NEW c \in Channels,
         serialIn' = Append(serialIn, Msg(t, c)), UNCHANGED round
  PROVE  InOK'
<1>1. Msg(t, c) \in Messages /\ Msg(t, c).type = t
  BY MsgIs DEF Types
<1> DEFINE m == Msg(t, c)
<1> HIDE DEF m
<1>2. /\ serialIn' \in Seq(Messages) /\ Len(serialIn) \in Nat /\ Len(serialIn') = Len(serialIn) + 1
      /\ \A i \in 1 .. Len(serialIn) : serialIn'[i] = serialIn[i]
      /\ serialIn'[Len(serialIn) + 1] = m
  BY <1>1, Appended DEF InOK, m
<1>3. ASSUME NEW i \in 1 .. Len(serialIn') PROVE serialIn'[i].type # "connect"
  <2>1. i \in 1 .. Len(serialIn) \/ i = Len(serialIn) + 1
    BY <1>2
  <2> QED
    BY <1>1, <1>2, <2>1 DEF InOK, m
<1>4. serialIn' # <<>>
  BY <1>2
<1> QED
  BY <1>2, <1>3, <1>4 DEF InOK, Messages, Channels
--------------------------------------------------------------------------------
(* One lemma for each action. *)

LEMMA InitConsistent == Init => Consistent
<1> SUFFICES ASSUME Init PROVE Consistent
  OBVIOUS
<1>1. /\ client \in [Socks -> ClientType] /\ handler \in [Socks -> {"none", "active", "closing", "freed"}]
      /\ \A s \in Socks : client[s] = Nobody /\ handler[s] = "none"
  BY DEF Init, Nobody, ClientType
<1>2. Nobody.user = "none" /\ Nobody.channel = -1 /\ ~Nobody.registered
  BY DEF Nobody
<1>3. ClientsOK
  BY <1>1, <1>2 DEF ClientsOK, UniqueChannels, HandlersMatchClients, Channelled
<1>4. OutOK /\ InOK
  BY DEF Init, OutOK, InOK
<1>5. RestOK
  <2>1. 0 \in 0 .. MaxWrites /\ 0 \in 0 .. MaxLast /\ 0 \in 0 .. MaxHost
    BY NumbersFacts
  <2>2. out \in [Socks -> Seq({"OK", "KO", "data"})]
    BY DEF Init
  <2>3. round \in [Socks \cup {"serial"} -> SUBSET Events]
    BY DEF Init
  <2>4. inq \in [Socks -> BOOLEAN] /\ hup \in [Socks -> BOOLEAN]
    BY DEF Init
  <2> QED
    BY <2>1, <2>2, <2>3, <2>4 DEF Init, RestOK
<1> QED
  BY <1>3, <1>4, <1>5, Parts

LEMMA FreeConsistent ==
  ASSUME ClientsOK, RestOK, NEW s \in Socks, client_free(s)
  PROVE  ClientsOK' /\ UNCHANGED <<out, lost>>
<1>1. PICK h \in {"closing", "freed"} : handler' = [handler EXCEPT ![s] = h]
  BY DEF client_free, fdhandler_shutdown
<1> QED
  BY <1>1, ClientGone DEF client_free, fdhandler_shutdown

LEMMA ReceiveConsistent ==
  ASSUME ClientsOK, OutOK, RestOK, NEW s \in Socks, handler[s] = "active", client_fd_receive(s)
  PROVE  /\ ClientsOK' /\ OutOK' /\ UNCHANGED <<out, lost>>
         /\ last' \in 0 .. MaxLast /\ bad' \subseteq Channels \cup {-1}
<1> DEFINE c == client[s].channel
<1>1. c \in Channels \cup {-1} /\ client[s].user = "open"
  BY DEF ClientsOK, ClientType, HandlersMatchClients
<1>2. CASE client[s].registered /\ serialOut' = Append(serialOut, Msg("data", c))
                                /\ UNCHANGED <<client, handler, out, lost, last, bad>>
  <2>1. c \in Channels
    BY <1>1, <1>2 DEF ClientsOK, Channelled
  <2>2. ClientsOK'
    BY <1>2 DEF ClientsOK, UniqueChannels, HandlersMatchClients, Channelled
  <2> QED
    BY <1>2, <2>1, <2>2, OutAppended DEF RestOK
<1>3. CASE c > 0 /\ client_free(s) /\ bad' = bad \cup {c} /\ UNCHANGED <<serialOut, last>>
  BY <1>1, <1>3, FreeConsistent DEF RestOK, OutOK
<1>4. CASE ~client[s].registered /\ multiplexer_open_channel(s) /\ UNCHANGED <<handler, out, lost, bad>>
  <2>1. last' = NextChannel /\ NextChannel <= MaxLast /\ last \in Nat
    BY <1>4, NumbersFacts DEF multiplexer_open_channel, RestOK
  <2>2. NextChannel \in Nat /\ NextChannel % NumChannels \in Channels
    BY <2>1, NextFree, Remainder
  <2>3. OutOK'
    BY <1>4, <2>2, OutAppended DEF multiplexer_open_channel
  <2>4. ClientsOK'
    BY <1>1, <1>4, ChannelOpened DEF multiplexer_open_channel, RestOK
  <2>5. last' \in 0 .. MaxLast
    BY <2>1, <2>2, NumbersFacts
  <2> QED
    BY <1>4, <2>3, <2>4, <2>5 DEF RestOK
<1>5. CASE NameTooLong(s)
  <2>1. last' = NextChannel /\ NextChannel <= MaxLast /\ last \in Nat
    BY <1>5, NumbersFacts DEF NameTooLong, RestOK
  <2>2. last' \in 0 .. MaxLast
    BY <2>1, NextFree, NumbersFacts
  <2> QED
    BY <1>5, <2>2, FreeConsistent DEF NameTooLong, RestOK, OutOK
<1> QED
  BY <1>2, <1>3, <1>4, <1>5 DEF client_fd_receive

\* What the rest of the state needs.
LEMMA InKept ==
  ASSUME InOK, UNCHANGED serialIn, round'["serial"] = round["serial"]
  PROVE  InOK'
BY DEF InOK

LEMMA InEventConsistent ==
  ASSUME Consistent, NEW s \in Socks, InEvent(s)
  PROVE  Consistent'
<1>1. TypeOK /\ ClientsOK /\ OutOK /\ InOK /\ RestOK
  BY Parts DEF Consistent, ClientsConsistent
<1>2. /\ handler[s] = "active" /\ inq' = [inq EXCEPT ![s] = FALSE] /\ Handled(s, {"IN"})
      /\ UNCHANGED <<hup, writes, serialIn, hostOpen, hostSent, broken, cut, unheard>>
      /\ client_fd_receive(s) \/ UNCHANGED <<client, handler, out, lost, last, bad, serialOut>>
  BY DEF InEvent, hostVars
<1>3. /\ round' \in [Socks \cup {"serial"} -> SUBSET Events] /\ cur' \in Socks \cup {"none"}
      /\ round'["serial"] = round["serial"]
  BY <1>1, <1>2, RoundHandled
<1>4. /\ ClientsOK' /\ OutOK' /\ UNCHANGED <<out, lost>>
      /\ last' \in 0 .. MaxLast /\ bad' \subseteq Channels \cup {-1}
  <2>1. CASE client_fd_receive(s)
    BY <1>1, <1>2, <2>1, ReceiveConsistent
  <2>2. CASE UNCHANGED <<client, handler, out, lost, last, bad, serialOut>>
    BY <1>1, <2>2 DEF ClientsOK, UniqueChannels, HandlersMatchClients, Channelled, OutOK, RestOK
  <2> QED
    BY <1>2, <2>1, <2>2
<1>5. InOK'
  BY <1>1, <1>2, <1>3, InKept
<1>6. RestOK'
  BY <1>1, <1>2, <1>3, <1>4 DEF RestOK
<1> QED
  BY <1>4, <1>5, <1>6, PartsNext

LEMMA HupEventConsistent ==
  ASSUME Consistent, NEW s \in Socks, HupEvent(s)
  PROVE  Consistent'
<1>1. TypeOK /\ ClientsOK /\ OutOK /\ InOK /\ RestOK
  BY Parts DEF Consistent, ClientsConsistent
<1>2. /\ fdhandler_close(s) /\ Handled(s, Events) /\ handler[s] \in {"active", "closing"}
      /\ UNCHANGED <<inq, hup, writes, serialIn, last, hostOpen, hostSent, broken, bad, cut, unheard>>
  BY DEF HupEvent, hostVars, sockVars
<1>3. /\ round' \in [Socks \cup {"serial"} -> SUBSET Events] /\ cur' \in Socks \cup {"none"}
      /\ round'["serial"] = round["serial"]
  BY <1>1, <1>2, RoundHandled
<1>4. ClientsOK' /\ OutOK'
  <2>1. CASE handler[s] = "active"
    <3>1. client_fd_close(s) /\ handler' = [handler EXCEPT ![s] = "freed"]
      BY <1>2, <2>1 DEF fdhandler_close
    <3>2. ClientsOK'
      BY <1>1, <3>1, ClientGone DEF client_fd_close
    <3>3. client[s].channel > 0 => client[s].channel \in Channels
      BY <1>1 DEF ClientsOK, ClientType
    <3> QED
      BY <1>1, <3>1, <3>2, <3>3, OutAppended DEF client_fd_close, OutOK
  <2>2. CASE handler[s] = "closing"
    <3>1. UNCHANGED <<client, serialOut>> /\ handler' = [handler EXCEPT ![s] = "freed"]
      BY <1>2, <2>2 DEF fdhandler_close
    <3>2. /\ handler' \in [Socks -> {"none", "active", "closing", "freed"}]
          /\ \A u \in Socks : handler'[u] = "active" <=> handler[u] = "active"
      BY <1>1, <2>2, <3>1 DEF ClientsOK
    <3> QED
      BY <1>1, <3>1, <3>2 DEF ClientsOK, UniqueChannels, HandlersMatchClients, Channelled, OutOK
  <2> QED
    BY <1>2, <2>1, <2>2
<1>5. InOK'
  BY <1>1, <1>2, <1>3, InKept
<1>6. out' \in [Socks -> Seq({"OK", "KO", "data"})] /\ lost' \subseteq Socks
  BY <1>1, <1>2 DEF fdhandler_close, RestOK
<1>7. RestOK'
  BY <1>1, <1>2, <1>3, <1>6 DEF RestOK
<1> QED
  BY <1>4, <1>5, <1>7, PartsNext

LEMMA OutEventConsistent ==
  ASSUME Consistent, NEW s \in Socks, OutEvent(s) \/ InNothing(s)
  PROVE  Consistent'
<1>1. TypeOK /\ ClientsOK /\ OutOK /\ InOK /\ RestOK
  BY Parts DEF Consistent, ClientsConsistent
<1>2. /\ Handled(s, {"OUT"}) \/ Handled(s, {"IN"})
      /\ out' = out \/ out' = [out EXCEPT ![s] = IF out[s] = <<>> THEN out[s] ELSE Tail(out[s])]
      /\ UNCHANGED <<client, handler, inq, hup, writes, serialIn, serialOut, last, hostOpen, hostSent,
                     broken, bad, cut, lost, unheard>>
  BY DEF OutEvent, InNothing, hostVars, sockVars
<1>3. /\ round' \in [Socks \cup {"serial"} -> SUBSET Events] /\ cur' \in Socks \cup {"none"}
      /\ round'["serial"] = round["serial"]
  BY <1>1, <1>2, RoundHandled
<1>4. out' \in [Socks -> Seq({"OK", "KO", "data"})]
  <2>1. out[s] \in Seq({"OK", "KO", "data"})
    BY <1>1 DEF RestOK
  <2>2. (IF out[s] = <<>> THEN out[s] ELSE Tail(out[s])) \in Seq({"OK", "KO", "data"})
    BY <2>1
  <2> QED
    BY <1>1, <1>2, <2>2 DEF RestOK
<1>5. ClientsOK' /\ OutOK'
  BY <1>1, <1>2 DEF ClientsOK, UniqueChannels, HandlersMatchClients, Channelled, OutOK
<1>6. InOK'
  BY <1>1, <1>2, <1>3, InKept
<1>7. RestOK'
  BY <1>1, <1>2, <1>3, <1>4 DEF RestOK
<1> QED
  BY <1>5, <1>6, <1>7, PartsNext

\* What the serial handler does, by the message and the client it is for.
LEMMA SerialCases ==
  ASSUME Consistent, SerialEvent
  PROVE  /\ serialIn # <<>> /\ serialIn' = Tail(serialIn) /\ round' = [round EXCEPT !["serial"] = {}]
         /\ UNCHANGED <<inq, hup, writes, serialOut, last, cur, hostOpen, hostSent, broken, bad>>
         /\ Head(serialIn) \in Messages /\ unheard' \subseteq Socks
         /\ \/ OnChannel(Head(serialIn).ch) = {} /\ UNCHANGED <<client, handler, out, lost, cut>>
            \/ \E s \in OnChannel(Head(serialIn).ch) :
                 \/ /\ Head(serialIn).type \in {"ok", "ko"}
                    /\ client_registration(s, Head(serialIn).type = "ok") /\ UNCHANGED <<handler, lost, cut>>
                 \/ Head(serialIn).type = "ko:reason" /\ UNCHANGED <<client, handler, out, lost, cut>>
                 \/ /\ Head(serialIn).type = "disconnect"
                    /\ client_free(s) /\ cut' = TRUE
                 \/ /\ Head(serialIn).type = "data"
                    /\ out' = [out EXCEPT ![s] = IF Head(serialIn).ch = 0 THEN @ ELSE Append(@, "data")]
                    /\ UNCHANGED <<client, handler, lost, cut>>
<1>1. InOK
  BY Parts
<1>2. serialIn # <<>>
  BY <1>1 DEF SerialEvent, InOK
<1>3. Head(serialIn) \in Messages /\ Head(serialIn).type # "connect"
  <2>1. /\ Len(serialIn) \in Nat /\ Len(serialIn) >= 1
        /\ Head(serialIn) = serialIn[1] /\ serialIn[1] \in Messages
    BY <1>1, <1>2, Tailed DEF InOK
  <2>2. 1 \in 1 .. Len(serialIn)
    BY <2>1
  <2> QED
    BY <1>1, <2>1, <2>2 DEF InOK
<1> DEFINE m == Head(serialIn)
           s == CHOOSE x \in OnChannel(m.ch) : TRUE
<1>4. m.type \in {"disconnect", "data", "ok", "ko", "ko:reason"} /\ unheard \subseteq Socks
  BY <1>3, Parts DEF Messages, Types, RestOK
<1>5. CASE OnChannel(m.ch) = {}
  BY <1>2, <1>3, <1>4, <1>5 DEF SerialEvent, sockVars, hostVars
<1>6. CASE OnChannel(m.ch) # {}
  <2>1. s \in OnChannel(m.ch)
    BY <1>6
  <2>2. CASE m.type = "disconnect" \/ m.type = "data"
    BY <1>2, <1>3, <1>4, <1>6, <2>1, <2>2 DEF SerialEvent, sockVars, hostVars
  <2>3. CASE m.type = "ok" \/ m.type = "ko"
    BY <1>2, <1>3, <1>4, <1>6, <2>1, <2>3 DEF SerialEvent, sockVars, hostVars
  <2>4. CASE m.type = "ko:reason"
    <3>1. s \in Socks
      BY <2>1 DEF OnChannel
    <3> QED
      BY <1>2, <1>3, <1>4, <1>6, <2>1, <2>4, <3>1 DEF SerialEvent, sockVars, hostVars
  <2> QED
    BY <1>4, <2>2, <2>3, <2>4
<1> QED
  BY <1>5, <1>6

LEMMA SerialConsistent ==
  ASSUME Consistent, SerialEvent
  PROVE  Consistent'
<1>1. TypeOK /\ ClientsOK /\ OutOK /\ InOK /\ RestOK
  BY Parts DEF Consistent, ClientsConsistent
<1> DEFINE m == Head(serialIn)
<1>2. /\ serialIn # <<>> /\ serialIn' = Tail(serialIn) /\ round' = [round EXCEPT !["serial"] = {}]
      /\ UNCHANGED <<inq, hup, writes, serialOut, last, cur, hostOpen, hostSent, broken, bad>>
      /\ m \in Messages /\ unheard' \subseteq Socks
  BY SerialCases
<1>3. InOK'
  <2>1. /\ Tail(serialIn) \in Seq(Messages)
        /\ Len(serialIn) \in Nat /\ Len(serialIn) >= 1 /\ Len(Tail(serialIn)) = Len(serialIn) - 1
        /\ \A i \in 1 .. Len(serialIn) - 1 : Tail(serialIn)[i] = serialIn[i + 1]
    BY <1>1, <1>2, Tailed DEF InOK
  <2>2. ASSUME NEW i \in 1 .. Len(serialIn') PROVE serialIn'[i].type # "connect"
    <3>1. i + 1 \in 1 .. Len(serialIn) /\ serialIn'[i] = serialIn[i + 1]
      BY <1>2, <2>1
    <3> QED
      BY <1>1, <3>1 DEF InOK
  <2>3. round'["serial"] = {}
    BY <1>1, <1>2 DEF RestOK
  <2> QED
    BY <1>2, <2>1, <2>2, <2>3 DEF InOK, Messages, Channels
<1>4. round' \in [Socks \cup {"serial"} -> SUBSET Events]
  BY <1>1, <1>2 DEF RestOK
<1>5. OutOK'
  BY <1>1, <1>2 DEF OutOK
<1>6. /\ ClientsOK' /\ out' \in [Socks -> Seq({"OK", "KO", "data"})]
      /\ lost' \subseteq Socks /\ cut' \in BOOLEAN
  <2>1. CASE UNCHANGED <<client, handler, out, lost, cut>>
    BY <1>1, <2>1 DEF ClientsOK, UniqueChannels, HandlersMatchClients, Channelled, RestOK
  <2>2. ASSUME NEW s \in OnChannel(m.ch), m.type \in {"ok", "ko"},
               client_registration(s, m.type = "ok"), UNCHANGED <<handler, lost, cut>>
        PROVE  /\ ClientsOK' /\ out' \in [Socks -> Seq({"OK", "KO", "data"})]
               /\ lost' \subseteq Socks /\ cut' \in BOOLEAN
    <3> DEFINE ok == (m.type = "ok")
    <3>1. ok \in BOOLEAN
      OBVIOUS
    <3>2. s \in Socks /\ client[s].user = "open" /\ client[s].channel = m.ch /\ m.ch # -1
      BY <1>2 DEF OnChannel, Messages, Channels
    <3> HIDE DEF ok
    <3>3. /\ client' = [client EXCEPT ![s].registered = ok, ![s].channel = IF ok THEN @ ELSE -1]
          /\ out' = [out EXCEPT ![s] = Append(@, IF ok THEN "OK" ELSE "KO")]
      BY <2>2 DEF client_registration, ok
    <3>4. ClientsOK'
      BY <1>1, <2>2, <3>1, <3>2, <3>3, ClientRegistered
    <3>5. out' \in [Socks -> Seq({"OK", "KO", "data"})]
      BY <1>1, <3>2, <3>3 DEF RestOK
    <3> QED
      BY <1>1, <2>2, <3>4, <3>5 DEF RestOK
  <2>3. ASSUME NEW s \in OnChannel(m.ch), client_free(s), cut' = TRUE
        PROVE  /\ ClientsOK' /\ out' \in [Socks -> Seq({"OK", "KO", "data"})]
               /\ lost' \subseteq Socks /\ cut' \in BOOLEAN
    BY <1>1, <2>3, FreeConsistent DEF RestOK, OnChannel
  <2>4. ASSUME NEW s \in OnChannel(m.ch), UNCHANGED <<client, handler, lost, cut>>,
               out' = [out EXCEPT ![s] = IF m.ch = 0 THEN @ ELSE Append(@, "data")]
        PROVE  /\ ClientsOK' /\ out' \in [Socks -> Seq({"OK", "KO", "data"})]
               /\ lost' \subseteq Socks /\ cut' \in BOOLEAN
    <3>1. ClientsOK'
      BY <1>1, <2>4 DEF ClientsOK, UniqueChannels, HandlersMatchClients, Channelled
    <3>2. out' \in [Socks -> Seq({"OK", "KO", "data"})]
      <4>1. s \in Socks /\ out[s] \in Seq({"OK", "KO", "data"})
        BY <1>1 DEF RestOK, OnChannel
      <4> DEFINE q == IF m.ch = 0 THEN out[s] ELSE Append(out[s], "data")
      <4>2. q \in Seq({"OK", "KO", "data"})
        BY <4>1
      <4>3. out' = [out EXCEPT ![s] = q]
        BY <2>4
      <4> HIDE DEF q
      <4> QED
        BY <1>1, <4>1, <4>2, <4>3 DEF RestOK
    <3> QED
      BY <1>1, <2>4, <3>1, <3>2 DEF RestOK
  <2> HIDE DEF m
  <2> QED
    BY <2>1, <2>2, <2>3, <2>4, SerialCases DEF m
<1>7. RestOK'
  BY <1>1, <1>2, <1>4, <1>6 DEF RestOK
<1> QED
  BY <1>3, <1>5, <1>6, <1>7, PartsNext

LEMMA LooperConsistent ==
  ASSUME Consistent, Wait \/ Accept \/ ClientWrites \/ ClientCloses \/ \E s \in Socks : Dangling(s)
  PROVE  Consistent'
<1>1. TypeOK /\ ClientsOK /\ OutOK /\ InOK /\ RestOK
  BY Parts DEF Consistent, ClientsConsistent
<1>2. UNCHANGED <<serialIn, serialOut, out, last, hostOpen, hostSent, bad, cut, lost, unheard>>
  BY DEF Wait, Accept, ClientWrites, ClientCloses, Dangling, hostVars, sockVars
<1>3. OutOK'
  BY <1>1, <1>2 DEF OutOK
<1>4. CASE Wait
  <2>1. UNCHANGED <<client, handler, inq, hup, writes, cur, broken>>
    BY <1>4 DEF Wait, sockVars
  <2>2. DOMAIN round = Socks \cup {"serial"} /\ \A x \in Socks : Ready(x) \subseteq Events
    BY <1>1 DEF RestOK, Ready
  <2>3. round' = [x \in Socks \cup {"serial"} |->
                    IF x = "serial" THEN (IF serialIn # <<>> THEN {"IN"} ELSE {}) ELSE Ready(x)]
    BY <1>4, <2>2 DEF Wait
  <2>4. /\ round' \in [Socks \cup {"serial"} -> SUBSET Events]
        /\ "IN" \in round'["serial"] => serialIn # <<>>
    BY <2>2, <2>3 DEF Events
  <2>5. ClientsOK'
    BY <1>1, <2>1 DEF ClientsOK, UniqueChannels, HandlersMatchClients, Channelled
  <2>6. InOK'
    BY <1>1, <1>2, <2>4 DEF InOK
  <2>7. RestOK'
    BY <1>1, <1>2, <2>1, <2>4 DEF RestOK
  <2> QED
    BY <1>3, <2>5, <2>6, <2>7, PartsNext
<1>5. CASE Accept
  <2>1. ClientsOK'
    BY <1>1, <1>5, ClientAccepted DEF Accept
  <2>2. UNCHANGED <<round, inq, hup, writes, cur, broken>>
    BY <1>5 DEF Accept, sockVars
  <2>3. InOK' /\ RestOK'
    BY <1>1, <1>2, <2>2 DEF InOK, RestOK
  <2> QED
    BY <1>3, <2>1, <2>3, PartsNext
<1>6. CASE ClientWrites \/ ClientCloses \/ \E s \in Socks : Dangling(s)
  <2>1. UNCHANGED <<client, handler, round, cur>>
    BY <1>6 DEF ClientWrites, ClientCloses, Dangling
  <2>2. ClientsOK' /\ InOK'
    BY <1>1, <1>2, <2>1 DEF ClientsOK, UniqueChannels, HandlersMatchClients, Channelled, InOK
  <2>3. broken' \in BOOLEAN
    BY <1>1, <1>6 DEF ClientWrites, ClientCloses, Dangling, RestOK
  <2>4. writes' \in 0 .. MaxWrites
    <3>1. writes' = writes \/ (writes < MaxWrites /\ writes' = writes + 1)
      BY <1>6 DEF ClientWrites, ClientCloses, Dangling, sockVars
    <3> QED
      BY <1>1, <3>1, NumbersFacts DEF RestOK
  <2>5. inq' \in [Socks -> BOOLEAN] /\ hup' \in [Socks -> BOOLEAN]
    BY <1>1, <1>6 DEF ClientWrites, ClientCloses, Dangling, RestOK, sockVars
  <2>6. RestOK'
    BY <1>1, <1>2, <2>1, <2>3, <2>4, <2>5 DEF RestOK
  <2> QED
    BY <1>3, <2>2, <2>6, PartsNext
<1> QED
  BY <1>4, <1>5, <1>6

LEMMA HostConsistent ==
  ASSUME Consistent, HostReceives \/ HostSends
  PROVE  Consistent'
<1>1. TypeOK /\ ClientsOK /\ OutOK /\ InOK /\ RestOK
  BY Parts DEF Consistent, ClientsConsistent
<1>2. UNCHANGED <<client, handler, out, inq, hup, writes, last, round, cur, broken, bad, cut, lost, unheard>>
  BY DEF HostReceives, HostSends, sockVars
<1>3. ClientsOK'
  BY <1>1, <1>2 DEF ClientsOK, UniqueChannels, HandlersMatchClients, Channelled
<1>4. CASE HostReceives
  <2>1. serialOut # <<>> /\ serialOut' = Tail(serialOut) /\ hostSent' = hostSent
    BY <1>4 DEF HostReceives
  <2>2. /\ Tail(serialOut) \in Seq(Messages)
        /\ Len(serialOut) \in Nat /\ Len(serialOut) >= 1 /\ Len(Tail(serialOut)) = Len(serialOut) - 1
        /\ \A i \in 1 .. Len(serialOut) - 1 : Tail(serialOut)[i] = serialOut[i + 1]
        /\ Head(serialOut) \in Messages
    BY <1>1, <2>1, Tailed DEF OutOK
  <2>3. OutOK'
    <3>1. ASSUME NEW i \in 1 .. Len(serialOut')
          PROVE  serialOut'[i].type \in {"connect", "disconnect", "data"}
      <4>1. i + 1 \in 1 .. Len(serialOut) /\ serialOut'[i] = serialOut[i + 1]
        BY <2>1, <2>2
      <4> QED
        BY <1>1, <4>1 DEF OutOK
    <3> QED
      BY <2>1, <2>2, <3>1 DEF OutOK, Messages, Channels
  <2> DEFINE c == Head(serialOut).ch
  <2>4. c \in Channels
    BY <2>2 DEF Messages
  <2> HIDE DEF c
  <2>5. /\ serialIn' = serialIn \/ serialIn' = Append(serialIn, Msg("ok", c))
                                 \/ serialIn' = Append(serialIn, Msg("ko", c))
                                 \/ serialIn' = Append(serialIn, Msg("ko:reason", c))
        /\ hostOpen' \in {hostOpen, hostOpen \cup {c}, hostOpen \ {c}}
    BY <1>4 DEF HostReceives, c
  <2>6. InOK'
    <3>1. CASE serialIn' = serialIn
      BY <1>1, <1>2, <3>1, InKept
    <3> QED
      BY <1>1, <1>2, <2>4, <2>5, <3>1, InAppended
  <2>7. RestOK'
    BY <1>1, <1>2, <2>1, <2>4, <2>5 DEF RestOK
  <2> QED
    BY <1>3, <2>3, <2>6, <2>7, PartsNext
<1>5. CASE HostSends
  <2>1. PICK c \in hostOpen, t \in {"data", "disconnect"} :
          /\ serialIn' = Append(serialIn, Msg(t, c))
          /\ hostOpen' = IF t = "data" THEN hostOpen ELSE hostOpen \ {c}
    BY <1>5 DEF HostSends
  <2>2. hostSent < MaxHost /\ hostSent' = hostSent + 1 /\ UNCHANGED serialOut
    BY <1>5 DEF HostSends
  <2>3. c \in Channels
    BY <1>1, <2>1 DEF RestOK
  <2>4. InOK'
    BY <1>1, <1>2, <2>1, <2>3, InAppended
  <2>5. OutOK'
    BY <1>1, <2>2 DEF OutOK
  <2>6. hostSent' \in 0 .. MaxHost
    BY <1>1, <2>2, NumbersFacts DEF RestOK
  <2>7. RestOK'
    BY <1>1, <1>2, <2>1, <2>6 DEF RestOK
  <2> QED
    BY <1>3, <2>4, <2>5, <2>7, PartsNext
<1> QED
  BY <1>4, <1>5

LEMMA StepConsistent == Consistent /\ [Next]_vars => Consistent'
<1> SUFFICES ASSUME Consistent, [Next]_vars PROVE Consistent'
  OBVIOUS
<1>1. CASE \E s \in Socks : InEvent(s) \/ HupEvent(s) \/ OutEvent(s) \/ InNothing(s)
  BY <1>1, InEventConsistent, HupEventConsistent, OutEventConsistent
<1>2. CASE SerialEvent
  BY <1>2, SerialConsistent
<1>3. CASE Wait \/ Accept \/ ClientWrites \/ ClientCloses \/ \E s \in Socks : Dangling(s)
  BY <1>3, LooperConsistent
<1>4. CASE HostReceives \/ HostSends
  BY <1>4, HostConsistent
<1>5. CASE UNCHANGED vars
  BY <1>5 DEF vars, Consistent, ClientsConsistent, TypeOK, UniqueChannels, HandlersMatchClients, Channelled,
               SerialShape
<1> QED
  BY <1>1, <1>2, <1>3, <1>4, <1>5 DEF Next, Loop, FdEvent

\* No two clients have the same channel number, and clients and handlers come and
\* go together (qemud.c: multiplexer_open_channel, client_free, fdhandler_close),
\* for any number of clients smaller than that of the channel numbers.
THEOREM ClientsAlwaysConsistent == Spec => []ClientsConsistent
<1>1. Consistent => ClientsConsistent
  BY DEF Consistent
<1> QED
  BY <1>1, InitConsistent, StepConsistent, PTL DEF Spec
--------------------------------------------------------------------------------
(* Dropped packets. *)

\* Events of a round go, and only Wait adds any.
LEMMA StepRound ==
  ASSUME Consistent, Next
  PROVE  \/ Wait
         \/ \A u \in Socks : round'[u] \subseteq round[u]
<1>1. TypeOK /\ RestOK
  BY Parts DEF Consistent, ClientsConsistent
<1>2. ASSUME NEW s \in Socks, InEvent(s) \/ HupEvent(s) \/ OutEvent(s) \/ InNothing(s)
      PROVE  \A u \in Socks : round'[u] \subseteq round[u]
  <2>1. PICK E : Handled(s, E)
    BY <1>2 DEF InEvent, HupEvent, OutEvent, InNothing
  <2> QED
    BY <1>1, <2>1, RoundHandled
<1>3. CASE SerialEvent
  BY <1>1, <1>3, QemudAssumption DEF SerialEvent, RestOK
<1>4. CASE Accept \/ ClientWrites \/ ClientCloses \/ HostReceives \/ HostSends \/ \E s \in Socks : Dangling(s)
  BY <1>4 DEF Accept, ClientWrites, ClientCloses, HostReceives, HostSends, Dangling
<1> QED
  BY <1>2, <1>3, <1>4 DEF Next, Loop, FdEvent

LEMMA StepHups == Consistent /\ HupsReported /\ [Next]_vars => HupsReported'
<1> SUFFICES ASSUME Consistent, HupsReported, [Next]_vars PROVE HupsReported'
  OBVIOUS
<1>1. RestOK
  BY Parts
<1>2. CASE Next
  <2>1. \A u \in Socks : hup[u] => hup'[u]
    <3>1. CASE ClientCloses
      BY <1>1, <3>1 DEF ClientCloses, RestOK
    <3>2. CASE ~ClientCloses
      <4>1. UNCHANGED hup
        BY <1>2, <3>2 DEF Next, Loop, FdEvent, Wait, SerialEvent, InEvent, InNothing, HupEvent, OutEvent,
             Dangling, Accept, ClientWrites, HostReceives, HostSends, sockVars
      <4> QED
        BY <4>1
    <3> QED
      BY <3>1, <3>2
  <2>2. CASE Wait
    <3>1. \A u \in Socks : round'[u] = Ready(u)
      BY <1>1, <2>2, QemudAssumption DEF Wait, RestOK
    <3>2. \A u \in Socks : "HUP" \in Ready(u) => hup[u]
      BY DEF Ready
    <3> QED
      BY <2>1, <3>1, <3>2 DEF HupsReported
  <2>3. CASE \A u \in Socks : round'[u] \subseteq round[u]
    BY <2>1, <2>3 DEF HupsReported
  <2> QED
    BY <1>2, <2>2, <2>3, StepRound
<1>3. CASE UNCHANGED vars
  BY <1>3 DEF vars, HupsReported
<1> QED
  BY <1>2, <1>3

LEMMA StepLost == Consistent /\ HupsReported /\ NothingLost /\ [Next]_vars => NothingLost'
<1> SUFFICES ASSUME Consistent, HupsReported, NothingLost, [Next]_vars PROVE NothingLost'
  OBVIOUS
<1>1. ClientsOK /\ OutOK /\ RestOK
  BY Parts
<1>2. lost \subseteq Socks
  BY <1>1 DEF RestOK
<1>3. ASSUME NEW s \in Socks, HupEvent(s) PROVE NothingLost'
  <2>1. "HUP" \in round[s] /\ lost' \subseteq lost \cup {s} /\ hup' = hup
    BY <1>3 DEF HupEvent, fdhandler_close, sockVars
  <2> QED
    BY <1>2, <2>1 DEF HupsReported, NothingLost
<1>4. ASSUME NEW s \in Socks, InEvent(s) PROVE NothingLost'
  <2>1. UNCHANGED <<lost, hup>>
    <3>1. CASE client_fd_receive(s)
      BY <1>1, <1>4, <3>1, ReceiveConsistent DEF InEvent
    <3>2. CASE UNCHANGED lost
      BY <1>4, <3>2 DEF InEvent
    <3> QED
      BY <1>4, <3>1, <3>2 DEF InEvent
  <2> QED
    BY <2>1 DEF NothingLost
<1>5. CASE SerialEvent
  <2>1. UNCHANGED hup
    BY <1>5, SerialCases
  <2>2. UNCHANGED lost
    BY <1>5, SerialCases DEF client_free, fdhandler_shutdown
  <2> QED
    BY <2>1, <2>2 DEF NothingLost
<1>6. CASE ClientCloses
  <2>1. UNCHANGED lost /\ \A u \in Socks : hup[u] => hup'[u]
    BY <1>1, <1>6 DEF ClientCloses, RestOK
  <2> QED
    BY <1>2, <2>1 DEF NothingLost
<1>7. CASE \/ Wait \/ Accept \/ ClientWrites \/ HostReceives \/ HostSends \/ UNCHANGED vars
           \/ \E s \in Socks : Dangling(s) \/ OutEvent(s) \/ InNothing(s)
  <2>1. UNCHANGED <<lost, hup>>
    BY <1>7 DEF Wait, Accept, ClientWrites, HostReceives, HostSends, Dangling, OutEvent, InNothing,
         sockVars, vars
  <2> QED
    BY <2>1 DEF NothingLost
<1> QED
  BY <1>3, <1>4, <1>5, <1>6, <1>7 DEF Next, Loop, FdEvent

\* Packets queued for a client are dropped only when it has hung up
\* (fdhandler_shutdown keeps a handler that has packets to send).
THEOREM NothingEverLost == Spec => []NothingLost
<1>1. Init => Consistent /\ HupsReported /\ NothingLost
  <2>1. Init => HupsReported /\ NothingLost
    BY DEF Init, HupsReported, NothingLost
  <2> QED
    BY <2>1, InitConsistent
<1> QED
  BY <1>1, StepConsistent, StepHups, StepLost, PTL DEF Spec
--------------------------------------------------------------------------------
(* Use of freed memory. *)

LEMMA FreedKept ==
  ASSUME FreedQuiet, UNCHANGED handler, \A u \in Socks : round'[u] \subseteq round[u],
         bad # {} => bad' # {}, cut => cut'
  PROVE  FreedQuiet'
BY DEF FreedQuiet

LEMMA StepFreed == Consistent /\ FreedQuiet /\ [Next]_vars => FreedQuiet'
<1> SUFFICES ASSUME Consistent, FreedQuiet, [Next]_vars PROVE FreedQuiet'
  OBVIOUS
<1>1. TypeOK /\ ClientsOK /\ RestOK
  BY Parts DEF Consistent, ClientsConsistent
<1>2. ASSUME NEW s \in Socks, InEvent(s) PROVE FreedQuiet'
  <2>1. \/ bad' # {}
        \/ UNCHANGED <<handler, bad>>
    BY <1>2 DEF InEvent, client_fd_receive, NameTooLong
  <2>2. UNCHANGED cut /\ \A u \in Socks : round'[u] \subseteq round[u]
    <3>1. Handled(s, {"IN"}) /\ UNCHANGED cut
      BY <1>2 DEF InEvent
    <3> QED
      BY <1>1, <3>1, RoundHandled
  <2>3. CASE bad' # {}
    BY <2>3 DEF FreedQuiet
  <2> QED
    BY <2>1, <2>2, <2>3, FreedKept
<1>3. ASSUME NEW s \in Socks, HupEvent(s) PROVE FreedQuiet'
  <2>1. /\ UNCHANGED <<bad, cut>> /\ Handled(s, Events)
        /\ handler' = [handler EXCEPT ![s] = "freed"]
    BY <1>3 DEF HupEvent, fdhandler_close
  <2>2. handler'[s] = "freed" /\ \A u \in Socks : u # s => handler'[u] = handler[u]
    BY <1>1, <2>1 DEF ClientsOK
  <2>3. round'[s] = {} /\ \A u \in Socks : u # s => round'[u] = round[u]
    <3>1. round[s] \subseteq Events
      BY <1>1 DEF RestOK
    <3> QED
      BY <1>1, <2>1, <3>1, RoundHandled
  <2> QED
    BY <2>1, <2>2, <2>3 DEF FreedQuiet
<1>4. ASSUME NEW s \in Socks, OutEvent(s) \/ InNothing(s) PROVE FreedQuiet'
  <2>1. UNCHANGED <<handler, bad, cut>> /\ (Handled(s, {"OUT"}) \/ Handled(s, {"IN"}))
    BY <1>4 DEF OutEvent, InNothing
  <2>2. \A u \in Socks : round'[u] \subseteq round[u]
    BY <1>1, <2>1, RoundHandled
  <2> QED
    BY <2>1, <2>2, FreedKept
<1>5. CASE SerialEvent
  <2>1. UNCHANGED bad /\ (cut' = TRUE \/ UNCHANGED <<handler, cut>>)
    BY <1>5, SerialCases DEF client_free, fdhandler_shutdown
  <2>2. \A u \in Socks : round'[u] \subseteq round[u]
    BY <1>1, <1>5, SerialCases, QemudAssumption DEF RestOK
  <2>3. CASE cut' = TRUE
    BY <2>3 DEF FreedQuiet
  <2> QED
    BY <2>1, <2>2, <2>3, FreedKept
<1>6. CASE Wait
  <2>1. UNCHANGED <<handler, bad, cut>>
    BY <1>6 DEF Wait
  <2>2. \A u \in Socks : round'[u] = Ready(u)
    BY <1>1, <1>6, QemudAssumption DEF Wait, RestOK
  <2>3. \A u \in Socks : handler[u] = "freed" => Ready(u) = {}
    BY DEF Ready
  <2> QED
    BY <2>1, <2>2, <2>3 DEF FreedQuiet
<1>7. CASE Accept
  <2>1. /\ UNCHANGED <<round, bad, cut>>
        /\ \A u \in Socks : handler'[u] = handler[u] \/ handler'[u] = "active"
    BY <1>1, <1>7 DEF Accept, ClientsOK
  <2> QED
    BY <2>1 DEF FreedQuiet
<1>8. CASE \/ ClientWrites \/ ClientCloses \/ HostReceives \/ HostSends \/ UNCHANGED vars
           \/ \E s \in Socks : Dangling(s)
  <2>1. UNCHANGED <<handler, round, bad, cut>>
    BY <1>8 DEF ClientWrites, ClientCloses, HostReceives, HostSends, Dangling, vars
  <2> QED
    BY <2>1, FreedKept
<1> QED
  BY <1>2, <1>3, <1>4, <1>5, <1>6, <1>7, <1>8 DEF Next, Loop, FdEvent

LEMMA StepBroken == Consistent /\ FreedQuiet /\ FreedUseKnown /\ [Next]_vars => FreedUseKnown'
<1> SUFFICES ASSUME Consistent, FreedQuiet, FreedUseKnown, [Next]_vars PROVE FreedUseKnown'
  OBVIOUS
<1>1. ASSUME NEW s \in Socks, Dangling(s) PROVE FreedUseKnown'
  <2>1. /\ UNCHANGED <<bad, cut>> /\ round[s] # {}
        /\ handler[s] = "freed" \/ handler[s] = "closing"
    BY <1>1 DEF Dangling
  <2> QED
    BY <2>1 DEF FreedQuiet, FreedUseKnown
<1>2. CASE SerialEvent
  <2>1. UNCHANGED <<bad, broken>> /\ (cut' = TRUE \/ UNCHANGED cut)
    BY <1>2, SerialCases
  <2> QED
    BY <2>1 DEF FreedUseKnown
<1>3. ASSUME NEW s \in Socks, InEvent(s) PROVE FreedUseKnown'
  <2>1. UNCHANGED <<broken, cut>> /\ (bad' # {} \/ UNCHANGED bad)
    BY <1>3 DEF InEvent, client_fd_receive, NameTooLong
  <2> QED
    BY <2>1 DEF FreedUseKnown
<1>4. CASE \/ Wait \/ Accept \/ ClientWrites \/ ClientCloses \/ HostReceives \/ HostSends \/ UNCHANGED vars
           \/ \E s \in Socks : HupEvent(s) \/ OutEvent(s) \/ InNothing(s)
  <2>1. UNCHANGED <<broken, bad, cut>>
    BY <1>4 DEF Wait, Accept, ClientWrites, ClientCloses, HostReceives, HostSends, HupEvent, OutEvent,
         InNothing, vars
  <2> QED
    BY <2>1 DEF FreedUseKnown
<1> QED
  BY <1>1, <1>2, <1>3, <1>4 DEF Next, Loop, FdEvent

\* Freed memory is used only after a client was thrown out or disconnected by the
\* host (client_free and fdhandler_close within a round of looper_loop).
THEOREM FreedUseAlwaysKnown == Spec => []FreedUseKnown
<1>1. Init => Consistent /\ FreedQuiet /\ FreedUseKnown
  <2>1. Init => FreedQuiet /\ FreedUseKnown
    BY DEF Init, FreedQuiet, FreedUseKnown
  <2> QED
    BY <2>1, InitConsistent
<1> QED
  BY <1>1, StepConsistent, StepFreed, StepBroken, PTL DEF Spec
--------------------------------------------------------------------------------
(* The host's view.  What is on its way changes by one message at a time. *)

LEMMA CarriesAppended ==
  ASSUME NEW q \in Seq(Messages), NEW t \in Types, NEW c \in Channels
  PROVE  /\ \A u, d : Carries(Append(q, Msg(t, c)), u, d) <=> Carries(q, u, d) \/ (u = t /\ d = c)
         /\ \A d : Mentions(Append(q, Msg(t, c)), d) <=> Mentions(q, d) \/ d = c
         /\ \A T : FirstIn(q, T) /\ (t \in T => ~Mentions(q, c)) => FirstIn(Append(q, Msg(t, c)), T)
<1> DEFINE m == Msg(t, c)
           p == Append(q, m)
           n == Len(q)
<1>1. m \in Messages /\ m.type = t /\ m.ch = c
  BY MsgIs
<1> HIDE DEF m
<1>2. n \in Nat /\ Len(p) = n + 1 /\ (\A i \in 1 .. n : p[i] = q[i]) /\ p[n + 1] = m
  BY <1>1, Appended
<1> HIDE DEF p
<1>3. \A i : i \in 1 .. Len(p) <=> i \in 1 .. n \/ i = n + 1
  BY <1>2
<1>4. \A u, d : Carries(p, u, d) <=> Carries(q, u, d) \/ (u = t /\ d = c)
  BY <1>1, <1>2, <1>3 DEF Carries
<1>5. \A d : Mentions(p, d) <=> Mentions(q, d) \/ d = c
  BY <1>1, <1>2, <1>3 DEF Mentions
<1>6. ASSUME NEW T, FirstIn(q, T), t \in T => ~Mentions(q, c) PROVE FirstIn(p, T)
  <2> SUFFICES ASSUME NEW i \in 1 .. Len(p), NEW j \in 1 .. Len(p), i < j, p[i].ch = p[j].ch
               PROVE  p[j].type \notin T
    BY DEF FirstIn
  <2>1. i \in 1 .. n /\ p[i] = q[i]
    BY <1>2
  <2>2. CASE j \in 1 .. n
    BY <1>2, <1>6, <2>1, <2>2 DEF FirstIn
  <2>3. CASE j = n + 1
    BY <1>1, <1>2, <1>6, <2>1, <2>3 DEF Mentions
  <2> QED
    BY <1>3, <2>2, <2>3
<1> QED
  BY <1>4, <1>5, <1>6 DEF p, m

LEMMA CarriesTailed ==
  ASSUME NEW q \in Seq(Messages), q # <<>>
  PROVE  /\ \A u, d : Carries(q, u, d) <=> Carries(Tail(q), u, d) \/ (Head(q).type = u /\ Head(q).ch = d)
         /\ \A d : Mentions(q, d) <=> Mentions(Tail(q), d) \/ Head(q).ch = d
         /\ \A T : FirstIn(q, T) => FirstIn(Tail(q), T) /\ \A t \in T : ~Carries(Tail(q), t, Head(q).ch)
<1> DEFINE p == Tail(q)
           n == Len(q)
<1>1. /\ n \in Nat /\ n >= 1 /\ Len(p) = n - 1 /\ Head(q) = q[1]
      /\ \A i \in 1 .. n - 1 : p[i] = q[i + 1]
  BY Tailed
<1> HIDE DEF p, n
<1>2. \A i \in 1 .. Len(p) : i + 1 \in 1 .. n /\ p[i] = q[i + 1] /\ 1 < i + 1
  BY <1>1
<1>3. \A i \in 1 .. n : i = 1 \/ (i - 1 \in 1 .. Len(p) /\ p[i - 1] = q[i])
  BY <1>1
<1>4. 1 \in 1 .. n
  BY <1>1
<1>5. ASSUME NEW u, NEW d
      PROVE  Carries(q, u, d) <=> Carries(p, u, d) \/ (Head(q).type = u /\ Head(q).ch = d)
  <2>1. Carries(q, u, d) => Carries(p, u, d) \/ (Head(q).type = u /\ Head(q).ch = d)
    BY <1>1, <1>3 DEF Carries, n
  <2>2. Carries(p, u, d) => Carries(q, u, d)
    BY <1>2 DEF Carries, n
  <2>3. (Head(q).type = u /\ Head(q).ch = d) => Carries(q, u, d)
    BY <1>1, <1>4 DEF Carries, n
  <2> QED
    BY <2>1, <2>2, <2>3
<1>6. ASSUME NEW d
      PROVE  Mentions(q, d) <=> Mentions(p, d) \/ Head(q).ch = d
  <2>1. Mentions(q, d) => Mentions(p, d) \/ Head(q).ch = d
    BY <1>1, <1>3 DEF Mentions, n
  <2>2. Mentions(p, d) => Mentions(q, d)
    BY <1>2 DEF Mentions, n
  <2>3. Head(q).ch = d => Mentions(q, d)
    BY <1>1, <1>4 DEF Mentions, n
  <2> QED
    BY <2>1, <2>2, <2>3
<1>7. ASSUME NEW T, FirstIn(q, T) PROVE FirstIn(p, T) /\ \A t \in T : ~Carries(p, t, Head(q).ch)
  <2>1. ASSUME NEW i \in 1 .. Len(p), NEW j \in 1 .. Len(p), i < j, p[i].ch = p[j].ch
        PROVE  p[j].type \notin T
    <3>1. i + 1 < j + 1
      BY <1>1, <2>1
    <3> QED
      BY <1>2, <1>7, <2>1, <3>1 DEF FirstIn, n
  <2>2. \A i \in 1 .. Len(p) : p[i].ch = Head(q).ch => p[i].type \notin T
    BY <1>1, <1>2, <1>4, <1>7 DEF FirstIn, n
  <2> QED
    BY <2>1, <2>2 DEF FirstIn, Carries
<1> QED
  BY <1>5, <1>6, <1>7 DEF p

LEMMA CarriesMentions ==
  ASSUME NEW q, NEW t, NEW c, Carries(q, t, c)
  PROVE  Mentions(q, c)
BY DEF Carries, Mentions

\* A channel of which nothing changes.
LEMMA AgreedKept ==
  ASSUME NEW c, Agreed(c), Holds(c)' <=> Holds(c), Registers(c)' <=> Registers(c),
         \A t : Carries(serialOut', t, c) <=> Carries(serialOut, t, c),
         \A t : Carries(serialIn', t, c) <=> Carries(serialIn, t, c),
         Mentions(serialIn', c) => Mentions(serialIn, c),
         c \in hostOpen' <=> c \in hostOpen, c \in bad => c \in bad'
  PROVE  Agreed(c)'
BY DEF Agreed, Connecting, Leaving, Settled, Owned, Accepted

LEMMA HostKept ==
  ASSUME HostInv, UNCHANGED <<serialIn, serialOut, hostOpen, last>>, bad \subseteq bad',
         \A s \in Socks : /\ client'[s].channel = client[s].channel
                           /\ client'[s].registered = client[s].registered
  PROVE  HostInv'
<1>1. \A c : Holds(c)' <=> Holds(c)
  BY DEF Holds
<1>2. \A c : Registers(c)' <=> Registers(c)
  BY DEF Registers
<1> SUFFICES ASSUME HostParts PROVE HostParts'
  BY DEF HostInv, Wrapped
<1>3. Known'
  BY <1>1 DEF HostParts, Known
<1>4. \A c \in Channels : Agreed(c)'
  BY <1>1, <1>2, AgreedKept DEF HostParts
<1> QED
  BY <1>3, <1>4 DEF HostParts

LEMMA DataSent ==
  ASSUME HostParts, OutOK, NEW c \in Channels, Holds(c), serialOut' = Append(serialOut, Msg("data", c)),
         UNCHANGED <<client, serialIn, hostOpen, last, bad>>
  PROVE  HostParts'
<1>1. /\ \A t, d : Carries(serialOut', t, d) <=> Carries(serialOut, t, d) \/ (t = "data" /\ d = c)
      /\ \A d : Mentions(serialOut', d) <=> Mentions(serialOut, d) \/ d = c
      /\ FirstIn(serialOut', {"connect"})
  BY CarriesAppended DEF OutOK, HostParts, Types
<1>2. \A d : (Holds(d)' <=> Holds(d)) /\ (Registers(d)' <=> Registers(d))
  BY DEF Holds, Registers
<1>3. Known'
  BY <1>1, <1>2 DEF HostParts, Known
<1>4. ASSUME NEW d \in Channels PROVE Agreed(d)'
  <2>1. Agreed(d)
    BY DEF HostParts
  <2>2. /\ Carries(serialOut', "connect", d) <=> Carries(serialOut, "connect", d)
        /\ Carries(serialOut', "disconnect", d) <=> Carries(serialOut, "disconnect", d)
    BY <1>1
  <2> QED
    BY <1>2, <2>1, <2>2 DEF Agreed, Connecting, Leaving, Settled, Owned, Accepted
<1> QED
  BY <1>1, <1>3, <1>4 DEF HostParts

\* The channels of the other clients when s loses its own.
LEMMA OthersHold ==
  ASSUME ClientsOK, NEW s \in Socks, NEW d, d = client[s].channel,
         client'[s].channel = -1, ~client'[s].registered,
         \A u \in Socks : u # s => client'[u] = client[u]
  PROVE  /\ \A c \in Channels : c # d => (Holds(c)' <=> Holds(c)) /\ (Registers(c)' <=> Registers(c))
         /\ d # -1 => ~Holds(d)' /\ ~Registers(d)'
<1>1. \A c \in Channels : c # -1
  BY NumbersFacts DEF Channels
<1>2. ASSUME NEW c \in Channels, c # d
      PROVE  (Holds(c)' <=> Holds(c)) /\ (Registers(c)' <=> Registers(c))
  BY <1>1, <1>2 DEF Holds, Registers
<1>3. ASSUME d # -1 PROVE \A u \in Socks : client'[u].channel # d
  BY <1>3 DEF ClientsOK, UniqueChannels
<1> QED
  BY <1>2, <1>3 DEF Holds, Registers

\* A client leaves: thrown out, gone with its channel, or without one.
LEMMA ClientLeaves ==
  ASSUME HostParts, ClientsOK, OutOK, NEW s \in Socks, NEW d, d = client[s].channel,
         client'[s].channel = -1, ~client'[s].registered,
         \A u \in Socks : u # s => client'[u] = client[u],
         last \in Nat, last' \in Nat, last <= last', bad \subseteq bad',
         UNCHANGED <<serialIn, hostOpen>>,
         \/ d = -1 /\ UNCHANGED serialOut
         \/ d # -1 /\ d \in bad' /\ UNCHANGED serialOut
         \/ d # -1 /\ serialOut' = Append(serialOut, Msg("disconnect", d))
  PROVE  HostParts'
<1>1. d \in Channels \cup {-1}
  BY DEF ClientsOK, ClientType
<1>2. /\ \A c \in Channels : c # d => (Holds(c)' <=> Holds(c)) /\ (Registers(c)' <=> Registers(c))
      /\ d # -1 => ~Holds(d)' /\ ~Registers(d)'
  BY OthersHold
<1>3. /\ \A t, c : Carries(serialOut', t, c) <=>
           Carries(serialOut, t, c) \/ (serialOut' # serialOut /\ t = "disconnect" /\ c = d)
      /\ \A c : Mentions(serialOut', c) => Mentions(serialOut, c) \/ (d # -1 /\ c = d)
      /\ FirstIn(serialOut', {"connect"})
  <2>1. CASE UNCHANGED serialOut
    BY <2>1 DEF HostParts
  <2>2. CASE d # -1 /\ serialOut' = Append(serialOut, Msg("disconnect", d))
    <3>1. d \in Channels
      BY <1>1, <2>2
    <3>2. serialOut' # serialOut
      <4>1. Msg("disconnect", d) \in Messages
        BY <3>1, MsgIs DEF Types
      <4>2. Len(serialOut) \in Nat /\ Len(serialOut') = Len(serialOut) + 1
        BY <2>2, <4>1, Appended DEF OutOK
      <4> QED
        BY <4>2
    <3> QED
      BY <2>2, <3>1, <3>2, CarriesAppended DEF HostParts, OutOK, Types
  <2> QED
    BY <2>1, <2>2
<1>4. d # -1 => Holds(d)
  BY DEF Holds
<1>5. Known'
  <2>1. ASSUME NEW c \in Channels, Holds(c)' \/ Mentions(serialOut', c) \/ Mentions(serialIn', c)
        PROVE  c \in 1 .. last
    <3>1. CASE c = d
      <4>1. d # -1
        BY <3>1, NumbersFacts DEF Channels
      <4> QED
        BY <1>4, <3>1, <4>1 DEF HostParts, Known
    <3>2. CASE c # d
      <4>1. Holds(c) \/ Mentions(serialOut, c) \/ Mentions(serialIn, c)
        BY <1>2, <1>3, <2>1, <3>2
      <4> QED
        BY <4>1 DEF HostParts, Known
    <3> QED
      BY <3>1, <3>2
  <2>2. 1 .. last \subseteq 1 .. last'
    OBVIOUS
  <2> QED
    BY <2>1, <2>2 DEF HostParts, Known
<1>6. ASSUME NEW c \in Channels, c # d PROVE Agreed(c)'
  <2>1. Agreed(c)
    BY DEF HostParts
  <2>2. \A t : Carries(serialOut', t, c) <=> Carries(serialOut, t, c)
    BY <1>3, <1>6
  <2> QED
    BY <1>2, <1>6, <2>1, <2>2, AgreedKept
<1>7. ASSUME d \in Channels PROVE Agreed(d)'
  <2>1. Agreed(d) /\ d # -1
    BY <1>7, NumbersFacts DEF HostParts, Channels
  <2>2. ~Holds(d)' /\ ~Registers(d)'
    BY <1>2, <2>1
  <2>3. Carries(serialOut', "disconnect", d) \/ d \in bad'
    BY <1>3, <2>1
  <2>4. Carries(serialOut', "connect", d) => Carries(serialOut, "connect", d)
    BY <1>3
  <2> QED
    BY <2>1, <2>2, <2>3, <2>4 DEF Agreed, Connecting, Leaving, Settled, Owned, Accepted
<1> QED
  BY <1>3, <1>5, <1>6, <1>7 DEF HostParts

\* A client that has no channel takes one.
LEMMA ChannelTaken ==
  ASSUME HostParts, ClientsOK, OutOK, last \in Nat, NEW s \in Socks,
         client[s].channel = -1, ~client[s].registered,
         NEW c \in Channels, c > last, last' = c, client'[s].channel = c, ~client'[s].registered,
         \A u \in Socks : u # s => client'[u] = client[u],
         serialOut' = Append(serialOut, Msg("connect", c)),
         UNCHANGED <<serialIn, hostOpen, bad>>
  PROVE  HostParts'
<1>1. c \in Nat /\ c # -1 /\ c \notin 1 .. last
  BY NumbersFacts DEF Channels
<1>2. ~Holds(c) /\ c \notin hostOpen /\ ~Mentions(serialOut, c) /\ ~Mentions(serialIn, c)
  BY <1>1 DEF HostParts, Known
<1>3. /\ \A t, d : Carries(serialOut', t, d) <=> Carries(serialOut, t, d) \/ (t = "connect" /\ d = c)
      /\ \A d : Mentions(serialOut', d) <=> Mentions(serialOut, d) \/ d = c
      /\ FirstIn(serialOut', {"connect"})
  BY <1>2, CarriesAppended DEF OutOK, HostParts, Types
<1>4. ASSUME NEW d \in Channels, d # c
      PROVE  (Holds(d)' <=> Holds(d)) /\ (Registers(d)' <=> Registers(d))
  <2>1. d # -1
    BY NumbersFacts DEF Channels
  <2> QED
    BY <1>4, <2>1 DEF Holds, Registers
<1>5. Holds(c)' /\ ~Registers(c)'
  <2>1. \A u \in Socks : u # s => client'[u].channel # c
    BY <1>2 DEF Holds
  <2> QED
    BY <2>1 DEF Holds, Registers
<1>6. Known'
  <2>1. ASSUME NEW d \in Channels, d # c, Holds(d)' \/ Mentions(serialOut', d) \/ Mentions(serialIn', d)
        PROVE  d \in 1 .. last
    BY <1>3, <1>4, <2>1 DEF HostParts, Known
  <2>2. 1 .. last \subseteq 1 .. last' /\ c \in 1 .. last'
    BY <1>1
  <2> QED
    BY <2>1, <2>2 DEF HostParts, Known
<1>7. ASSUME NEW d \in Channels, d # c PROVE Agreed(d)'
  <2>1. Agreed(d)
    BY DEF HostParts
  <2>2. \A t : Carries(serialOut', t, d) <=> Carries(serialOut, t, d)
    BY <1>3, <1>7
  <2> QED
    BY <1>4, <1>7, <2>1, <2>2, AgreedKept
<1>8. Agreed(c)'
  <2>1. \A t : ~Carries(serialOut, t, c) /\ ~Carries(serialIn, t, c)
    BY <1>2, CarriesMentions
  <2>2. ~Carries(serialOut', "disconnect", c)
    BY <1>3, <2>1
  <2> QED
    BY <1>2, <1>5, <2>1, <2>2 DEF Agreed, Connecting, Leaving, Settled, Owned, Accepted
<1> QED
  BY <1>3, <1>6, <1>7, <1>8 DEF HostParts

\* The daemon takes the next message of the host.
LEMMA MessageTaken ==
  ASSUME HostParts, InOK, serialIn # <<>>, serialIn' = Tail(serialIn),
         NEW c \in Channels, c = Head(serialIn).ch, NEW k, k = Head(serialIn).type,
         UNCHANGED <<serialOut, last, hostOpen, bad>>,
         \A d \in Channels : d # c => (Holds(d)' <=> Holds(d)) /\ (Registers(d)' <=> Registers(d)),
         Holds(c)' => Holds(c),
         \/ k \in {"ko", "disconnect"} /\ ~Holds(c)' /\ ~Registers(c)'
         \/ ~Holds(c) /\ ~Registers(c) /\ ~Holds(c)' /\ ~Registers(c)'
         \/ k = "ok" /\ Holds(c) /\ Holds(c)' /\ Registers(c)'
         \/ k \in {"data", "ko:reason"} /\ (Holds(c)' <=> Holds(c)) /\ (Registers(c)' <=> Registers(c))
  PROVE  HostParts'
<1>1. /\ \A t, d : Carries(serialIn, t, d) <=> Carries(serialIn', t, d) \/ (k = t /\ c = d)
      /\ \A d : Mentions(serialIn, d) <=> Mentions(serialIn', d) \/ c = d
      /\ FirstIn(serialIn', {"ok", "ko"})
      /\ ~Carries(serialIn', "ok", c) /\ ~Carries(serialIn', "ko", c)
  BY CarriesTailed DEF HostParts, InOK
<1>2. Mentions(serialIn, c) /\ Carries(serialIn, k, c)
  BY <1>1
<1>3. Known'
  BY <1>1 DEF HostParts, Known
<1>4. ASSUME NEW d \in Channels, d # c PROVE Agreed(d)'
  <2>1. Agreed(d)
    BY DEF HostParts
  <2>2. \A t : Carries(serialIn', t, d) <=> Carries(serialIn, t, d)
    BY <1>1, <1>4
  <2>3. Mentions(serialIn', d) => Mentions(serialIn, d)
    BY <1>1
  <2> QED
    BY <1>4, <2>1, <2>2, <2>3, AgreedKept
<1>5. Agreed(c)'
  <2>1. Agreed(c)
    BY DEF HostParts
  <2>2. ~Carries(serialOut, "connect", c)
    BY <1>2, <2>1 DEF Agreed, Connecting
  <2>3. /\ Carries(serialIn', "disconnect", c) => Carries(serialIn, "disconnect", c)
        /\ k # "disconnect" => (Carries(serialIn', "disconnect", c) <=> Carries(serialIn, "disconnect", c))
    BY <1>1
  <2>4. CASE k \in {"ko", "disconnect"} /\ ~Holds(c)' /\ ~Registers(c)'
    <3>1. c \notin hostOpen
      BY <1>2, <2>1, <2>4 DEF Agreed, Owned
    <3> QED
      BY <2>2, <2>4, <3>1 DEF Agreed, Connecting, Leaving, Settled, Owned, Accepted
  <2>5. CASE ~Holds(c) /\ ~Registers(c) /\ ~Holds(c)' /\ ~Registers(c)'
    BY <1>1, <2>1, <2>2, <2>3, <2>5 DEF Agreed, Connecting, Leaving, Settled, Owned, Accepted
  <2>6. CASE k = "ok" /\ Holds(c) /\ Holds(c)' /\ Registers(c)'
    <3>1. Carries(serialIn, "ok", c)
      BY <1>2, <2>6
    <3>2. c \in hostOpen \/ Carries(serialIn', "disconnect", c)
      BY <2>1, <2>3, <2>6, <3>1 DEF Agreed, Accepted
    <3> QED
      BY <1>1, <2>1, <2>2, <2>3, <2>6, <3>2 DEF Agreed, Connecting, Leaving, Settled, Owned, Accepted
  <2>7. CASE k \in {"data", "ko:reason"} /\ (Holds(c)' <=> Holds(c)) /\ (Registers(c)' <=> Registers(c))
    <3>1. ~Carries(serialIn, "ok", c) /\ ~Carries(serialIn, "ko", c)
      BY <1>1, <2>7
    <3> QED
      BY <1>1, <2>1, <2>2, <2>3, <2>7, <3>1 DEF Agreed, Connecting, Leaving, Settled, Owned, Accepted
  <2> QED
    BY <2>4, <2>5, <2>6, <2>7
<1> QED
  BY <1>1, <1>3, <1>4, <1>5 DEF HostParts

LEMMA SerialHost ==
  ASSUME Consistent, HostParts, SerialEvent
  PROVE  HostParts'
<1>1. ClientsOK /\ InOK
  BY Parts
<1> DEFINE c == Head(serialIn).ch
           k == Head(serialIn).type
<1>2. /\ serialIn # <<>> /\ serialIn' = Tail(serialIn) /\ UNCHANGED <<serialOut, last, hostOpen, bad>>
      /\ c \in Channels /\ k \in Types
  BY SerialCases DEF Messages
<1>3. c # -1
  BY <1>2, NumbersFacts DEF Channels
<1>4. PICK c0 \in Channels, k0 \in Types : c0 = c /\ k0 = k
  BY <1>2
<1>5. /\ \/ OnChannel(c0) = {} /\ UNCHANGED client
         \/ \E s \in OnChannel(c0) :
              \/ k0 \in {"ok", "ko"} /\ client_registration(s, k0 = "ok")
              \/ k0 = "disconnect" /\ client_free(s)
              \/ k0 \in {"data", "ko:reason"} /\ UNCHANGED client
  BY <1>4, SerialCases
<1> SUFFICES /\ \A d \in Channels : d # c0 => (Holds(d)' <=> Holds(d)) /\ (Registers(d)' <=> Registers(d))
             /\ Holds(c0)' => Holds(c0)
             /\ \/ k0 \in {"ko", "disconnect"} /\ ~Holds(c0)' /\ ~Registers(c0)'
                \/ ~Holds(c0) /\ ~Registers(c0) /\ ~Holds(c0)' /\ ~Registers(c0)'
                \/ k0 = "ok" /\ Holds(c0) /\ Holds(c0)' /\ Registers(c0)'
                \/ k0 \in {"data", "ko:reason"} /\ (Holds(c0)' <=> Holds(c0)) /\ (Registers(c0)' <=> Registers(c0))
  BY <1>1, <1>2, <1>4, MessageTaken
<1>6. CASE UNCHANGED client /\ OnChannel(c0) = {}
  <2>1. ~Holds(c0) /\ ~Registers(c0)
    BY <1>1, <1>3, <1>4, <1>6 DEF Holds, Registers, OnChannel, ClientsOK, Channelled
  <2>2. \A d : (Holds(d)' <=> Holds(d)) /\ (Registers(d)' <=> Registers(d))
    BY <1>6 DEF Holds, Registers
  <2> QED
    BY <2>1, <2>2
<1>7. CASE UNCHANGED client /\ k0 \in {"data", "ko:reason"}
  <2>1. \A d : (Holds(d)' <=> Holds(d)) /\ (Registers(d)' <=> Registers(d))
    BY <1>7 DEF Holds, Registers
  <2> QED
    BY <1>7, <2>1
<1>8. ASSUME NEW s \in OnChannel(c0), k0 = "ok" /\ client_registration(s, k0 = "ok")
      PROVE  /\ \A d \in Channels : d # c0 => (Holds(d)' <=> Holds(d)) /\ (Registers(d)' <=> Registers(d))
             /\ Holds(c0) /\ Holds(c0)' /\ Registers(c0)'
  <2>1. s \in Socks /\ client[s].channel = c0
    BY DEF OnChannel
  <2>2. client' = [client EXCEPT ![s].registered = TRUE, ![s].channel = IF TRUE THEN @ ELSE -1]
    BY <1>8 DEF client_registration
  <2>3. /\ client'[s].registered = TRUE /\ client'[s].channel = c0
        /\ \A u \in Socks : u # s => client'[u] = client[u]
    BY <1>1, <2>1, <2>2, RegistrationSet DEF ClientsOK
  <2> QED
    BY <2>1, <2>3 DEF Holds, Registers
<1>9. ASSUME NEW s \in OnChannel(c0),
             (k0 = "ko" /\ client_registration(s, k0 = "ok")) \/ (k0 = "disconnect" /\ client_free(s))
      PROVE  /\ \A d \in Channels : d # c0 => (Holds(d)' <=> Holds(d)) /\ (Registers(d)' <=> Registers(d))
             /\ ~Holds(c0)' /\ ~Registers(c0)'
  <2>1. s \in Socks /\ client[s].channel = c0
    BY DEF OnChannel
  <2>2. /\ client'[s].channel = -1 /\ client'[s].registered = FALSE
        /\ \A u \in Socks : u # s => client'[u] = client[u]
    <3>1. CASE k0 = "ko" /\ client_registration(s, k0 = "ok")
      <4>1. client' = [client EXCEPT ![s].registered = FALSE, ![s].channel = IF FALSE THEN @ ELSE -1]
        BY <3>1 DEF client_registration
      <4> QED
        BY <1>1, <2>1, <4>1, RegistrationSet DEF ClientsOK
    <3>2. CASE client_free(s)
      BY <1>1, <2>1, <3>2, Freed DEF ClientsOK, client_free
    <3> QED
      BY <1>9, <3>1, <3>2
  <2> QED
    BY <1>1, <1>3, <1>4, <2>1, <2>2, OthersHold
<1> QED
  BY <1>5, <1>6, <1>7, <1>8, <1>9

LEMMA ReceivesHost ==
  ASSUME Consistent, HostParts, HostReceives
  PROVE  HostParts'
<1>1. OutOK /\ InOK
  BY Parts
<1>2. serialOut # <<>> /\ serialOut' = Tail(serialOut) /\ UNCHANGED <<client, last, bad>>
  BY DEF HostReceives
<1>3. PICK c, k : c = Head(serialOut).ch /\ k = Head(serialOut).type
  OBVIOUS
<1>4. c \in Channels
  <2>1. Head(serialOut) \in Messages
    BY <1>1, <1>2, Tailed DEF OutOK
  <2> QED
    BY <1>3, <2>1 DEF Messages
<1>5. /\ \A t, d : Carries(serialOut, t, d) <=> Carries(serialOut', t, d) \/ (k = t /\ c = d)
      /\ \A d : Mentions(serialOut, d) <=> Mentions(serialOut', d) \/ c = d
      /\ FirstIn(serialOut', {"connect"})
      /\ ~Carries(serialOut', "connect", c)
  BY <1>1, <1>2, <1>3, CarriesTailed DEF HostParts, OutOK
<1>6. \A d : (Holds(d)' <=> Holds(d)) /\ (Registers(d)' <=> Registers(d))
  BY <1>2 DEF Holds, Registers
<1>7. Agreed(c) /\ Carries(serialOut, k, c) /\ c \in 1 .. last
  <2>1. Mentions(serialOut, c)
    BY <1>5
  <2> QED
    BY <1>4, <1>5, <2>1 DEF HostParts, Known
<1>8. \/ k = "connect" /\ serialIn' = Append(serialIn, Msg("ok", c)) /\ hostOpen' = hostOpen \cup {c}
      \/ k = "connect" /\ serialIn' = Append(serialIn, Msg("ko", c)) /\ hostOpen' = hostOpen
      \/ k = "connect" /\ serialIn' = Append(serialIn, Msg("ko:reason", c)) /\ hostOpen' = hostOpen
      \/ k = "disconnect" /\ hostOpen' = hostOpen \ {c} /\ UNCHANGED serialIn
      \/ k = "data" /\ UNCHANGED <<hostOpen, serialIn>>
  BY <1>3 DEF HostReceives
<1>9. ASSUME k = "connect", NEW a \in {"ok", "ko", "ko:reason"}, serialIn' = Append(serialIn, Msg(a, c)),
             hostOpen' = IF a = "ok" THEN hostOpen \cup {c} ELSE hostOpen
      PROVE  HostParts'
  <2>1. ~Mentions(serialIn, c) /\ c \notin hostOpen /\ ~Registers(c)
    BY <1>7, <1>9 DEF Agreed, Connecting
  <2>2. /\ \A t, d : Carries(serialIn', t, d) <=> Carries(serialIn, t, d) \/ (t = a /\ d = c)
        /\ \A d : Mentions(serialIn', d) <=> Mentions(serialIn, d) \/ d = c
        /\ FirstIn(serialIn', {"ok", "ko"})
    BY <1>1, <1>4, <1>9, <2>1, CarriesAppended DEF HostParts, InOK, Types
  <2>3. Known'
    BY <1>2, <1>5, <1>6, <1>7, <1>9, <2>2 DEF HostParts, Known
  <2>4. ASSUME NEW d \in Channels, d # c PROVE Agreed(d)'
    <3>1. Agreed(d) /\ (d \in hostOpen' <=> d \in hostOpen)
      BY <1>9, <2>4 DEF HostParts
    <3>2. /\ \A t : Carries(serialOut', t, d) <=> Carries(serialOut, t, d)
          /\ \A t : Carries(serialIn', t, d) <=> Carries(serialIn, t, d)
          /\ Mentions(serialIn', d) => Mentions(serialIn, d)
      BY <1>5, <2>2, <2>4
    <3> QED
      BY <1>2, <1>6, <3>1, <3>2, AgreedKept
  <2>5. Agreed(c)'
    <3>1. \A t : ~Carries(serialIn, t, c)
      BY <2>1, CarriesMentions
    <3>2. /\ ~Carries(serialIn', "disconnect", c)
          /\ Carries(serialIn', "ok", c) <=> a = "ok"
          /\ Carries(serialIn', "ko", c) <=> a = "ko"
      BY <2>2, <3>1
    <3>3. Carries(serialOut', "disconnect", c) <=> Carries(serialOut, "disconnect", c)
      BY <1>5, <1>9
    <3>4. c \in hostOpen' <=> a = "ok"
      BY <1>9, <2>1
    <3>5. Holds(c) \/ Carries(serialOut, "disconnect", c) \/ c \in bad
      BY <1>7, <1>9 DEF Agreed, Connecting
    <3> QED
      BY <1>2, <1>5, <1>6, <1>7, <2>1, <3>2, <3>3, <3>4, <3>5
         DEF Agreed, Connecting, Leaving, Settled, Owned, Accepted
  <2> QED
    BY <1>5, <2>2, <2>3, <2>4, <2>5 DEF HostParts
<1>10. ASSUME k \in {"disconnect", "data"}, UNCHANGED serialIn,
              hostOpen' = IF k = "disconnect" THEN hostOpen \ {c} ELSE hostOpen
       PROVE  HostParts'
  <2>1. Known'
    BY <1>2, <1>5, <1>6, <1>10 DEF HostParts, Known
  <2>2. ASSUME NEW d \in Channels, d # c PROVE Agreed(d)'
    <3>1. Agreed(d) /\ (d \in hostOpen' <=> d \in hostOpen)
      BY <1>10, <2>2 DEF HostParts
    <3>2. \A t : Carries(serialOut', t, d) <=> Carries(serialOut, t, d)
      BY <1>5, <2>2
    <3> QED
      BY <1>2, <1>6, <1>10, <3>1, <3>2, AgreedKept
  <2>3. Agreed(c)'
    <3>1. CASE k = "data"
      <4>1. Carries(serialOut', "disconnect", c) <=> Carries(serialOut, "disconnect", c)
        BY <1>5, <3>1
      <4>2. hostOpen' = hostOpen
        BY <1>10, <3>1
      <4> QED
        BY <1>2, <1>5, <1>6, <1>7, <1>10, <4>1, <4>2 DEF Agreed, Connecting, Leaving, Settled, Owned, Accepted
    <3>2. CASE k = "disconnect"
      <4>1. ~Holds(c) /\ c \notin hostOpen'
        BY <1>7, <1>10, <3>2 DEF Agreed, Leaving
      <4>2. ~Registers(c)
        BY <4>1 DEF Holds, Registers
      <4> QED
        BY <1>5, <1>6, <4>1, <4>2 DEF Agreed, Connecting, Leaving, Settled, Owned, Accepted
    <3> QED
      BY <1>10, <3>1, <3>2
  <2>4. FirstIn(serialIn', {"ok", "ko"})
    BY <1>10 DEF HostParts
  <2> QED
    BY <1>5, <2>1, <2>2, <2>3, <2>4 DEF HostParts
<1>11. CASE k = "connect"
  BY <1>8, <1>9, <1>11
<1> QED
  BY <1>8, <1>10, <1>11

LEMMA SendsHost ==
  ASSUME Consistent, HostParts, HostSends
  PROVE  HostParts'
<1>1. InOK /\ RestOK
  BY Parts
<1>2. UNCHANGED <<client, serialOut, last, bad>>
  BY DEF HostSends
<1>3. PICK c \in hostOpen, k \in {"data", "disconnect"} :
        /\ serialIn' = Append(serialIn, Msg(k, c))
        /\ hostOpen' = IF k = "data" THEN hostOpen ELSE hostOpen \ {c}
  BY DEF HostSends
<1>4. c \in Channels /\ c \in 1 .. last /\ Agreed(c)
  BY <1>1, <1>3 DEF RestOK, HostParts, Known
<1>5. /\ \A t, d : Carries(serialIn', t, d) <=> Carries(serialIn, t, d) \/ (t = k /\ d = c)
      /\ \A d : Mentions(serialIn', d) <=> Mentions(serialIn, d) \/ d = c
      /\ FirstIn(serialIn', {"ok", "ko"})
  BY <1>1, <1>3, <1>4, CarriesAppended DEF HostParts, InOK, Types
<1>6. \A d : (Holds(d)' <=> Holds(d)) /\ (Registers(d)' <=> Registers(d))
  BY <1>2 DEF Holds, Registers
<1>7. Known'
  BY <1>2, <1>3, <1>4, <1>5, <1>6 DEF HostParts, Known
<1>8. ASSUME NEW d \in Channels, d # c PROVE Agreed(d)'
  <2>1. Agreed(d) /\ (d \in hostOpen' <=> d \in hostOpen)
    BY <1>3, <1>8 DEF HostParts
  <2>2. /\ \A t : Carries(serialIn', t, d) <=> Carries(serialIn, t, d)
        /\ Mentions(serialIn', d) => Mentions(serialIn, d)
    BY <1>5, <1>8
  <2> QED
    BY <1>2, <1>6, <2>1, <2>2, AgreedKept
<1>9. Agreed(c)'
  <2>1. ~Carries(serialOut, "connect", c)
    BY <1>3, <1>4 DEF Agreed, Connecting
  <2>2. /\ Carries(serialIn', "ok", c) <=> Carries(serialIn, "ok", c)
        /\ Carries(serialIn', "ko", c) <=> Carries(serialIn, "ko", c)
        /\ Carries(serialIn', "disconnect", c) <=> Carries(serialIn, "disconnect", c) \/ k = "disconnect"
        /\ c \in hostOpen' <=> k = "data"
    BY <1>3, <1>5
  <2> QED
    BY <1>2, <1>3, <1>4, <1>6, <2>1, <2>2 DEF Agreed, Connecting, Leaving, Settled, Owned, Accepted
<1>10. FirstIn(serialOut', {"connect"})
  BY <1>2 DEF HostParts
<1> QED
  BY <1>5, <1>7, <1>8, <1>9, <1>10 DEF HostParts

LEMMA InEventHost ==
  ASSUME Consistent, HostInv, NEW s \in Socks, InEvent(s)
  PROVE  HostInv'
<1>1. ClientsOK /\ OutOK /\ RestOK
  BY Parts
<1>2. UNCHANGED <<serialIn, hostOpen>>
  BY DEF InEvent, hostVars
<1>3. last \in Nat /\ MaxLast \in Nat /\ NumChannels \in Nat
  BY <1>1, NumbersFacts DEF RestOK
<1>4. CASE UNCHANGED <<client, handler, out, lost, last, bad, serialOut>>
  BY <1>2, <1>4, HostKept
<1> DEFINE c == client[s].channel
<1>5. c \in Channels \cup {-1} /\ client[s].user = "open" /\ client[s] \in ClientType
  BY <1>1 DEF ClientsOK, ClientType, HandlersMatchClients, InEvent
<1>6. CASE client[s].registered /\ serialOut' = Append(serialOut, Msg("data", c))
                                /\ UNCHANGED <<client, handler, out, lost, last, bad>>
  <2>1. PICK d : d = c
    OBVIOUS
  <2>2. d \in Channels /\ Holds(d)
    BY <1>1, <1>5, <1>6, <2>1 DEF ClientsOK, Channelled, Holds
  <2>3. HostParts => HostParts'
    BY <1>1, <1>2, <1>6, <2>1, <2>2, DataSent
  <2> QED
    BY <1>6, <2>3 DEF HostInv, Wrapped
<1>7. CASE c > 0 /\ client_free(s) /\ bad' = bad \cup {c} /\ UNCHANGED <<serialOut, last>>
  <2>1. /\ client'[s].channel = -1 /\ client'[s].registered = FALSE
        /\ \A u \in Socks : u # s => client'[u] = client[u]
    BY <1>1, <1>7, Freed DEF ClientsOK, client_free
  <2>2. PICK d : d = c
    OBVIOUS
  <2>3. d # -1 /\ d \in bad' /\ bad \subseteq bad' /\ last' \in Nat /\ last <= last'
    BY <1>3, <1>7, <2>2
  <2>4. HostParts => HostParts'
    BY <1>1, <1>2, <1>3, <1>7, <2>1, <2>2, <2>3, ClientLeaves
  <2> QED
    BY <1>7, <2>4 DEF HostInv, Wrapped
<1>8. ASSUME HostParts, ~client[s].registered, c <= 0 PROVE c = -1
  <2>1. c \in Channels => Holds(c)
    BY DEF Holds
  <2>2. c \in Channels => c \in 1 .. last
    BY <1>8, <2>1 DEF HostParts, Known
  <2> QED
    BY <1>3, <1>5, <1>8, <2>2
<1>9. ASSUME ~client[s].registered, c <= 0, NextChannel <= MaxLast, last' = NextChannel, ~Wrapped',
             (multiplexer_open_channel(s) /\ UNCHANGED <<handler, out, lost, bad>>) \/ NameTooLong(s)
      PROVE  HostParts'
  <2>1. NextChannel \in Nat /\ NextChannel > last /\ NextChannel < NumChannels
    BY <1>3, <1>9, NextFree DEF Wrapped
  <2>2. NextChannel % NumChannels = NextChannel /\ NextChannel \in Channels
    BY <2>1, Remainder
  <2>3. HostParts
    BY <1>3, <1>9, <2>1 DEF HostInv, Wrapped
  <2>4. c = -1
    BY <1>8, <1>9, <2>3
  <2>5. PICK d : d = NextChannel
    OBVIOUS
  <2>6. CASE multiplexer_open_channel(s) /\ UNCHANGED <<handler, out, lost, bad>>
    <3>1. client' = [client EXCEPT ![s].channel = d] /\ serialOut' = Append(serialOut, Msg("connect", d))
      BY <2>2, <2>5, <2>6 DEF multiplexer_open_channel
    <3>2. d \in Channels /\ d \in Channels \cup {-1} /\ d > last /\ last' = d
      BY <1>9, <2>1, <2>2, <2>5
    <3>3. /\ client'[s].channel = d /\ client'[s].registered = client[s].registered
          /\ \A u \in Socks : u # s => client'[u] = client[u]
      BY <1>1, <3>1, <3>2, ChannelSet DEF ClientsOK
    <3> QED
      BY <1>1, <1>2, <1>3, <1>9, <2>3, <2>4, <2>6, <3>1, <3>2, <3>3, ChannelTaken
  <2>7. CASE NameTooLong(s)
    <3>1. /\ client'[s].channel = -1 /\ client'[s].registered = FALSE
          /\ \A u \in Socks : u # s => client'[u] = client[u]
      BY <1>1, <2>7, Freed DEF ClientsOK, client_free, NameTooLong
    <3>2. UNCHANGED serialOut /\ bad \subseteq bad' /\ last' \in Nat /\ last <= last'
      BY <1>3, <1>9, <2>1, <2>7 DEF NameTooLong
    <3> QED
      BY <1>1, <1>2, <1>3, <2>3, <2>4, <3>1, <3>2, ClientLeaves
  <2> QED
    BY <1>9, <2>6, <2>7
<1>10. CASE ~client[s].registered /\ c <= 0
            /\ ((multiplexer_open_channel(s) /\ UNCHANGED <<handler, out, lost, bad>>) \/ NameTooLong(s))
  <2>1. NextChannel <= MaxLast /\ last' = NextChannel
    BY <1>10 DEF multiplexer_open_channel, NameTooLong
  <2> QED
    BY <1>9, <1>10, <2>1 DEF HostInv
<1> QED
  BY <1>4, <1>6, <1>7, <1>10 DEF InEvent, client_fd_receive

LEMMA HupEventHost ==
  ASSUME Consistent, HostInv, NEW s \in Socks, HupEvent(s)
  PROVE  HostInv'
<1>1. ClientsOK /\ OutOK /\ RestOK
  BY Parts
<1>2. fdhandler_close(s) /\ UNCHANGED <<serialIn, hostOpen, last, bad>>
  BY DEF HupEvent, hostVars
<1>3. last \in Nat /\ last <= last
  BY <1>1, NumbersFacts DEF RestOK
<1>4. CASE handler[s] = "active"
  <2>1. client_fd_close(s)
    BY <1>2, <1>4 DEF fdhandler_close
  <2>2. /\ client'[s].channel = -1 /\ client'[s].registered = FALSE
        /\ \A u \in Socks : u # s => client'[u] = client[u]
    BY <1>1, <2>1, Freed DEF ClientsOK, client_fd_close
  <2>3. PICK d : d = client[s].channel
    OBVIOUS
  <2>4. d \in Channels \cup {-1}
    BY <1>1, <2>3 DEF ClientsOK, ClientType
  <2>5. ASSUME HostParts PROVE HostParts'
    <3>1. d # -1 => d > 0
      <4>1. d \in Channels => Holds(d)
        BY <2>3 DEF Holds
      <4>2. d \in Channels => d \in 1 .. last
        BY <2>5, <4>1 DEF HostParts, Known
      <4> QED
        BY <1>3, <2>4, <4>2
    <3>2. \/ d = -1 /\ UNCHANGED serialOut
          \/ d # -1 /\ serialOut' = Append(serialOut, Msg("disconnect", d))
      <4>1. ~(-1 > 0)
        OBVIOUS
      <4> QED
        BY <2>1, <2>3, <3>1, <4>1 DEF client_fd_close
    <3> QED
      BY <1>1, <1>2, <1>3, <2>2, <2>3, <2>5, <3>2, ClientLeaves
  <2> QED
    BY <1>2, <2>5 DEF HostInv, Wrapped
<1>5. CASE handler[s] # "active"
  BY <1>2, <1>5, HostKept DEF fdhandler_close
<1> QED
  BY <1>4, <1>5

LEMMA StepHost == Consistent /\ HostInv /\ [Next]_vars => HostInv'
<1> SUFFICES ASSUME Consistent, HostInv, [Next]_vars PROVE HostInv'
  OBVIOUS
<1>1. CASE \E s \in Socks : InEvent(s) \/ HupEvent(s)
  BY <1>1, InEventHost, HupEventHost
<1>2. CASE SerialEvent \/ HostReceives \/ HostSends
  <2>1. HostParts => HostParts'
    BY <1>2, SerialHost, ReceivesHost, SendsHost
  <2>2. UNCHANGED last
    BY <1>2 DEF SerialEvent, HostReceives, HostSends
  <2> QED
    BY <2>1, <2>2 DEF HostInv, Wrapped
<1>3. CASE \/ Wait \/ ClientWrites \/ ClientCloses \/ UNCHANGED vars
           \/ \E s \in Socks : OutEvent(s) \/ InNothing(s) \/ Dangling(s)
  <2>1. UNCHANGED <<client, serialIn, serialOut, hostOpen, last, bad>>
    BY <1>3 DEF Wait, ClientWrites, ClientCloses, OutEvent, InNothing, Dangling, hostVars, vars
  <2> QED
    BY <2>1, HostKept
<1>4. CASE Accept
  <2>1. UNCHANGED <<serialIn, serialOut, hostOpen, last, bad>>
    BY <1>4 DEF Accept, hostVars
  <2>2. PICK s \in Socks : client' = [client EXCEPT ![s].user = "open"]
    BY <1>4 DEF Accept
  <2>3. client \in [Socks -> ClientType]
    BY Parts DEF ClientsOK
  <2>4. /\ client'[s].channel = client[s].channel /\ client'[s].registered = client[s].registered
        /\ \A u \in Socks : u # s => client'[u] = client[u]
    BY <2>2, <2>3, UserSet
  <2>5. \A u \in Socks : /\ client'[u].channel = client[u].channel
                           /\ client'[u].registered = client[u].registered
    BY <2>4
  <2> QED
    BY <2>1, <2>5, HostKept
<1> QED
  BY <1>1, <1>2, <1>3, <1>4 DEF Next, Loop, FdEvent

LEMMA InitHost == Init => HostInv
<1> SUFFICES ASSUME Init PROVE HostParts
  BY DEF HostInv
<1>1. \A q : q = <<>> => 1 .. Len(q) = {}
  OBVIOUS
<1>2. \A t, c : ~Carries(serialOut, t, c) /\ ~Carries(serialIn, t, c)
  BY <1>1 DEF Init, Carries
<1>3. \A c : ~Mentions(serialOut, c) /\ ~Mentions(serialIn, c)
  BY <1>1 DEF Init, Mentions
<1>4. FirstIn(serialOut, {"connect"}) /\ FirstIn(serialIn, {"ok", "ko"})
  BY <1>1 DEF Init, FirstIn
<1>5. \A s \in Socks : client[s].channel = -1 /\ client[s].registered = FALSE
  BY DEF Init, Nobody
<1>6. \A c \in Channels : ~Holds(c) /\ ~Registers(c)
  BY <1>5, NumbersFacts DEF Holds, Registers, Channels
<1>7. hostOpen = {}
  BY DEF Init
<1>8. Known
  BY <1>3, <1>6, <1>7 DEF Known
<1>9. ASSUME NEW c \in Channels PROVE Agreed(c)
  BY <1>2, <1>6, <1>7 DEF Agreed, Connecting, Leaving, Settled, Owned, Accepted
<1> QED
  BY <1>4, <1>8, <1>9 DEF HostParts

LEMMA HostInvAgrees == Consistent /\ HostInv => HostAgrees
<1> SUFFICES ASSUME Consistent, HostInv, Quiet, ~Wrapped
             PROVE  LET Registered == {client[s].channel : s \in {t \in Socks : client[t].registered}}
                    IN Registered \subseteq hostOpen /\ hostOpen \ Registered \subseteq bad
  BY DEF HostAgrees
<1>1. HostParts /\ ClientsOK /\ RestOK
  BY Parts DEF HostInv
<1>2. \A t, c : ~Carries(serialOut, t, c) /\ ~Carries(serialIn, t, c)
  <2>1. 1 .. Len(serialOut) = {} /\ 1 .. Len(serialIn) = {}
    BY DEF Quiet
  <2> QED
    BY <2>1 DEF Carries
<1>3. ASSUME NEW s \in Socks, client[s].registered PROVE client[s].channel \in hostOpen
  <2>1. PICK c : c = client[s].channel
    OBVIOUS
  <2>2. c \in Channels /\ Registers(c)
    BY <1>1, <1>3, <2>1 DEF ClientsOK, Channelled, ClientType, Registers
  <2>3. Settled(c)
    BY <1>1, <2>2 DEF HostParts, Agreed
  <2> QED
    BY <1>2, <2>1, <2>2, <2>3 DEF Settled
<1>4. ASSUME NEW c \in hostOpen PROVE Registers(c) \/ c \in bad
  <2>1. c \in Channels
    BY <1>1 DEF RestOK
  <2>2. Owned(c)
    BY <1>1, <2>1 DEF HostParts, Agreed
  <2> QED
    BY <1>2, <1>4, <2>2 DEF Owned
<1> QED
  BY <1>3, <1>4 DEF Registers

\* When nothing is under way, and until the channel numbers wrap, the host has open
\* exactly the channels of the registered clients and of those that were thrown out
\* while they registered (client_fd_receive frees them without a word to the host).
THEOREM HostAlwaysAgrees == Spec => []HostAgrees
<1>1. Init => Consistent /\ HostInv
  BY InitConsistent, InitHost
<1> QED
  BY <1>1, StepConsistent, StepHost, HostInvAgrees, PTL DEF Spec
================================================================================
