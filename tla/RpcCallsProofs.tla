---------------------------- MODULE RpcCallsProofs -----------------------------
(***************************************************************************)
(* For any number of calling threads, methods, calls and connections of    *)
(* the guest: the WaitHandles balance with the cache of pending calls, the  *)
(* cache has no pointer to a call that came back in time, a call that comes *)
(* back in time has its own answer unless an id was drawn twice, and the    *)
(* reading thread meets no result without a call.                           *)
(***************************************************************************)
EXTENDS RpcCalls, FiniteSetTheorems, TLAPS

\* Threads whose id is still to be stored.
Drawing == {t \in Callers : pc[t] \in {"read_id", "store_id"}}

\* Ids lag behind calls: no id is drawn without a call, although a stale value
\* may be stored.
IdsLag == /\ nextId + Cardinality(Drawing) <= calls
          /\ \A t \in Callers : pc[t] = "store_id" => id[t] + Cardinality(Drawing) <= calls

\* Tags are numbers of calls, and no two threads have the same.
TagsOwn == /\ \A t \in Callers : tag[t] <= calls /\ (pc[t] # "idle" => tag[t] # NoTag)
           /\ \A t, u \in Callers : t # u /\ tag[t] = tag[u] => tag[t] = NoTag
           /\ \A i \in DOMAIN pending : pending[i].tag <= calls
           /\ \A r \in requests \cup results \cup {ioResult} : r.tag <= calls

\* A thread's current call is in the cache only once it was saved, and not when its
\* wait has ended in time.
InTime == \A i \in DOMAIN pending, t \in Callers :
  pending[i].caller = t /\ pending[i].tag = tag[t] =>
    /\ pending[i].method = method[t]
    /\ pc[t] \notin {"read_id", "store_id", "save"}
    /\ pc[t] = "check" => timedOut[t]

\* An id is used with a tag: by a thread, in the cache, or in a message.
Uses(i, g) == \/ \E t \in Callers : pc[t] \notin {"idle", "read_id"} /\ id[t] = i /\ tag[t] = g
              \/ i \in DOMAIN pending /\ pending[i].tag = g
              \/ \E r \in requests \cup results : r.id = i /\ r.tag = g
              \/ ioPc = "complete" /\ ioResult.id = i /\ ioResult.tag = g

AnyTag == Tags \cup {NoTag}

\* Without a clash an id stands for one call, ...
IdsUnique == ~clash =>
  /\ \A i \in Ids, g \in AnyTag : Uses(i, g) => i \in drawn
  /\ \A i \in Ids, g, h \in AnyTag : Uses(i, g) /\ Uses(i, h) => g = h

\* ... nothing is on the wire before it was sent, ...
NotSent == \A t \in Callers : pc[t] \in {"read_id", "store_id", "save", "send"} =>
  \A r \in requests \cup results \cup {ioResult} : r.tag # tag[t]

Entry(t) == [tag |-> tag[t], caller |-> t, method |-> method[t]]

\* ... and a call that was saved is in the cache until its answer is in place.
Awaited == ~clash =>
  /\ linkUp => \A t \in Callers : via[t] = link /\ pc[t] \in {"send", "wait", "check"} =>
       response[t] = tag[t] \/ (id[t] \in DOMAIN pending /\ pending[id[t]] = Entry(t))
  /\ ioPc = "complete" /\ ioResult.id \in DOMAIN pending /\ Alive(pending[ioResult.id]) =>
       response[pending[ioResult.id].caller] = pending[ioResult.id].tag

Returned == \A t \in Callers : outcome[t] = "returned" => pc[t] = "idle"

\* A thread entered the Channel of today or one before it.
ViaBehind == \A t \in Callers : via[t] <= link

Base == TypeOK /\ IdsLag /\ TagsOwn
Accounted == Base /\ ResultsOwed
CacheInv == Accounted /\ InTime /\ NoDanglingRequest
\* Steps that leave calls, cache and wire alone.
Quiet == on_read_error \/ (\E t \in Callers : UseFreedChannel(t)) \/ UNCHANGED vars

AnswerInv == CacheInv /\ IdsUnique /\ NotSent /\ ViaBehind /\ Awaited /\ Returned /\ OwnAnswer
--------------------------------------------------------------------------------
(* Types, ids and tags. *)

\* Sets of threads and of ids can be counted.
LEMMA Countable ==
  /\ \A S \in SUBSET Callers : IsFiniteSet(S) /\ Cardinality(S) \in Nat
  /\ \A S \in SUBSET Ids : IsFiniteSet(S) /\ Cardinality(S) \in Nat
<1>1. IsFiniteSet(Callers) /\ IsFiniteSet(Ids)
  BY CallsAssumption, FS_Interval DEF Ids
<1> QED
  BY <1>1, FS_Subset, FS_CardinalityType

LEMMA AddOne ==
  ASSUME NEW S, NEW x, IsFiniteSet(S)
  PROVE  x \notin S => Cardinality(S \cup {x}) = Cardinality(S) + 1
BY FS_AddElement

LEMMA RemoveOne ==
  ASSUME NEW S, NEW x, IsFiniteSet(S)
  PROVE  x \in S => Cardinality(S \ {x}) = Cardinality(S) - 1
BY FS_RemoveElement

\* The types of what is counted.
LEMMA Numbers ==
  ASSUME TypeOK
  PROVE  /\ MaxCalls \in Nat /\ calls \in Nat /\ calls <= MaxCalls /\ nextId \in Nat
         /\ \A u \in Callers : id[u] \in Nat /\ tag[u] \in Nat
         /\ \A m \in Methods : expecting[m] \in Nat /\ received[m] \in Nat /\ lost[m] \in Nat
         /\ \A i \in DOMAIN pending : i \in Ids /\ pending[i].tag \in Nat
         /\ \A r \in requests \cup results \cup {ioResult} : r.tag \in Nat
<1>1. /\ calls \in 0 .. MaxCalls /\ nextId \in Ids /\ id \in [Callers -> Ids]
      /\ tag \in [Callers -> Tags \cup {NoTag}]
      /\ expecting \in [Methods -> Nat] /\ received \in [Methods -> Nat] /\ lost \in [Methods -> Nat]
  BY DEF TypeOK
<1>2. Ids \subseteq Nat /\ Tags \cup {NoTag} \subseteq Nat
  BY CallsAssumption DEF Ids, Tags, NoTag
<1>3. \A u \in Callers : id[u] \in Nat /\ tag[u] \in Nat
  BY <1>1, <1>2
<1>4. MaxCalls \in Nat /\ calls \in Nat /\ calls <= MaxCalls
  BY <1>1, CallsAssumption
<1>5. \A i \in DOMAIN pending : i \in Ids /\ pending[i].tag \in Tags
  <2>1. /\ DOMAIN pending \subseteq Ids
        /\ \A i \in DOMAIN pending : pending[i] \in [tag : Tags, caller : Callers, method : Methods]
    BY DEF TypeOK
  <2> QED
    BY <2>1
<1>6. \A r \in requests \cup results \cup {ioResult} : r.tag \in Tags \cup {NoTag}
  <2>1. requests \subseteq Messages /\ results \subseteq Messages /\ ioResult \in Messages \cup {NoMessage}
    BY DEF TypeOK
  <2> QED
    BY <2>1 DEF Messages, NoMessage
<1>7. \A m \in Methods : expecting[m] \in Nat /\ received[m] \in Nat /\ lost[m] \in Nat
  BY <1>1
<1> QED
  BY <1>1, <1>2, <1>3, <1>4, <1>5, <1>6, <1>7

\* A counter of a WaitHandle is incremented.
LEMMA Incremented ==
  ASSUME NEW f \in [Methods -> Nat], NEW m
  PROVE  /\ [f EXCEPT ![m] = @ + 1] \in [Methods -> Nat]
         /\ \A n \in Methods : [f EXCEPT ![m] = @ + 1][n] = IF n = m THEN f[n] + 1 ELSE f[n]
<1> DEFINE g == [f EXCEPT ![m] = @ + 1]
<1>1. \A n \in Methods : g[n] = IF n = m THEN f[n] + 1 ELSE f[n]
  OBVIOUS
<1>2. \A n \in Methods : f[n] \in Nat
  OBVIOUS
<1>3. \A n \in Methods : g[n] \in Nat
  BY <1>1, <1>2
<1>4. g = [n \in Methods |-> g[n]]
  OBVIOUS
<1> HIDE DEF g
<1>5. g \in [Methods -> Nat]
  BY <1>3, <1>4
<1> QED
  BY <1>1, <1>5 DEF g

LEMMA InitBase == Init => Base
<1> SUFFICES ASSUME Init PROVE Base
    OBVIOUS
<1>1. Drawing = {} /\ Cardinality(Drawing) = 0
  BY FS_EmptySet DEF Init, Drawing
<1>2. DOMAIN pending = {}
  BY DEF Init
<1>3. TypeOK
  <2>1. nextId \in Ids /\ calls \in 0 .. MaxCalls /\ id \in [Callers -> Ids]
    BY CallsAssumption DEF Init, Ids
  <2>2. /\ expecting \in [Methods -> Nat] /\ received \in [Methods -> Nat] /\ lost \in [Methods -> Nat]
        /\ link \in Links /\ via \in [Callers -> Links]
    BY CallsAssumption DEF Init, Links
  <2> QED
    BY <1>2, <2>1, <2>2 DEF Init, TypeOK
<1>4. TagsOwn
  <2>1. \A r \in requests \cup results \cup {ioResult} : r.tag <= calls
    BY DEF Init, NoMessage, NoTag
  <2> QED
    BY <1>2, <2>1 DEF Init, TagsOwn, NoTag
<1> QED
  BY <1>1, <1>3, <1>4 DEF Init, Base, IdsLag

LEMMA CallBase ==
  ASSUME Base, NEW t \in Callers, NEW m \in Methods, Call(t, m)
  PROVE  Base'
<1> USE DEF Base
<1>1. /\ calls \in Nat /\ calls' = calls + 1 /\ calls' \in 0 .. MaxCalls /\ calls' \in Tags
      /\ pc[t] = "idle"
  BY Numbers DEF Call, Tags
<1>2. TypeOK'
  <2>1. pc' \in [Callers -> {"idle", "read_id", "store_id", "save", "send", "wait", "check"}]
    BY DEF Call, TypeOK
  <2>2. tag' \in [Callers -> Tags \cup {NoTag}] /\ response' \in [Callers -> Tags \cup {NoTag}]
    BY <1>1 DEF Call, TypeOK
  <2>3. expecting' \in [Methods -> Nat]
    <3>1. expecting' = [expecting EXCEPT ![m] = @ + 1] /\ expecting \in [Methods -> Nat]
      BY DEF Call, expect_result, TypeOK
    <3> QED
      BY <3>1, Incremented
  <2>4. /\ method' \in [Callers -> Methods] /\ timedOut' \in [Callers -> BOOLEAN]
        /\ outcome' \in [Callers -> {"none", "returned", "timed out", "disconnected"}]
    BY DEF Call, TypeOK
  <2> QED
    BY <1>1, <2>1, <2>2, <2>3, <2>4 DEF Call, TypeOK, linkVars, idVars, wireVars, ioVars
<1>3. IdsLag'
  <2>1. Drawing' = Drawing \cup {t} /\ t \notin Drawing
    BY DEF Call, TypeOK, Drawing
  <2>2. IsFiniteSet(Drawing) /\ Cardinality(Drawing) \in Nat
    BY Countable DEF Drawing
  <2>3. Cardinality(Drawing') = Cardinality(Drawing) + 1
    BY <2>1, <2>2, AddOne
  <2>4. nextId' = nextId /\ id' = id /\ \A u \in Callers : pc'[u] = "store_id" => pc[u] = "store_id"
    BY DEF Call, TypeOK, linkVars, idVars
  <2>5. nextId \in Nat /\ \A u \in Callers : id[u] \in Nat
    BY Numbers
  <2> QED
    BY <1>1, <2>2, <2>3, <2>4, <2>5 DEF IdsLag
<1>4. TagsOwn'
  <2>1. \A u \in Callers : tag'[u] = IF u = t THEN calls + 1 ELSE tag[u]
    BY DEF Call, TypeOK
  <2>2. \A u \in Callers : u # t => pc'[u] = pc[u]
    BY DEF Call, TypeOK
  <2>3. UNCHANGED <<pending, requests, results, ioResult>>
    BY DEF Call, wireVars, ioVars
  <2>4. /\ \A u \in Callers : tag[u] \in Nat
        /\ \A i \in DOMAIN pending : pending[i].tag \in Nat
        /\ \A r \in requests \cup results \cup {ioResult} : r.tag \in Nat
    BY Numbers
  <2> QED
    BY <1>1, <2>1, <2>2, <2>3, <2>4 DEF TagsOwn, NoTag
<1> QED
  BY <1>2, <1>3, <1>4

LEMMA IdBase ==
  ASSUME Base, NEW t \in Callers, ReadNextId(t) \/ StoreNextId(t)
  PROVE  Base'
<1> USE DEF Base
<1>1. /\ calls \in Nat /\ calls <= MaxCalls /\ nextId \in Nat /\ MaxCalls \in Nat
      /\ \A u \in Callers : id[u] \in Nat
  BY Numbers
<1>2. IsFiniteSet(Drawing) /\ Cardinality(Drawing) \in Nat
  BY Countable DEF Drawing
<1>3. TagsOwn'
  <2>1. UNCHANGED <<calls, tag, pending, requests, results, ioResult>>
    BY DEF ReadNextId, StoreNextId, wireVars, ioVars
  <2>2. \A u \in Callers : pc'[u] # "idle" => pc[u] # "idle"
    BY DEF ReadNextId, StoreNextId, TypeOK
  <2> QED
    BY <2>1, <2>2 DEF TagsOwn
<1>4. CASE ReadNextId(t)
  <2>1. TypeOK'
    BY <1>4 DEF ReadNextId, TypeOK, linkVars, handleVars, wireVars, ioVars
  <2>2. Drawing' = Drawing
    BY <1>4 DEF ReadNextId, TypeOK, Drawing
  <2>3. \A u \in Callers : pc'[u] = "store_id" =>
          id'[u] = nextId \/ (pc[u] = "store_id" /\ id'[u] = id[u])
    BY <1>4 DEF ReadNextId, TypeOK
  <2>4. IdsLag'
    BY <1>1, <1>2, <1>4, <2>2, <2>3 DEF IdsLag, ReadNextId
  <2> QED
    BY <1>3, <2>1, <2>4
<1>5. CASE StoreNextId(t)
  <2>1. Drawing' = Drawing \ {t} /\ t \in Drawing
    BY <1>5 DEF StoreNextId, TypeOK, Drawing
  <2>2. Cardinality(Drawing') = Cardinality(Drawing) - 1 /\ Cardinality(Drawing') \in Nat
    BY <1>2, <2>1, RemoveOne, Countable DEF Drawing
  <2>3. nextId' = id[t] + 1 /\ id[t] + Cardinality(Drawing) <= calls
    BY <1>5 DEF StoreNextId, IdsLag
  <2>4. \A u \in Callers : pc'[u] = "store_id" => pc[u] = "store_id"
    BY <1>5 DEF StoreNextId, TypeOK
  <2>5. IdsLag'
    BY <1>1, <1>2, <1>5, <2>2, <2>3, <2>4 DEF IdsLag, StoreNextId
  <2>6. nextId' \in Ids
    BY <1>1, <1>2, <2>2, <2>3 DEF Ids
  <2>7. TypeOK'
    BY <1>5, <2>6 DEF StoreNextId, TypeOK, linkVars, handleVars, wireVars, ioVars
  <2> QED
    BY <1>3, <2>5, <2>7
<1> QED
  BY <1>4, <1>5

\* The steps after the id was drawn do not touch what IdsLag is about.
LEMMA LagKept ==
  ASSUME Base, UNCHANGED <<calls, nextId, id>>,
         \A u \in Callers : pc'[u] = pc[u] \/ {pc[u], pc'[u]} \cap {"read_id", "store_id"} = {}
  PROVE  IdsLag'
<1>1. Drawing' = Drawing
  BY DEF Drawing
<1> QED
  BY <1>1 DEF Base, IdsLag

LEMMA SaveBase ==
  ASSUME Base, NEW t \in Callers, save_completion_details(t)
  PROVE  Base'
<1> USE DEF Base
<1>1. /\ pc[t] = "save"
      /\ pc' = [pc EXCEPT ![t] = "send"]
      /\ UNCHANGED <<linkVars, idVars, calls, method, tag, id, via, response, timedOut, outcome, handleVars,
                     wireVars, ioVars, abandoned>>
  BY DEF save_completion_details
<1>2. /\ DOMAIN pending' = DOMAIN pending \cup {id[t]}
      /\ pending'[id[t]] = Entry(t)
      /\ \A i \in DOMAIN pending : i # id[t] => pending'[i] = pending[i]
  BY DEF save_completion_details, Entry
<1>3. tag[t] \in Tags /\ id[t] \in Ids /\ method[t] \in Methods /\ tag[t] <= calls
  BY <1>1 DEF TypeOK, TagsOwn
<1>4. Entry(t) \in [tag : Tags, caller : Callers, method : Methods] /\ Entry(t).tag = tag[t]
  BY <1>3 DEF Entry
<1>5. TypeOK'
  <2>1. pc' \in [Callers -> {"idle", "read_id", "store_id", "save", "send", "wait", "check"}]
    BY <1>1 DEF TypeOK
  <2>2. /\ DOMAIN pending' \subseteq Ids
        /\ \A i \in DOMAIN pending' : pending'[i] \in [tag : Tags, caller : Callers, method : Methods]
    BY <1>2, <1>3, <1>4 DEF TypeOK
  <2> QED
    BY <1>1, <2>1, <2>2 DEF TypeOK, linkVars, idVars, handleVars, wireVars, ioVars
<1>6. IdsLag'
  BY <1>1, LagKept DEF TypeOK, linkVars, idVars
<1>7. TagsOwn'
  BY <1>1, <1>2, <1>3, <1>4 DEF TagsOwn, TypeOK, wireVars, ioVars
<1> QED
  BY <1>5, <1>6, <1>7

LEMMA ForceCompletion ==
  ASSUME Base, force_completion
  PROVE  /\ received' \in [Methods -> Nat]
         /\ DOMAIN pending' = {}
         /\ \A m \in Methods : received'[m] = received[m] + Cardinality(Pending(m))
<1>1. DOMAIN pending' = {}
  BY DEF force_completion
<1>2. \A m \in Methods : Cardinality(Pending(m)) \in Nat
  <2>1. \A m \in Methods : Pending(m) \in SUBSET Ids
    BY DEF Base, TypeOK, Pending
  <2> QED
    BY <2>1, Countable
<1>3. received' = [m \in Methods |-> received[m] + Cardinality(Pending(m))]
  BY DEF force_completion, Pending
<1>4. \A m \in Methods : received[m] \in Nat
  BY DEF Base, TypeOK
<1>5. \A m \in Methods : received[m] + Cardinality(Pending(m)) \in Nat
  BY <1>2, <1>4
<1> QED
  BY <1>1, <1>3, <1>5

LEMMA SendBase ==
  ASSUME Base, NEW t \in Callers, send_message(t)
  PROVE  Base'
<1> USE DEF Base
<1>1. /\ pc[t] = "send"
      /\ UNCHANGED <<linkVars, idVars, calls, method, tag, id, via, response, timedOut, expecting, linkUp,
                     results, ioVars, abandoned>>
  BY DEF send_message
<1>2. CASE linkUp
  <2> DEFINE q == [id |-> id[t], tag |-> tag[t]]
  <2>1. /\ requests' = requests \cup {q}
        /\ pc' = [pc EXCEPT ![t] = "wait"]
        /\ UNCHANGED <<outcome, received, pending>>
    BY <1>2 DEF send_message
  <2>2. q \in Messages /\ q.tag = tag[t] /\ tag[t] <= calls
    BY <1>1 DEF TypeOK, TagsOwn, Messages
  <2> HIDE DEF q
  <2>3. TypeOK'
    BY <1>1, <2>1, <2>2 DEF TypeOK, linkVars, idVars, ioVars
  <2>4. IdsLag'
    BY <1>1, <2>1, LagKept DEF TypeOK, linkVars, idVars
  <2>5. TagsOwn'
    BY <1>1, <2>1, <2>2 DEF TagsOwn, TypeOK, ioVars
  <2> QED
    BY <2>3, <2>4, <2>5
<1>3. CASE ~linkUp
  <2>1. /\ force_completion
        /\ pc' = [pc EXCEPT ![t] = "idle"]
        /\ outcome' = [outcome EXCEPT ![t] = "disconnected"]
        /\ UNCHANGED requests
    BY <1>3 DEF send_message
  <2>2. received' \in [Methods -> Nat] /\ DOMAIN pending' = {}
    BY <2>1, ForceCompletion
  <2>3. /\ pc' \in [Callers -> {"idle", "read_id", "store_id", "save", "send", "wait", "check"}]
        /\ outcome' \in [Callers -> {"none", "returned", "timed out", "disconnected"}]
    BY <2>1 DEF TypeOK
  <2>4. TypeOK'
    BY <1>1, <2>1, <2>2, <2>3 DEF TypeOK, linkVars, idVars, ioVars
  <2>5. IdsLag'
    BY <1>1, <2>1, LagKept DEF TypeOK, linkVars, idVars
  <2>6. TagsOwn'
    BY <1>1, <2>1, <2>2 DEF TagsOwn, TypeOK, ioVars
  <2> QED
    BY <2>4, <2>5, <2>6
<1> QED
  BY <1>2, <1>3

LEMMA WaitBase ==
  ASSUME Base, NEW t \in Callers, WaitReturns(t) \/ WaitTimesOut(t) \/ Finish(t)
  PROVE  Base'
<1> USE DEF Base
<1>1. /\ pc[t] \in {"wait", "check"}
      /\ pc' \in {[pc EXCEPT ![t] = "check"], [pc EXCEPT ![t] = "idle"]}
      /\ UNCHANGED <<linkVars, idVars, calls, method, tag, id, via, response, handleVars, pending,
                     wireVars, ioVars>>
  BY DEF WaitReturns, WaitTimesOut, Finish
<1>2. tag[t] \in Tags
  BY <1>1 DEF TypeOK, TagsOwn
<1>3. /\ timedOut' \in [Callers -> BOOLEAN]
      /\ outcome' \in [Callers -> {"none", "returned", "timed out", "disconnected"}]
      /\ abandoned' \subseteq Tags
  BY <1>2 DEF WaitReturns, WaitTimesOut, Finish, TypeOK
<1>4. pc' \in [Callers -> {"idle", "read_id", "store_id", "save", "send", "wait", "check"}]
  BY <1>1 DEF TypeOK
<1>5. TypeOK'
  BY <1>1, <1>3, <1>4 DEF TypeOK, linkVars, idVars, handleVars, wireVars, ioVars
<1>6. IdsLag'
  BY <1>1, LagKept DEF TypeOK, linkVars, idVars
<1>7. TagsOwn'
  BY <1>1 DEF TagsOwn, TypeOK, wireVars, ioVars
<1> QED
  BY <1>5, <1>6, <1>7

\* What is pending when the channel is replaced is lost.
LEMMA Replaced ==
  ASSUME Base, set_rpc_channel
  PROVE  /\ lost' \in [Methods -> Nat]
         /\ DOMAIN pending' = {}
         /\ \A m \in Methods : lost'[m] = lost[m] + Cardinality(Pending(m))
<1>1. DOMAIN pending' = {}
  BY DEF set_rpc_channel
<1>2. \A m \in Methods : Cardinality(Pending(m)) \in Nat
  <2>1. \A m \in Methods : Pending(m) \in SUBSET Ids
    BY DEF Base, TypeOK, Pending
  <2> QED
    BY <2>1, Countable
<1>3. lost' = [m \in Methods |-> lost[m] + Cardinality(Pending(m))]
  BY DEF set_rpc_channel
<1>4. \A m \in Methods : lost[m] \in Nat
  BY DEF Base, TypeOK
<1>5. \A m \in Methods : lost[m] + Cardinality(Pending(m)) \in Nat
  BY <1>2, <1>4
<1> QED
  BY <1>1, <1>3, <1>5

LEMMA ReplaceBase ==
  ASSUME Base, set_rpc_channel
  PROVE  Base'
<1>1. UNCHANGED <<freedUse, idVars, callerVars, handleVars, requests, results, ioVars, abandoned>>
  BY DEF set_rpc_channel
<1>2. lost' \in [Methods -> Nat] /\ DOMAIN pending' = {}
  BY Replaced
<1>3. link' \in Links /\ connected' = TRUE /\ linkUp' = TRUE
  <2>1. link' = link + 1 /\ link < MaxLinks /\ link \in 0 .. MaxLinks
    BY DEF set_rpc_channel, Base, TypeOK, Links
  <2> QED
    BY <2>1, CallsAssumption DEF set_rpc_channel, Links
<1>4. TypeOK'
  BY <1>1, <1>2, <1>3 DEF Base, TypeOK, idVars, callerVars, handleVars, ioVars
<1>5. IdsLag'
  BY <1>1, LagKept DEF idVars, callerVars
<1>6. TagsOwn'
  BY <1>1, <1>2 DEF Base, TagsOwn, callerVars, ioVars
<1> QED
  BY <1>4, <1>5, <1>6 DEF Base

LEMMA WireBase ==
  ASSUME Base,
         GuestAnswers \/ GuestDisconnects \/ populate_message_for_result
         \/ complete_response \/ Quiet
  PROVE  Base'
<1> USE DEF Base
<1>1. UNCHANGED <<idVars, calls, pc, method, tag, id, via, timedOut, outcome, expecting, abandoned>>
  BY DEF GuestAnswers, GuestDisconnects, populate_message_for_result,
         complete_response, Quiet, on_read_error, UseFreedChannel, vars, callerVars, handleVars, idVars
<1>2. IdsLag'
  BY <1>1, LagKept DEF idVars
<1>3. CASE GuestAnswers \/ GuestDisconnects \/ Quiet
  BY <1>1, <1>2, <1>3 DEF GuestAnswers, GuestDisconnects, Quiet, on_read_error, UseFreedChannel,
         vars, callerVars, linkVars,
         handleVars, idVars, wireVars, ioVars, TypeOK, TagsOwn
<1>4. CASE populate_message_for_result
  <2>1. PICK r \in results :
          /\ results' = results \ {r}
          /\ ioResult' = r
          /\ ioPc' \in {"complete", "failed"}
          /\ \/ UNCHANGED response
             \/ \E c : response' = [response EXCEPT ![c] = r.tag]
    BY <1>4 DEF populate_message_for_result
  <2>2. r \in Messages /\ r.tag \in Tags
    BY DEF TypeOK, Messages
  <2>3. response' \in [Callers -> Tags \cup {NoTag}]
    BY <2>1, <2>2 DEF TypeOK
  <2>4. UNCHANGED <<linkVars, linkUp, handleVars, pending, requests>>
    BY <1>4 DEF populate_message_for_result
  <2>5. TypeOK'
    BY <1>1, <2>1, <2>2, <2>3, <2>4 DEF TypeOK, linkVars, idVars, handleVars
  <2>6. TagsOwn'
    BY <1>1, <2>1, <2>4 DEF TagsOwn
  <2> QED
    BY <1>2, <2>5, <2>6
<1>5. CASE complete_response
  <2>1. ioPc' = "read" /\ ioResult' = NoMessage /\ UNCHANGED <<linkVars, response, expecting, wireVars>>
    BY <1>5 DEF complete_response, callerVars
  <2>2. /\ \A i \in DOMAIN pending' : i \in DOMAIN pending /\ pending'[i] = pending[i]
        /\ received' \in [Methods -> Nat]
    <3>1. CASE ioResult.id \in DOMAIN pending
      <4>1. /\ received' = [received EXCEPT ![pending[ioResult.id].method] = @ + 1]
            /\ pending' = [i \in DOMAIN pending \ {ioResult.id} |-> pending[i]]
        BY <1>5, <3>1 DEF complete_response, result_received
      <4>2. received' \in [Methods -> Nat]
        <5>1. received \in [Methods -> Nat]
          BY DEF TypeOK
        <5> QED
          BY <4>1, <5>1, Incremented
      <4> QED
        BY <4>1, <4>2
    <3>2. CASE ioResult.id \notin DOMAIN pending
      BY <1>5, <3>2 DEF complete_response, TypeOK
    <3> QED
      BY <3>1, <3>2
  <2>3. TypeOK'
    BY <1>1, <2>1, <2>2 DEF TypeOK, linkVars, idVars, wireVars
  <2>4. TagsOwn'
    <3>1. ioResult'.tag = 0 /\ 0 <= calls
      BY <2>1, Numbers DEF NoMessage, NoTag
    <3> QED
      BY <1>1, <2>1, <2>2, <3>1 DEF TagsOwn, wireVars
  <2> QED
    BY <1>2, <2>3, <2>4
<1> QED
  BY <1>3, <1>4, <1>5

LEMMA StepBase == Base /\ [Next]_vars => Base'
BY CallBase, IdBase, SaveBase, SendBase, WaitBase, ReplaceBase, WireBase DEF Next, Caller, Reader, Quiet
--------------------------------------------------------------------------------
(* The WaitHandles balance with the cache. *)

LEMMA Owing ==
  ASSUME Base
  PROVE  \A m \in Methods : /\ IsFiniteSet(Pending(m)) /\ Cardinality(Pending(m)) \in Nat
                            /\ IsFiniteSet(Unsaved(m)) /\ Cardinality(Unsaved(m)) \in Nat
<1>1. \A m \in Methods : Pending(m) \in SUBSET Ids /\ Unsaved(m) \in SUBSET Callers
  BY DEF Base, TypeOK, Pending, Unsaved
<1> QED
  BY <1>1, Countable

\* No result more and no call more than before.
LEMMA OwedKept ==
  ASSUME Base, Base', ResultsOwed, UNCHANGED <<expecting, received, lost>>,
         \A m \in Methods : Pending(m)' \subseteq Pending(m) /\ Unsaved(m)' \subseteq Unsaved(m)
  PROVE  ResultsOwed'
<1> SUFFICES ASSUME NEW m \in Methods
             PROVE  expecting'[m] >= received'[m] + Cardinality(Pending(m)') + Cardinality(Unsaved(m)') + lost'[m]
  BY DEF ResultsOwed
<1>1. /\ Cardinality(Pending(m)') <= Cardinality(Pending(m))
      /\ Cardinality(Unsaved(m)') <= Cardinality(Unsaved(m))
  BY Owing, FS_Subset
<1>2. /\ Cardinality(Pending(m)') \in Nat /\ Cardinality(Unsaved(m)') \in Nat
      /\ Cardinality(Pending(m)) \in Nat /\ Cardinality(Unsaved(m)) \in Nat
  <2>1. IsFiniteSet(Pending(m)') /\ IsFiniteSet(Unsaved(m)')
    BY Owing, FS_Subset
  <2> QED
    BY <2>1, Owing, FS_CardinalityType
<1>3. expecting[m] >= received[m] + Cardinality(Pending(m)) + Cardinality(Unsaved(m)) + lost[m]
  BY DEF ResultsOwed
<1> QED
  BY <1>1, <1>2, <1>3, Numbers DEF Base

LEMMA CallOwed ==
  ASSUME Base, ResultsOwed, NEW t \in Callers, NEW m \in Methods, Call(t, m)
  PROVE  ResultsOwed'
<1>1. pc[t] = "idle" /\ UNCHANGED <<pending, received, lost>>
  BY DEF Call, linkVars
<1>2. \A n \in Methods : expecting'[n] = IF n = m THEN expecting[n] + 1 ELSE expecting[n]
  <2>1. expecting' = [expecting EXCEPT ![m] = @ + 1] /\ expecting \in [Methods -> Nat]
    BY DEF Call, expect_result, Base, TypeOK
  <2> QED
    BY <2>1, Incremented
<1>3. \A n \in Methods : Pending(n)' = Pending(n)
  BY <1>1 DEF Pending
<1>4. \A n \in Methods : /\ Unsaved(n)' = IF n = m THEN Unsaved(n) \cup {t} ELSE Unsaved(n)
                         /\ t \notin Unsaved(n)
  BY DEF Call, Unsaved, Base, TypeOK
<1> SUFFICES ASSUME NEW n \in Methods
             PROVE  expecting'[n] >= received[n] + Cardinality(Pending(n)) + Cardinality(Unsaved(n)') + lost[n]
  BY <1>1, <1>3 DEF ResultsOwed
<1>5. expecting[n] >= received[n] + Cardinality(Pending(n)) + Cardinality(Unsaved(n)) + lost[n]
  BY DEF ResultsOwed
<1>6. Cardinality(Unsaved(n)') = IF n = m THEN Cardinality(Unsaved(n)) + 1 ELSE Cardinality(Unsaved(n))
  BY <1>4, Owing, AddOne
<1>7. /\ Cardinality(Pending(n)) \in Nat /\ Cardinality(Unsaved(n)) \in Nat
      /\ expecting[n] \in Nat /\ received[n] \in Nat /\ lost[n] \in Nat
  BY Owing, Numbers DEF Base
<1> QED
  BY <1>2, <1>5, <1>6, <1>7

LEMMA SaveOwed ==
  ASSUME Base, ResultsOwed, NEW t \in Callers, save_completion_details(t)
  PROVE  ResultsOwed'
<1>1. /\ pc[t] = "save" /\ pc' = [pc EXCEPT ![t] = "send"]
      /\ UNCHANGED <<expecting, received, lost, method>>
  BY DEF save_completion_details, handleVars, linkVars
<1>2. /\ DOMAIN pending' = DOMAIN pending \cup {id[t]}
      /\ pending'[id[t]] = Entry(t)
      /\ \A i \in DOMAIN pending : i # id[t] => pending'[i] = pending[i]
      /\ Entry(t).method = method[t]
  BY DEF save_completion_details, Entry
<1> SUFFICES ASSUME NEW n \in Methods
             PROVE  expecting[n] >= received[n] + Cardinality(Pending(n)') + Cardinality(Unsaved(n)') + lost[n]
  BY <1>1 DEF ResultsOwed
<1>3. expecting[n] >= received[n] + Cardinality(Pending(n)) + Cardinality(Unsaved(n)) + lost[n]
  BY DEF ResultsOwed
<1>4. /\ Cardinality(Pending(n)) \in Nat /\ Cardinality(Unsaved(n)) \in Nat
      /\ IsFiniteSet(Pending(n)) /\ IsFiniteSet(Unsaved(n))
      /\ expecting[n] \in Nat /\ received[n] \in Nat /\ lost[n] \in Nat
  BY Owing, Numbers DEF Base
<1>5. CASE n = method[t]
  <2>1. Unsaved(n)' = Unsaved(n) \ {t} /\ t \in Unsaved(n)
    BY <1>1, <1>5 DEF Unsaved, Base, TypeOK
  <2>2. Cardinality(Unsaved(n)') = Cardinality(Unsaved(n)) - 1
    BY <1>4, <2>1, RemoveOne
  <2>3. Pending(n)' \subseteq Pending(n) \cup {id[t]}
    BY <1>2 DEF Pending
  <2>4. /\ IsFiniteSet(Pending(n) \cup {id[t]})
        /\ Cardinality(Pending(n) \cup {id[t]}) =
             IF id[t] \in Pending(n) THEN Cardinality(Pending(n)) ELSE Cardinality(Pending(n)) + 1
    BY <1>4, FS_AddElement
  <2>5. /\ Cardinality(Pending(n)') <= Cardinality(Pending(n) \cup {id[t]})
        /\ IsFiniteSet(Pending(n)')
    BY <2>3, <2>4, FS_Subset
  <2>6. Cardinality(Pending(n)') \in Nat
    BY <2>5, FS_CardinalityType
  <2> QED
    BY <1>3, <1>4, <2>2, <2>4, <2>5, <2>6
<1>6. CASE n # method[t]
  <2>1. Unsaved(n)' = Unsaved(n) /\ Pending(n)' \subseteq Pending(n)
    BY <1>1, <1>2, <1>6 DEF Unsaved, Pending, Base, TypeOK
  <2>2. Cardinality(Pending(n)') <= Cardinality(Pending(n)) /\ IsFiniteSet(Pending(n)')
    BY <1>4, <2>1, FS_Subset
  <2>3. Cardinality(Pending(n)') \in Nat
    BY <2>2, FS_CardinalityType
  <2> QED
    BY <1>3, <1>4, <2>1, <2>2, <2>3
<1> QED
  BY <1>5, <1>6

LEMMA SendOwed ==
  ASSUME Base, Base', ResultsOwed, NEW t \in Callers, send_message(t)
  PROVE  ResultsOwed'
<1>1. /\ pc[t] = "send" /\ pc' \in {[pc EXCEPT ![t] = "wait"], [pc EXCEPT ![t] = "idle"]}
      /\ UNCHANGED <<expecting, method, lost>>
  BY DEF send_message, linkVars
<1>2. \A n \in Methods : Unsaved(n)' = Unsaved(n)
  BY <1>1 DEF Unsaved, Base, TypeOK
<1>3. CASE linkUp
  <2>1. UNCHANGED <<received, pending>>
    BY <1>3 DEF send_message
  <2>2. \A n \in Methods : Pending(n)' \subseteq Pending(n)
    BY <2>1 DEF Pending
  <2> QED
    BY <1>1, <1>2, <2>1, <2>2, OwedKept
<1>4. CASE ~linkUp
  <2>1. force_completion
    BY <1>4 DEF send_message
  <2>2. DOMAIN pending' = {} /\ \A n \in Methods : received'[n] = received[n] + Cardinality(Pending(n))
    BY <2>1, ForceCompletion
  <2>3. \A n \in Methods : Cardinality(Pending(n)') = 0
    <3>1. \A n \in Methods : Pending(n)' = {}
      BY <2>2 DEF Pending
    <3> QED
      BY <3>1, FS_EmptySet
  <2> SUFFICES ASSUME NEW n \in Methods
               PROVE  expecting[n] >= received'[n] + Cardinality(Pending(n)') + Cardinality(Unsaved(n)) + lost[n]
    BY <1>1, <1>2 DEF ResultsOwed
  <2>4. expecting[n] >= received[n] + Cardinality(Pending(n)) + Cardinality(Unsaved(n)) + lost[n]
    BY DEF ResultsOwed
  <2>5. /\ Cardinality(Pending(n)) \in Nat /\ Cardinality(Unsaved(n)) \in Nat
        /\ expecting[n] \in Nat /\ received[n] \in Nat /\ lost[n] \in Nat
    BY Owing, Numbers DEF Base
  <2> QED
    BY <2>2, <2>3, <2>4, <2>5
<1> QED
  BY <1>3, <1>4

LEMMA CompleteOwed ==
  ASSUME Base, Base', ResultsOwed, complete_response
  PROVE  ResultsOwed'
<1>1. UNCHANGED <<expecting, pc, method, lost>>
  BY DEF complete_response, callerVars, linkVars
<1>2. \A n \in Methods : Unsaved(n)' = Unsaved(n)
  BY <1>1 DEF Unsaved
<1> DEFINE i == ioResult.id
           m == pending[i].method
<1>3. CASE i \in DOMAIN pending
  <2>1. /\ received' = [received EXCEPT ![m] = @ + 1]
        /\ pending' = [j \in DOMAIN pending \ {i} |-> pending[j]]
    BY <1>3 DEF complete_response, result_received
  <2>2. \A n \in Methods : received'[n] = IF n = m THEN received[n] + 1 ELSE received[n]
    <3>1. received \in [Methods -> Nat]
      BY DEF Base, TypeOK
    <3> HIDE DEF m
    <3> QED
      BY <2>1, <3>1, Incremented
  <2>3. ASSUME NEW n \in Methods
        PROVE  Pending(n)' = IF n = m THEN Pending(n) \ {i} ELSE Pending(n)
    BY <1>3, <2>1 DEF Pending
  <2>4. i \in Pending(m)
    BY <1>3 DEF Pending
  <2> HIDE DEF i, m
  <2> SUFFICES ASSUME NEW n \in Methods
               PROVE  expecting[n] >= received'[n] + Cardinality(Pending(n)') + Cardinality(Unsaved(n)) + lost[n]
    BY <1>1, <1>2 DEF ResultsOwed
  <2>5. expecting[n] >= received[n] + Cardinality(Pending(n)) + Cardinality(Unsaved(n)) + lost[n]
    BY DEF ResultsOwed
  <2>6. /\ Cardinality(Pending(n)) \in Nat /\ Cardinality(Unsaved(n)) \in Nat
        /\ expecting[n] \in Nat /\ received[n] \in Nat /\ lost[n] \in Nat /\ IsFiniteSet(Pending(n))
    BY Owing, Numbers DEF Base
  <2>7. Cardinality(Pending(n)') = IF n = m THEN Cardinality(Pending(n)) - 1 ELSE Cardinality(Pending(n))
    BY <2>3, <2>4, <2>6, RemoveOne
  <2> QED
    BY <2>2, <2>5, <2>6, <2>7
<1>4. CASE i \notin DOMAIN pending
  <2>1. UNCHANGED <<received, pending>>
    BY <1>4 DEF complete_response
  <2>2. \A n \in Methods : Pending(n)' \subseteq Pending(n)
    BY <2>1 DEF Pending
  <2> QED
    BY <1>1, <1>2, <2>1, <2>2, OwedKept
<1> QED
  BY <1>3, <1>4

LEMMA ReplaceOwed ==
  ASSUME Base, ResultsOwed, set_rpc_channel
  PROVE  ResultsOwed'
<1>1. UNCHANGED <<expecting, received, pc, method>>
  BY DEF set_rpc_channel, callerVars, handleVars
<1>2. DOMAIN pending' = {} /\ \A n \in Methods : lost'[n] = lost[n] + Cardinality(Pending(n))
  BY Replaced
<1>3. \A n \in Methods : Unsaved(n)' = Unsaved(n) /\ Pending(n)' = {}
  BY <1>1, <1>2 DEF Unsaved, Pending
<1>4. \A n \in Methods : Cardinality(Pending(n)') = 0
  BY <1>3, FS_EmptySet
<1> SUFFICES ASSUME NEW n \in Methods
             PROVE  expecting[n] >= received[n] + Cardinality(Pending(n)') + Cardinality(Unsaved(n)) + lost'[n]
  BY <1>1, <1>3 DEF ResultsOwed
<1>5. expecting[n] >= received[n] + Cardinality(Pending(n)) + Cardinality(Unsaved(n)) + lost[n]
  BY DEF ResultsOwed
<1>6. /\ Cardinality(Pending(n)) \in Nat /\ Cardinality(Unsaved(n)) \in Nat
      /\ expecting[n] \in Nat /\ received[n] \in Nat /\ lost[n] \in Nat
  BY Owing, Numbers DEF Base
<1> QED
  BY <1>2, <1>4, <1>5, <1>6

LEMMA OtherOwed ==
  ASSUME Base, Base', ResultsOwed,
         \/ \E t \in Callers : ReadNextId(t) \/ StoreNextId(t) \/ WaitReturns(t) \/ WaitTimesOut(t)
                               \/ Finish(t)
         \/ GuestAnswers \/ GuestDisconnects \/ populate_message_for_result
         \/ Quiet
  PROVE  ResultsOwed'
<1>1. UNCHANGED <<expecting, received, lost, pending, method>>
  BY DEF ReadNextId, StoreNextId, WaitReturns, WaitTimesOut, Finish, GuestAnswers,
         GuestDisconnects, populate_message_for_result, Quiet, on_read_error, UseFreedChannel, vars,
         callerVars, handleVars, linkVars
<1>2. \A u \in Callers : pc'[u] \in {"read_id", "store_id", "save"} => pc[u] \in {"read_id", "store_id", "save"}
  <2>1. CASE UNCHANGED pc
    BY <2>1
  <2>2. ASSUME NEW t \in Callers,
               ReadNextId(t) \/ StoreNextId(t) \/ WaitReturns(t) \/ WaitTimesOut(t) \/ Finish(t)
        PROVE  /\ \A u \in Callers : u # t => pc'[u] = pc[u]
               /\ pc'[t] \in {"store_id", "save"} => pc[t] \in {"read_id", "store_id"}
               /\ pc'[t] # "read_id"
    BY <2>2 DEF ReadNextId, StoreNextId, WaitReturns, WaitTimesOut, Finish, Base, TypeOK
  <2>3. CASE GuestAnswers \/ GuestDisconnects \/ populate_message_for_result
             \/ Quiet
    BY <2>1, <2>3 DEF GuestAnswers, GuestDisconnects, populate_message_for_result,
                      Quiet, on_read_error, UseFreedChannel, vars, callerVars
  <2> QED
    BY <2>2, <2>3
<1>3. \A m \in Methods : Pending(m)' \subseteq Pending(m) /\ Unsaved(m)' \subseteq Unsaved(m)
  BY <1>1, <1>2 DEF Pending, Unsaved
<1> QED
  BY <1>1, <1>3, OwedKept

LEMMA StepAccounted == Accounted /\ [Next]_vars => Accounted'
<1> SUFFICES ASSUME Base, ResultsOwed, [Next]_vars PROVE ResultsOwed'
    BY StepBase DEF Accounted
<1>1. Base'
  BY StepBase
<1> QED
  BY <1>1, CallOwed, SaveOwed, SendOwed, CompleteOwed, ReplaceOwed, OtherOwed DEF Next, Caller, Reader, Quiet

LEMMA InitAccounted == Init => Accounted
<1> SUFFICES ASSUME Init PROVE ResultsOwed
    BY InitBase DEF Accounted
<1>1. \A m \in Methods : Pending(m) = {} /\ Unsaved(m) = {}
  BY DEF Init, Pending, Unsaved
<1>2. \A m \in Methods : Cardinality(Pending(m)) = 0 /\ Cardinality(Unsaved(m)) = 0
  BY <1>1, FS_EmptySet
<1>3. \A m \in Methods : expecting[m] = 0 /\ received[m] = 0 /\ lost[m] = 0
  BY DEF Init
<1> QED
  BY <1>2, <1>3 DEF ResultsOwed

\* The counters of every WaitHandle balance with the cache and with the calls on
\* their way into it, for any number of threads, methods and calls, through
\* time-outs, lost connections and ids drawn twice (wait_handle.cpp,
\* pending_call_cache.cpp).
THEOREM AlwaysAccounted == Spec => []CallsAccounted
<1>1. Accounted => CallsAccounted
  BY DEF Accounted, Base, CallsAccounted
<1> QED
  BY InitAccounted, StepAccounted, <1>1, PTL DEF Spec
--------------------------------------------------------------------------------
(* The cache has no pointer to a call that came back in time. *)

Early == {"read_id", "store_id", "save"}

\* Steps that put nothing into the cache, end no call and no wait.
LEMMA CacheKept ==
  ASSUME CacheInv, UNCHANGED <<method, tag>>, abandoned \subseteq abandoned',
         \A i \in DOMAIN pending' : i \in DOMAIN pending /\ pending'[i] = pending[i],
         \A t \in Callers : /\ pc'[t] \in Early => pc[t] \in Early
                            /\ pc'[t] = "check" => timedOut'[t] \/ (pc[t] = "check" /\ ~timedOut[t])
                            /\ pc'[t] = "idle" => pc[t] = "idle"
  PROVE  InTime' /\ NoDanglingRequest'
<1>1. \A i \in DOMAIN pending : pending[i].caller \in Callers
  BY DEF CacheInv, Accounted, Base, TypeOK
<1>2. InTime'
  BY DEF CacheInv, InTime, Early
<1>3. NoDanglingRequest'
  BY <1>1 DEF CacheInv, NoDanglingRequest, Alive
<1> QED
  BY <1>2, <1>3

LEMMA CallCache ==
  ASSUME CacheInv, NEW t \in Callers, NEW m \in Methods, Call(t, m)
  PROVE  InTime' /\ NoDanglingRequest'
<1>1. Base
  BY DEF CacheInv, Accounted
<1>2. pc[t] = "idle" /\ UNCHANGED <<pending, abandoned>>
  BY DEF Call
<1>3. /\ \A u \in Callers : u # t => /\ pc'[u] = pc[u] /\ tag'[u] = tag[u]
                                     /\ method'[u] = method[u] /\ timedOut'[u] = timedOut[u]
      /\ tag'[t] = calls + 1
  BY <1>1 DEF Call, Base, TypeOK
<1>4. \A i \in DOMAIN pending : pending[i].tag # calls + 1 /\ pending[i].caller \in Callers
  <2>1. \A i \in DOMAIN pending : pending[i].tag <= calls /\ pending[i].tag \in Nat /\ calls \in Nat
    BY <1>1, Numbers DEF Base, TagsOwn
  <2>2. \A i \in DOMAIN pending : pending[i].caller \in Callers
    BY <1>1 DEF Base, TypeOK
  <2> QED
    BY <2>1, <2>2
<1>5. InTime'
  BY <1>2, <1>3, <1>4 DEF CacheInv, InTime
<1>6. NoDanglingRequest'
  BY <1>2, <1>3, <1>4 DEF CacheInv, NoDanglingRequest, Alive
<1> QED
  BY <1>5, <1>6

LEMMA SaveCache ==
  ASSUME CacheInv, NEW t \in Callers, save_completion_details(t)
  PROVE  InTime' /\ NoDanglingRequest'
<1>1. Base
  BY DEF CacheInv, Accounted
<1>2. /\ UNCHANGED <<method, tag, timedOut, abandoned>>
      /\ pc[t] = "save" /\ pc'[t] = "send" /\ \A u \in Callers : u # t => pc'[u] = pc[u]
  BY <1>1 DEF save_completion_details, Base, TypeOK
<1>3. /\ DOMAIN pending' = DOMAIN pending \cup {id[t]}
      /\ pending'[id[t]] = Entry(t)
      /\ \A i \in DOMAIN pending : i # id[t] => pending'[i] = pending[i]
      /\ Entry(t).method = method[t] /\ Entry(t).tag = tag[t] /\ Entry(t).caller = t
  BY DEF save_completion_details, Entry
<1>4. ASSUME NEW i \in DOMAIN pending', NEW u \in Callers,
             pending'[i].caller = u, pending'[i].tag = tag'[u]
      PROVE  /\ pending'[i].method = method'[u]
             /\ pc'[u] \notin {"read_id", "store_id", "save"}
             /\ pc'[u] = "check" => timedOut'[u]
  <2>1. CASE i = id[t]
    BY <1>2, <1>3, <1>4, <2>1
  <2>2. CASE i # id[t]
    BY <1>2, <1>3, <1>4, <2>2 DEF CacheInv, InTime
  <2> QED
    BY <2>1, <2>2
<1>5. ASSUME NEW i \in DOMAIN pending'
      PROVE  Alive(pending[i])' \/ pending'[i].tag \in abandoned'
  <2>1. CASE i = id[t]
    BY <1>2, <1>3, <2>1 DEF Alive
  <2>2. CASE i # id[t]
    <3>1. i \in DOMAIN pending /\ pending'[i] = pending[i] /\ pending[i].caller \in Callers
      BY <1>1, <1>3, <2>2 DEF Base, TypeOK
    <3>2. Alive(pending[i]) \/ pending[i].tag \in abandoned
      BY <3>1 DEF CacheInv, NoDanglingRequest
    <3> QED
      BY <1>2, <3>1, <3>2 DEF Alive
  <2> QED
    BY <2>1, <2>2
<1> QED
  BY <1>4, <1>5 DEF InTime, NoDanglingRequest

\* When the wait ends in time, no call of the method is pending.
LEMMA NonePending ==
  ASSUME Accounted, NEW t \in Callers, WaitReturns(t)
  PROVE  \A i \in DOMAIN pending : pending[i].method # method[t]
<1> DEFINE m == method[t]
<1>1. m \in Methods /\ received[m] = expecting[m]
  BY DEF WaitReturns, Accounted, Base, TypeOK
<1>2. expecting[m] >= received[m] + Cardinality(Pending(m)) + Cardinality(Unsaved(m)) + lost[m]
  BY <1>1 DEF Accounted, ResultsOwed
<1>3. /\ Cardinality(Pending(m)) \in Nat /\ Cardinality(Unsaved(m)) \in Nat
      /\ expecting[m] \in Nat /\ received[m] \in Nat /\ lost[m] \in Nat /\ IsFiniteSet(Pending(m))
  BY <1>1, Owing, Numbers DEF Accounted, Base
<1>4. Cardinality(Pending(m)) = 0
  BY <1>1, <1>2, <1>3
<1>5. Pending(m) = {}
  BY <1>3, <1>4, FS_EmptySet
<1> QED
  BY <1>5 DEF Pending

LEMMA WaitCache ==
  ASSUME CacheInv, NEW t \in Callers, WaitReturns(t) \/ WaitTimesOut(t) \/ Finish(t)
  PROVE  InTime' /\ NoDanglingRequest'
<1>1. Base /\ \A i \in DOMAIN pending : pending[i].caller \in Callers
  BY DEF CacheInv, Accounted, Base, TypeOK
<1>2. UNCHANGED <<method, tag, pending>> /\ \A u \in Callers : u # t => pc'[u] = pc[u]
  BY <1>1 DEF WaitReturns, WaitTimesOut, Finish, Base, TypeOK
<1>3. CASE WaitReturns(t)
  <2>1. pc[t] = "wait" /\ pc'[t] = "check" /\ UNCHANGED <<timedOut, abandoned>>
    BY <1>1, <1>3 DEF WaitReturns, Base, TypeOK
  <2>2. \A i \in DOMAIN pending : pending[i].method # method[t]
    BY <1>3, NonePending DEF CacheInv
  <2>3. InTime'
    BY <1>2, <2>1, <2>2 DEF CacheInv, InTime
  <2>4. NoDanglingRequest'
    BY <1>1, <1>2, <2>1 DEF CacheInv, NoDanglingRequest, Alive
  <2> QED
    BY <2>3, <2>4
<1>4. CASE WaitTimesOut(t)
  <2>1. /\ pc[t] = "wait" /\ pc'[t] = "check" /\ UNCHANGED abandoned
        /\ timedOut'[t] /\ \A u \in Callers : u # t => timedOut'[u] = timedOut[u]
    BY <1>1, <1>4 DEF WaitTimesOut, Base, TypeOK
  <2>2. InTime'
    BY <1>2, <2>1 DEF CacheInv, InTime
  <2>3. NoDanglingRequest'
    BY <1>1, <1>2, <2>1 DEF CacheInv, NoDanglingRequest, Alive
  <2> QED
    BY <2>2, <2>3
<1>5. CASE Finish(t)
  <2>1. /\ pc[t] = "check" /\ pc'[t] = "idle" /\ UNCHANGED timedOut
        /\ abandoned' = IF timedOut[t] THEN abandoned \cup {tag[t]} ELSE abandoned
    BY <1>1, <1>5 DEF Finish, Base, TypeOK
  <2>2. InTime'
    BY <1>2, <2>1 DEF CacheInv, InTime
  <2>3. ASSUME NEW i \in DOMAIN pending PROVE Alive(pending[i])' \/ pending[i].tag \in abandoned'
    <3>1. CASE pending[i].caller = t /\ pending[i].tag = tag[t]
      BY <2>1, <3>1 DEF CacheInv, InTime
    <3>2. CASE ~(pending[i].caller = t /\ pending[i].tag = tag[t])
      BY <1>1, <1>2, <2>1, <3>2 DEF CacheInv, NoDanglingRequest, Alive
    <3> QED
      BY <3>1, <3>2
  <2> QED
    BY <1>2, <2>2, <2>3 DEF NoDanglingRequest
<1> QED
  BY <1>3, <1>4, <1>5

LEMMA OtherCache ==
  ASSUME CacheInv,
         \/ \E t \in Callers : ReadNextId(t) \/ StoreNextId(t) \/ send_message(t)
         \/ set_rpc_channel \/ GuestAnswers \/ GuestDisconnects \/ populate_message_for_result
         \/ complete_response \/ Quiet
  PROVE  InTime' /\ NoDanglingRequest'
<1>1. Base
  BY DEF CacheInv, Accounted
<1>2. ASSUME NEW t \in Callers, ReadNextId(t) \/ StoreNextId(t) PROVE InTime' /\ NoDanglingRequest'
  <2>1. /\ UNCHANGED <<method, tag, pending, timedOut, abandoned>>
        /\ pc[t] \in Early /\ pc'[t] \in Early /\ \A u \in Callers : u # t => pc'[u] = pc[u]
    BY <1>1, <1>2 DEF ReadNextId, StoreNextId, Base, TypeOK, Early
  <2> QED
    BY <2>1, CacheKept DEF Early
<1>3. ASSUME NEW t \in Callers, send_message(t) PROVE InTime' /\ NoDanglingRequest'
  <2>1. CASE linkUp
    <3>1. /\ UNCHANGED <<method, tag, pending, timedOut, abandoned>>
          /\ pc'[t] = "wait" /\ \A u \in Callers : u # t => pc'[u] = pc[u]
      BY <1>1, <1>3, <2>1 DEF send_message, Base, TypeOK
    <3> QED
      BY <3>1, CacheKept DEF Early
  <2>2. CASE ~linkUp
    <3>1. DOMAIN pending' = {}
      BY <1>1, <1>3, <2>2, ForceCompletion DEF send_message
    <3> QED
      BY <3>1 DEF InTime, NoDanglingRequest
  <2> QED
    BY <2>1, <2>2
<1>4. CASE \/ set_rpc_channel \/ GuestAnswers \/ GuestDisconnects \/ populate_message_for_result
           \/ complete_response \/ Quiet
  <2>1. UNCHANGED <<method, tag, timedOut, pc, abandoned>>
    BY <1>4 DEF set_rpc_channel, GuestAnswers, GuestDisconnects, populate_message_for_result,
                complete_response, Quiet, on_read_error, UseFreedChannel, vars, callerVars
  <2>2. \A i \in DOMAIN pending' : i \in DOMAIN pending /\ pending'[i] = pending[i]
    <3>1. CASE complete_response
      BY <3>1 DEF complete_response
    <3>2. CASE UNCHANGED pending
      BY <3>2
    <3> QED
      BY <1>4, <3>1, <3>2 DEF set_rpc_channel, GuestAnswers, GuestDisconnects,
                              populate_message_for_result, Quiet, on_read_error, UseFreedChannel, vars
  <2> QED
    BY <2>1, <2>2, CacheKept
<1> QED
  BY <1>2, <1>3, <1>4

LEMMA StepCache == CacheInv /\ [Next]_vars => CacheInv'
<1> SUFFICES ASSUME CacheInv, [Next]_vars PROVE InTime' /\ NoDanglingRequest'
    BY StepAccounted DEF CacheInv
<1> QED
  BY CallCache, SaveCache, WaitCache, OtherCache DEF Next, Caller, Reader, Quiet

LEMMA InitCache == Init => CacheInv
<1>1. Init => DOMAIN pending = {}
  BY DEF Init
<1> QED
  BY <1>1, InitAccounted DEF CacheInv, InTime, NoDanglingRequest

\* A late answer is written through a pointer of the cache only if the caller was
\* given up by a time-out: for any number of threads, methods and calls, every
\* entry of PendingCallCache belongs to a call that still has its Request or to
\* one that timed out (android_api_stub.cpp frees the Request when a call returns).
THEOREM NeverDangling == Spec => []NoDanglingRequest
<1>1. CacheInv => NoDanglingRequest
  BY DEF CacheInv
<1> QED
  BY InitCache, StepCache, <1>1, PTL DEF Spec
--------------------------------------------------------------------------------
(* Ids and messages stand for one call. *)

LEMMA UsesKept ==
  ASSUME IdsUnique, clash' = clash, drawn' = drawn,
         \A i \in Ids, g \in AnyTag : Uses(i, g)' => Uses(i, g)
  PROVE  IdsUnique'
<1> SUFFICES ASSUME ~clash
             PROVE  /\ \A i \in Ids, g \in AnyTag : Uses(i, g)' => i \in drawn
                    /\ \A i \in Ids, g, h \in AnyTag : Uses(i, g)' /\ Uses(i, h)' => g = h
  BY DEF IdsUnique
<1> QED
  BY DEF IdsUnique

LEMMA CallerUnique ==
  ASSUME Base, IdsUnique, NEW t \in Callers,
         \/ ReadNextId(t) \/ StoreNextId(t) \/ save_completion_details(t) \/ send_message(t)
         \/ WaitReturns(t) \/ WaitTimesOut(t) \/ Finish(t) \/ \E m \in Methods : Call(t, m)
  PROVE  IdsUnique'
<1>1. pc \in [Callers -> {"idle", "read_id", "store_id", "save", "send", "wait", "check"}]
  BY DEF Base, TypeOK
<1>2. ASSUME NEW m \in Methods, Call(t, m) PROVE IdsUnique'
  <2>1. /\ UNCHANGED <<clash, drawn, id, pending, requests, results, ioPc, ioResult>>
        /\ pc'[t] = "read_id" /\ \A u \in Callers : u # t => pc'[u] = pc[u] /\ tag'[u] = tag[u]
    BY <1>1, <1>2 DEF Call, idVars, wireVars, ioVars, Base, TypeOK
  <2> QED
    BY <2>1, UsesKept DEF Uses
<1>3. CASE ReadNextId(t)
  <2>1. /\ UNCHANGED <<tag, pending, requests, results, ioPc, ioResult>>
        /\ drawn' = drawn \cup {nextId} /\ clash' = (clash \/ nextId \in drawn)
        /\ id'[t] = nextId /\ \A u \in Callers : u # t => pc'[u] = pc[u] /\ id'[u] = id[u]
    BY <1>1, <1>3 DEF ReadNextId, wireVars, ioVars, Base, TypeOK
  <2> SUFFICES ASSUME ~clash, nextId \notin drawn
               PROVE  /\ \A i \in Ids, g \in AnyTag : Uses(i, g)' => i \in drawn'
                      /\ \A i \in Ids, g, h \in AnyTag : Uses(i, g)' /\ Uses(i, h)' => g = h
    BY <2>1 DEF IdsUnique
  <2>2. \A i \in Ids, g \in AnyTag : Uses(i, g)' => Uses(i, g) \/ (i = nextId /\ g = tag[t])
    BY <2>1 DEF Uses
  <2>3. \A g \in AnyTag : nextId \in Ids => ~Uses(nextId, g)
    BY DEF IdsUnique
  <2> QED
    BY <2>1, <2>2, <2>3 DEF IdsUnique
<1>4. CASE StoreNextId(t)
  <2>1. /\ UNCHANGED <<clash, drawn, tag, id, pending, requests, results, ioPc, ioResult>>
        /\ pc[t] = "store_id" /\ \A u \in Callers : u # t => pc'[u] = pc[u]
    BY <1>1, <1>4 DEF StoreNextId, wireVars, ioVars
  <2> QED
    BY <2>1, UsesKept DEF Uses
<1>5. CASE save_completion_details(t)
  <2>1. /\ UNCHANGED <<clash, drawn, tag, id, requests, results, ioPc, ioResult>>
        /\ pc[t] = "save" /\ \A u \in Callers : u # t => pc'[u] = pc[u]
    BY <1>1, <1>5 DEF save_completion_details, idVars, wireVars, ioVars
  <2>2. /\ DOMAIN pending' = DOMAIN pending \cup {id[t]}
        /\ pending'[id[t]].tag = tag[t]
        /\ \A i \in DOMAIN pending : i # id[t] => pending'[i] = pending[i]
    BY <1>5 DEF save_completion_details
  <2> QED
    BY <2>1, <2>2, UsesKept DEF Uses
<1>6. CASE send_message(t)
  <2>1. /\ UNCHANGED <<clash, drawn, tag, id, results, ioPc, ioResult>>
        /\ pc[t] = "send" /\ \A u \in Callers : u # t => pc'[u] = pc[u]
    BY <1>1, <1>6 DEF send_message, idVars, ioVars
  <2>2. CASE linkUp
    <3> DEFINE q == [id |-> id[t], tag |-> tag[t]]
    <3>1. requests' = requests \cup {q} /\ pending' = pending
      BY <1>6, <2>2 DEF send_message
    <3>2. q.id = id[t] /\ q.tag = tag[t]
      OBVIOUS
    <3> HIDE DEF q
    <3> QED
      BY <2>1, <3>1, <3>2, UsesKept DEF Uses
  <2>3. CASE ~linkUp
    <3>1. requests' = requests /\ DOMAIN pending' = {}
      BY <1>6, <2>3, ForceCompletion DEF send_message
    <3> QED
      BY <2>1, <3>1, UsesKept DEF Uses
  <2> QED
    BY <2>2, <2>3
<1>7. CASE WaitReturns(t) \/ WaitTimesOut(t) \/ Finish(t)
  <2>1. /\ UNCHANGED <<clash, drawn, tag, id, pending, requests, results, ioPc, ioResult>>
        /\ pc[t] \in {"wait", "check"} /\ \A u \in Callers : u # t => pc'[u] = pc[u]
    BY <1>1, <1>7 DEF WaitReturns, WaitTimesOut, Finish, idVars, wireVars, ioVars
  <2> QED
    BY <2>1, UsesKept DEF Uses
<1> QED
  BY <1>2, <1>3, <1>4, <1>5, <1>6, <1>7

LEMMA WireUnique ==
  ASSUME Base, IdsUnique,
         \/ set_rpc_channel \/ GuestAnswers \/ GuestDisconnects \/ populate_message_for_result
         \/ complete_response \/ Quiet
  PROVE  IdsUnique'
<1>1. UNCHANGED <<clash, drawn, tag, id, pc>>
  BY DEF set_rpc_channel, GuestAnswers, GuestDisconnects, populate_message_for_result,
         complete_response, Quiet, on_read_error, UseFreedChannel, vars, callerVars, idVars
<1>2. \A i \in DOMAIN pending' : i \in DOMAIN pending /\ pending'[i] = pending[i]
  <2>1. CASE complete_response
    BY <2>1 DEF complete_response
  <2>2. CASE UNCHANGED pending
    BY <2>2
  <2> QED
    BY <2>1, <2>2 DEF set_rpc_channel, GuestAnswers, GuestDisconnects,
                      populate_message_for_result, Quiet, on_read_error, UseFreedChannel, vars
<1>3. /\ requests' \cup results' \subseteq requests \cup results
      /\ ioPc' = "complete" => ioResult' \in results \/ UNCHANGED <<ioPc, ioResult>>
  BY DEF set_rpc_channel, GuestAnswers, GuestDisconnects, populate_message_for_result,
         complete_response, Quiet, on_read_error, UseFreedChannel, vars, wireVars, ioVars
<1> QED
  BY <1>1, <1>2, <1>3, UsesKept DEF Uses

LEMMA StepUnique == Base /\ IdsUnique /\ [Next]_vars => IdsUnique'
BY CallerUnique, WireUnique DEF Next, Caller, Reader, Quiet

LEMMA StepNotSent ==
  ASSUME Base, Base', NotSent, [Next]_vars
  PROVE  NotSent'
<1> DEFINE M == requests \cup results \cup {ioResult}
           Unsent == {"read_id", "store_id", "save", "send"}
<1>1. /\ pc \in [Callers -> {"idle", "read_id", "store_id", "save", "send", "wait", "check"}]
      /\ tag \in [Callers -> Tags \cup {NoTag}]
  BY DEF Base, TypeOK
<1>2. ASSUME M' \subseteq M \cup {NoMessage}, tag' = tag,
             \A t \in Callers : pc'[t] \in Unsent => pc[t] \in Unsent
      PROVE  NotSent'
  <2>1. \A t \in Callers : pc[t] \in Unsent => NoMessage.tag # tag[t]
    BY DEF NoMessage, Base, TagsOwn
  <2> QED
    BY <1>2, <2>1 DEF NotSent
<1>3. ASSUME NEW t \in Callers, NEW m \in Methods, Call(t, m) PROVE NotSent'
  <2>1. /\ M' = M
        /\ \A u \in Callers : u # t => pc'[u] = pc[u] /\ tag'[u] = tag[u]
        /\ tag'[t] = calls + 1
    BY <1>1, <1>3 DEF Call, wireVars, ioVars
  <2>2. \A r \in M : r.tag # calls + 1
    <3>1. calls \in Nat /\ \A r \in M : r.tag \in Nat /\ r.tag <= calls
      BY Numbers DEF Base, TagsOwn
    <3> HIDE DEF M
    <3> QED
      BY <3>1
  <2> QED
    BY <2>1, <2>2 DEF NotSent
<1>4. ASSUME NEW t \in Callers, send_message(t), linkUp PROVE NotSent'
  <2> DEFINE q == [id |-> id[t], tag |-> tag[t]]
  <2>1. /\ requests' = requests \cup {q} /\ UNCHANGED <<results, ioResult, tag>>
        /\ pc[t] = "send" /\ pc'[t] = "wait"
        /\ \A u \in Callers : u # t => pc'[u] = pc[u]
    BY <1>1, <1>4 DEF send_message, ioVars
  <2>2. q.tag = tag[t] /\ \A u \in Callers : u # t => tag[u] # tag[t]
    <3>1. tag[t] # NoTag
      BY <2>1 DEF Base, TagsOwn
    <3> QED
      BY <3>1 DEF Base, TagsOwn
  <2> HIDE DEF q
  <2> QED
    BY <2>1, <2>2 DEF NotSent
<1>5. ASSUME NEW t \in Callers,
             \/ ReadNextId(t) \/ StoreNextId(t) \/ save_completion_details(t)
             \/ (send_message(t) /\ ~linkUp)
             \/ WaitReturns(t) \/ WaitTimesOut(t) \/ Finish(t)
      PROVE  NotSent'
  <2>1. UNCHANGED <<requests, results, ioResult, tag>>
    BY <1>5 DEF ReadNextId, StoreNextId, save_completion_details, send_message, WaitReturns,
                WaitTimesOut, Finish, wireVars, ioVars
  <2>2. \A u \in Callers : pc'[u] \in Unsent => pc[u] \in Unsent
    BY <1>1, <1>5 DEF ReadNextId, StoreNextId, save_completion_details, send_message, WaitReturns,
                      WaitTimesOut, Finish
  <2> QED
    BY <1>2, <2>1, <2>2
<1>6. CASE \/ set_rpc_channel \/ GuestAnswers \/ GuestDisconnects \/ populate_message_for_result
           \/ complete_response \/ Quiet
  <2>1. UNCHANGED <<tag, pc>>
    BY <1>6 DEF set_rpc_channel, GuestAnswers, GuestDisconnects, populate_message_for_result,
                complete_response, Quiet, on_read_error, UseFreedChannel, vars, callerVars
  <2>2. M' \subseteq M \cup {NoMessage}
    BY <1>6 DEF set_rpc_channel, GuestAnswers, GuestDisconnects, populate_message_for_result,
                complete_response, Quiet, on_read_error, UseFreedChannel, vars, wireVars, ioVars
  <2> QED
    BY <1>2, <2>1, <2>2
<1> QED
  BY <1>3, <1>4, <1>5, <1>6 DEF Next, Caller, Reader, Quiet
--------------------------------------------------------------------------------
(* A call that comes back in time has its own answer. *)

\* The parts of AnswerInv that are about answers.
Answers == Awaited /\ Returned /\ OwnAnswer

LEMMA CallAnswers ==
  ASSUME AnswerInv, NEW t \in Callers, NEW m \in Methods, Call(t, m)
  PROVE  Answers'
<1>1. Base /\ \A i \in DOMAIN pending : pending[i].caller \in Callers
  BY DEF AnswerInv, CacheInv, Accounted, Base, TypeOK
<1>2. /\ \A u \in Callers : u # t => /\ pc'[u] = pc[u] /\ tag'[u] = tag[u] /\ method'[u] = method[u]
                                     /\ via'[u] = via[u]
                                     /\ timedOut'[u] = timedOut[u] /\ outcome'[u] = outcome[u]
                                     /\ response'[u] = response[u]
      /\ tag'[t] = calls + 1 /\ pc'[t] = "read_id" /\ response'[t] = NoTag /\ outcome'[t] = "none"
      /\ UNCHANGED <<clash, link, linkUp, id, via, pending, ioPc, ioResult>>
  BY <1>1 DEF Call, Base, TypeOK, linkVars, idVars, wireVars, ioVars
<1>3. \A i \in DOMAIN pending : pending[i].tag # calls + 1
  <2>1. \A i \in DOMAIN pending : pending[i].tag <= calls /\ pending[i].tag \in Nat /\ calls \in Nat
    BY <1>1, Numbers DEF Base, TagsOwn
  <2> QED
    BY <2>1
<1>4. Awaited'
  <2>1. \A u \in Callers : u # t => Entry(u)' = Entry(u)
    BY <1>2 DEF Entry
  <2>2. \A i \in DOMAIN pending : Alive(pending[i])' => Alive(pending[i]) /\ pending[i].caller # t
    BY <1>1, <1>2, <1>3 DEF Alive
  <2> QED
    BY <1>1, <1>2, <2>1, <2>2 DEF AnswerInv, Awaited
<1>5. Returned' /\ OwnAnswer'
  BY <1>2 DEF AnswerInv, Returned, OwnAnswer
<1> QED
  BY <1>4, <1>5 DEF Answers

LEMMA SaveAnswers ==
  ASSUME AnswerInv, NEW t \in Callers, save_completion_details(t)
  PROVE  Answers'
<1>1. Base
  BY DEF AnswerInv, CacheInv, Accounted
<1>2. /\ UNCHANGED <<method, tag, timedOut, outcome, response, id, via, clash, link, linkUp, ioPc, ioResult>>
      /\ pc[t] = "save" /\ pc'[t] = "send" /\ \A u \in Callers : u # t => pc'[u] = pc[u]
  BY <1>1 DEF save_completion_details, Base, TypeOK, linkVars, idVars, wireVars, ioVars
<1>3. /\ DOMAIN pending' = DOMAIN pending \cup {id[t]}
      /\ pending'[id[t]] = Entry(t)
      /\ \A i \in DOMAIN pending : i # id[t] => pending'[i] = pending[i]
  BY DEF save_completion_details, Entry
<1>4. id[t] \in Ids /\ tag[t] \in Tags /\ Uses(id[t], tag[t])
  BY <1>1, <1>2 DEF Base, TypeOK, TagsOwn, Uses
<1>5. Returned' /\ OwnAnswer'
  BY <1>2 DEF AnswerInv, Returned, OwnAnswer
<1>6. ASSUME ~clash, linkUp, NEW u \in Callers, via[u] = link, pc'[u] \in {"send", "wait", "check"}
      PROVE  response[u] = tag[u] \/ (id[u] \in DOMAIN pending' /\ pending'[id[u]] = Entry(u))
  <2>1. CASE u = t
    BY <1>3, <2>1
  <2>2. CASE u # t
    <3>1. pc[u] \in {"send", "wait", "check"}
      BY <1>2, <1>6, <2>2
    <3>2. id[u] # id[t]
      <4>1. tag[u] \in Tags /\ tag[u] # tag[t]
        BY <1>1, <1>4, <2>2, <3>1 DEF Base, TypeOK, TagsOwn
      <4>2. id[u] = id[t] => Uses(id[t], tag[u])
        BY <3>1 DEF Uses
      <4> QED
        BY <1>4, <1>6, <4>1, <4>2 DEF AnswerInv, IdsUnique, AnyTag
    <3>3. response[u] = tag[u] \/ (id[u] \in DOMAIN pending /\ pending[id[u]] = Entry(u))
      BY <1>6, <3>1 DEF AnswerInv, Awaited
    <3> QED
      BY <1>3, <3>2, <3>3
  <2> QED
    BY <2>1, <2>2
<1>7. ASSUME ~clash, ioPc = "complete", ioResult.id \in DOMAIN pending', Alive(pending[ioResult.id])'
      PROVE  response[pending'[ioResult.id].caller] = pending'[ioResult.id].tag
  <2>1. ioResult.id # id[t]
    <3>1. ioResult \in Messages \cup {NoMessage} /\ ioResult.tag # tag[t]
      BY <1>1, <1>2 DEF Base, TypeOK, AnswerInv, NotSent
    <3>2. ioResult.id = id[t] => Uses(id[t], ioResult.tag)
      BY <1>7 DEF Uses
    <3>3. ioResult.tag \in AnyTag
      BY <3>1 DEF Messages, NoMessage, AnyTag
    <3> QED
      BY <1>4, <1>7, <3>1, <3>2, <3>3 DEF AnswerInv, IdsUnique, AnyTag
  <2>2. ioResult.id \in DOMAIN pending /\ pending'[ioResult.id] = pending[ioResult.id]
    BY <1>3, <1>7, <2>1
  <2>3. Alive(pending[ioResult.id])
    <3>1. pending[ioResult.id].caller \in Callers
      BY <1>1, <2>2 DEF Base, TypeOK
    <3> QED
      BY <1>2, <1>7, <2>2, <3>1 DEF Alive
  <2> QED
    BY <1>7, <2>2, <2>3 DEF AnswerInv, Awaited
<1>8. Awaited'
  <2>1. \A u \in Callers : Entry(u)' = Entry(u)
    BY <1>2 DEF Entry
  <2> QED
    BY <1>2, <1>6, <1>7, <2>1 DEF Awaited
<1> QED
  BY <1>5, <1>8 DEF Answers

LEMMA CallerAnswers ==
  ASSUME AnswerInv, NEW t \in Callers,
         \/ ReadNextId(t) \/ StoreNextId(t) \/ send_message(t)
         \/ WaitReturns(t) \/ WaitTimesOut(t) \/ Finish(t)
  PROVE  Answers'
<1>1. /\ pc \in [Callers -> {"idle", "read_id", "store_id", "save", "send", "wait", "check"}]
      /\ timedOut \in [Callers -> BOOLEAN]
      /\ outcome \in [Callers -> {"none", "returned", "timed out", "disconnected"}]
      /\ id \in [Callers -> Ids] /\ via \in [Callers -> Links] /\ Base
      /\ \A i \in DOMAIN pending : pending[i].caller \in Callers
  BY DEF AnswerInv, CacheInv, Accounted, Base, TypeOK
<1>2. UNCHANGED <<method, tag, response, link, linkUp, ioPc, ioResult>>
  BY DEF ReadNextId, StoreNextId, send_message, WaitReturns, WaitTimesOut, Finish, linkVars, wireVars, ioVars
<1>3. /\ \A u \in Callers : u # t => /\ pc'[u] = pc[u] /\ id'[u] = id[u]
                                     /\ via'[u] = via[u]
                                     /\ timedOut'[u] = timedOut[u] /\ outcome'[u] = outcome[u]
      /\ pc[t] # "idle"
      /\ pc'[t] \in {"send", "wait", "check"} =>
           pc[t] \in {"send", "wait", "check"} /\ id'[t] = id[t] /\ via'[t] = via[t]
      /\ clash => clash'
  <2>1. clash => clash'
    BY Zenon DEF ReadNextId, StoreNextId, send_message, WaitReturns, WaitTimesOut, Finish, idVars
  <2>2. \A u \in Callers : u # t => /\ pc'[u] = pc[u] /\ id'[u] = id[u]
                                   /\ via'[u] = via[u]
                                     /\ timedOut'[u] = timedOut[u] /\ outcome'[u] = outcome[u]
    <3>1. CASE ReadNextId(t) \/ StoreNextId(t)
      BY <1>1, <3>1 DEF ReadNextId, StoreNextId
    <3>2. CASE send_message(t)
      BY <1>1, <3>2 DEF send_message
    <3>3. CASE WaitReturns(t) \/ WaitTimesOut(t)
      BY <1>1, <3>3 DEF WaitReturns, WaitTimesOut
    <3>4. CASE Finish(t)
      BY <1>1, <3>4 DEF Finish
    <3> QED
      BY <3>1, <3>2, <3>3, <3>4
  <2>3. /\ pc[t] # "idle"
        /\ pc'[t] \in {"send", "wait", "check"} =>
             pc[t] \in {"send", "wait", "check"} /\ id'[t] = id[t] /\ via'[t] = via[t]
    <3>1. CASE ReadNextId(t) \/ StoreNextId(t)
      BY <1>1, <3>1 DEF ReadNextId, StoreNextId
    <3>2. CASE send_message(t)
      BY <1>1, <3>2 DEF send_message
    <3>3. CASE WaitReturns(t) \/ WaitTimesOut(t)
      BY <1>1, <3>3 DEF WaitReturns, WaitTimesOut
    <3>4. CASE Finish(t)
      BY <1>1, <3>4 DEF Finish
    <3> QED
      BY <3>1, <3>2, <3>3, <3>4
  <2> QED
    BY <2>1, <2>2, <2>3
<1>4. pending' = pending \/ (~linkUp /\ DOMAIN pending' = {})
  BY <1>1, ForceCompletion
     DEF ReadNextId, StoreNextId, send_message, WaitReturns, WaitTimesOut, Finish
<1>5. Awaited'
  <2>1. \A u \in Callers : Entry(u)' = Entry(u)
    BY <1>2 DEF Entry
  <2>2. \A i \in DOMAIN pending : pending' = pending /\ Alive(pending[i])' => Alive(pending[i])
    BY <1>1, <1>2, <1>3 DEF Alive
  <2>3. ASSUME ~clash', linkUp', NEW u \in Callers, via'[u] = link', pc'[u] \in {"send", "wait", "check"}
        PROVE  response'[u] = tag'[u] \/ (id'[u] \in DOMAIN pending' /\ pending'[id'[u]] = Entry(u)')
    <3>1. pc[u] \in {"send", "wait", "check"} /\ id'[u] = id[u] /\ ~clash /\ linkUp /\ via[u] = link
      BY <1>2, <1>3, <2>3
    <3>2. response[u] = tag[u] \/ (id[u] \in DOMAIN pending /\ pending[id[u]] = Entry(u))
      BY <3>1 DEF AnswerInv, Awaited
    <3> QED
      BY <1>2, <1>4, <2>1, <3>1, <3>2
  <2>4. ASSUME ~clash', ioPc' = "complete", ioResult'.id \in DOMAIN pending',
               Alive(pending[ioResult.id])'
        PROVE  response'[pending'[ioResult'.id].caller] = pending'[ioResult'.id].tag
    <3>1. pending' = pending /\ ~clash /\ Alive(pending[ioResult.id])
      BY <1>2, <1>3, <1>4, <2>2, <2>4
    <3> QED
      BY <1>2, <2>4, <3>1 DEF AnswerInv, Awaited
  <2> QED
    BY <2>3, <2>4 DEF Awaited
<1>6. Returned' /\ OwnAnswer'
  <2>1. CASE Finish(t)
    <3>1. pc[t] = "check" /\ pc'[t] = "idle" /\ UNCHANGED <<clash, timedOut, via>>
      BY <1>1, <2>1 DEF Finish, idVars
    <3>2. ~timedOut[t] => response[t] = tag[t] \/ clash \/ ~linkUp \/ via[t] # link
      <4> SUFFICES ASSUME ~timedOut[t], ~clash, linkUp, via[t] = link PROVE response[t] = tag[t]
        OBVIOUS
      <4>1. response[t] = tag[t] \/ (id[t] \in DOMAIN pending /\ pending[id[t]] = Entry(t))
        BY <3>1 DEF AnswerInv, Awaited
      <4>2. Entry(t).caller = t /\ Entry(t).tag = tag[t]
        BY DEF Entry
      <4> QED
        BY <3>1, <4>1, <4>2 DEF AnswerInv, CacheInv, InTime
    <3> QED
      BY <1>2, <1>3, <3>1, <3>2 DEF AnswerInv, Returned, OwnAnswer
  <2>2. CASE ~Finish(t)
    <3>1. outcome'[t] # "returned"
      <4>1. outcome[t] # "returned"
        BY <1>3 DEF AnswerInv, Returned
      <4> QED
        BY <1>1, <2>2, <4>1 DEF ReadNextId, StoreNextId, send_message, WaitReturns, WaitTimesOut
    <3> QED
      BY <1>2, <1>3, <3>1 DEF AnswerInv, Returned, OwnAnswer
  <2> QED
    BY <2>1, <2>2
<1> QED
  BY <1>5, <1>6 DEF Answers

LEMMA PopulateAnswers ==
  ASSUME AnswerInv, populate_message_for_result
  PROVE  Answers'
<1>1. /\ Base /\ response \in [Callers -> Tags \cup {NoTag}]
      /\ \A i \in DOMAIN pending : i \in Ids /\ pending[i].caller \in Callers /\ pending[i].tag \in Tags
      /\ \A r \in results : r.id \in Ids /\ r.tag \in Tags
  BY DEF AnswerInv, CacheInv, Accounted, Base, TypeOK, Messages
<1>2. UNCHANGED <<clash, link, linkUp, pc, method, tag, id, via, timedOut, outcome, pending>>
  BY DEF populate_message_for_result, linkVars, idVars
<1>3. PICK r \in results :
        /\ ioResult' = r
        /\ IF r.id \in DOMAIN pending
           THEN /\ ioPc' = "complete"
                /\ response' = IF Alive(pending[r.id])
                               THEN [response EXCEPT ![pending[r.id].caller] = r.tag] ELSE response
           ELSE ioPc' = "failed" /\ UNCHANGED response
  BY DEF populate_message_for_result
<1>4. \A u \in Callers : Entry(u)' = Entry(u)
  BY <1>2 DEF Entry
<1>5. CASE r.id \in DOMAIN pending /\ Alive(pending[r.id])
  <2> DEFINE e == pending[r.id]
  <2>1. /\ e.caller \in Callers /\ response'[e.caller] = r.tag /\ pc[e.caller] # "idle" /\ tag[e.caller] = e.tag
        /\ \A u \in Callers : u # e.caller => response'[u] = response[u]
    BY <1>1, <1>3, <1>5 DEF Alive
  <2>2. ~clash => r.tag = e.tag
    <3>1. Uses(r.id, r.tag) /\ Uses(r.id, e.tag)
      BY <1>5 DEF Uses
    <3> QED
      BY <1>1, <1>5, <3>1 DEF AnswerInv, IdsUnique, AnyTag
  <2> HIDE DEF e
  <2>3. Returned' /\ OwnAnswer'
    BY <1>2, <2>1, <2>2 DEF AnswerInv, Returned, OwnAnswer
  <2>4. ASSUME ~clash, linkUp, NEW u \in Callers, via[u] = link, pc[u] \in {"send", "wait", "check"}
        PROVE  response'[u] = tag[u] \/ (id[u] \in DOMAIN pending /\ pending[id[u]] = Entry(u))
    BY <2>1, <2>2, <2>4 DEF AnswerInv, Awaited
  <2>5. ~clash => response'[pending[r.id].caller] = pending[r.id].tag
    BY <2>1, <2>2 DEF e
  <2>6. Awaited'
    BY <1>2, <1>3, <1>4, <2>4, <2>5 DEF Awaited
  <2> QED
    BY <2>3, <2>6 DEF Answers
<1>6. CASE ~(r.id \in DOMAIN pending /\ Alive(pending[r.id]))
  <2>1. response' = response /\ ~(ioPc' = "complete" /\ r.id \in DOMAIN pending /\ Alive(pending[r.id]))
    BY <1>3, <1>6
  <2>2. Returned' /\ OwnAnswer'
    BY <1>2, <2>1 DEF AnswerInv, Returned, OwnAnswer
  <2>3. Alive(pending[ioResult.id])' <=> Alive(pending[r.id])
    BY <1>2, <1>3 DEF Alive
  <2>4. Awaited'
    BY <1>2, <1>3, <1>4, <2>1, <2>3 DEF AnswerInv, Awaited
  <2> QED
    BY <2>2, <2>4 DEF Answers
<1> QED
  BY <1>5, <1>6

LEMMA CompleteAnswers ==
  ASSUME AnswerInv, complete_response
  PROVE  Answers'
<1>1. UNCHANGED <<clash, link, linkUp, pc, method, tag, id, via, timedOut, outcome, response>>
  BY DEF complete_response, linkVars, idVars, callerVars, wireVars
<1>2. ioPc = "complete" /\ ioPc' = "read"
  BY DEF complete_response
<1>3. \A i \in DOMAIN pending : i # ioResult.id => i \in DOMAIN pending' /\ pending'[i] = pending[i]
  BY DEF complete_response
<1>4. Returned' /\ OwnAnswer'
  BY <1>1 DEF AnswerInv, Returned, OwnAnswer
<1>5. ASSUME ~clash, linkUp, NEW u \in Callers, via[u] = link, pc[u] \in {"send", "wait", "check"}
      PROVE  response[u] = tag[u] \/ (id[u] \in DOMAIN pending' /\ pending'[id[u]] = Entry(u))
  <2> SUFFICES ASSUME id[u] \in DOMAIN pending, pending[id[u]] = Entry(u), id[u] = ioResult.id
               PROVE  response[u] = tag[u]
    BY <1>3, <1>5 DEF AnswerInv, Awaited
  <2>1. Entry(u).caller = u /\ Entry(u).tag = tag[u]
    BY DEF Entry
  <2>2. Alive(pending[ioResult.id])
    BY <1>5, <2>1 DEF Alive
  <2> QED
    BY <1>2, <1>5, <2>1, <2>2 DEF AnswerInv, Awaited
<1>6. \A u \in Callers : Entry(u)' = Entry(u)
  BY <1>1 DEF Entry
<1> QED
  BY <1>1, <1>2, <1>4, <1>5, <1>6 DEF Answers, Awaited

LEMMA GuestAnswersKept ==
  ASSUME AnswerInv, GuestAnswers \/ GuestDisconnects \/ Quiet
  PROVE  Answers'
<1>1. /\ UNCHANGED <<clash, pc, method, tag, id, via, timedOut, outcome, response, pending, ioPc, ioResult>>
      /\ link' = link /\ (linkUp' => linkUp)
  BY DEF GuestAnswers, GuestDisconnects, Quiet, on_read_error, UseFreedChannel, vars, callerVars,
         linkVars, idVars, ioVars, wireVars
<1>2. \A u \in Callers : Entry(u)' = Entry(u)
  BY <1>1 DEF Entry
<1>3. \A i \in DOMAIN pending : Alive(pending[i])' <=> Alive(pending[i])
  BY <1>1 DEF Alive
<1>4. Returned' /\ OwnAnswer'
  BY <1>1 DEF AnswerInv, Returned, OwnAnswer
<1>5. Awaited'
  BY <1>1, <1>2, <1>3 DEF AnswerInv, Awaited
<1> QED
  BY <1>4, <1>5 DEF Answers

LEMMA LinkNumbers ==
  ASSUME Base
  PROVE  link \in Nat /\ via \in [Callers -> Links] /\ \A u \in Callers : via[u] \in Nat
<1>1. Links \subseteq Nat
  BY CallsAssumption DEF Links
<1>2. link \in Links /\ via \in [Callers -> Links]
  BY DEF Base, TypeOK
<1> QED
  BY <1>1, <1>2

\* No call in progress was made over the new connection.
LEMMA ReplaceAnswers ==
  ASSUME AnswerInv, set_rpc_channel
  PROVE  Answers'
<1>1. /\ UNCHANGED <<clash, pc, method, tag, id, via, timedOut, outcome, response>>
      /\ link' = link + 1
  BY DEF set_rpc_channel, callerVars, idVars
<1>2. \A u \in Callers : via[u] # link + 1
  <2>1. link \in Nat /\ \A u \in Callers : via[u] \in Nat /\ via[u] <= link
    BY LinkNumbers DEF AnswerInv, CacheInv, Accounted, ViaBehind
  <2> QED
    BY <2>1
<1>3. DOMAIN pending' = {}
  BY DEF set_rpc_channel
<1> QED
  BY <1>1, <1>2, <1>3 DEF AnswerInv, Answers, Awaited, Returned, OwnAnswer

LEMMA StepVia ==
  ASSUME Base, ViaBehind, [Next]_vars
  PROVE  ViaBehind'
<1>1. link \in Nat /\ via \in [Callers -> Links] /\ \A u \in Callers : via[u] \in Nat
  BY LinkNumbers
<1>2. CASE set_rpc_channel
  <2>1. via' = via /\ link' = link + 1
    BY <1>2 DEF set_rpc_channel, callerVars
  <2> QED
    BY <1>1, <2>1 DEF ViaBehind
<1>3. ASSUME NEW t \in Callers, ReadNextId(t) PROVE ViaBehind'
  BY <1>1, <1>3 DEF ReadNextId, ViaBehind, linkVars
<1>4. CASE UNCHANGED <<via, link>>
  BY <1>4 DEF ViaBehind
<1>5. ASSUME NEW t \in Callers,
             \/ StoreNextId(t) \/ save_completion_details(t) \/ send_message(t) \/ UseFreedChannel(t)
             \/ WaitReturns(t) \/ WaitTimesOut(t) \/ Finish(t) \/ \E m \in Methods : Call(t, m)
      PROVE  UNCHANGED <<via, link>>
  BY <1>5 DEF StoreNextId, save_completion_details, send_message, UseFreedChannel, WaitReturns,
              WaitTimesOut, Finish, Call, linkVars, callerVars
<1>6. ASSUME GuestAnswers \/ GuestDisconnects \/ Reader \/ UNCHANGED vars
      PROVE  UNCHANGED <<via, link>>
  BY <1>6 DEF GuestAnswers, GuestDisconnects, Reader, populate_message_for_result,
              complete_response, on_read_error, vars, linkVars, callerVars
<1> QED
  BY <1>2, <1>3, <1>4, <1>5, <1>6 DEF Next, Caller

LEMMA StepAnswer == AnswerInv /\ [Next]_vars => AnswerInv'
<1> SUFFICES ASSUME AnswerInv, [Next]_vars PROVE AnswerInv'
    OBVIOUS
<1>1. CacheInv' /\ Base /\ Base'
  BY StepCache, StepBase DEF AnswerInv, CacheInv, Accounted
<1>2. IdsUnique' /\ NotSent' /\ ViaBehind'
  BY <1>1, StepUnique, StepNotSent, StepVia DEF AnswerInv
<1>3. Answers'
  BY CallAnswers, SaveAnswers, CallerAnswers, PopulateAnswers, CompleteAnswers, GuestAnswersKept,
     ReplaceAnswers
     DEF Next, Caller, Reader, Quiet
<1> QED
  BY <1>1, <1>2, <1>3 DEF AnswerInv, Answers

LEMMA InitAnswer == Init => AnswerInv
<1> SUFFICES ASSUME Init PROVE AnswerInv
    OBVIOUS
<1>1. DOMAIN pending = {} /\ requests = {} /\ results = {} /\ ioPc = "read"
  BY DEF Init
<1>2. \A t \in Callers : pc[t] = "idle" /\ outcome[t] = "none" /\ response[t] = NoTag
  BY DEF Init
<1>3. \A i, g : ~Uses(i, g)
  BY <1>1, <1>2 DEF Uses
<1>4. IdsUnique /\ NotSent
  BY <1>2, <1>3 DEF IdsUnique, NotSent
<1>5. Awaited /\ Returned /\ OwnAnswer /\ ViaBehind
  BY <1>1, <1>2 DEF Init, Awaited, Returned, OwnAnswer, ViaBehind
<1> QED
  BY <1>4, <1>5, InitCache DEF AnswerInv

\* A call that comes back in time has the answer to this very call, for any number
\* of threads, methods and calls, although a WaitHandle only counts: unless two
\* threads drew the same id from Channel::next_id or the connection broke.
THEOREM AlwaysOwnAnswer == Spec => []OwnAnswer
<1>1. AnswerInv => OwnAnswer
  BY DEF AnswerInv
<1> QED
  BY InitAnswer, StepAnswer, <1>1, PTL DEF Spec
--------------------------------------------------------------------------------
(* The reading thread meets only results of calls that are in the cache. *)

\* Nothing is on its way over a connection that is gone, a message is at one place
\* only, and without a clash every message of a live connection has its entry.
Carried == /\ ~linkUp => requests = {}
           /\ ~connected => ~linkUp /\ results = {} /\ ioPc = "read"
           /\ requests \cap results = {}
           /\ ioPc = "complete" => ioResult \notin requests \cup results
           /\ ~clash /\ linkUp => \A r \in requests \cup results : r.id \in DOMAIN pending

\* No answer is in place before the call was sent.
Unanswered == ~clash => \A t \in Callers :
  pc[t] \in {"read_id", "store_id", "save", "send"} => response[t] = NoTag

ReaderInv == AnswerInv /\ Unanswered /\ Carried /\ ReaderLives

LEMMA StepUnanswered ==
  ASSUME ReaderInv, [Next]_vars
  PROVE  Unanswered'
<1> DEFINE Unsent == {"read_id", "store_id", "save", "send"}
<1>1. /\ pc \in [Callers -> {"idle", "read_id", "store_id", "save", "send", "wait", "check"}]
      /\ response \in [Callers -> Tags \cup {NoTag}] /\ Base
  BY DEF ReaderInv, AnswerInv, CacheInv, Accounted, Base, TypeOK
<1>2. ASSUME NEW t \in Callers, NEW m \in Methods, Call(t, m) PROVE Unanswered'
  <2>1. /\ clash' = clash /\ response'[t] = NoTag
        /\ \A u \in Callers : u # t => pc'[u] = pc[u] /\ response'[u] = response[u]
    BY <1>1, <1>2 DEF Call, idVars
  <2> QED
    BY <2>1 DEF ReaderInv, Unanswered
<1>3. ASSUME NEW t \in Callers,
             \/ ReadNextId(t) \/ StoreNextId(t) \/ save_completion_details(t) \/ send_message(t)
             \/ WaitReturns(t) \/ WaitTimesOut(t) \/ Finish(t)
      PROVE  Unanswered'
  <2>1. response' = response /\ \A u \in Callers : pc'[u] \in Unsent => pc[u] \in Unsent
    BY <1>1, <1>3 DEF ReadNextId, StoreNextId, save_completion_details, send_message, WaitReturns,
                      WaitTimesOut, Finish
  <2>2. clash => clash'
    BY <1>3, Zenon DEF ReadNextId, StoreNextId, save_completion_details, send_message, WaitReturns,
                       WaitTimesOut, Finish, idVars
  <2> QED
    BY <2>1, <2>2 DEF ReaderInv, Unanswered
<1>4. CASE set_rpc_channel \/ GuestAnswers \/ GuestDisconnects \/ complete_response \/ Quiet
  <2>1. UNCHANGED <<clash, pc, response>>
    BY <1>4 DEF set_rpc_channel, GuestAnswers, GuestDisconnects, complete_response, Quiet,
                on_read_error, UseFreedChannel, vars, idVars, callerVars
  <2> QED
    BY <2>1 DEF ReaderInv, Unanswered
<1>5. CASE populate_message_for_result
  <2>1. UNCHANGED <<clash, pc, tag>>
    BY <1>5 DEF populate_message_for_result, idVars
  <2>2. PICK r \in results :
          \/ response' = response
          \/ /\ r.id \in DOMAIN pending /\ Alive(pending[r.id])
             /\ response' = [response EXCEPT ![pending[r.id].caller] = r.tag]
    BY <1>5 DEF populate_message_for_result
  <2>3. CASE r.id \in DOMAIN pending /\ Alive(pending[r.id]) /\ ~clash
             /\ response' = [response EXCEPT ![pending[r.id].caller] = r.tag]
    <3> DEFINE e == pending[r.id]
    <3>1. /\ e.caller \in Callers /\ e.tag \in Tags /\ r.id \in Ids /\ r.tag \in Tags
          /\ tag[e.caller] = e.tag
      BY <1>1, <2>3 DEF Base, TypeOK, Messages, Alive
    <3>2. r.tag = e.tag
      <4>1. Uses(r.id, r.tag) /\ Uses(r.id, e.tag)
        BY <2>3 DEF Uses
      <4> QED
        BY <2>3, <3>1, <4>1 DEF ReaderInv, AnswerInv, IdsUnique, AnyTag
    <3>3. pc[e.caller] \notin Unsent
      BY <3>1, <3>2 DEF ReaderInv, AnswerInv, NotSent
    <3>4. \A u \in Callers : u # e.caller => response'[u] = response[u]
      BY <1>1, <2>3
    <3> HIDE DEF e
    <3> QED
      BY <2>1, <3>3, <3>4 DEF ReaderInv, Unanswered
  <2> QED
    BY <2>1, <2>2, <2>3 DEF ReaderInv, Unanswered
<1> QED
  BY <1>2, <1>3, <1>4, <1>5 DEF Next, Caller, Reader, Quiet


LEMMA CallerCarried ==
  ASSUME ReaderInv, NEW t \in Callers,
         \/ ReadNextId(t) \/ StoreNextId(t) \/ save_completion_details(t)
         \/ WaitReturns(t) \/ WaitTimesOut(t) \/ Finish(t) \/ \E m \in Methods : Call(t, m)
  PROVE  Carried' /\ ReaderLives'
<1>1. UNCHANGED <<linkUp, connected, requests, results, ioPc, ioResult>>
  BY DEF ReadNextId, StoreNextId, save_completion_details, WaitReturns, WaitTimesOut, Finish, Call,
         linkVars, wireVars, ioVars
<1>2. clash => clash'
  BY Zenon DEF ReadNextId, StoreNextId, save_completion_details, WaitReturns, WaitTimesOut, Finish,
               Call, idVars
<1>3. DOMAIN pending \subseteq DOMAIN pending'
  BY DEF ReadNextId, StoreNextId, save_completion_details, WaitReturns, WaitTimesOut, Finish, Call
<1> QED
  BY <1>1, <1>2, <1>3 DEF ReaderInv, Carried, ReaderLives

LEMMA SendCarried ==
  ASSUME ReaderInv, NEW t \in Callers, send_message(t)
  PROVE  Carried' /\ ReaderLives'
<1>1. UNCHANGED <<linkUp, connected, results, ioPc, ioResult, clash>>
  BY DEF send_message, linkVars, ioVars, idVars
<1>2. CASE ~linkUp
  BY <1>1, <1>2 DEF send_message, ReaderInv, Carried, ReaderLives
<1>3. CASE linkUp
  <2> DEFINE q == [id |-> id[t], tag |-> tag[t]]
  <2>1. requests' = requests \cup {q} /\ pending' = pending /\ pc[t] = "send" /\ via[t] = link
    BY <1>3 DEF send_message
  <2>2. q \notin requests \cup results /\ q # ioResult
    BY <2>1 DEF ReaderInv, AnswerInv, NotSent
  <2>3. ~clash => q.id \in DOMAIN pending
    <3>1. ~clash => response[t] = tag[t] \/ id[t] \in DOMAIN pending
      BY <1>3, <2>1 DEF ReaderInv, AnswerInv, Awaited
    <3>2. response[t] # tag[t] \/ clash
      BY <2>1 DEF ReaderInv, AnswerInv, CacheInv, Accounted, Base, TagsOwn, Unanswered
    <3> QED
      BY <3>1, <3>2
  <2> HIDE DEF q
  <2> QED
    BY <1>1, <1>3, <2>1, <2>2, <2>3 DEF ReaderInv, Carried, ReaderLives
<1> QED
  BY <1>2, <1>3

LEMMA WireCarried ==
  ASSUME ReaderInv, GuestAnswers \/ GuestDisconnects \/ Quiet
  PROVE  Carried' /\ ReaderLives'
<1>1. UNCHANGED <<clash, pending, ioPc, ioResult>>
  BY DEF GuestAnswers, GuestDisconnects, Quiet, on_read_error, UseFreedChannel, vars, idVars, ioVars
<1>2. CASE GuestAnswers
  <2>1. PICK r \in requests : requests' = requests \ {r} /\ results' = results \cup {r}
    BY <1>2 DEF GuestAnswers
  <2>2. linkUp /\ UNCHANGED <<linkUp, connected>>
    BY <1>2 DEF GuestAnswers, linkVars
  <2> QED
    BY <1>1, <2>1, <2>2 DEF ReaderInv, Carried, ReaderLives
<1>3. CASE GuestDisconnects
  BY <1>1, <1>3 DEF GuestDisconnects, linkVars, ReaderInv, Carried, ReaderLives
<1>4. CASE Quiet
  <2>1. UNCHANGED <<linkUp, requests, results>>
    BY <1>4 DEF Quiet, on_read_error, UseFreedChannel, vars, wireVars
  <2>2. connected' = connected \/ (~linkUp /\ results = {} /\ ioPc = "read")
    BY <1>4 DEF Quiet, on_read_error, UseFreedChannel, vars
  <2> QED
    BY <1>1, <2>1, <2>2 DEF ReaderInv, Carried, ReaderLives
<1> QED
  BY <1>2, <1>3, <1>4

LEMMA ReplaceCarried ==
  ASSUME ReaderInv, set_rpc_channel
  PROVE  Carried' /\ ReaderLives'
<1>1. requests = {} /\ results = {} /\ ioPc = "read"
  BY DEF set_rpc_channel, ReaderInv, Carried
<1>2. UNCHANGED <<requests, results, ioPc>> /\ linkUp' = TRUE /\ connected' = TRUE
  BY DEF set_rpc_channel, ioVars
<1> QED
  BY <1>1, <1>2 DEF Carried, ReaderLives

LEMMA ReaderCarried ==
  ASSUME ReaderInv, populate_message_for_result \/ complete_response
  PROVE  Carried' /\ ReaderLives'
<1>1. UNCHANGED <<linkUp, connected, clash, requests>>
  BY DEF populate_message_for_result, complete_response, linkVars, idVars, wireVars
<1>2. CASE populate_message_for_result
  <2>1. PICK r \in results :
          /\ results' = results \ {r} /\ ioResult' = r
          /\ r.id \in DOMAIN pending => ioPc' = "complete"
    BY <1>2 DEF populate_message_for_result
  <2>2. connected
    BY <2>1 DEF ReaderInv, Carried
  <2>3. pending' = pending
    BY <1>2 DEF populate_message_for_result
  <2> QED
    BY <1>1, <2>1, <2>2, <2>3 DEF ReaderInv, Carried, ReaderLives
<1>3. CASE complete_response
  <2>1. ioPc = "complete" /\ ioPc' = "read" /\ results' = results
    BY <1>3 DEF complete_response, wireVars
  <2>2. DOMAIN pending \ {ioResult.id} \subseteq DOMAIN pending'
    BY <1>3 DEF complete_response
  <2>3. ASSUME ~clash, NEW r \in requests \cup results PROVE r.id # ioResult.id
    <3>1. r \in Messages /\ ioResult \in Messages \cup {NoMessage} /\ r # ioResult
      BY <2>1, <2>3 DEF ReaderInv, AnswerInv, CacheInv, Accounted, Base, TypeOK, Carried
    <3>2. r.id \in Ids /\ r.tag \in AnyTag /\ ioResult.tag \in AnyTag
      BY <3>1 DEF Messages, NoMessage, AnyTag
    <3>3. r.id = ioResult.id => Uses(r.id, r.tag) /\ Uses(r.id, ioResult.tag)
      BY <2>1, <2>3 DEF Uses
    <3>4. r.id = ioResult.id => r.tag = ioResult.tag
      BY <2>3, <3>2, <3>3 DEF ReaderInv, AnswerInv, IdsUnique
    <3> QED
      BY <3>1, <3>4 DEF Messages, NoMessage
  <2> QED
    BY <1>1, <2>1, <2>2, <2>3 DEF ReaderInv, Carried, ReaderLives
<1> QED
  BY <1>2, <1>3

LEMMA StepReader == ReaderInv /\ [Next]_vars => ReaderInv'
<1> SUFFICES ASSUME ReaderInv, [Next]_vars PROVE Carried' /\ ReaderLives'
    BY StepAnswer, StepUnanswered DEF ReaderInv
<1> QED
  BY CallerCarried, SendCarried, WireCarried, ReplaceCarried, ReaderCarried
     DEF Next, Caller, Reader, Quiet

\* The thread that reads the bridge is not stopped by a result while the guest is
\* there, for any number of threads, methods, calls and connections, although calls
\* are given up by time-outs and channels are replaced, unless an id was drawn
\* twice (pending_call_cache.cpp: at() throws for an id that is not in the cache).
THEOREM ReaderAlwaysLives == Spec => []ReaderLives
<1>1. Init => ReaderInv
  BY InitAnswer DEF Init, ReaderInv, Unanswered, Carried, ReaderLives
<1>2. ReaderInv => ReaderLives
  BY DEF ReaderInv
<1> QED
  BY <1>1, <1>2, StepReader, PTL DEF Spec
================================================================================

