------------------------ MODULE ContainerLifecycleProofs -----------------------
(***************************************************************************)
(* For any number of session managers and of restarts of the container     *)
(* manager: whose container runs, what the manager thinks of it and who is *)
(* connected agree.                                                        *)
(***************************************************************************)
EXTENDS ContainerLifecycle, FiniteSetTheorems, TLAPS

\* TypeOK in parts, without the bound on the messages.
SessionTypes ==
  /\ main \in [Sessions -> {"off", "running", "stop", "wait", "join", "exited"}]
  /\ reading \in [Sessions -> BOOLEAN]
  /\ starter \in [Sessions -> {"none", "queued", "waiting", "done"}]
  /\ pending \in [Sessions -> SUBSET Calls] /\ completed \in [Sessions -> SUBSET Calls]
  /\ failed \in [Sessions -> SUBSET Calls]
WireTypes ==
  /\ link \in [Sessions -> {"none", "open", "shut", "gone"}]
  /\ toManager \in [Sessions -> Seq(Calls)] /\ toSession \in [Sessions -> Seq(Replies)]
ManagerTypes ==
  /\ manager \in {"up", "stopping", "down"} /\ restarts \in 0 .. MaxRestarts
  /\ serving \in [Sessions -> {"none", "backlog", "read", "prepare", "launch", "lost"}]
  /\ state \in [Sessions -> BOOLEAN] /\ handle \in [Sessions -> BOOLEAN]
  /\ box \in Sessions \cup {Nobody} /\ orphan \in BOOLEAN

Types == SessionTypes /\ WireTypes /\ ManagerTypes

\* The calls a session will still make, and the one the manager works on.
StartToCome(s) == IF main[s] = "off" \/ starter[s] = "queued" THEN 1 ELSE 0
StopToCome(s) == IF main[s] \in {"off", "running", "stop"} THEN 1 ELSE 0
Working(s) == IF serving[s] \in {"prepare", "launch"} THEN 1 ELSE 0

\* A session makes two calls in its life: each is to come, under way, worked on or
\* answered.
TwoCalls(s) ==
  Len(toManager[s]) + Len(toSession[s]) + Working(s) + StartToCome(s) + StopToCome(s) <= 2

\* Session s is in connections_.
Served(s) == serving[s] \in {"read", "prepare", "launch", "lost"}

\* What the manager knows of session s, and LXC of its container.
Known(s) ==
  /\ main[s] = "off" => serving[s] = "none"
  /\ state[s] => Served(s) /\ box \in {s, Nobody}
  /\ serving[s] = "launch" => handle[s]
  /\ box = s /\ ~orphan => handle[s] /\ Served(s)

\* new_client lets one session in at a time.
OneServed == \A r, s \in Sessions : Served(r) /\ Served(s) => r = s

OrphanRuns == orphan => box # Nobody

LifecycleInv ==
  /\ Types /\ OneServed /\ OrphanRuns
  /\ \A s \in Sessions : TwoCalls(s) /\ Known(s)

\* Sessions are numbers other than Nobody.
LEMMA NobodyIsNoSession ==
  /\ Nobody \notin Sessions /\ Sessions \subseteq Nat
  /\ IsFiniteSet(Sessions)
<1>1. Nobody \notin Sessions /\ Sessions \subseteq Nat
  BY LifecycleAssumption DEF Sessions, Nobody
<1>2. IsFiniteSet(Sessions)
  BY LifecycleAssumption, FS_Interval DEF Sessions
<1> QED BY <1>1, <1>2

\* The inductive invariant is as strong as ContainerOwned.
LEMMA InvGivesOwned ==
  ASSUME LifecycleInv
  PROVE  ContainerOwned
<1>1. ASSUME NEW s \in Sessions PROVE Len(toManager[s]) <= 2 /\ Len(toSession[s]) <= 2
  <2>1. Len(toManager[s]) \in Nat /\ Len(toSession[s]) \in Nat
    BY DEF LifecycleInv, Types, WireTypes
  <2>2. Working(s) \in Nat /\ StartToCome(s) \in Nat /\ StopToCome(s) \in Nat
    BY DEF Working, StartToCome, StopToCome
  <2>3. PICK a, b, d, e, f : /\ a = Len(toManager[s]) /\ b = Len(toSession[s]) /\ d = Working(s)
                             /\ e = StartToCome(s) /\ f = StopToCome(s)
    OBVIOUS
  <2>4. a + b + d + e + f <= 2
    BY <2>3 DEF LifecycleInv, TwoCalls
  <2>5. a \in Nat /\ b \in Nat /\ d \in Nat /\ e \in Nat /\ f \in Nat
    BY <2>1, <2>2, <2>3
  <2>6. a <= 2 /\ b <= 2
    BY ONLY <2>4, <2>5
  <2> QED BY <2>3, <2>6
<1>2. TypeOK
  BY <1>1 DEF LifecycleInv, Types, SessionTypes, WireTypes, ManagerTypes, TypeOK
<1>3. OwnContainer
  BY DEF LifecycleInv, Known, OwnContainer, Connections
<1>4. NoStrayContainer
  BY DEF LifecycleInv, Known, Served, NoStrayContainer, Connections, Types, ManagerTypes
<1> QED BY <1>2, <1>3, <1>4 DEF ContainerOwned

\* It holds at the start.
LEMMA LifecycleInit ==
  ASSUME Init
  PROVE  LifecycleInv
<1>1. SessionTypes
  BY DEF Init, SessionTypes
<1>2. <<>> \in Seq(Calls) /\ <<>> \in Seq(Replies) /\ Len(<<>>) = 0
  OBVIOUS
<1>3. WireTypes
  BY <1>2 DEF Init, WireTypes
<1>4. ManagerTypes
  <2>1. restarts \in 0 .. MaxRestarts /\ manager \in {"up", "stopping", "down"}
    BY LifecycleAssumption DEF Init
  <2>2. state \in [Sessions -> BOOLEAN] /\ handle \in [Sessions -> BOOLEAN] /\ orphan \in BOOLEAN
    BY DEF Init
  <2>3. /\ serving \in [Sessions -> {"none", "backlog", "read", "prepare", "launch", "lost"}]
        /\ box \in Sessions \cup {Nobody}
    BY DEF Init
  <2> QED BY <2>1, <2>2, <2>3 DEF ManagerTypes
<1>5. OneServed /\ OrphanRuns
  BY DEF Init, OneServed, Served, OrphanRuns
<1>6. ASSUME NEW s \in Sessions PROVE TwoCalls(s) /\ Known(s)
  <2>1. /\ main[s] = "off" /\ starter[s] = "none" /\ serving[s] = "none" /\ ~state[s]
        /\ toManager[s] = <<>> /\ toSession[s] = <<>> /\ box # s
    BY NobodyIsNoSession DEF Init
  <2>2. TwoCalls(s)
    BY <1>2, <2>1 DEF TwoCalls, Working, StartToCome, StopToCome
  <2> QED BY <2>1, <2>2 DEF Known, Served
<1> QED BY <1>1, <1>3, <1>4, <1>5, <1>6 DEF LifecycleInv, Types
--------------------------------------------------------------------------------
(* A step for one session leaves the others as they are. *)

OthersKept(s) ==
  \A r \in Sessions \ {s} :
    /\ main'[r] = main[r] /\ starter'[r] = starter[r]
    /\ toManager'[r] = toManager[r] /\ toSession'[r] = toSession[r]
    /\ serving'[r] = serving[r] /\ state'[r] = state[r] /\ handle'[r] = handle[r]

\* What a step for session s may do to the container: nothing, stop it, or start it
\* for the session when none runs.
BoxMove(s) == \/ UNCHANGED <<box, orphan>>
              \/ box' = Nobody /\ orphan' = FALSE
              \/ box = Nobody /\ box' = s /\ UNCHANGED orphan /\ Served(s)

\* Such a step keeps the invariant if it keeps it for its own session.
LEMMA OneSession ==
  ASSUME LifecycleInv, NEW s \in Sessions, OthersKept(s), BoxMove(s), Types',
         TwoCalls(s)', Known(s)',
         Served(s)' => Served(s) \/ \A r \in Sessions : ~Served(r)
  PROVE  LifecycleInv'
<1>1. ASSUME NEW r \in Sessions, r # s PROVE TwoCalls(r)' /\ Known(r)'
  <2>1. TwoCalls(r) /\ Known(r)
    BY DEF LifecycleInv
  <2>2. /\ main'[r] = main[r] /\ starter'[r] = starter[r]
        /\ toManager'[r] = toManager[r] /\ toSession'[r] = toSession[r]
        /\ serving'[r] = serving[r] /\ state'[r] = state[r] /\ handle'[r] = handle[r]
    BY <1>1 DEF OthersKept
  <2>3. TwoCalls(r)'
    BY <2>1, <2>2 DEF TwoCalls, Working, StartToCome, StopToCome
  <2>4. CASE UNCHANGED <<box, orphan>>
    BY <2>1, <2>2, <2>3, <2>4 DEF Known, Served
  <2>5. CASE box' = Nobody
    BY <2>1, <2>2, <2>3, <2>5, NobodyIsNoSession DEF Known, Served
  <2>6. CASE box' = s /\ Served(s)
    <3>1. ~Served(r)
      BY <1>1, <2>6 DEF LifecycleInv, OneServed
    <3> QED BY <1>1, <2>1, <2>2, <2>3, <2>6, <3>1 DEF Known, Served
  <2> QED BY <2>4, <2>5, <2>6 DEF BoxMove
<1>2. OneServed'
  <2>1. ASSUME NEW r \in Sessions, Served(r)' PROVE r = s \/ Served(r)
    BY <2>1 DEF OthersKept, Served
  <2>2. SUFFICES ASSUME NEW q \in Sessions, NEW r \in Sessions, Served(q)', Served(r)' PROVE q = r
    BY DEF OneServed
  <2>3. \A x, y \in Sessions : Served(x) /\ Served(y) => x = y
    BY DEF LifecycleInv, OneServed
  <2> QED BY <2>1, <2>2, <2>3
<1>3. OrphanRuns'
  BY NobodyIsNoSession DEF BoxMove, OrphanRuns, LifecycleInv
<1> QED BY <1>1, <1>2, <1>3 DEF LifecycleInv
--------------------------------------------------------------------------------
(* The session manager. *)

\* A call adds at most one message to those on their way to the manager.
LEMMA CallMethodType ==
  ASSUME Types, NEW s \in Sessions, NEW c \in Calls, call_method(s, c)
  PROVE  /\ pending' \in [Sessions -> SUBSET Calls] /\ completed' \in [Sessions -> SUBSET Calls]
         /\ toManager' \in [Sessions -> Seq(Calls)]
         /\ Len(toManager'[s]) \in {Len(toManager[s]), Len(toManager[s]) + 1}
         /\ \A r \in Sessions \ {s} : toManager'[r] = toManager[r]
<1>0. /\ toManager \in [Sessions -> Seq(Calls)] /\ pending \in [Sessions -> SUBSET Calls]
      /\ completed \in [Sessions -> SUBSET Calls]
  BY DEF Types, SessionTypes, WireTypes
<1>1. CASE link[s] = "open"
  <2>1. /\ toManager' = [toManager EXCEPT ![s] = Append(toManager[s], c)]
        /\ pending' = [pending EXCEPT ![s] = pending[s] \cup {c}] /\ completed' = completed
    BY <1>1 DEF call_method
  <2>2. toManager[s] \in Seq(Calls)
    BY <1>0
  <2>3. /\ Append(toManager[s], c) \in Seq(Calls)
        /\ Len(Append(toManager[s], c)) = Len(toManager[s]) + 1
    BY <2>2
  <2> QED BY <1>0, <2>1, <2>3
<1>2. CASE link[s] # "open"
  <2>1. /\ completed' = [completed EXCEPT ![s] = completed[s] \cup pending[s] \cup {c}]
        /\ pending' = [pending EXCEPT ![s] = {}] /\ toManager' = toManager
    BY <1>2 DEF call_method
  <2>2. completed[s] \cup pending[s] \cup {c} \in SUBSET Calls
    BY <1>0
  <2>3. pending' \in [Sessions -> SUBSET Calls] /\ completed' \in [Sessions -> SUBSET Calls]
    BY <1>0, <2>1, <2>2
  <2> QED BY <1>0, <2>1, <2>3
<1> QED BY <1>1, <1>2

\* The terminate callback and the signal handler end trap->run(), and nothing else.
LEMMA TerminateType ==
  ASSUME Types, NEW s \in Sessions, NEW cond \in BOOLEAN, terminate(s, cond)
  PROVE  /\ main' \in [Sessions -> {"off", "running", "stop", "wait", "join", "exited"}]
         /\ \/ main'[s] = main[s]
            \/ main[s] = "running" /\ main'[s] = "stop"
         /\ \A r \in Sessions \ {s} : main'[r] = main[r]
BY DEF terminate, Types, SessionTypes

\* The calls a session will still make, with those under way.
ToCome(s) == StartToCome(s) + StopToCome(s)
Weight(s) == Len(toManager[s]) + Len(toSession[s]) + ToCome(s)

\* They become no more: a call that is made was to come.
LEMMA WeightFalls ==
  ASSUME WireTypes, WireTypes', NEW s \in Sessions, Len(toSession'[s]) <= Len(toSession[s]),
         \/ Len(toManager'[s]) <= Len(toManager[s]) /\ ToCome(s)' <= ToCome(s)
         \/ Len(toManager'[s]) <= Len(toManager[s]) + 1 /\ ToCome(s)' + 1 <= ToCome(s)
  PROVE  Weight(s)' <= Weight(s)
<1>1. PICK a, b, d, u, v, x : /\ a = Len(toManager[s]) /\ b = Len(toSession[s]) /\ d = ToCome(s)
                              /\ u = Len(toManager'[s]) /\ v = Len(toSession'[s]) /\ x = ToCome(s)'
  OBVIOUS
<1>2. a \in Nat /\ b \in Nat /\ u \in Nat /\ v \in Nat
  BY <1>1 DEF WireTypes
<1>3. d \in Nat /\ x \in Nat
  BY <1>1 DEF ToCome, StartToCome, StopToCome
<1>4. v <= b /\ ((u <= a /\ x <= d) \/ (u <= a + 1 /\ x + 1 <= d))
  BY <1>1
<1>5. u + v + x <= a + b + d
  BY ONLY <1>2, <1>3, <1>4
<1> QED BY <1>1, <1>5 DEF Weight

\* A step of a session that does not connect and does not concern the manager.
LEMMA SessionStep ==
  ASSUME LifecycleInv, NEW s \in Sessions, OthersKept(s), SessionTypes', WireTypes',
         UNCHANGED <<managerVars, box, orphan>>,
         Weight(s)' <= Weight(s), main'[s] = "off" => main[s] = "off"
  PROVE  LifecycleInv'
<1>1. Types' /\ BoxMove(s)
  BY DEF LifecycleInv, Types, ManagerTypes, managerVars, BoxMove
<1>2. TwoCalls(s) /\ Known(s)
  BY DEF LifecycleInv
<1>3. TwoCalls(s)'
  <2>1. PICK a, b, d, e, f : /\ a = Len(toManager[s]) /\ b = Len(toSession[s]) /\ d = Working(s)
                             /\ e = StartToCome(s) /\ f = StopToCome(s)
    OBVIOUS
  <2>2. PICK u, v, x, y : /\ u = Len(toManager'[s]) /\ v = Len(toSession'[s])
                          /\ x = StartToCome(s)' /\ y = StopToCome(s)'
    OBVIOUS
  <2>3. /\ a \in Nat /\ b \in Nat /\ d \in Nat /\ e \in Nat /\ f \in Nat
        /\ u \in Nat /\ v \in Nat /\ x \in Nat /\ y \in Nat
    BY <2>1, <2>2 DEF LifecycleInv, Types, WireTypes, Working, StartToCome, StopToCome
  <2>4. a + b + d + e + f <= 2 /\ u + v + (x + y) <= a + b + (e + f)
    BY <1>2, <2>1, <2>2 DEF TwoCalls, Weight, ToCome
  <2>5. u + v + d + x + y <= 2
    BY ONLY <2>3, <2>4
  <2>6. Working(s)' = d
    BY <2>1 DEF Working, managerVars
  <2> QED BY <2>2, <2>5, <2>6 DEF TwoCalls
<1>4. Known(s)'
  BY <1>2 DEF Known, Served, managerVars
<1>5. Served(s)' => Served(s)
  BY DEF Served, managerVars
<1> QED BY <1>1, <1>3, <1>4, <1>5, OneSession

\* The steps of a session.
SessionAct(s) ==
  \/ Signal(s) \/ Main(s) \/ Starter(s) \/ ClientReader(s) \/ Kill(s)

\* They keep the invariant: the manager and the container are not touched.
LEMMA SessionKeepsInv ==
  ASSUME LifecycleInv, NEW s \in Sessions, SessionAct(s)
  PROVE  LifecycleInv'
<1>0. Types /\ SessionTypes /\ WireTypes
  BY DEF LifecycleInv, Types
<1>1. /\ toManager[s] \in Seq(Calls) /\ Len(toManager[s]) \in Nat
      /\ toSession[s] \in Seq(Replies) /\ Len(toSession[s]) \in Nat
  BY <1>0 DEF WireTypes
<1>2. ASSUME UNCHANGED <<managerVars, box, orphan>>, SessionTypes', WireTypes', Weight(s)' <= Weight(s),
             main'[s] = "off" => main[s] = "off",
             \A r \in Sessions \ {s} : /\ main'[r] = main[r] /\ starter'[r] = starter[r]
                                       /\ toManager'[r] = toManager[r] /\ toSession'[r] = toSession[r]
      PROVE  LifecycleInv'
  <2>1. OthersKept(s)
    BY <1>2 DEF OthersKept, managerVars
  <2> QED BY <1>2, <2>1, SessionStep
<1>3. ASSUME NEW cond \in BOOLEAN, terminate(s, cond)
      PROVE  /\ StopToCome(s)' = StopToCome(s)
             /\ main'[s] = "off" <=> main[s] = "off"
  BY <1>0, <1>3, TerminateType DEF StopToCome
<1>4. CASE start_container(s)
  <2>1. /\ starter[s] = "queued" /\ call_method(s, "start") /\ main[s] # "off"
        /\ starter' = [starter EXCEPT ![s] = IF link[s] = "open" THEN "waiting" ELSE "done"]
        /\ terminate(s, link[s] # "open")
        /\ UNCHANGED <<reading, failed, link, toSession, managerVars, box, orphan>>
    BY <1>4 DEF start_container, Dispatching
  <2>2. "start" \in Calls /\ (link[s] # "open") \in BOOLEAN
    BY DEF Calls
  <2>3. /\ pending' \in [Sessions -> SUBSET Calls] /\ completed' \in [Sessions -> SUBSET Calls]
        /\ toManager' \in [Sessions -> Seq(Calls)]
        /\ Len(toManager'[s]) \in {Len(toManager[s]), Len(toManager[s]) + 1}
        /\ \A r \in Sessions \ {s} : toManager'[r] = toManager[r]
    BY <1>0, <2>1, <2>2, CallMethodType
  <2>4. /\ main' \in [Sessions -> {"off", "running", "stop", "wait", "join", "exited"}]
        /\ \A r \in Sessions \ {s} : main'[r] = main[r]
    BY <1>0, <2>1, <2>2, TerminateType
  <2>5. SessionTypes'
    BY <1>0, <2>1, <2>3, <2>4 DEF SessionTypes
  <2>6. WireTypes'
    BY <1>0, <2>1, <2>3 DEF WireTypes
  <2>7. StartToCome(s) = 1 /\ StartToCome(s)' = 0 /\ StopToCome(s)' = StopToCome(s)
    <3>1. starter'[s] \in {"waiting", "done"}
      BY <1>0, <2>1 DEF SessionTypes
    <3>2. StopToCome(s)' = StopToCome(s) /\ (main'[s] = "off" <=> main[s] = "off")
      BY <1>3, <2>1, <2>2
    <3> QED BY <2>1, <3>1, <3>2 DEF StartToCome
  <2>8. ToCome(s)' + 1 <= ToCome(s)
    BY <2>7 DEF ToCome, StopToCome
  <2>9. Weight(s)' <= Weight(s)
    <3>1. Len(toManager'[s]) <= Len(toManager[s]) + 1 /\ Len(toSession'[s]) <= Len(toSession[s])
      BY <1>1, <2>1, <2>3
    <3> QED BY <1>0, <2>6, <2>8, <3>1, WeightFalls
  <2>10. /\ main'[s] = "off" => main[s] = "off"
         /\ \A r \in Sessions \ {s} : starter'[r] = starter[r] /\ toSession'[r] = toSession[r]
    BY <1>0, <1>3, <2>1, <2>2 DEF SessionTypes
  <2> QED BY <1>2, <2>1, <2>3, <2>4, <2>5, <2>6, <2>9, <2>10
<1>5. CASE stop_container(s)
  <2>1. /\ main[s] = "stop" /\ call_method(s, "stop")
        /\ main' = [main EXCEPT ![s] = IF link[s] = "open" THEN "wait" ELSE "join"]
        /\ UNCHANGED <<starter, reading, failed, link, toSession, managerVars, box, orphan>>
    BY <1>5 DEF stop_container
  <2>2. "stop" \in Calls
    BY DEF Calls
  <2>3. /\ pending' \in [Sessions -> SUBSET Calls] /\ completed' \in [Sessions -> SUBSET Calls]
        /\ toManager' \in [Sessions -> Seq(Calls)]
        /\ Len(toManager'[s]) \in {Len(toManager[s]), Len(toManager[s]) + 1}
        /\ \A r \in Sessions \ {s} : toManager'[r] = toManager[r]
    BY <1>0, <2>1, <2>2, CallMethodType
  <2>4. /\ main' \in [Sessions -> {"off", "running", "stop", "wait", "join", "exited"}]
        /\ main'[s] \in {"wait", "join"} /\ \A r \in Sessions \ {s} : main'[r] = main[r]
    BY <1>0, <2>1 DEF SessionTypes
  <2>5. SessionTypes'
    BY <1>0, <2>1, <2>3, <2>4 DEF SessionTypes
  <2>6. WireTypes'
    BY <1>0, <2>1, <2>3 DEF WireTypes
  <2>7. StopToCome(s) = 1 /\ StopToCome(s)' = 0 /\ StartToCome(s)' = StartToCome(s)
    BY <2>1, <2>4 DEF StartToCome, StopToCome
  <2>8. ToCome(s)' + 1 <= ToCome(s)
    BY <2>7 DEF ToCome, StartToCome
  <2>9. Weight(s)' <= Weight(s)
    <3>1. Len(toManager'[s]) <= Len(toManager[s]) + 1 /\ Len(toSession'[s]) <= Len(toSession[s])
      BY <1>1, <2>1, <2>3
    <3> QED BY <1>0, <2>6, <2>8, <3>1, WeightFalls
  <2> QED BY <1>2, <2>1, <2>3, <2>4, <2>5, <2>6, <2>9
<1>6. ASSUME UNCHANGED <<starter, link, toManager, toSession, managerVars, box, orphan>>, SessionTypes',
             StopToCome(s)' <= StopToCome(s), main'[s] = "off" <=> main[s] = "off",
             \A r \in Sessions \ {s} : main'[r] = main[r]
      PROVE  LifecycleInv'
  <2>1. WireTypes'
    BY <1>0, <1>6 DEF WireTypes
  <2>2. ToCome(s)' <= ToCome(s)
    <3>1. StartToCome(s)' = StartToCome(s)
      BY <1>6 DEF StartToCome
    <3> QED BY <1>6, <3>1 DEF ToCome, StartToCome, StopToCome
  <2>3. Weight(s)' <= Weight(s)
    <3>1. Len(toManager'[s]) <= Len(toManager[s]) /\ Len(toSession'[s]) <= Len(toSession[s])
      BY <1>1, <1>6
    <3> QED BY <1>0, <2>1, <2>2, <3>1, WeightFalls
  <2> QED BY <1>2, <1>6, <2>1, <2>3
<1>7. CASE Signal(s)
  <2>1. terminate(s, TRUE) /\ UNCHANGED <<starter, reading, pending, completed, failed, link, toManager,
                                          toSession, managerVars, box, orphan>>
    BY <1>7 DEF Signal
  <2>2. /\ main' \in [Sessions -> {"off", "running", "stop", "wait", "join", "exited"}]
        /\ \A r \in Sessions \ {s} : main'[r] = main[r]
    BY <1>0, <2>1, TerminateType
  <2>3. StopToCome(s)' <= StopToCome(s) /\ (main'[s] = "off" <=> main[s] = "off")
    <3>1. StopToCome(s)' = StopToCome(s) /\ (main'[s] = "off" <=> main[s] = "off")
      BY <1>3, <2>1
    <3>2. StopToCome(s) <= StopToCome(s)
      BY DEF StopToCome
    <3> QED BY <3>1, <3>2
  <2>4. SessionTypes'
    BY <1>0, <2>1, <2>2 DEF SessionTypes
  <2> QED BY <1>6, <2>1, <2>2, <2>3, <2>4
<1>8. CASE ClientReadError(s)
  <2>1. /\ terminate(s, TRUE) /\ reading' = [reading EXCEPT ![s] = FALSE]
        /\ UNCHANGED <<starter, pending, completed, failed, link, toManager, toSession, managerVars,
                       box, orphan>>
    BY <1>8 DEF ClientReadError
  <2>2. /\ main' \in [Sessions -> {"off", "running", "stop", "wait", "join", "exited"}]
        /\ \A r \in Sessions \ {s} : main'[r] = main[r]
    BY <1>0, <2>1, TerminateType
  <2>3. StopToCome(s)' <= StopToCome(s) /\ (main'[s] = "off" <=> main[s] = "off")
    <3>1. StopToCome(s)' = StopToCome(s) /\ (main'[s] = "off" <=> main[s] = "off")
      BY <1>3, <2>1
    <3>2. StopToCome(s) <= StopToCome(s)
      BY DEF StopToCome
    <3> QED BY <3>1, <3>2
  <2>4. SessionTypes'
    BY <1>0, <2>1, <2>2 DEF SessionTypes
  <2> QED BY <1>6, <2>1, <2>2, <2>3, <2>4
<1>9. CASE StopReturns(s)
  <2>1. /\ main[s] = "wait" /\ main' = [main EXCEPT ![s] = "join"]
        /\ UNCHANGED <<starter, reading, pending, completed, failed, link, toManager, toSession, managerVars,
                       box, orphan>>
    BY <1>9 DEF StopReturns
  <2>2. SessionTypes' /\ main'[s] = "join" /\ \A r \in Sessions \ {s} : main'[r] = main[r]
    BY <1>0, <2>1 DEF SessionTypes
  <2>3. StopToCome(s)' <= StopToCome(s)
    BY <2>1, <2>2 DEF StopToCome
  <2> QED BY <1>6, <2>1, <2>2, <2>3
<1>10. CASE StartReturns(s)
  <2>1. /\ starter[s] = "waiting" /\ starter' = [starter EXCEPT ![s] = "done"]
        /\ terminate(s, "start" \in failed[s])
        /\ completed' = [completed EXCEPT ![s] = completed[s] \ {"start"}]
        /\ failed' = [failed EXCEPT ![s] = failed[s] \ {"start"}]
        /\ UNCHANGED <<reading, pending, link, toManager, toSession, managerVars, box, orphan>>
    BY <1>10 DEF StartReturns
  <2>2. ("start" \in failed[s]) \in BOOLEAN
    OBVIOUS
  <2>3. /\ main' \in [Sessions -> {"off", "running", "stop", "wait", "join", "exited"}]
        /\ \A r \in Sessions \ {s} : main'[r] = main[r]
    BY <1>0, <2>1, <2>2, TerminateType
  <2>4. StopToCome(s)' = StopToCome(s) /\ (main'[s] = "off" <=> main[s] = "off")
    BY <1>3, <2>1, <2>2
  <2>5. SessionTypes' /\ starter'[s] = "done" /\ \A r \in Sessions \ {s} : starter'[r] = starter[r]
    BY <1>0, <2>1, <2>3 DEF SessionTypes
  <2>6. WireTypes'
    BY <1>0, <2>1 DEF WireTypes
  <2>7. ToCome(s)' <= ToCome(s)
    <3>1. StartToCome(s)' = StartToCome(s)
      BY <2>1, <2>4, <2>5 DEF StartToCome
    <3> QED BY <2>4, <3>1 DEF ToCome, StartToCome, StopToCome
  <2>8. Weight(s)' <= Weight(s)
    <3>1. Len(toManager'[s]) <= Len(toManager[s]) /\ Len(toSession'[s]) <= Len(toSession[s])
      BY <1>1, <2>1
    <3> QED BY <1>0, <2>6, <2>7, <3>1, WeightFalls
  <2> QED BY <1>2, <2>1, <2>3, <2>4, <2>5, <2>6, <2>8
<1>11. CASE Gone(s)
  <2>1. /\ main' = [main EXCEPT ![s] = "exited"] /\ starter' = [starter EXCEPT ![s] = "none"]
        /\ toSession' = [toSession EXCEPT ![s] = <<>>] /\ toManager' = toManager
        /\ UNCHANGED <<managerVars, box, orphan>>
    BY <1>11 DEF Gone
  <2>2. /\ main'[s] = "exited" /\ starter'[s] = "none" /\ toSession'[s] = <<>>
        /\ \A r \in Sessions \ {s} : /\ main'[r] = main[r] /\ starter'[r] = starter[r]
                                     /\ toSession'[r] = toSession[r]
    BY <1>0, <2>1 DEF SessionTypes, WireTypes
  <2>3. SessionTypes'
    BY <1>0, <1>11 DEF SessionTypes, Gone
  <2>4. WireTypes'
    <3>1. <<>> \in Seq(Replies)
      OBVIOUS
    <3>2. link' \in [Sessions -> {"none", "open", "shut", "gone"}]
      BY <1>0, <1>11 DEF WireTypes, Gone
    <3> QED BY <1>0, <2>1, <3>1, <3>2 DEF WireTypes
  <2>5. ToCome(s)' <= ToCome(s)
    <3>1. StartToCome(s)' = 0 /\ StopToCome(s)' = 0
      BY <2>2 DEF StartToCome, StopToCome
    <3> QED BY <3>1 DEF ToCome, StartToCome, StopToCome
  <2>6. Weight(s)' <= Weight(s)
    <3>1. Len(toManager'[s]) <= Len(toManager[s]) /\ Len(toSession'[s]) <= Len(toSession[s])
      BY <1>1, <2>1, <2>2
    <3> QED BY <1>0, <2>4, <2>5, <3>1, WeightFalls
  <2> QED BY <1>2, <2>1, <2>2, <2>3, <2>4, <2>6
<1>12. CASE ClientReadAnswer(s)
  <2>1. PICK r : r = Head(toSession[s])
    OBVIOUS
  <2>2. /\ toSession[s] # <<>> /\ toSession' = [toSession EXCEPT ![s] = Tail(toSession[s])]
        /\ UNCHANGED <<main, starter, link, toManager, managerVars, box, orphan>>
        /\ \/ /\ r.call \in pending[s]
              /\ pending' = [pending EXCEPT ![s] = pending[s] \ {r.call}]
              /\ completed' = [completed EXCEPT ![s] = completed[s] \cup {r.call}]
              /\ failed' = [failed EXCEPT ![s] = failed[s] \cup {r.call}] \/ failed' = failed
              /\ UNCHANGED reading
           \/ reading' = [reading EXCEPT ![s] = FALSE] /\ UNCHANGED <<pending, completed, failed>>
    BY <1>12, <2>1 DEF ClientReadAnswer
  <2>3. r.call \in Calls
    <3>1. r \in Replies
      BY <1>1, <2>1, <2>2
    <3> QED BY <3>1 DEF Replies
  <2>4. SessionTypes'
    <3>1. CASE reading' = [reading EXCEPT ![s] = FALSE] /\ UNCHANGED <<pending, completed, failed>>
      BY <1>0, <2>2, <3>1 DEF SessionTypes
    <3>2. CASE /\ r.call \in pending[s]
               /\ pending' = [pending EXCEPT ![s] = pending[s] \ {r.call}]
               /\ completed' = [completed EXCEPT ![s] = completed[s] \cup {r.call}]
               /\ failed' = [failed EXCEPT ![s] = failed[s] \cup {r.call}] \/ failed' = failed
               /\ UNCHANGED reading
      <4>1. /\ pending[s] \ {r.call} \in SUBSET Calls /\ completed[s] \cup {r.call} \in SUBSET Calls
            /\ failed[s] \cup {r.call} \in SUBSET Calls
        BY <1>0, <2>3 DEF SessionTypes
      <4>2. /\ pending' \in [Sessions -> SUBSET Calls] /\ completed' \in [Sessions -> SUBSET Calls]
            /\ failed' \in [Sessions -> SUBSET Calls]
        BY <1>0, <3>2, <4>1 DEF SessionTypes
      <4> QED BY <1>0, <2>2, <3>2, <4>2 DEF SessionTypes
    <3> QED BY <2>2, <3>1, <3>2
  <2>5. /\ Tail(toSession[s]) \in Seq(Replies)
        /\ Len(Tail(toSession[s])) <= Len(toSession[s])
    BY <1>1, <2>2
  <2>6. /\ WireTypes' /\ toSession'[s] = Tail(toSession[s])
        /\ \A x \in Sessions \ {s} : toSession'[x] = toSession[x]
    BY <1>0, <2>2, <2>5 DEF WireTypes
  <2>7. ToCome(s)' <= ToCome(s)
    BY <2>2 DEF ToCome, StartToCome, StopToCome
  <2>8. Weight(s)' <= Weight(s)
    <3>1. Len(toManager'[s]) <= Len(toManager[s]) /\ Len(toSession'[s]) <= Len(toSession[s])
      BY <1>1, <2>2, <2>5, <2>6
    <3> QED BY <1>0, <2>6, <2>7, <3>1, WeightFalls
  <2> QED BY <1>2, <2>2, <2>4, <2>6, <2>8
<1> QED BY <1>4, <1>5, <1>7, <1>8, <1>9, <1>10, <1>11, <1>12
        DEF SessionAct, Main, Starter, ClientReader, Exit, Kill

\* A session connects: its two calls are to come, and the manager does not know it.
LEMMA LaunchKeepsInv ==
  ASSUME LifecycleInv, NEW s \in Sessions, Launch(s)
  PROVE  LifecycleInv'
<1>0. SessionTypes /\ WireTypes /\ ManagerTypes /\ TwoCalls(s) /\ Known(s)
  BY DEF LifecycleInv, Types
<1>1. /\ main[s] = "off" /\ main' = [main EXCEPT ![s] = "running"]
      /\ starter' = [starter EXCEPT ![s] = "queued"] /\ reading' = [reading EXCEPT ![s] = TRUE]
      /\ link' = [link EXCEPT ![s] = "open"] /\ serving' = [serving EXCEPT ![s] = "backlog"]
      /\ UNCHANGED <<pending, completed, failed, toManager, toSession, manager, restarts, state, handle,
                     box, orphan>>
  BY DEF Launch
<1>2. Types'
  <2>1. SessionTypes'
    BY <1>0, <1>1 DEF SessionTypes
  <2>2. WireTypes'
    BY <1>0, <1>1 DEF WireTypes
  <2>3. ManagerTypes'
    BY <1>0, <1>1 DEF ManagerTypes
  <2> QED BY <2>1, <2>2, <2>3 DEF Types
<1>3. main'[s] = "running" /\ starter'[s] = "queued" /\ serving'[s] = "backlog" /\ OthersKept(s)
  BY <1>0, <1>1 DEF SessionTypes, ManagerTypes, OthersKept
<1>4. serving[s] = "none" /\ ~Served(s)
  BY <1>0, <1>1 DEF Known, Served
<1>5. TwoCalls(s)'
  <2>1. Working(s) = 0 /\ StartToCome(s) = 1 /\ StopToCome(s) = 1
    BY <1>1, <1>4 DEF Working, StartToCome, StopToCome
  <2>2. Working(s)' = 0 /\ StartToCome(s)' = 1 /\ StopToCome(s)' = 1
    BY <1>3 DEF Working, StartToCome, StopToCome
  <2> QED BY <1>0, <1>1, <2>1, <2>2 DEF TwoCalls
<1>6. Known(s)' /\ ~Served(s)'
  BY <1>0, <1>1, <1>3, <1>4 DEF Known, Served
<1>7. BoxMove(s)
  BY <1>1 DEF BoxMove
<1> QED BY <1>2, <1>3, <1>5, <1>6, <1>7, OneSession
--------------------------------------------------------------------------------
(* The container manager. *)

\* A call that is taken from the socket is worked on or answered.
AnswerWeight(s) == Len(toManager[s]) + Len(toSession[s]) + Working(s)

\* A step of the manager for one session: it does not touch the session's own state.
LEMMA ManagerStep ==
  ASSUME LifecycleInv, NEW s \in Sessions, OthersKept(s), BoxMove(s), WireTypes', ManagerTypes',
         UNCHANGED sessionVars, AnswerWeight(s)' <= AnswerWeight(s), serving[s] # "none",
         state'[s] => Served(s)' /\ box' \in {s, Nobody},
         serving'[s] = "launch" => handle'[s],
         box' = s /\ ~orphan' => handle'[s] /\ Served(s)',
         Served(s)' => Served(s) \/ \A r \in Sessions : ~Served(r)
  PROVE  LifecycleInv'
<1>0. SessionTypes /\ WireTypes /\ TwoCalls(s) /\ Known(s)
  BY DEF LifecycleInv, Types
<1>1. Types'
  BY <1>0 DEF sessionVars, SessionTypes, Types
<1>2. main'[s] = main[s] /\ main[s] # "off" /\ starter'[s] = starter[s]
  BY <1>0 DEF Known, sessionVars
<1>3. TwoCalls(s)'
  <2>1. PICK a, b, d, e, f : /\ a = Len(toManager[s]) /\ b = Len(toSession[s]) /\ d = Working(s)
                             /\ e = StartToCome(s) /\ f = StopToCome(s)
    OBVIOUS
  <2>2. PICK u, v, w : u = Len(toManager'[s]) /\ v = Len(toSession'[s]) /\ w = Working(s)'
    OBVIOUS
  <2>3. /\ a \in Nat /\ b \in Nat /\ d \in Nat /\ e \in Nat /\ f \in Nat
        /\ u \in Nat /\ v \in Nat /\ w \in Nat
    BY <1>0, <2>1, <2>2 DEF WireTypes, Working, StartToCome, StopToCome
  <2>4. a + b + d + e + f <= 2 /\ u + v + w <= a + b + d
    BY <1>0, <2>1, <2>2 DEF TwoCalls, AnswerWeight
  <2>5. u + v + w + e + f <= 2
    BY ONLY <2>3, <2>4
  <2>6. StartToCome(s)' = e /\ StopToCome(s)' = f
    BY <1>2, <2>1 DEF StartToCome, StopToCome
  <2> QED BY <2>2, <2>5, <2>6 DEF TwoCalls
<1>4. Known(s)'
  BY <1>2 DEF Known
<1> QED BY <1>1, <1>3, <1>4, OneSession

\* What an answer does.
LEMMA RespondType ==
  ASSUME Types, NEW s \in Sessions, NEW c \in Calls, NEW e \in BOOLEAN, Respond(s, c, e)
  PROVE  /\ toSession' \in [Sessions -> Seq(Replies)]
         /\ serving' \in [Sessions -> {"none", "backlog", "read", "prepare", "launch", "lost"}]
         /\ serving'[s] \in {"read", "lost"}
         /\ Len(toSession'[s]) \in {Len(toSession[s]), Len(toSession[s]) + 1}
         /\ \A r \in Sessions \ {s} : serving'[r] = serving[r] /\ toSession'[r] = toSession[r]
<1>0. /\ toSession \in [Sessions -> Seq(Replies)] /\ toSession[s] \in Seq(Replies)
      /\ serving \in [Sessions -> {"none", "backlog", "read", "prepare", "launch", "lost"}]
  BY DEF Types, WireTypes, ManagerTypes
<1>1. CASE link[s] = "open"
  <2>1. PICK m : m = [call |-> c, error |-> e]
    OBVIOUS
  <2>2. m \in Replies
    BY <2>1 DEF Replies
  <2>3. /\ toSession' = [toSession EXCEPT ![s] = Append(toSession[s], m)]
        /\ serving' = [serving EXCEPT ![s] = "read"]
    BY <1>1, <2>1 DEF Respond
  <2>4. Append(toSession[s], m) \in Seq(Replies) /\ Len(Append(toSession[s], m)) = Len(toSession[s]) + 1
    BY <1>0, <2>2
  <2>5. /\ serving' \in [Sessions -> {"none", "backlog", "read", "prepare", "launch", "lost"}]
        /\ serving'[s] = "read"
    BY <1>0, <2>3
  <2> QED BY <1>0, <2>3, <2>4, <2>5
<1>2. CASE link[s] # "open"
  BY <1>0, <1>2 DEF Respond
<1> QED BY <1>1, <1>2

\* taken calls leave the socket and given answers enter it: what is given was taken
\* or worked on.
LEMMA AnswerFalls ==
  ASSUME WireTypes, WireTypes', NEW s \in Sessions, NEW taken \in {0, 1}, NEW given \in {0, 1},
         Len(toManager'[s]) + taken = Len(toManager[s]),
         Len(toSession'[s]) <= Len(toSession[s]) + given,
         Working(s)' + given <= Working(s) + taken
  PROVE  AnswerWeight(s)' <= AnswerWeight(s)
<1>1. PICK a, b, d, u, v, w : /\ a = Len(toManager[s]) /\ b = Len(toSession[s]) /\ d = Working(s)
                              /\ u = Len(toManager'[s]) /\ v = Len(toSession'[s]) /\ w = Working(s)'
  OBVIOUS
<1>2. a \in Nat /\ b \in Nat /\ u \in Nat /\ v \in Nat
  BY <1>1 DEF WireTypes
<1>3. d \in Nat /\ w \in Nat
  BY <1>1 DEF Working
<1>4. u + taken = a /\ v <= b + given /\ w + given <= d + taken
  BY <1>1
<1>5. u + v + w <= a + b + d
  BY ONLY <1>2, <1>3, <1>4, taken \in {0, 1}, given \in {0, 1}
<1> QED BY <1>1, <1>5 DEF AnswerWeight

\* A session is let in when connections_ is empty.
LEMMA NewClientKeepsInv ==
  ASSUME LifecycleInv, NEW s \in Sessions, new_client(s)
  PROVE  LifecycleInv'
<1>0. WireTypes /\ ManagerTypes /\ Known(s)
  BY DEF LifecycleInv, Types
<1> DEFINE refused == Cardinality(Connections) >= 1
<1>1. /\ serving[s] = "backlog"
      /\ serving' = [serving EXCEPT ![s] = IF refused THEN "none" ELSE "read"]
      /\ link' = [link EXCEPT ![s] = IF refused /\ link[s] = "open" THEN "shut" ELSE link[s]]
      /\ toManager' = [toManager EXCEPT ![s] = IF refused THEN <<>> ELSE toManager[s]]
      /\ UNCHANGED <<sessionVars, toSession, manager, restarts, state, handle, box, orphan>>
  BY DEF new_client
<1>2. ~refused => \A r \in Sessions : ~Served(r)
  <2>1. IsFiniteSet(Connections)
    BY NobodyIsNoSession, FS_Subset DEF Connections
  <2>2. Cardinality(Connections) \in Nat
    BY <2>1, FS_CardinalityType
  <2>3. Cardinality(Connections) = 0 <=> Connections = {}
    BY <2>1, FS_EmptySet
  <2>4. ~refused => Connections = {}
    BY <2>2, <2>3
  <2> HIDE DEF refused
  <2> QED BY <2>4 DEF Connections, Served
<1> HIDE DEF refused
<1>3. serving'[s] = (IF refused THEN "none" ELSE "read") /\ OthersKept(s) /\ BoxMove(s)
  BY <1>0, <1>1 DEF ManagerTypes, WireTypes, sessionVars, OthersKept, BoxMove
<1>4. WireTypes' /\ ManagerTypes'
  <2>1. <<>> \in Seq(Calls)
    OBVIOUS
  <2>2. WireTypes'
    BY <1>0, <1>1, <2>1 DEF WireTypes
  <2>3. ManagerTypes'
    BY <1>0, <1>1 DEF ManagerTypes
  <2> QED BY <2>2, <2>3
<1>5. AnswerWeight(s)' <= AnswerWeight(s)
  <2>1. PICK a, b, u, v : /\ a = Len(toManager[s]) /\ b = Len(toSession[s])
                          /\ u = Len(toManager'[s]) /\ v = Len(toSession'[s])
    OBVIOUS
  <2>2. a \in Nat /\ b \in Nat /\ Len(<<>>) = 0
    BY <1>0, <2>1 DEF WireTypes
  <2>3. toManager'[s] = (IF refused THEN <<>> ELSE toManager[s]) /\ toSession'[s] = toSession[s]
    BY <1>0, <1>1 DEF WireTypes
  <2>4. u \in Nat /\ u <= a /\ v = b
    BY <2>1, <2>2, <2>3
  <2>5. Working(s) = 0 /\ Working(s)' = 0
    BY <1>1, <1>3 DEF Working
  <2>6. u + v + 0 <= a + b + 0
    BY ONLY <2>2, <2>4
  <2> QED BY <2>1, <2>5, <2>6 DEF AnswerWeight
<1>6. ~Served(s) /\ ~state[s] /\ (box = s => orphan)
  BY <1>0, <1>1 DEF Known, Served, ManagerTypes
<1>7. /\ ~state'[s] /\ serving'[s] # "launch" /\ (box' = s => orphan')
      /\ Served(s)' => \A r \in Sessions : ~Served(r)
  BY <1>1, <1>2, <1>3, <1>6 DEF Served
<1> QED BY <1>1, <1>3, <1>4, <1>5, <1>7, ManagerStep

\* The first call of the socket.
LEMMA TakeCall ==
  ASSUME WireTypes, NEW s \in Sessions, toManager[s] # <<>>,
         toManager' = [toManager EXCEPT ![s] = Tail(toManager[s])]
  PROVE  /\ toManager' \in [Sessions -> Seq(Calls)]
         /\ Len(toManager'[s]) + 1 = Len(toManager[s])
         /\ \A r \in Sessions \ {s} : toManager'[r] = toManager[r]
<1>1. /\ Tail(toManager[s]) \in Seq(Calls)
      /\ Len(Tail(toManager[s])) + 1 = Len(toManager[s])
  BY DEF WireTypes
<1> QED BY <1>1 DEF WireTypes

\* A start is refused, or worked on.
LEMMA HandleStartKeepsInv ==
  ASSUME LifecycleInv, NEW s \in Sessions, HandleStart(s)
  PROVE  LifecycleInv'
<1>0. Types /\ WireTypes /\ ManagerTypes /\ Known(s) /\ Len(toSession[s]) \in Nat
  BY DEF LifecycleInv, Types, WireTypes
<1>1. /\ serving[s] = "read" /\ toManager[s] # <<>>
      /\ toManager' = [toManager EXCEPT ![s] = Tail(toManager[s])]
      /\ UNCHANGED <<sessionVars, link, manager, restarts, state, handle, box, orphan>>
  BY DEF HandleStart
<1>2. /\ toManager' \in [Sessions -> Seq(Calls)]
      /\ Len(toManager'[s]) + 1 = Len(toManager[s])
      /\ \A r \in Sessions \ {s} : toManager'[r] = toManager[r]
  BY <1>0, <1>1, TakeCall
<1>3. Working(s) = 0 /\ Served(s) /\ BoxMove(s)
  BY <1>1 DEF Working, Served, BoxMove
<1>4. CASE state[s]
  <2>1. Respond(s, "start", TRUE) /\ "start" \in Calls
    BY <1>4 DEF HandleStart, Calls
  <2>2. /\ toSession' \in [Sessions -> Seq(Replies)]
        /\ serving' \in [Sessions -> {"none", "backlog", "read", "prepare", "launch", "lost"}]
        /\ serving'[s] \in {"read", "lost"}
        /\ Len(toSession'[s]) \in {Len(toSession[s]), Len(toSession[s]) + 1}
        /\ \A r \in Sessions \ {s} : serving'[r] = serving[r] /\ toSession'[r] = toSession[r]
    BY <1>0, <2>1, RespondType
  <2>3. WireTypes' /\ ManagerTypes' /\ OthersKept(s)
    BY <1>0, <1>1, <1>2, <2>2 DEF WireTypes, ManagerTypes, sessionVars, OthersKept
  <2>4. Working(s)' = 0 /\ Served(s)' /\ serving'[s] # "launch"
    BY <2>2 DEF Working, Served
  <2>5. AnswerWeight(s)' <= AnswerWeight(s)
    <3>1. Len(toSession'[s]) <= Len(toSession[s]) + 1 /\ Working(s)' + 1 <= Working(s) + 1
      BY <1>0, <1>3, <2>2, <2>4
    <3> QED BY <1>0, <1>2, <2>3, <3>1, AnswerFalls
  <2> QED BY <1>0, <1>1, <1>3, <2>3, <2>4, <2>5, ManagerStep DEF Known
<1>5. CASE ~state[s]
  <2>1. serving' = [serving EXCEPT ![s] = "prepare"] /\ toSession' = toSession
    BY <1>5 DEF HandleStart
  <2>2. WireTypes' /\ ManagerTypes' /\ OthersKept(s) /\ serving'[s] = "prepare"
    BY <1>0, <1>1, <1>2, <2>1 DEF WireTypes, ManagerTypes, sessionVars, OthersKept
  <2>3. Working(s)' = 1 /\ Served(s)'
    BY <2>2 DEF Working, Served
  <2>4. AnswerWeight(s)' <= AnswerWeight(s)
    <3>1. Len(toSession'[s]) <= Len(toSession[s]) + 0 /\ Working(s)' + 0 <= Working(s) + 1
      BY <1>0, <1>3, <2>1, <2>3
    <3> QED BY <1>0, <1>2, <2>2, <3>1, AnswerFalls
  <2> QED BY <1>0, <1>1, <1>3, <1>5, <2>2, <2>3, <2>4, ManagerStep DEF Known
<1> QED BY <1>4, <1>5

\* A stop is answered, whatever came of it.
LEMMA HandleStopKeepsInv ==
  ASSUME LifecycleInv, NEW s \in Sessions, HandleStop(s)
  PROVE  LifecycleInv'
<1>0. Types /\ WireTypes /\ ManagerTypes /\ Known(s) /\ Len(toSession[s]) \in Nat
  BY DEF LifecycleInv, Types, WireTypes
<1>1. /\ serving[s] = "read" /\ toManager[s] # <<>>
      /\ toManager' = [toManager EXCEPT ![s] = Tail(toManager[s])]
      /\ \E e \in BOOLEAN : Respond(s, "stop", e)
      /\ \/ state' = [state EXCEPT ![s] = FALSE] /\ box' = Nobody /\ orphan' = FALSE
         \/ UNCHANGED <<state, box, orphan>>
      /\ UNCHANGED <<sessionVars, link, manager, restarts, handle>>
  BY DEF HandleStop
<1>2. /\ toManager' \in [Sessions -> Seq(Calls)]
      /\ Len(toManager'[s]) + 1 = Len(toManager[s])
      /\ \A r \in Sessions \ {s} : toManager'[r] = toManager[r]
  BY <1>0, <1>1, TakeCall
<1>3. Working(s) = 0 /\ Served(s) /\ BoxMove(s)
  BY <1>1 DEF Working, Served, BoxMove
<1>4. /\ toSession' \in [Sessions -> Seq(Replies)]
      /\ serving' \in [Sessions -> {"none", "backlog", "read", "prepare", "launch", "lost"}]
      /\ serving'[s] \in {"read", "lost"}
      /\ Len(toSession'[s]) \in {Len(toSession[s]), Len(toSession[s]) + 1}
      /\ \A r \in Sessions \ {s} : serving'[r] = serving[r] /\ toSession'[r] = toSession[r]
  <2>1. "stop" \in Calls
    BY DEF Calls
  <2> QED BY <1>0, <1>1, <2>1, RespondType
<1>5. WireTypes'
  BY <1>0, <1>1, <1>2, <1>4 DEF WireTypes
<1>6. ManagerTypes' /\ OthersKept(s) /\ (state'[s] => state[s] /\ UNCHANGED <<box, orphan>>)
  <2>1. CASE state' = [state EXCEPT ![s] = FALSE] /\ box' = Nobody /\ orphan' = FALSE
    BY <1>0, <1>1, <1>2, <1>4, <2>1 DEF ManagerTypes, sessionVars, OthersKept
  <2>2. CASE UNCHANGED <<state, box, orphan>>
    BY <1>0, <1>1, <1>2, <1>4, <2>2 DEF ManagerTypes, sessionVars, OthersKept
  <2> QED BY <1>1, <2>1, <2>2
<1>7. Working(s)' = 0 /\ Served(s)' /\ serving'[s] # "launch"
  BY <1>4 DEF Working, Served
<1>8. AnswerWeight(s)' <= AnswerWeight(s)
  <2>1. Len(toSession'[s]) <= Len(toSession[s]) + 1 /\ Working(s)' + 1 <= Working(s) + 1
    BY <1>0, <1>3, <1>4, <1>7
  <2> QED BY <1>0, <1>2, <1>5, <2>1, AnswerFalls
<1>9. /\ state'[s] => box' \in {s, Nobody}
      /\ box' = s /\ ~orphan' => handle'[s]
  BY <1>0, <1>1, <1>6, NobodyIsNoSession DEF Known
<1> QED BY <1>1, <1>3, <1>5, <1>6, <1>7, <1>8, <1>9, ManagerStep

\* LxcContainer::start up to the configuration, ...
LEMMA PrepareKeepsInv ==
  ASSUME LifecycleInv, NEW s \in Sessions, Prepare(s)
  PROVE  LifecycleInv'
<1>0. Types /\ WireTypes /\ ManagerTypes /\ Known(s) /\ Len(toSession[s]) \in Nat /\ Len(toManager[s]) \in Nat
  BY DEF LifecycleInv, Types, WireTypes
<1>1. serving[s] = "prepare" /\ UNCHANGED <<sessionVars, link, toManager, manager, restarts, state>>
  BY DEF Prepare
<1>2. Working(s) = 1 /\ Served(s) /\ Len(toManager'[s]) + 0 = Len(toManager[s])
  BY <1>0, <1>1 DEF Working, Served
<1>3. CASE Respond(s, "start", TRUE) /\ UNCHANGED <<handle, box, orphan>>
  <2>1. /\ toSession' \in [Sessions -> Seq(Replies)]
        /\ serving' \in [Sessions -> {"none", "backlog", "read", "prepare", "launch", "lost"}]
        /\ serving'[s] \in {"read", "lost"}
        /\ Len(toSession'[s]) \in {Len(toSession[s]), Len(toSession[s]) + 1}
        /\ \A r \in Sessions \ {s} : serving'[r] = serving[r] /\ toSession'[r] = toSession[r]
    <3>1. "start" \in Calls
      BY DEF Calls
    <3> QED BY <1>0, <1>3, <3>1, RespondType
  <2>2. WireTypes' /\ ManagerTypes' /\ OthersKept(s) /\ BoxMove(s)
    BY <1>0, <1>1, <1>3, <2>1 DEF WireTypes, ManagerTypes, sessionVars, OthersKept, BoxMove
  <2>3. Working(s)' = 0 /\ Served(s)' /\ serving'[s] # "launch"
    BY <2>1 DEF Working, Served
  <2>4. AnswerWeight(s)' <= AnswerWeight(s)
    <3>1. Len(toSession'[s]) <= Len(toSession[s]) + 1 /\ Working(s)' + 1 <= Working(s) + 0
      BY <1>0, <1>2, <2>1, <2>3
    <3> QED BY <1>0, <1>2, <2>2, <3>1, AnswerFalls
  <2> QED BY <1>0, <1>1, <1>2, <1>3, <2>2, <2>3, <2>4, ManagerStep DEF Known
<1>4. CASE /\ handle' = [handle EXCEPT ![s] = TRUE]
           /\ (box' = Nobody /\ orphan' = FALSE) \/ UNCHANGED <<box, orphan>>
           /\ serving' = [serving EXCEPT ![s] = "launch"] /\ toSession' = toSession
  <2>1. BoxMove(s) /\ box' \in Sessions \cup {Nobody} /\ orphan' \in BOOLEAN
    BY <1>0, <1>4 DEF BoxMove, ManagerTypes
  <2>2. WireTypes'
    BY <1>0, <1>1, <1>4 DEF WireTypes
  <2>3. ManagerTypes' /\ OthersKept(s) /\ serving'[s] = "launch" /\ handle'[s]
    BY <1>0, <1>1, <1>4, <2>1 DEF ManagerTypes, sessionVars, OthersKept
  <2>4. Working(s)' = 1 /\ Served(s)'
    BY <2>3 DEF Working, Served
  <2>5. AnswerWeight(s)' <= AnswerWeight(s)
    <3>1. Len(toSession'[s]) <= Len(toSession[s]) + 0 /\ Working(s)' + 0 <= Working(s) + 0
      BY <1>0, <1>2, <1>4, <2>4
    <3> QED BY <1>0, <1>2, <2>2, <3>1, AnswerFalls
  <2>6. state'[s] => box' \in {s, Nobody}
    BY <1>0, <1>1, <1>4 DEF Known
  <2> QED BY <1>1, <1>2, <2>1, <2>2, <2>3, <2>4, <2>5, <2>6, ManagerStep
<1> QED BY <1>3, <1>4 DEF Prepare

\* ... and the rest: the container it starts is the only one.
LEMMA LaunchContainerKeepsInv ==
  ASSUME LifecycleInv, NEW s \in Sessions, LaunchContainer(s)
  PROVE  LifecycleInv'
<1>0. Types /\ WireTypes /\ ManagerTypes /\ Known(s) /\ Len(toSession[s]) \in Nat /\ Len(toManager[s]) \in Nat
  BY DEF LifecycleInv, Types, WireTypes
<1>1. /\ serving[s] = "launch" /\ UNCHANGED <<sessionVars, link, toManager, manager, restarts, handle, orphan>>
      /\ \E e \in BOOLEAN : Respond(s, "start", e)
      /\ \/ box = Nobody /\ box' = s /\ state' = [state EXCEPT ![s] = TRUE]
         \/ UNCHANGED <<state, box>>
  BY DEF LaunchContainer
<1>2. Working(s) = 1 /\ Served(s) /\ handle[s] /\ Len(toManager'[s]) + 0 = Len(toManager[s])
  BY <1>0, <1>1 DEF Working, Served, Known
<1>3. /\ toSession' \in [Sessions -> Seq(Replies)]
      /\ serving' \in [Sessions -> {"none", "backlog", "read", "prepare", "launch", "lost"}]
      /\ serving'[s] \in {"read", "lost"}
      /\ Len(toSession'[s]) \in {Len(toSession[s]), Len(toSession[s]) + 1}
      /\ \A r \in Sessions \ {s} : serving'[r] = serving[r] /\ toSession'[r] = toSession[r]
  <2>1. "start" \in Calls
    BY DEF Calls
  <2> QED BY <1>0, <1>1, <2>1, RespondType
<1>4. WireTypes'
  BY <1>0, <1>1, <1>3 DEF WireTypes
<1>5. ManagerTypes' /\ OthersKept(s) /\ BoxMove(s) /\ (state'[s] => box' \in {s, Nobody})
  <2>1. CASE box = Nobody /\ box' = s /\ state' = [state EXCEPT ![s] = TRUE]
    BY <1>0, <1>1, <1>2, <1>3, <2>1 DEF ManagerTypes, sessionVars, OthersKept, BoxMove
  <2>2. CASE UNCHANGED <<state, box>>
    BY <1>0, <1>1, <1>3, <2>2 DEF ManagerTypes, sessionVars, OthersKept, BoxMove, Known
  <2> QED BY <1>1, <2>1, <2>2
<1>6. Working(s)' = 0 /\ Served(s)' /\ serving'[s] # "launch" /\ handle'[s]
  BY <1>1, <1>2, <1>3 DEF Working, Served
<1>7. AnswerWeight(s)' <= AnswerWeight(s)
  <2>1. Len(toSession'[s]) <= Len(toSession[s]) + 1 /\ Working(s)' + 1 <= Working(s) + 0
    BY <1>0, <1>2, <1>3, <1>6
  <2> QED BY <1>0, <1>2, <1>4, <2>1, AnswerFalls
<1> QED BY <1>1, <1>2, <1>4, <1>5, <1>6, <1>7, ManagerStep

\* The manager ends: no session is served any more, and a container that still runs
\* is an orphan.
LEMMA EndedKeepsInv ==
  ASSUME LifecycleInv, Ended,
         \/ box' = Nobody /\ orphan' = FALSE
         \/ box' = box /\ orphan' = (box # Nobody)
  PROVE  LifecycleInv'
<1>0. SessionTypes /\ WireTypes /\ ManagerTypes
  BY DEF LifecycleInv, Types
<1>1. /\ manager' = "down" /\ serving' = [s \in Sessions |-> "none"]
      /\ link' = [s \in Sessions |-> IF link[s] = "open" THEN "shut" ELSE link[s]]
      /\ toManager' = [s \in Sessions |-> <<>>]
      /\ state' = [s \in Sessions |-> FALSE] /\ handle' = [s \in Sessions |-> FALSE]
      /\ UNCHANGED <<sessionVars, toSession, restarts>>
  BY DEF Ended
<1>2. Types'
  <2>1. SessionTypes'
    BY <1>0, <1>1 DEF SessionTypes, sessionVars
  <2>2. <<>> \in Seq(Calls)
    OBVIOUS
  <2>3. WireTypes'
    BY <1>0, <1>1, <2>2 DEF WireTypes
  <2>4. box' \in Sessions \cup {Nobody} /\ orphan' \in BOOLEAN
    BY <1>0 DEF ManagerTypes
  <2>5. ManagerTypes'
    BY <1>0, <1>1, <2>4 DEF ManagerTypes
  <2> QED BY <2>1, <2>3, <2>5 DEF Types
<1>3. ASSUME NEW s \in Sessions PROVE TwoCalls(s)' /\ Known(s)' /\ ~Served(s)'
  <2>1. /\ serving'[s] = "none" /\ ~state'[s] /\ toManager'[s] = <<>> /\ toSession'[s] = toSession[s]
        /\ main'[s] = main[s] /\ starter'[s] = starter[s]
    BY <1>1 DEF sessionVars
  <2>2. PICK a, b, d, e, f : /\ a = Len(toManager[s]) /\ b = Len(toSession[s]) /\ d = Working(s)
                             /\ e = StartToCome(s) /\ f = StopToCome(s)
    OBVIOUS
  <2>3. a \in Nat /\ b \in Nat /\ d \in Nat /\ e \in Nat /\ f \in Nat
    BY <1>0, <2>2 DEF WireTypes, Working, StartToCome, StopToCome
  <2>4. a + b + d + e + f <= 2
    BY <2>2 DEF LifecycleInv, TwoCalls
  <2>5. 0 + b + 0 + e + f <= 2
    BY ONLY <2>3, <2>4
  <2>6. /\ Len(toManager'[s]) = 0 /\ Len(toSession'[s]) = b /\ Working(s)' = 0
        /\ StartToCome(s)' = e /\ StopToCome(s)' = f
    BY <2>1, <2>2 DEF Working, StartToCome, StopToCome
  <2>7. TwoCalls(s)'
    BY <2>5, <2>6 DEF TwoCalls
  <2>8. box' = s => orphan'
    BY NobodyIsNoSession
  <2> QED BY <2>1, <2>7, <2>8 DEF Known, Served
<1>4. OneServed' /\ OrphanRuns'
  BY <1>3 DEF OneServed, OrphanRuns
<1> QED BY <1>2, <1>3, <1>4 DEF LifecycleInv

\* The destructor of the connection's LxcContainer stops what runs.
LEMMA ReadErrorKeepsInv ==
  ASSUME LifecycleInv, NEW s \in Sessions, ServerReadError(s)
  PROVE  LifecycleInv'
<1>0. WireTypes /\ ManagerTypes /\ Known(s) /\ Len(toSession[s]) \in Nat /\ Len(toManager[s]) \in Nat
  BY DEF LifecycleInv, Types, WireTypes
<1>1. CASE Stops(s) /\ Ended /\ orphan' = TRUE /\ UNCHANGED box
  BY <1>1, EndedKeepsInv DEF Stops
<1>2. CASE /\ serving[s] = "read" /\ serving' = [serving EXCEPT ![s] = "none"]
           /\ state' = [state EXCEPT ![s] = FALSE] /\ handle' = [handle EXCEPT ![s] = FALSE]
           /\ box' = IF Stops(s) THEN Nobody ELSE box
           /\ orphan' = (orphan /\ ~Stops(s))
           /\ UNCHANGED <<sessionVars, link, toManager, toSession, manager, restarts>>
  <2>1. BoxMove(s) /\ box' \in Sessions \cup {Nobody} /\ orphan' \in BOOLEAN
    <3>1. CASE Stops(s)
      BY <1>2, <3>1 DEF BoxMove
    <3>2. CASE ~Stops(s)
      BY <1>0, <1>2, <3>2 DEF BoxMove, ManagerTypes
    <3> QED BY <3>1, <3>2
  <2>2. WireTypes' /\ ManagerTypes' /\ OthersKept(s)
    BY <1>0, <1>2, <2>1 DEF WireTypes, ManagerTypes, sessionVars, OthersKept
  <2>3. serving'[s] = "none" /\ ~state'[s]
    BY <1>0, <1>2 DEF ManagerTypes
  <2>4. Working(s) = 0 /\ Working(s)' = 0 /\ ~Served(s)'
    BY <1>2, <2>3 DEF Working, Served
  <2>5. AnswerWeight(s)' <= AnswerWeight(s)
    <3>1. /\ Len(toManager'[s]) + 0 = Len(toManager[s]) /\ Len(toSession'[s]) <= Len(toSession[s]) + 0
          /\ Working(s)' + 0 <= Working(s) + 0
      BY <1>0, <1>2, <2>4
    <3> QED BY <1>0, <2>2, <3>1, AnswerFalls
  <2>6. box' = s => orphan'
    <3>1. CASE Stops(s)
      BY <1>2, <3>1, NobodyIsNoSession
    <3>2. CASE ~Stops(s)
      <4>1. box' = box /\ (orphan' <=> orphan)
        BY <1>2, <3>2
      <4>2. box = s => ~handle[s]
        BY <3>2, NobodyIsNoSession DEF Stops
      <4> QED BY <1>0, <4>1, <4>2 DEF Known
    <3> QED BY <3>1, <3>2
  <2> QED BY <1>2, <2>1, <2>2, <2>3, <2>4, <2>5, <2>6, ManagerStep
<1> QED BY <1>1, <1>2 DEF ServerReadError

\* Steps that concern no session: the manager is told to stop, or starts; Android
\* shuts itself down.
LEMMA QuietKeepsInv ==
  ASSUME LifecycleInv,
         UNCHANGED <<sessionVars, link, toManager, toSession, serving, state, handle>>,
         UNCHANGED <<manager, restarts>> \/ ManagerStop \/ ManagerRestart,
         UNCHANGED <<box, orphan>> \/ (box' = Nobody /\ orphan' = FALSE)
  PROVE  LifecycleInv'
<1>0. SessionTypes /\ WireTypes /\ ManagerTypes
  BY DEF LifecycleInv, Types
<1>1. manager' \in {"up", "stopping", "down"} /\ restarts' \in 0 .. MaxRestarts
  BY <1>0, LifecycleAssumption DEF ManagerTypes, ManagerStop, ManagerRestart
<1>2. Types'
  BY <1>0, <1>1 DEF Types, SessionTypes, WireTypes, ManagerTypes, sessionVars
<1>3. ASSUME NEW s \in Sessions PROVE TwoCalls(s)' /\ Known(s)' /\ (Served(s)' <=> Served(s))
  <2>1. TwoCalls(s) /\ Known(s)
    BY DEF LifecycleInv
  <2>2. TwoCalls(s)' /\ (Served(s)' <=> Served(s))
    BY <2>1 DEF TwoCalls, Working, StartToCome, StopToCome, Served, sessionVars
  <2>3. Known(s)'
    BY <2>1, <2>2, NobodyIsNoSession DEF Known, sessionVars
  <2> QED BY <2>2, <2>3
<1>4. OneServed' /\ OrphanRuns'
  BY <1>3 DEF LifecycleInv, OneServed, OrphanRuns
<1> QED BY <1>2, <1>3, <1>4 DEF LifecycleInv
--------------------------------------------------------------------------------
\* Every step keeps the invariant.
LEMMA LifecycleStep == LifecycleInv /\ [Next]_vars => LifecycleInv'
<1> SUFFICES ASSUME LifecycleInv, [Next]_vars PROVE LifecycleInv'
  OBVIOUS
<1>1. ASSUME NEW s \in Sessions, SessionAct(s) PROVE LifecycleInv'
  BY <1>1, SessionKeepsInv
<1>2. ASSUME NEW s \in Sessions, Launch(s) PROVE LifecycleInv'
  BY <1>2, LaunchKeepsInv
<1>3. ASSUME NEW s \in Sessions, Server(s) PROVE LifecycleInv'
  BY <1>3, NewClientKeepsInv, HandleStartKeepsInv, HandleStopKeepsInv, PrepareKeepsInv,
     LaunchContainerKeepsInv, ReadErrorKeepsInv DEF Server
<1>4. CASE ManagerExit \/ ManagerCrash
  BY <1>4, EndedKeepsInv DEF ManagerExit, ManagerCrash
<1>5. CASE ManagerStop \/ ManagerRestart
  BY <1>5, QuietKeepsInv DEF ManagerStop, ManagerRestart
<1>6. CASE AndroidStops
  BY <1>6, QuietKeepsInv DEF AndroidStops, managerVars
<1>7. CASE UNCHANGED vars
  BY <1>7, QuietKeepsInv DEF vars, sessionVars
<1> QED BY <1>1, <1>2, <1>3, <1>4, <1>5, <1>6, <1>7 DEF Next, Faults, SessionAct

\* However many sessions come and go and however often the container manager crashes,
\* LXC's container, the manager's state_ and its table of connections agree on whose
\* container runs; a container without its session runs only if a manager ended
\* without being able to stop it.
THEOREM ContainerAlwaysOwned == Spec => []ContainerOwned
<1>1. Init => LifecycleInv
  BY LifecycleInit
<1>2. LifecycleInv => ContainerOwned
  BY InvGivesOwned
<1> QED BY <1>1, <1>2, LifecycleStep, PTL DEF Spec
================================================================================
