---------------------------- MODULE RendererProofs -----------------------------
(***************************************************************************)
(* For any number of render threads, objects and handles: nothing leaks    *)
(* when a render thread ends and it takes nothing of the others with it,    *)
(* the handles of contexts and windows are not confused, wherever           *)
(* s_nextHandle is, the counts of color buffers are covered by references,  *)
(* and what a thread has current stays bound.                               *)
(***************************************************************************)
EXTENDS Renderer, FiniteSetTheorems, TLAPS

\* What the argument needs of the types: tables are functions, and each thread
\* has its sets and its place.
Shapes ==
  /\ contexts = [h \in DOMAIN contexts |-> contexts[h]]
  /\ windows = [h \in DOMAIN windows |-> windows[h]]
  /\ contextSet \in [Thread -> SUBSET Handle]
  /\ windowSet \in [Thread -> SUBSET Handle]
  /\ pc \in [Thread -> {"run", "unbound", "windows_drained", "ended"}]

\* A handle names a context or a window, never both: genHandle looks in both
\* tables.
Disjoint == DOMAIN contexts \cap DOMAIN windows = {}

IInv == Shapes /\ Owned /\ Disjoint

LEMMA InitIInv == Init => IInv
<1> SUFFICES ASSUME Init PROVE IInv
    OBVIOUS
<1>1. DOMAIN contexts = {} /\ DOMAIN windows = {}
  BY DEF Init
<1>2. Shapes
  BY DEF Init, Shapes
<1> QED
  BY <1>1, <1>2 DEF IInv, Owned, Disjoint

\* The new handle is not in either table.
LEMMA FreshHandle ==
  ASSUME NEW t, NEW h, Create(t, h)
  PROVE  h \notin DOMAIN contexts /\ h \notin DOMAIN windows /\ pc[t] = "run"
BY DEF Create, genHandle, InUse

\* Leaves of the proof below that do not touch the tables and the sets.
LEMMA Untouched ==
  ASSUME IInv, UNCHANGED <<contexts, windows, contextSet, windowSet, pc>>
  PROVE  IInv'
BY DEF IInv, Shapes, Owned, Disjoint

LEMMA CreateContextIInv ==
  ASSUME IInv, NEW t \in Thread, createRenderContext(t)
  PROVE  IInv'
<1>1. PICK h \in Handle : /\ Create(t, h)
                          /\ contexts' = With(contexts, h, NewObject)
                          /\ contextSet' = [contextSet EXCEPT ![t] = @ \cup {h}]
                          /\ UNCHANGED <<windows, windowSet, pc>>
  BY DEF createRenderContext
<1>2. h \notin DOMAIN windows /\ pc[t] = "run"
  BY <1>1, FreshHandle
<1>3. /\ DOMAIN contexts' = DOMAIN contexts \cup {h}
      /\ contexts' = [x \in DOMAIN contexts' |-> contexts'[x]]
  BY <1>1 DEF With
<1>4. Shapes'
  BY <1>1, <1>3 DEF IInv, Shapes
<1>5. ASSUME NEW x \in DOMAIN contexts'
      PROVE  \E u \in Thread : x \in contextSet'[u] /\ pc'[u] # "ended"
  <2>1. h \in contextSet'[t]
    BY <1>1 DEF IInv, Shapes
  <2>2. \A u \in Thread : contextSet[u] \subseteq contextSet'[u]
    BY <1>1 DEF IInv, Shapes
  <2>3. x = h \/ \E u \in Thread : x \in contextSet[u] /\ pc[u] # "ended"
    BY <1>3 DEF IInv, Owned
  <2> QED
    BY <1>1, <1>2, <2>1, <2>2, <2>3
<1>6. Owned'
  BY <1>1, <1>5 DEF IInv, Owned
<1>7. Disjoint'
  BY <1>1, <1>2, <1>3 DEF IInv, Disjoint
<1> QED
  BY <1>4, <1>6, <1>7 DEF IInv

LEMMA CreateWindowIInv ==
  ASSUME IInv, NEW t \in Thread, createWindowSurface(t)
  PROVE  IInv'
<1>1. PICK h \in Handle, s \in Sizes :
                          /\ Create(t, h)
                          /\ windows' = With(windows, h, [surf |-> NewObject, cb |-> 0, size |-> s])
                          /\ windowSet' = [windowSet EXCEPT ![t] = @ \cup {h}]
                          /\ UNCHANGED <<contexts, contextSet, pc>>
  BY DEF createWindowSurface
<1>2. h \notin DOMAIN contexts /\ pc[t] = "run"
  BY <1>1, FreshHandle
<1>3. /\ DOMAIN windows' = DOMAIN windows \cup {h}
      /\ windows' = [x \in DOMAIN windows' |-> windows'[x]]
  BY <1>1 DEF With
<1>4. Shapes'
  BY <1>1, <1>3 DEF IInv, Shapes
<1>5. ASSUME NEW x \in DOMAIN windows'
      PROVE  \E u \in Thread : x \in windowSet'[u] /\ pc'[u] \in {"run", "unbound"}
  <2>1. h \in windowSet'[t]
    BY <1>1 DEF IInv, Shapes
  <2>2. \A u \in Thread : windowSet[u] \subseteq windowSet'[u]
    BY <1>1 DEF IInv, Shapes
  <2>3. x = h \/ \E u \in Thread : x \in windowSet[u] /\ pc[u] \in {"run", "unbound"}
    BY <1>3 DEF IInv, Owned
  <2> QED
    BY <1>1, <1>2, <2>1, <2>2, <2>3
<1>6. Owned'
  BY <1>1, <1>5 DEF IInv, Owned
<1>7. Disjoint'
  BY <1>1, <1>2, <1>3 DEF IInv, Disjoint
<1> QED
  BY <1>4, <1>6, <1>7 DEF IInv

\* Removing keys H from the tables is harmless when they leave no other set than
\* that of thread t, and t forgets at most what it removes.
LEMMA EraseContextsIInv ==
  ASSUME IInv, NEW t \in Thread, NEW H,
         contexts' = Without(contexts, H),
         contextSet' = [contextSet EXCEPT ![t] = @ \ H],
         \A u \in Thread : u # t => pc'[u] = pc[u],
         pc' \in [Thread -> {"run", "unbound", "windows_drained", "ended"}],
         pc'[t] = "ended" => contextSet[t] \subseteq H,
         \A u \in Thread : pc[u] \in {"run", "unbound"} => pc'[u] \in {"run", "unbound"},
         UNCHANGED <<windows, windowSet>>
  PROVE  IInv'
<1>1. /\ DOMAIN contexts' = DOMAIN contexts \ H
      /\ contexts' = [x \in DOMAIN contexts' |-> contexts'[x]]
  BY DEF Without, Restrict
<1>2. Shapes'
  BY <1>1 DEF IInv, Shapes
<1>3. ASSUME NEW x \in DOMAIN contexts'
      PROVE  \E u \in Thread : x \in contextSet'[u] /\ pc'[u] # "ended"
  <2>1. x \in DOMAIN contexts /\ x \notin H
    BY <1>1
  <2>2. PICK u \in Thread : x \in contextSet[u] /\ pc[u] # "ended"
    BY <2>1 DEF IInv, Owned
  <2>3. x \in contextSet'[u]
    BY <2>1, <2>2 DEF IInv, Shapes
  <2>4. pc'[u] # "ended"
    BY <2>1, <2>2
  <2> QED
    BY <2>3, <2>4
<1>4. Owned'
  BY <1>3 DEF IInv, Shapes, Owned
<1>5. Disjoint'
  BY <1>1 DEF IInv, Disjoint
<1> QED
  BY <1>2, <1>4, <1>5 DEF IInv

LEMMA EraseWindowsIInv ==
  ASSUME IInv, NEW t \in Thread, NEW H,
         windows' = Without(windows, H),
         windowSet' = [windowSet EXCEPT ![t] = @ \ H],
         \A u \in Thread : u # t => pc'[u] = pc[u],
         pc' \in [Thread -> {"run", "unbound", "windows_drained", "ended"}],
         pc'[t] \in {"run", "unbound"} \/ windowSet[t] \subseteq H,
         pc'[t] = "ended" => pc[t] = "ended",
         UNCHANGED <<contexts, contextSet>>
  PROVE  IInv'
<1>1. /\ DOMAIN windows' = DOMAIN windows \ H
      /\ windows' = [x \in DOMAIN windows' |-> windows'[x]]
  BY DEF Without, Restrict
<1>2. Shapes'
  BY <1>1 DEF IInv, Shapes
<1>3. ASSUME NEW x \in DOMAIN windows'
      PROVE  \E u \in Thread : x \in windowSet'[u] /\ pc'[u] \in {"run", "unbound"}
  <2>1. x \in DOMAIN windows /\ x \notin H
    BY <1>1
  <2>2. PICK u \in Thread : x \in windowSet[u] /\ pc[u] \in {"run", "unbound"}
    BY <2>1 DEF IInv, Owned
  <2>3. x \in windowSet'[u]
    BY <2>1, <2>2 DEF IInv, Shapes
  <2>4. pc'[u] \in {"run", "unbound"}
    BY <2>1, <2>2
  <2> QED
    BY <2>3, <2>4
<1>4. Owned'
  BY <1>3 DEF IInv, Shapes, Owned
<1>5. Disjoint'
  BY <1>1 DEF IInv, Disjoint
<1> QED
  BY <1>2, <1>4, <1>5 DEF IInv

LEMMA StepIInv == IInv /\ [Next]_vars => IInv'
<1> SUFFICES ASSUME IInv, [Next]_vars PROVE IInv'
    OBVIOUS
<1>1. CASE UNCHANGED vars
  BY <1>1, Untouched DEF vars, tables, threadVars
<1>2. ASSUME NEW t \in Thread,
             \/ createColorBuffer(t)
             \/ \E h \in Handle : openColorBuffer(t, h) \/ closeColorBuffer(t, h)
             \/ \E hc, hd, hr \in Handle : bindContext(t, hc, hd, hr)
             \/ MakeNoneCurrent(t) \/ RestoreFails(t)
      PROVE  IInv'
  BY <1>2, Untouched DEF createColorBuffer, openColorBuffer, closeColorBuffer, bindContext,
                         MakeNoneCurrent, RestoreFails, Unbind, tables, threadVars
<1>3. ASSUME NEW t \in Thread, createRenderContext(t) PROVE IInv'
  BY <1>3, CreateContextIInv
<1>4. ASSUME NEW t \in Thread, createWindowSurface(t) PROVE IInv'
  BY <1>4, CreateWindowIInv
<1>5. ASSUME NEW t \in Thread, NEW h \in Handle, DestroyRenderContext(t, h) PROVE IInv'
  <2>1. /\ contexts' = Without(contexts, {h})
        /\ contextSet' = [contextSet EXCEPT ![t] = @ \ {h}]
        /\ pc' = pc /\ pc[t] = "run"
        /\ UNCHANGED <<windows, windowSet>>
    BY <1>5 DEF DestroyRenderContext
  <2> QED
    BY <2>1, EraseContextsIInv DEF IInv, Shapes
<1>6. ASSUME NEW t \in Thread, NEW h \in Handle, DestroyWindowSurface(t, h) PROVE IInv'
  <2>1. /\ windows' = Without(windows, {h})
        /\ windowSet' = [windowSet EXCEPT ![t] = @ \ {h}]
        /\ pc' = pc /\ pc[t] = "run"
        /\ UNCHANGED <<contexts, contextSet>>
    BY <1>6 DEF DestroyWindowSurface
  <2> QED
    BY <2>1, EraseWindowsIInv DEF IInv, Shapes
<1>7. ASSUME NEW t \in Thread, NEW w \in Handle, NEW h \in Handle,
             setWindowSurfaceColorBuffer(t, w, h)
      PROVE  IInv'
  <2>1. /\ windows' = [windows EXCEPT ![w].cb = h, ![w].size = buffers[h].size]
        /\ UNCHANGED <<contexts, contextSet, windowSet, pc>>
    BY <1>7 DEF setWindowSurfaceColorBuffer, threadVars
  <2>2. DOMAIN windows' = DOMAIN windows
    BY <2>1
  <2> QED
    BY <2>1, <2>2 DEF IInv, Shapes, Owned, Disjoint
<1>8. ASSUME NEW t \in Thread, ExitUnbind(t) PROVE IInv'
  <2>1. /\ pc[t] = "run"
        /\ pc' = [pc EXCEPT ![t] = "unbound"]
        /\ UNCHANGED <<contexts, windows, contextSet, windowSet>>
    BY <1>8 DEF ExitUnbind, Unbind, tables
  <2> QED
    BY <2>1 DEF IInv, Shapes, Owned, Disjoint
<1>9. ASSUME NEW t \in Thread, drainWindowSurface(t) PROVE IInv'
  <2>1. /\ pc[t] = "unbound"
        /\ windows' = Without(windows, windowSet[t])
        /\ windowSet' = [windowSet EXCEPT ![t] = @ \ windowSet[t]]
        /\ pc' = [pc EXCEPT ![t] = "windows_drained"]
        /\ UNCHANGED <<contexts, contextSet>>
    BY <1>9 DEF drainWindowSurface, IInv, Shapes
  <2>2. /\ pc' \in [Thread -> {"run", "unbound", "windows_drained", "ended"}]
        /\ pc'[t] = "windows_drained"
        /\ \A u \in Thread : u # t => pc'[u] = pc[u]
    BY <2>1 DEF IInv, Shapes
  <2> QED
    BY <2>1, <2>2, EraseWindowsIInv
<1>10. ASSUME NEW t \in Thread, drainRenderContext(t) PROVE IInv'
  <2>1. /\ pc[t] = "windows_drained"
        /\ contexts' = Without(contexts, contextSet[t])
        /\ contextSet' = [contextSet EXCEPT ![t] = @ \ contextSet[t]]
        /\ pc' = [pc EXCEPT ![t] = "ended"]
        /\ UNCHANGED <<windows, windowSet>>
    BY <1>10 DEF drainRenderContext, IInv, Shapes
  <2>2. /\ pc' \in [Thread -> {"run", "unbound", "windows_drained", "ended"}]
        /\ pc'[t] = "ended"
        /\ \A u \in Thread : u # t => pc'[u] = pc[u]
        /\ \A u \in Thread : pc[u] \in {"run", "unbound"} => pc'[u] \in {"run", "unbound"}
    BY <2>1 DEF IInv, Shapes
  <2> QED
    BY <2>1, <2>2, EraseContextsIInv
<1> QED
  BY <1>1, <1>2, <1>3, <1>4, <1>5, <1>6, <1>7, <1>8, <1>9, <1>10 DEF Next

\* Nothing leaks: each window and each context in the tables will still be
\* drained, for any number of render threads that create, destroy and end in
\* any order, and for any number of handles (Renderer.h: "Necessary to avoid
\* leaking host contexts when a guest application crashes").
THEOREM AlwaysOwned == Spec => []Owned
<1>1. IInv => Owned
  BY DEF IInv
<1> QED
  BY InitIInv, StepIInv, <1>1, PTL DEF Spec

LEMMA StepNamesKept ==
  ASSUME IInv, [Next]_vars
  PROVE  [NamesKept]_vars
<1>1. CASE UNCHANGED vars
  BY <1>1
<1>2. DOMAIN contexts' \cap DOMAIN windows' = {}
  BY StepIInv DEF IInv, Disjoint
<1>3. CASE UNCHANGED <<contexts, windows>>
  BY <1>2, <1>3 DEF NamesKept
<1>4. ASSUME NEW t \in Thread, createRenderContext(t) PROVE NamesKept
  <2>1. PICK h \in Handle : Create(t, h) /\ contexts' = With(contexts, h, NewObject) /\ windows' = windows
    BY <1>4 DEF createRenderContext
  <2>2. h \notin DOMAIN contexts
    BY <2>1, FreshHandle
  <2> QED
    BY <1>2, <2>1, <2>2 DEF NamesKept, With
<1>5. ASSUME NEW t \in Thread, createWindowSurface(t) PROVE NamesKept
  <2>1. PICK h \in Handle, s \in Sizes :
                            /\ Create(t, h)
                            /\ windows' = With(windows, h, [surf |-> NewObject, cb |-> 0, size |-> s])
                            /\ contexts' = contexts
    BY <1>5 DEF createWindowSurface
  <2>2. h \notin DOMAIN windows
    BY <2>1, FreshHandle
  <2> QED
    BY <1>2, <2>1, <2>2 DEF NamesKept, With
<1>6. ASSUME NEW H, contexts' = Without(contexts, H), windows' = windows PROVE NamesKept
  BY <1>2, <1>6 DEF NamesKept, Without, Restrict
<1>7. ASSUME NEW H, windows' = Without(windows, H), contexts' = contexts PROVE NamesKept
  BY <1>2, <1>7 DEF NamesKept, Without, Restrict
<1>8. ASSUME NEW t \in Thread, NEW w \in Handle, NEW h \in Handle,
             setWindowSurfaceColorBuffer(t, w, h)
      PROVE  NamesKept
  <2>1. windows' = [windows EXCEPT ![w].cb = h, ![w].size = buffers[h].size] /\ contexts' = contexts
    BY <1>8 DEF setWindowSurfaceColorBuffer
  <2>2. \A x \in DOMAIN windows : windows'[x].surf = windows[x].surf
    BY <2>1
  <2> QED
    BY <1>2, <2>1, <2>2 DEF NamesKept
<1> QED
  <2>1. CASE \E t \in Thread :
               \/ createColorBuffer(t)
               \/ \E h \in Handle : openColorBuffer(t, h) \/ closeColorBuffer(t, h)
               \/ \E hc, hd, hr \in Handle : bindContext(t, hc, hd, hr)
               \/ MakeNoneCurrent(t) \/ ExitUnbind(t) \/ RestoreFails(t)
    <3>1. UNCHANGED <<contexts, windows>>
      <4>1. ASSUME NEW t \in Thread, NEW h \in Handle,
                   createColorBuffer(t) \/ openColorBuffer(t, h) \/ closeColorBuffer(t, h)
            PROVE  UNCHANGED <<contexts, windows>>
        BY <4>1 DEF createColorBuffer, openColorBuffer, closeColorBuffer
      <4>2. ASSUME NEW t \in Thread, NEW hc, NEW hd, NEW hr,
                   \/ bindContext(t, hc, hd, hr)
                   \/ MakeNoneCurrent(t) \/ ExitUnbind(t) \/ RestoreFails(t)
            PROVE  UNCHANGED <<contexts, windows>>
        BY <4>2 DEF bindContext, MakeNoneCurrent, ExitUnbind, RestoreFails, Unbind, tables
      <4>3. ASSUME NEW t \in Thread, createColorBuffer(t) PROVE UNCHANGED <<contexts, windows>>
        BY <4>3 DEF createColorBuffer
      <4> QED
        BY <2>1, <4>1, <4>2, <4>3
    <3> QED
      BY <1>3, <3>1
  <2>2. CASE \E t \in Thread : drainRenderContext(t) \/ \E h \in Handle : DestroyRenderContext(t, h)
    BY <1>6, <2>2 DEF drainRenderContext, DestroyRenderContext
  <2>3. CASE \E t \in Thread : drainWindowSurface(t) \/ \E h \in Handle : DestroyWindowSurface(t, h)
    BY <1>7, <2>3 DEF drainWindowSurface, DestroyWindowSurface
  <2> QED
    BY <1>1, <1>4, <1>5, <1>8, <2>1, <2>2, <2>3 DEF Next

\* The handle of a live context or window is never given to another object,
\* although genHandle wraps around: for any number of handles and threads.
THEOREM NamesAlwaysKept == Spec => HandlesStable
<1>1. IInv /\ [Next]_vars => [NamesKept]_vars
  BY StepNamesKept
<1> QED
  BY InitIInv, StepIInv, <1>1, PTL DEF Spec, HandlesStable
--------------------------------------------------------------------------------
(* Types, and the reference counts of color buffers. *)

\* Dropping references removes buffers and lowers counts, and leaves no count
\* at 0 in the table.
LEMMA DroppedBuffers ==
  ASSUME TypeOK, NEW n \in [Handle -> Nat], NEW h \in DOMAIN Dropped(n)
  PROVE  /\ h \in DOMAIN buffers
         /\ Dropped(n)[h] \in Buffer
         /\ Dropped(n)[h].refcount = buffers[h].refcount - n[h]
<1>1. h \in DOMAIN buffers /\ ~(n[h] >= buffers[h].refcount)
  BY DEF Dropped
<1>2. h \in Handle /\ buffers[h] \in Buffer /\ n[h] \in Nat
  BY <1>1 DEF TypeOK
<1>3. Dropped(n)[h] = [buffers[h] EXCEPT !.refcount = @ - n[h]]
  BY <1>1 DEF Dropped
<1> QED
  BY <1>1, <1>2, <1>3 DEF Buffer

\* The references that go with the windows of a thread can be counted.
LEMMA AttachedCount ==
  ASSUME TypeOK, NEW D \in SUBSET DOMAIN windows
  PROVE  [h \in Handle |-> Cardinality({w \in D : windows[w].cb = h})] \in [Handle -> Nat]
<1>1. IsFiniteSet(Handle)
  BY FS_Interval, RendererAssumption DEF Handle
<1>2. ASSUME NEW h PROVE Cardinality({w \in D : windows[w].cb = h}) \in Nat
  <2>1. {w \in D : windows[w].cb = h} \subseteq Handle
    BY DEF TypeOK
  <2> QED
    BY <1>1, <2>1, FS_Subset, FS_CardinalityType
<1> QED
  BY <1>2

LEMMA CreateTypes ==
  ASSUME TypeOK, NEW t \in Thread, NEW h \in Handle, Create(t, h)
  PROVE  /\ s_nextHandle' \in 0 .. HandleCount - 1
         /\ creator' \in Seq(Thread) /\ Len(creator') <= MaxCreates
         /\ Len(creator') = Len(creator) + 1
         /\ NewObject \in Object
<1>1. Len(creator) \in Nat /\ Len(creator) < MaxCreates /\ MaxCreates \in Nat
  BY RendererAssumption DEF TypeOK, Create
<1>2. s_nextHandle' \in 0 .. HandleCount - 1
  BY RendererAssumption DEF Create, Handle
<1>3. creator' \in Seq(Thread) /\ Len(creator') = Len(creator) + 1
  BY DEF Create, TypeOK
<1> QED
  BY <1>1, <1>2, <1>3 DEF NewObject, Object

LEMMA CreateBufferAccounted ==
  ASSUME BuffersAccounted, NEW t \in Thread, createColorBuffer(t)
  PROVE  BuffersAccounted'
<1>1. PICK h \in Handle, s \in Sizes :
        /\ Create(t, h) /\ held[h] < MaxRefs
        /\ buffers' = With(buffers, h, [cb |-> NewObject, size |-> s, refcount |-> 1])
        /\ held' = [held EXCEPT ![h] = @ + 1]
        /\ UNCHANGED <<contexts, windows, threadVars, current>>
  BY DEF createColorBuffer
<1>2. TypeOK
  BY DEF BuffersAccounted
<1>3. held' \in [Handle -> 0 .. MaxRefs] /\ held'[h] = held[h] + 1 /\ held[h] \in Nat
      /\ \A x \in Handle : x # h => held'[x] = held[x]
  BY <1>1, <1>2, RendererAssumption DEF TypeOK
<1>4. /\ DOMAIN buffers' = DOMAIN buffers \cup {h}
      /\ buffers'[h] = [cb |-> NewObject, size |-> s, refcount |-> 1]
      /\ \A x \in DOMAIN buffers : x # h => buffers'[x] = buffers[x]
  BY <1>1 DEF With
<1>5. ASSUME NEW x \in DOMAIN buffers'
      PROVE  /\ x \in Handle
             /\ buffers'[x] \in Buffer
             /\ buffers'[x].refcount <= held'[x]
  <2>1. CASE x = h
    BY <1>1, <1>2, <1>3, <1>4, <2>1, CreateTypes DEF Buffer
  <2>2. CASE x # h
    BY <1>2, <1>3, <1>4, <2>2 DEF BuffersAccounted, NoLeakedBuffer, TypeOK
  <2> QED
    BY <2>1, <2>2
<1>6. TypeOK'
  <2>1. /\ s_nextHandle' \in 0 .. HandleCount - 1
        /\ creator' \in Seq(Thread) /\ Len(creator') <= MaxCreates
    BY <1>1, <1>2, CreateTypes
  <2> QED
    BY <1>1, <1>2, <1>3, <1>5, <2>1 DEF TypeOK, threadVars, current
<1> QED
  BY <1>5, <1>6 DEF BuffersAccounted, NoLeakedBuffer

LEMMA CreateObjectAccounted ==
  ASSUME BuffersAccounted, NEW t \in Thread, createRenderContext(t) \/ createWindowSurface(t)
  PROVE  BuffersAccounted'
<1> USE DEF BuffersAccounted
<1>1. CASE createRenderContext(t)
  <2>1. PICK h \in Handle :
          /\ Create(t, h)
          /\ contexts' = With(contexts, h, NewObject)
          /\ contextSet' = [contextSet EXCEPT ![t] = @ \cup {h}]
          /\ UNCHANGED <<windows, buffers, windowSet, pc, current, held>>
    BY <1>1 DEF createRenderContext
  <2>2. NewObject \in Object
    BY <2>1, CreateTypes
  <2>3. DOMAIN contexts' \subseteq Handle /\ \A x \in DOMAIN contexts' : contexts'[x] \in Object
    BY <2>1, <2>2 DEF With, TypeOK
  <2>4. /\ s_nextHandle' \in 0 .. HandleCount - 1
        /\ creator' \in Seq(Thread) /\ Len(creator') <= MaxCreates
    BY <2>1, CreateTypes
  <2>5. contextSet' \in [Thread -> SUBSET Handle]
    BY <2>1 DEF TypeOK
  <2> QED
    BY <2>1, <2>3, <2>4, <2>5 DEF TypeOK, NoLeakedBuffer, current
<1>2. CASE createWindowSurface(t)
  <2>1. PICK h \in Handle, s \in Sizes :
          /\ Create(t, h)
          /\ windows' = With(windows, h, [surf |-> NewObject, cb |-> 0, size |-> s])
          /\ windowSet' = [windowSet EXCEPT ![t] = @ \cup {h}]
          /\ UNCHANGED <<contexts, buffers, contextSet, pc, current, held>>
    BY <1>2 DEF createWindowSurface
  <2>2. NewObject \in Object
    BY <2>1, CreateTypes
  <2>3. /\ DOMAIN windows' \subseteq Handle
        /\ \A x \in DOMAIN windows' : windows'[x] \in Window
    BY <2>1, <2>2 DEF With, TypeOK, Window
  <2>4. /\ s_nextHandle' \in 0 .. HandleCount - 1
        /\ creator' \in Seq(Thread) /\ Len(creator') <= MaxCreates
    BY <2>1, CreateTypes
  <2>5. windowSet' \in [Thread -> SUBSET Handle]
    BY <2>1 DEF TypeOK
  <2> QED
    BY <2>1, <2>3, <2>4, <2>5 DEF TypeOK, NoLeakedBuffer, current
<1> QED
  BY <1>1, <1>2

LEMMA OpenCloseAccounted ==
  ASSUME BuffersAccounted, NEW t \in Thread, NEW h \in Handle,
         openColorBuffer(t, h) \/ closeColorBuffer(t, h)
  PROVE  BuffersAccounted'
<1> USE DEF BuffersAccounted
<1>1. CASE openColorBuffer(t, h)
  <2>1. /\ h \in DOMAIN buffers /\ held[h] < MaxRefs
        /\ buffers' = [buffers EXCEPT ![h].refcount = @ + 1]
        /\ held' = [held EXCEPT ![h] = @ + 1]
        /\ UNCHANGED <<s_nextHandle, contexts, windows, threadVars, current, creator>>
    BY <1>1 DEF openColorBuffer
  <2>2. /\ held' \in [Handle -> 0 .. MaxRefs]
        /\ held'[h] = held[h] + 1 /\ held[h] \in Nat
        /\ \A x \in Handle : x # h => held'[x] = held[x]
    BY <2>1, RendererAssumption DEF TypeOK
  <2>3. /\ DOMAIN buffers' = DOMAIN buffers
        /\ buffers'[h] = [buffers[h] EXCEPT !.refcount = @ + 1]
        /\ \A x \in DOMAIN buffers : x # h => buffers'[x] = buffers[x]
    BY <2>1
  <2>4. /\ buffers'[h] \in Buffer
        /\ buffers'[h].refcount = buffers[h].refcount + 1
    <3>1. buffers[h] \in Buffer
      BY <2>1 DEF TypeOK
    <3> HIDE DEF TypeOK
    <3>2. PICK b \in Object, s \in Sizes, n \in Nat \ {0} :
            buffers[h] = [cb |-> b, size |-> s, refcount |-> n]
      BY <3>1 DEF Buffer
    <3>3. buffers'[h] = [cb |-> b, size |-> s, refcount |-> n + 1]
      BY <2>3, <3>2
    <3> QED
      BY <3>2, <3>3 DEF Buffer
  <2>5. NoLeakedBuffer'
    BY <2>1, <2>2, <2>3, <2>4 DEF NoLeakedBuffer, TypeOK, Buffer
  <2>6. \A x \in DOMAIN buffers' : buffers'[x] \in Buffer
    BY <2>3, <2>4 DEF TypeOK
  <2> QED
    BY <2>1, <2>2, <2>3, <2>5, <2>6 DEF TypeOK, threadVars, current
<1>2. CASE closeColorBuffer(t, h)
  <2> DEFINE refs == [x \in Handle |-> IF x = h THEN 1 ELSE 0]
  <2>1. /\ held[h] > 0
        /\ buffers' = Dropped(refs)
        /\ held' = [held EXCEPT ![h] = @ - 1]
        /\ UNCHANGED <<s_nextHandle, contexts, windows, threadVars, current, creator>>
    BY <1>2 DEF closeColorBuffer
  <2>2. refs \in [Handle -> Nat]
    OBVIOUS
  <2>3. /\ held' \in [Handle -> 0 .. MaxRefs]
        /\ \A x \in Handle : held'[x] = held[x] - refs[x] /\ held[x] \in Nat /\ refs[x] \in Nat
    BY <2>1, RendererAssumption DEF TypeOK
  <2> HIDE DEF refs
  <2>4. ASSUME NEW x \in DOMAIN buffers'
        PROVE  /\ x \in Handle
               /\ buffers'[x] \in Buffer
               /\ buffers'[x].refcount <= held'[x]
    <3>1. /\ x \in DOMAIN buffers
          /\ buffers'[x] \in Buffer
          /\ buffers'[x].refcount = buffers[x].refcount - refs[x]
      BY <2>1, <2>2, DroppedBuffers
    <3> QED
      BY <2>3, <3>1 DEF NoLeakedBuffer, TypeOK, Buffer
  <2>5. NoLeakedBuffer'
    BY <2>4 DEF NoLeakedBuffer
  <2> QED
    BY <2>1, <2>3, <2>4, <2>5 DEF TypeOK, threadVars, current
<1> QED
  BY <1>1, <1>2

LEMMA DestroyAccounted ==
  ASSUME BuffersAccounted, NEW t \in Thread, NEW h \in Handle,
         DestroyRenderContext(t, h) \/ DestroyWindowSurface(t, h)
  PROVE  BuffersAccounted'
<1> USE DEF BuffersAccounted
<1>1. CASE DestroyRenderContext(t, h)
  <2>1. contextSet' \in [Thread -> SUBSET Handle]
    BY <1>1 DEF DestroyRenderContext, TypeOK
  <2>2. DOMAIN contexts' \subseteq Handle /\ \A x \in DOMAIN contexts' : contexts'[x] \in Object
    BY <1>1 DEF DestroyRenderContext, TypeOK, Without, Restrict
  <2> QED
    BY <1>1, <2>1, <2>2 DEF DestroyRenderContext, TypeOK, NoLeakedBuffer, current, ghosts
<1>2. CASE DestroyWindowSurface(t, h)
  <2>1. windowSet' \in [Thread -> SUBSET Handle]
    BY <1>2 DEF DestroyWindowSurface, TypeOK
  <2>2. /\ DOMAIN windows' \subseteq Handle
        /\ \A x \in DOMAIN windows' : windows'[x] \in Window
    BY <1>2 DEF DestroyWindowSurface, TypeOK, Without, Restrict
  <2> QED
    BY <1>2, <2>1, <2>2 DEF DestroyWindowSurface, TypeOK, NoLeakedBuffer, current, ghosts
<1> QED
  BY <1>1, <1>2

\* Assigning mDrawContext or mReadContext of a surface.
LEMMA SurfaceAssigned ==
  ASSUME NEW s \in [Object -> [draw : Object \cup {0}, read : Object \cup {0}]],
         NEW o, NEW c \in Object \cup {0}
  PROVE  /\ [s EXCEPT ![o].draw = c] \in [Object -> [draw : Object \cup {0}, read : Object \cup {0}]]
         /\ [s EXCEPT ![o].read = c] \in [Object -> [draw : Object \cup {0}, read : Object \cup {0}]]
<1>1. ASSUME NEW v \in [draw : Object \cup {0}, read : Object \cup {0}]
      PROVE  /\ [v EXCEPT !.draw = c] \in [draw : Object \cup {0}, read : Object \cup {0}]
             /\ [v EXCEPT !.read = c] \in [draw : Object \cup {0}, read : Object \cup {0}]
  OBVIOUS
<1> QED
  BY <1>1

LEMMA ResizeTypes ==
  ASSUME TypeOK, NEW t \in Thread, NEW o \in Object, resize(t, o)
  PROVE  egl' \in [Thread -> Currents] /\ detached' \subseteq Object \cup {0}
<1> DEFINE replace(x) == IF x = o THEN 0 ELSE x
<1>1. ASSUME NEW u \in Thread PROVE egl'[u] \in Currents
  <2>1. egl[u] \in Currents /\ Unbound \in Currents
    BY DEF TypeOK, Unbound, Currents
  <2>2. egl'[u] \in {Unbound, egl[u], [egl[u] EXCEPT !.draw = replace(@), !.read = replace(@)]}
    BY DEF resize
  <2>3. replace(egl[u].draw) \in {egl[u].draw, 0} /\ replace(egl[u].read) \in {egl[u].read, 0}
    OBVIOUS
  <2> HIDE DEF replace
  <2>4. [egl[u] EXCEPT !.draw = replace(@), !.read = replace(@)] \in Currents
    BY <2>1, <2>3 DEF Currents
  <2> QED
    BY <2>1, <2>2, <2>4
<1>2. egl' = [u \in Thread |-> egl'[u]]
  BY DEF resize
<1>3. cur[t].draw \in Object \cup {0} /\ cur[t].read \in Object \cup {0}
  BY DEF TypeOK, Currents
<1> QED
  BY <1>1, <1>2, <1>3 DEF resize, TypeOK

LEMMA BindAccounted ==
  ASSUME BuffersAccounted, NEW t \in Thread,
         \/ \E w, h \in Handle : setWindowSurfaceColorBuffer(t, w, h)
         \/ \E hc, hd, hr \in Handle : bindContext(t, hc, hd, hr)
         \/ MakeNoneCurrent(t) \/ ExitUnbind(t) \/ RestoreFails(t)
  PROVE  BuffersAccounted'
<1> USE DEF BuffersAccounted
<1>1. ASSUME NEW w \in Handle, NEW h \in Handle, setWindowSurfaceColorBuffer(t, w, h)
      PROVE  BuffersAccounted'
  <2>1. /\ w \in DOMAIN windows /\ h \in DOMAIN buffers
        /\ windows' = [windows EXCEPT ![w].cb = h, ![w].size = buffers[h].size]
        /\ UNCHANGED <<s_nextHandle, contexts, buffers, threadVars, ghosts>>
        /\ UNCHANGED current \/ resize(t, windows[w].surf)
    BY <1>1 DEF setWindowSurfaceColorBuffer, setColorBuffer
  <2>2. windows[w] \in Window /\ buffers[h].size \in Sizes
    BY <2>1 DEF TypeOK, Buffer
  <2>3. [[windows[w] EXCEPT !.cb = h] EXCEPT !.size = buffers[h].size] \in Window
    BY <2>2 DEF Window
  <2>4. /\ DOMAIN windows' \subseteq Handle
        /\ \A x \in DOMAIN windows' : windows'[x] \in Window
    BY <2>1, <2>3 DEF TypeOK
  <2>5. surfs' = surfs /\ cur' = cur
    BY <2>1 DEF current, resize
  <2>6. egl' \in [Thread -> Currents] /\ detached' \subseteq Object \cup {0}
    <3>1. CASE UNCHANGED current
      BY <3>1 DEF TypeOK, current
    <3>2. CASE resize(t, windows[w].surf)
      <4>1. windows[w].surf \in Object
        BY <2>2 DEF Window
      <4> QED
        BY <3>2, <4>1, ResizeTypes
    <3> QED
      BY <2>1, <3>1, <3>2
  <2> QED
    BY <2>1, <2>4, <2>5, <2>6 DEF TypeOK, NoLeakedBuffer, threadVars, ghosts
<1>2. ASSUME NEW hc \in Handle, NEW hd \in Handle, NEW hr \in Handle, bindContext(t, hc, hd, hr)
      PROVE  BuffersAccounted'
  <2>1. PICK c \in Object, d \in Object, r \in Object :
          /\ surfs' = [surfs EXCEPT ![d].draw = c, ![r].read = c]
          /\ cur' = [cur EXCEPT ![t] = [ctx |-> c, draw |-> d, read |-> r]]
          /\ egl' = [egl EXCEPT ![t] = [ctx |-> c, draw |-> d, read |-> r]]
          /\ UNCHANGED <<s_nextHandle, tables, threadVars, detached, ghosts>>
    BY <1>2 DEF bindContext, TypeOK, Window
  <2>2. surfs' \in [Object -> [draw : Object \cup {0}, read : Object \cup {0}]]
    <3>1. [surfs EXCEPT ![d].draw = c] \in [Object -> [draw : Object \cup {0}, read : Object \cup {0}]]
      BY SurfaceAssigned DEF TypeOK
    <3>2. surfs' = [[surfs EXCEPT ![d].draw = c] EXCEPT ![r].read = c]
      BY <2>1
    <3> QED
      BY <3>1, <3>2, SurfaceAssigned
  <2>3. cur' \in [Thread -> Currents] /\ egl' \in [Thread -> Currents]
    BY <2>1 DEF TypeOK, Currents
  <2> QED
    BY <2>1, <2>2, <2>3 DEF TypeOK, NoLeakedBuffer, tables, threadVars, ghosts
<1>3. ASSUME Unbind(t), pc' \in [Thread -> {"run", "unbound", "windows_drained", "ended"}]
      PROVE  BuffersAccounted'
  <2>1. surfs' \in [Object -> [draw : Object \cup {0}, read : Object \cup {0}]]
    <3>1. surfs \in [Object -> [draw : Object \cup {0}, read : Object \cup {0}]]
      BY DEF TypeOK
    <3>2. [surfs EXCEPT ![cur[t].draw].draw = 0]
            \in [Object -> [draw : Object \cup {0}, read : Object \cup {0}]]
      BY <3>1, SurfaceAssigned
    <3>3. [surfs EXCEPT ![cur[t].draw].draw = 0, ![cur[t].read].read = 0]
            = [[surfs EXCEPT ![cur[t].draw].draw = 0] EXCEPT ![cur[t].read].read = 0]
      OBVIOUS
    <3> QED
      BY <1>3, <3>1, <3>2, <3>3, SurfaceAssigned DEF Unbind
  <2>2. cur' \in [Thread -> Currents] /\ egl' \in [Thread -> Currents]
    BY <1>3 DEF TypeOK, Unbind, Unbound, Currents
  <2> QED
    BY <1>3, <2>1, <2>2 DEF TypeOK, NoLeakedBuffer, Unbind, tables, ghosts
<1>4. MakeNoneCurrent(t) \/ ExitUnbind(t) =>
        Unbind(t) /\ pc' \in [Thread -> {"run", "unbound", "windows_drained", "ended"}]
  BY DEF MakeNoneCurrent, ExitUnbind, TypeOK
<1>5. CASE RestoreFails(t)
  <2>1. egl' \in [Thread -> Currents]
    BY <1>5 DEF RestoreFails, TypeOK, Unbound, Currents
  <2>2. detached' \subseteq Object \cup {0}
    BY <1>5 DEF RestoreFails, TypeOK, Currents
  <2> QED
    BY <1>5, <2>1, <2>2 DEF RestoreFails, TypeOK, NoLeakedBuffer, tables, threadVars, ghosts
<1> QED
  BY <1>1, <1>2, <1>3, <1>4, <1>5

LEMMA DrainAccounted ==
  ASSUME BuffersAccounted, NEW t \in Thread, drainWindowSurface(t) \/ drainRenderContext(t)
  PROVE  BuffersAccounted'
<1> USE DEF BuffersAccounted
<1>1. CASE drainWindowSurface(t)
  <2> DEFINE drained == windowSet[t] \cap DOMAIN windows
             attached == [h \in Handle |-> Cardinality({w \in drained : windows[w].cb = h})]
  <2>1. attached \in [Handle -> Nat]
    BY AttachedCount
  <2>2. /\ buffers' = Dropped(attached)
        /\ windows' = Without(windows, windowSet[t])
        /\ windowSet' = [windowSet EXCEPT ![t] = {}]
        /\ pc' = [pc EXCEPT ![t] = "windows_drained"]
        /\ UNCHANGED <<s_nextHandle, contexts, contextSet, current, ghosts>>
    BY <1>1 DEF drainWindowSurface
  <2> HIDE DEF attached
  <2>3. ASSUME NEW x \in DOMAIN buffers'
        PROVE  /\ x \in Handle
               /\ buffers'[x] \in Buffer
               /\ buffers'[x].refcount <= held[x]
    <3>1. /\ x \in DOMAIN buffers
          /\ buffers'[x] \in Buffer
          /\ buffers'[x].refcount = buffers[x].refcount - attached[x]
      BY <2>1, <2>2, DroppedBuffers
    <3>2. /\ buffers[x].refcount \in Nat /\ buffers[x].refcount <= held[x]
          /\ x \in Handle /\ held[x] \in Nat
      BY <3>1, RendererAssumption DEF TypeOK, NoLeakedBuffer, Buffer
    <3>3. attached[x] \in Nat
      BY <2>1, <3>2
    <3> QED
      BY <3>1, <3>2, <3>3
  <2>4. /\ DOMAIN windows' \subseteq Handle
        /\ \A x \in DOMAIN windows' : windows'[x] \in Window
    BY <2>2 DEF TypeOK, Without, Restrict
  <2>5. windowSet' \in [Thread -> SUBSET Handle]
    BY <2>2 DEF TypeOK
  <2>6. pc' \in [Thread -> {"run", "unbound", "windows_drained", "ended"}]
    BY <2>2 DEF TypeOK
  <2> QED
    BY <2>2, <2>3, <2>4, <2>5, <2>6 DEF TypeOK, NoLeakedBuffer, current, ghosts
<1>2. CASE drainRenderContext(t)
  <2>1. contextSet' \in [Thread -> SUBSET Handle]
    BY <1>2 DEF drainRenderContext, TypeOK
  <2>2. DOMAIN contexts' \subseteq Handle /\ \A x \in DOMAIN contexts' : contexts'[x] \in Object
    BY <1>2 DEF drainRenderContext, TypeOK, Without, Restrict
  <2>3. pc' \in [Thread -> {"run", "unbound", "windows_drained", "ended"}]
    BY <1>2 DEF drainRenderContext, TypeOK
  <2> QED
    BY <1>2, <2>1, <2>2, <2>3 DEF drainRenderContext, TypeOK, NoLeakedBuffer, current, ghosts
<1> QED
  BY <1>1, <1>2

LEMMA StepAccounted == BuffersAccounted /\ [Next]_vars => BuffersAccounted'
<1> SUFFICES ASSUME BuffersAccounted, [Next]_vars PROVE BuffersAccounted'
    OBVIOUS
<1>1. CASE UNCHANGED vars
  BY <1>1 DEF vars, tables, threadVars, current, ghosts, BuffersAccounted, TypeOK, NoLeakedBuffer
<1> QED
  BY <1>1, CreateBufferAccounted, CreateObjectAccounted, OpenCloseAccounted, DestroyAccounted,
     BindAccounted, DrainAccounted DEF Next

LEMMA InitAccounted == Init => BuffersAccounted
<1> SUFFICES ASSUME Init PROVE BuffersAccounted
    OBVIOUS
<1>1. DOMAIN contexts = {} /\ DOMAIN windows = {} /\ DOMAIN buffers = {}
  BY DEF Init
<1>2. creator \in Seq(Thread) /\ Len(creator) <= MaxCreates
  BY RendererAssumption DEF Init
<1>3. held \in [Handle -> 0 .. MaxRefs] /\ s_nextHandle \in 0 .. HandleCount - 1
  BY RendererAssumption DEF Init
<1>4. cur \in [Thread -> Currents] /\ egl \in [Thread -> Currents] /\ detached = {}
  BY DEF Init, Unbound, Currents
<1>5. surfs \in [Object -> [draw : Object \cup {0}, read : Object \cup {0}]]
  BY DEF Init
<1> QED
  BY <1>1, <1>2, <1>3, <1>4, <1>5 DEF Init, BuffersAccounted, TypeOK, NoLeakedBuffer

\* The reference count of a color buffer is covered by the references of the
\* clients, for any number of threads, handles and references: closing as often
\* as opening frees the buffer (Renderer.cpp closeColorBuffer,
\* drainWindowSurface), and no buffer stays in the table at count 0.
THEOREM BuffersAlwaysAccounted == Spec => []BuffersAccounted
BY InitAccounted, StepAccounted, PTL DEF Spec
--------------------------------------------------------------------------------
(* Current surfaces. *)

\* What a thread has current is all there or all gone; EGL has it current too,
\* unless it is detached; and EGL has no pbuffer current in two threads.
CurrentExclusive ==
  /\ \A t \in Thread : \/ cur[t] = Unbound /\ egl[t] = Unbound
                       \/ cur[t] \in [ctx : Object, draw : Object, read : Object]
  /\ \A t \in Thread : cur[t] # Unbound =>
       /\ cur[t].draw \notin detached => egl[t].draw = cur[t].draw
       /\ cur[t].read \notin detached => egl[t].read = cur[t].read
  /\ \A t, u \in Thread : t # u => Current(t) \cap Current(u) \subseteq {0}

BoundInv == BuffersAccounted /\ CurrentExclusive /\ CurrentSurfacesBound

\* If two threads have a surface current for the same use, it is detached.
LEMMA SharedDetached ==
  ASSUME CurrentExclusive, NEW t \in Thread, NEW u \in Thread, t # u,
         cur[t] # Unbound, cur[u] # Unbound
  PROVE  /\ cur[u].draw = cur[t].draw => cur[u].draw \in detached
         /\ cur[u].read = cur[t].read => cur[u].read \in detached
<1>1. /\ cur[u].draw # 0 /\ cur[u].read # 0
  BY DEF CurrentExclusive, Object
<1>2. /\ egl[t].draw = egl[u].draw => egl[u].draw = 0
      /\ egl[t].read = egl[u].read => egl[u].read = 0
  <2>1. Current(t) \cap Current(u) \subseteq {0}
    BY DEF CurrentExclusive
  <2> QED
    BY <2>1 DEF Current
<1> QED
  BY <1>1, <1>2 DEF CurrentExclusive

LEMMA BindContextBound ==
  ASSUME BoundInv, NEW t \in Thread, NEW hc \in Handle, NEW hd \in Handle, NEW hr \in Handle,
         bindContext(t, hc, hd, hr)
  PROVE  CurrentExclusive' /\ CurrentSurfacesBound'
<1>1. TypeOK /\ CurrentExclusive
  BY DEF BoundInv, BuffersAccounted
<1>2. PICK c \in Object, d \in Object, r \in Object :
        /\ eglMakeCurrent(t, c, d, r)
        /\ surfs' = [surfs EXCEPT ![d].draw = c, ![r].read = c]
        /\ cur' = [cur EXCEPT ![t] = [ctx |-> c, draw |-> d, read |-> r]]
        /\ egl' = [egl EXCEPT ![t] = [ctx |-> c, draw |-> d, read |-> r]]
        /\ detached' = detached
  BY <1>1 DEF bindContext, TypeOK, Window
<1>3. /\ cur'[t] = [ctx |-> c, draw |-> d, read |-> r]
      /\ egl'[t] = [ctx |-> c, draw |-> d, read |-> r]
      /\ cur'[t] # Unbound
      /\ \A u \in Thread : u # t => cur'[u] = cur[u] /\ egl'[u] = egl[u]
  <2>1. cur'[t] = [ctx |-> c, draw |-> d, read |-> r] /\ c # 0
    BY <1>1, <1>2 DEF TypeOK, Object
  <2>2. cur'[t].ctx # Unbound.ctx
    BY <2>1 DEF Unbound
  <2> QED
    BY <1>1, <1>2, <2>1, <2>2 DEF TypeOK
<1>4. \A u \in Thread : u # t => /\ egl[u].draw # d /\ egl[u].read # r
                                 /\ egl[u].draw # r /\ egl[u].read # d
  BY <1>2 DEF eglMakeCurrent, Current
<1>5. CurrentExclusive'
  <2>1. cur'[t] \in [ctx : Object, draw : Object, read : Object]
    BY <1>3
  <2>2. /\ cur'[t].draw = d /\ cur'[t].read = r
        /\ egl'[t].draw = d /\ egl'[t].read = r
    BY <1>3
  <2>3. ASSUME NEW u \in Thread, NEW v \in Thread, u # v
        PROVE  Current(u)' \cap Current(v)' \subseteq {0}
    BY <1>1, <1>3, <1>4, <2>2, <2>3 DEF CurrentExclusive, Current
  <2>4. ASSUME NEW u \in Thread, u # t
        PROVE  /\ \/ cur'[u] = Unbound /\ egl'[u] = Unbound
                  \/ cur'[u] \in [ctx : Object, draw : Object, read : Object]
               /\ cur'[u] # Unbound =>
                    /\ cur'[u].draw \notin detached' => egl'[u].draw = cur'[u].draw
                    /\ cur'[u].read \notin detached' => egl'[u].read = cur'[u].read
    BY <1>1, <1>2, <1>3, <2>4 DEF CurrentExclusive
  <2> QED
    BY <2>1, <2>2, <2>3, <2>4 DEF CurrentExclusive
<1>6. /\ surfs'[d].draw = c /\ surfs'[r].read = c
      /\ \A o \in Object : (o # d => surfs'[o].draw = surfs[o].draw)
                           /\ (o # r => surfs'[o].read = surfs[o].read)
  BY <1>1, <1>2 DEF TypeOK
<1>7. ASSUME NEW u \in Thread, cur'[u] # Unbound
      PROVE  /\ cur'[u].draw \notin detached => surfs'[cur'[u].draw].draw = cur'[u].ctx
             /\ cur'[u].read \notin detached => surfs'[cur'[u].read].read = cur'[u].ctx
  <2>1. CASE u = t
    BY <1>3, <1>6, <2>1
  <2>2. CASE u # t
    <3>1. cur[u] \in [ctx : Object, draw : Object, read : Object] /\ cur'[u] = cur[u]
      BY <1>1, <1>3, <1>7, <2>2 DEF CurrentExclusive
    <3>2. /\ cur[u].draw \notin detached => cur[u].draw # d
          /\ cur[u].read \notin detached => cur[u].read # r
      BY <1>1, <1>4, <1>7, <2>2, <3>1 DEF CurrentExclusive
    <3>3. /\ cur[u].draw \notin detached => surfs[cur[u].draw].draw = cur[u].ctx
          /\ cur[u].read \notin detached => surfs[cur[u].read].read = cur[u].ctx
      BY <1>7, <3>1 DEF BoundInv, CurrentSurfacesBound
    <3> QED
      BY <1>6, <3>1, <3>2, <3>3
  <2> QED
    BY <2>1, <2>2
<1> QED
  BY <1>2, <1>5, <1>7 DEF CurrentSurfacesBound

LEMMA UnbindBound ==
  ASSUME BoundInv, NEW t \in Thread, Unbind(t)
  PROVE  CurrentExclusive' /\ CurrentSurfacesBound'
<1>1. TypeOK /\ CurrentExclusive
  BY DEF BoundInv, BuffersAccounted
<1>2. /\ cur'[t] = Unbound /\ egl'[t] = Unbound /\ detached' = detached
      /\ \A u \in Thread : u # t => cur'[u] = cur[u] /\ egl'[u] = egl[u]
  BY <1>1 DEF Unbind, TypeOK
<1>3. CurrentExclusive'
  <2>1. Unbound.draw = 0 /\ Unbound.read = 0
    BY DEF Unbound
  <2>2. ASSUME NEW u \in Thread, NEW v \in Thread, u # v
        PROVE  Current(u)' \cap Current(v)' \subseteq {0}
    BY <1>1, <1>2, <2>1, <2>2 DEF CurrentExclusive, Current
  <2> QED
    BY <1>1, <1>2, <2>2 DEF CurrentExclusive
<1>4. ASSUME NEW u \in Thread, cur'[u] # Unbound
      PROVE  /\ cur'[u].draw \notin detached => surfs'[cur'[u].draw].draw = cur'[u].ctx
             /\ cur'[u].read \notin detached => surfs'[cur'[u].read].read = cur'[u].ctx
  <2>1. u # t /\ cur'[u] = cur[u] /\ cur[u] \in [ctx : Object, draw : Object, read : Object]
    BY <1>1, <1>2, <1>4 DEF CurrentExclusive
  <2>2. /\ cur[u].draw \notin detached => surfs[cur[u].draw].draw = cur[u].ctx
        /\ cur[u].read \notin detached => surfs[cur[u].read].read = cur[u].ctx
    BY <1>4, <2>1 DEF BoundInv, CurrentSurfacesBound
  <2>3. /\ cur[u].draw \notin detached => cur[u].draw # cur[t].draw
        /\ cur[u].read \notin detached => cur[u].read # cur[t].read
    <3>1. CASE cur[t] = Unbound
      BY <2>1, <3>1 DEF Unbound, Object
    <3>2. CASE cur[t] # Unbound
      BY <1>1, <1>4, <2>1, <3>2, SharedDetached
    <3> QED
      BY <3>1, <3>2
  <2>4. /\ cur[u].draw # cur[t].draw => surfs'[cur[u].draw].draw = surfs[cur[u].draw].draw
        /\ cur[u].read # cur[t].read => surfs'[cur[u].read].read = surfs[cur[u].read].read
    <3> DEFINE a == cur[t].draw
               b == cur[t].read
               o == cur[u].draw
               p == cur[u].read
    <3>1. o \in Object /\ p \in Object
      BY <2>1
    <3>2. surfs' = surfs \/ surfs' = [surfs EXCEPT ![a].draw = 0, ![b].read = 0]
      BY DEF Unbind
    <3>3. surfs \in [Object -> [draw : Object \cup {0}, read : Object \cup {0}]]
      BY <1>1 DEF TypeOK
    <3> HIDE DEF a, b, o, p
    <3>4. (o # a => surfs'[o].draw = surfs[o].draw) /\ (p # b => surfs'[p].read = surfs[p].read)
      BY <3>1, <3>2, <3>3
    <3> QED
      BY <3>4 DEF a, b, o, p
  <2> QED
    BY <2>1, <2>2, <2>3, <2>4
<1> QED
  BY <1>2, <1>3, <1>4 DEF CurrentSurfacesBound

\* A step that binds nothing, takes surfaces from EGL and detaches those.
LEMMA TakenBound ==
  ASSUME BoundInv, UNCHANGED <<surfs, cur>>,
         detached \subseteq detached',
         \A u \in Thread : Current(u)' \subseteq Current(u) \cup {0},
         \A u \in Thread : cur[u] = Unbound => egl'[u] = Unbound,
         \A u \in Thread : cur[u] # Unbound =>
           /\ cur[u].draw \notin detached' => egl'[u].draw = egl[u].draw
           /\ cur[u].read \notin detached' => egl'[u].read = egl[u].read
  PROVE  CurrentExclusive' /\ CurrentSurfacesBound'
<1>1. CurrentExclusive /\ CurrentSurfacesBound
  BY DEF BoundInv
<1>2. CurrentSurfacesBound'
  BY <1>1 DEF CurrentSurfacesBound
<1>3. \A u \in Thread : cur'[u] # Unbound =>
        /\ cur'[u].draw \notin detached' => egl'[u].draw = cur'[u].draw
        /\ cur'[u].read \notin detached' => egl'[u].read = cur'[u].read
  BY <1>1 DEF CurrentExclusive
<1>4. \A u, v \in Thread : u # v => Current(u)' \cap Current(v)' \subseteq {0}
  BY <1>1 DEF CurrentExclusive
<1>5. \A u \in Thread : \/ cur'[u] = Unbound /\ egl'[u] = Unbound
                        \/ cur'[u] \in [ctx : Object, draw : Object, read : Object]
  BY <1>1 DEF CurrentExclusive
<1> QED
  BY <1>2, <1>3, <1>4, <1>5 DEF CurrentExclusive

LEMMA ResizeBound ==
  ASSUME BoundInv, NEW t \in Thread, NEW o \in Object, resize(t, o)
  PROVE  CurrentExclusive' /\ CurrentSurfacesBound'
<1> DEFINE lost == o \in Current(t) /\ 0 \in Current(t)
           replace(x) == IF x = o THEN 0 ELSE x
<1>1. TypeOK /\ CurrentExclusive /\ o # 0
  BY DEF BoundInv, BuffersAccounted, Object
<1>2. /\ UNCHANGED <<surfs, cur>>
      /\ detached \subseteq detached'
      /\ \A u \in Thread \ {t} : o \in Current(u) => o \in detached'
      /\ lost => cur[t].draw \in detached' /\ cur[t].read \in detached'
  BY DEF resize
<1>3. ASSUME NEW u \in Thread, u # t
      PROVE  egl'[u].draw = replace(egl[u].draw) /\ egl'[u].read = replace(egl[u].read)
             /\ egl'[u].ctx = egl[u].ctx /\ egl'[u] \in Currents
  <2>1. egl'[u] = [egl[u] EXCEPT !.draw = replace(@), !.read = replace(@)]
    BY <1>3 DEF resize
  <2>2. egl[u] \in Currents
    BY <1>1 DEF TypeOK
  <2> QED
    BY <2>1, <2>2 DEF Currents
<1>4. egl'[t] = IF lost THEN Unbound ELSE egl[t]
  BY DEF resize
<1>5. ASSUME NEW u \in Thread
      PROVE  /\ Current(u)' \subseteq Current(u) \cup {0}
             /\ cur[u] = Unbound => egl'[u] = Unbound
             /\ cur[u] # Unbound =>
                  /\ cur[u].draw \notin detached' => egl'[u].draw = egl[u].draw
                  /\ cur[u].read \notin detached' => egl'[u].read = egl[u].read
  <2>1. CASE u = t
    <3>1. CASE lost
      <4>1. egl'[u] = Unbound
        BY <1>4, <2>1, <3>1
      <4> QED
        BY <1>2, <2>1, <3>1, <4>1 DEF Current, Unbound
    <3>2. CASE ~lost
      <4>1. egl'[u] = egl[u] /\ Current(u)' = Current(u)
        BY <1>4, <2>1, <3>2 DEF Current
      <4>2. cur[u] = Unbound => egl[u] = Unbound
        BY <1>1 DEF CurrentExclusive, Unbound, Object
      <4> QED
        BY <4>1, <4>2
    <3> QED
      BY <3>1, <3>2
  <2>2. CASE u # t
    <3>1. Current(u)' \subseteq Current(u) \cup {0}
      BY <1>3, <2>2 DEF Current
    <3>2. ASSUME cur[u] = Unbound PROVE egl'[u] = Unbound
      <4>1. egl[u] = Unbound
        BY <1>1, <3>2 DEF CurrentExclusive, Unbound, Object
      <4>2. egl'[u].draw = 0 /\ egl'[u].read = 0 /\ egl'[u].ctx = 0 /\ egl'[u] \in Currents
        BY <1>1, <1>3, <2>2, <4>1 DEF Unbound
      <4> QED
        BY <4>2 DEF Unbound, Currents
    <3>3. ASSUME cur[u] # Unbound
          PROVE  /\ cur[u].draw \notin detached' => egl'[u].draw = egl[u].draw
                 /\ cur[u].read \notin detached' => egl'[u].read = egl[u].read
      <4>1. /\ cur[u].draw \notin detached' => egl[u].draw = cur[u].draw
            /\ cur[u].read \notin detached' => egl[u].read = cur[u].read
        BY <1>1, <1>2, <3>3 DEF CurrentExclusive
      <4>2. o \notin detached' => egl[u].draw # o /\ egl[u].read # o
        BY <1>2, <2>2 DEF Current
      <4> QED
        BY <1>3, <2>2, <4>1, <4>2
    <3> QED
      BY <3>1, <3>2, <3>3
  <2> QED
    BY <2>1, <2>2
<1> QED
  BY <1>2, <1>5, TakenBound

LEMMA RestoreFailsBound ==
  ASSUME BoundInv, NEW t \in Thread, RestoreFails(t)
  PROVE  CurrentExclusive' /\ CurrentSurfacesBound'
<1>1. TypeOK /\ CurrentExclusive
  BY DEF BoundInv, BuffersAccounted
<1>2. /\ egl'[t] = Unbound /\ \A u \in Thread : u # t => egl'[u] = egl[u]
      /\ UNCHANGED <<surfs, cur>>
      /\ detached \subseteq detached'
      /\ cur[t].draw \in detached' /\ cur[t].read \in detached'
  BY <1>1 DEF RestoreFails, TypeOK
<1>3. \A u \in Thread : Current(u)' \subseteq Current(u) \cup {0}
  BY <1>2 DEF Current, Unbound
<1>4. \A u \in Thread : cur[u] = Unbound => egl'[u] = Unbound
  BY <1>1, <1>2 DEF CurrentExclusive, Unbound, Object
<1> QED
  BY <1>2, <1>3, <1>4, TakenBound

LEMMA StepBound == BoundInv /\ [Next]_vars => BoundInv'
<1> SUFFICES ASSUME BoundInv, [Next]_vars PROVE CurrentExclusive' /\ CurrentSurfacesBound'
    BY StepAccounted DEF BoundInv
<1>1. CASE UNCHANGED current
  BY <1>1 DEF BoundInv, CurrentExclusive, CurrentSurfacesBound, Current, current
<1>2. ASSUME NEW t \in Thread,
             \/ createColorBuffer(t) \/ createRenderContext(t) \/ createWindowSurface(t)
             \/ \E h \in Handle : DestroyRenderContext(t, h) \/ DestroyWindowSurface(t, h)
             \/ \E h \in Handle : openColorBuffer(t, h) \/ closeColorBuffer(t, h)
             \/ drainWindowSurface(t) \/ drainRenderContext(t)
      PROVE  UNCHANGED current
  BY <1>2 DEF createColorBuffer, createRenderContext, createWindowSurface, DestroyRenderContext,
              DestroyWindowSurface, openColorBuffer, closeColorBuffer,
              drainWindowSurface, drainRenderContext
<1>3. ASSUME NEW t \in Thread, MakeNoneCurrent(t) \/ ExitUnbind(t) PROVE Unbind(t)
  BY <1>3 DEF MakeNoneCurrent, ExitUnbind
<1>4. CASE UNCHANGED vars
  BY <1>1, <1>4 DEF vars
<1>5. ASSUME NEW t \in Thread, NEW w \in Handle, NEW h \in Handle,
             setWindowSurfaceColorBuffer(t, w, h)
      PROVE  UNCHANGED current \/ \E o \in Object : resize(t, o)
  <2>1. windows[w].surf \in Object
    BY <1>5 DEF setWindowSurfaceColorBuffer, BoundInv, BuffersAccounted, TypeOK, Window
  <2> QED
    BY <1>5, <2>1 DEF setWindowSurfaceColorBuffer, setColorBuffer
<1> QED
  BY <1>1, <1>2, <1>3, <1>4, <1>5, BindContextBound, UnbindBound, ResizeBound, RestoreFailsBound
     DEF Next

\* Drawing goes to the context that is current: for any number of threads,
\* objects and sizes, the surfaces current in a thread are bound to the thread's
\* context, unless another thread replaced their pbuffer (Renderer.cpp
\* bindContext, WindowSurface.cpp resize; flushColorBuffer uses mDrawContext).
THEOREM CurrentAlwaysBound == Spec => []CurrentSurfacesBound
<1>1. Init => BoundInv
  BY InitAccounted DEF Init, BoundInv, CurrentExclusive, CurrentSurfacesBound, Current, Unbound
<1>2. BoundInv => CurrentSurfacesBound
  BY DEF BoundInv
<1> QED
  BY <1>1, <1>2, StepBound, PTL DEF Spec

--------------------------------------------------------------------------------
(* Until the handles wrap around, a handle is the serial number of its object. *)

Unwrapped ==
  Len(creator) < HandleCount =>
    /\ s_nextHandle = Len(creator)
    /\ \A h \in DOMAIN contexts : contexts[h] = h /\ h <= Len(creator)
    /\ \A h \in DOMAIN windows : windows[h].surf = h /\ h <= Len(creator)
    /\ \A t \in Thread : \A h \in contextSet[t] \cup windowSet[t] :
         h <= Len(creator) /\ creator[h] = t

SerialInv == BuffersAccounted /\ Unwrapped

\* The next handle is then the next serial number.
LEMMA NextSerial ==
  ASSUME SerialInv, NEW t \in Thread, NEW h \in Handle, Create(t, h),
         Len(creator) + 1 < HandleCount
  PROVE  /\ h = NewObject
         /\ creator'[h] = t /\ \A x \in 1 .. Len(creator) : creator'[x] = creator[x]
         /\ Len(creator') = Len(creator) + 1
         /\ s_nextHandle' = Len(creator')
<1> DEFINE n == Len(creator)
<1>1. /\ TypeOK /\ n \in Nat /\ HandleCount \in Nat
  BY RendererAssumption DEF SerialInv, BuffersAccounted, TypeOK
<1>2. /\ s_nextHandle = n
      /\ \A x \in DOMAIN contexts \cup DOMAIN windows : x <= n
  BY <1>1 DEF SerialInv, Unwrapped
<1>3. Successor(1) = n + 1
  <2>1. (n + 1) % HandleCount = n + 1
    BY <1>1
  <2> QED
    BY <1>2, <2>1 DEF Successor
<1>4. ~InUse(Successor(1))
  BY <1>1, <1>2, <1>3 DEF InUse
<1>5. PICK k \in 1 .. HandleCount : /\ h = Successor(k)
                                    /\ \A j \in 1 .. k - 1 : InUse(Successor(j))
  BY DEF Create, genHandle
<1>6. k = 1
  BY <1>1, <1>4, <1>5
<1>7. h = n + 1
  BY <1>3, <1>5, <1>6
<1>8. creator' = Append(creator, t) /\ creator \in Seq(Thread) /\ s_nextHandle' = h
  BY <1>1 DEF Create, TypeOK
<1> QED
  BY <1>1, <1>7, <1>8 DEF NewObject

LEMMA CreateUnwrapped ==
  ASSUME SerialInv, NEW t \in Thread,
         createColorBuffer(t) \/ createRenderContext(t) \/ createWindowSurface(t)
  PROVE  Unwrapped'
<1> DEFINE n == Len(creator)
<1>1. PICK h \in Handle :
        /\ Create(t, h)
        /\ \/ UNCHANGED <<contexts, windows, contextSet, windowSet>>
           \/ /\ contexts' = With(contexts, h, NewObject)
              /\ contextSet' = [contextSet EXCEPT ![t] = @ \cup {h}]
              /\ UNCHANGED <<windows, windowSet>>
           \/ /\ \E s \in Sizes :
                   windows' = With(windows, h, [surf |-> NewObject, cb |-> 0, size |-> s])
              /\ windowSet' = [windowSet EXCEPT ![t] = @ \cup {h}]
              /\ UNCHANGED <<contexts, contextSet>>
  BY DEF createColorBuffer, createRenderContext, createWindowSurface, threadVars
<1>2. TypeOK
  BY DEF SerialInv, BuffersAccounted
<1>3. /\ creator \in Seq(Thread) /\ n \in Nat /\ HandleCount \in Nat
      /\ contextSet \in [Thread -> SUBSET Handle] /\ windowSet \in [Thread -> SUBSET Handle]
  BY <1>2, RendererAssumption DEF TypeOK
<1>4. Len(creator') = n + 1
  BY <1>1, <1>2, CreateTypes
<1> SUFFICES ASSUME n + 1 < HandleCount
             PROVE  /\ s_nextHandle' = n + 1
                    /\ \A x \in DOMAIN contexts' : contexts'[x] = x /\ x <= n + 1
                    /\ \A x \in DOMAIN windows' : windows'[x].surf = x /\ x <= n + 1
                    /\ \A u \in Thread : \A x \in contextSet'[u] \cup windowSet'[u] :
                         x <= n + 1 /\ creator'[x] = u
  BY <1>4 DEF Unwrapped
<1>5. /\ h = n + 1 /\ NewObject = h /\ s_nextHandle' = n + 1
      /\ creator'[h] = t /\ \A x \in 1 .. n : creator'[x] = creator[x]
  BY <1>1, <1>4, NextSerial DEF NewObject
<1>6. /\ \A x \in DOMAIN contexts : contexts[x] = x /\ x <= n /\ x \in Nat
      /\ \A x \in DOMAIN windows : windows[x].surf = x /\ x <= n /\ x \in Nat
      /\ \A u \in Thread : \A x \in contextSet[u] \cup windowSet[u] :
           x <= n /\ creator[x] = u /\ x \in 1 .. n
  BY <1>2, <1>3, RendererAssumption DEF SerialInv, Unwrapped, TypeOK, Handle
<1>7. /\ \A x \in DOMAIN contexts' : contexts'[x] = x /\ x <= n + 1
      /\ \A x \in DOMAIN windows' : windows'[x].surf = x /\ x <= n + 1
  BY <1>1, <1>3, <1>5, <1>6 DEF With
<1>8. ASSUME NEW u \in Thread, NEW x \in contextSet'[u] \cup windowSet'[u]
      PROVE  x <= n + 1 /\ creator'[x] = u
  <2>1. x \in contextSet[u] \cup windowSet[u] \/ (x = h /\ u = t)
    BY <1>1, <1>3
  <2> QED
    BY <1>3, <1>5, <1>6, <2>1
<1> QED
  BY <1>5, <1>7, <1>8

\* The other steps forget handles, and no more.
LEMMA KeepUnwrapped ==
  ASSUME SerialInv,
         UNCHANGED <<s_nextHandle, creator>>,
         \A h \in DOMAIN contexts' : h \in DOMAIN contexts /\ contexts'[h] = contexts[h],
         \A h \in DOMAIN windows' : h \in DOMAIN windows /\ windows'[h].surf = windows[h].surf,
         \A t \in Thread : /\ contextSet'[t] \subseteq contextSet[t]
                           /\ windowSet'[t] \subseteq windowSet[t]
  PROVE  Unwrapped'
<1> SUFFICES ASSUME Len(creator) < HandleCount
             PROVE  /\ \A h \in DOMAIN contexts' : contexts'[h] = h /\ h <= Len(creator)
                    /\ \A h \in DOMAIN windows' : windows'[h].surf = h /\ h <= Len(creator)
                    /\ \A t \in Thread : \A h \in contextSet'[t] \cup windowSet'[t] :
                         h <= Len(creator) /\ creator[h] = t
  BY DEF Unwrapped, SerialInv
<1> QED
  BY DEF SerialInv, Unwrapped

LEMMA StepSerial == SerialInv /\ [Next]_vars => SerialInv'
<1> SUFFICES ASSUME SerialInv, [Next]_vars PROVE Unwrapped'
    BY StepAccounted DEF SerialInv
<1>0. /\ contextSet \in [Thread -> SUBSET Handle] /\ windowSet \in [Thread -> SUBSET Handle]
  BY DEF SerialInv, BuffersAccounted, TypeOK
<1>1. CASE UNCHANGED <<s_nextHandle, creator, contexts, windows, contextSet, windowSet>>
  BY <1>1, KeepUnwrapped
<1>2. CASE UNCHANGED vars
  BY <1>1, <1>2 DEF vars, tables, threadVars, ghosts
<1>3. ASSUME NEW t \in Thread,
             \/ \E h \in Handle : openColorBuffer(t, h) \/ closeColorBuffer(t, h)
             \/ \E hc, hd, hr \in Handle : bindContext(t, hc, hd, hr)
             \/ MakeNoneCurrent(t) \/ ExitUnbind(t) \/ RestoreFails(t)
      PROVE  UNCHANGED <<s_nextHandle, creator, contexts, windows, contextSet, windowSet>>
  BY <1>3 DEF openColorBuffer, closeColorBuffer, bindContext, MakeNoneCurrent, ExitUnbind, Unbind,
              RestoreFails, threadVars, tables, ghosts
<1>4. ASSUME NEW t \in Thread, NEW w \in Handle, NEW h \in Handle,
             setWindowSurfaceColorBuffer(t, w, h)
      PROVE  Unwrapped'
  <2>1. windows' = [windows EXCEPT ![w].cb = h, ![w].size = buffers[h].size]
        /\ UNCHANGED <<s_nextHandle, creator, contexts, contextSet, windowSet>>
    BY <1>4 DEF setWindowSurfaceColorBuffer, threadVars, ghosts
  <2>2. \A x \in DOMAIN windows' : x \in DOMAIN windows /\ windows'[x].surf = windows[x].surf
    BY <2>1
  <2> QED
    BY <2>1, <2>2, KeepUnwrapped
<1>5. ASSUME NEW t \in Thread, NEW H,
             contexts' = Without(contexts, H),
             contextSet' = [contextSet EXCEPT ![t] = @ \ H],
             UNCHANGED <<s_nextHandle, creator, windows, windowSet>>
      PROVE  Unwrapped'
  <2>1. \A h \in DOMAIN contexts' : h \in DOMAIN contexts /\ contexts'[h] = contexts[h]
    BY <1>5 DEF Without, Restrict
  <2>2. \A u \in Thread : contextSet'[u] \subseteq contextSet[u]
    BY <1>0, <1>5
  <2> QED
    BY <1>5, <2>1, <2>2, KeepUnwrapped
<1>6. ASSUME NEW t \in Thread, NEW H,
             windows' = Without(windows, H),
             windowSet' = [windowSet EXCEPT ![t] = @ \ H],
             UNCHANGED <<s_nextHandle, creator, contexts, contextSet>>
      PROVE  Unwrapped'
  <2>1. \A h \in DOMAIN windows' : h \in DOMAIN windows /\ windows'[h].surf = windows[h].surf
    BY <1>6 DEF Without, Restrict
  <2>2. \A u \in Thread : windowSet'[u] \subseteq windowSet[u]
    BY <1>0, <1>6
  <2> QED
    BY <1>6, <2>1, <2>2, KeepUnwrapped
<1>7. ASSUME NEW t \in Thread, NEW h \in Handle,
             DestroyRenderContext(t, h) \/ DestroyWindowSurface(t, h)
      PROVE  Unwrapped'
  BY <1>5, <1>6, <1>7 DEF DestroyRenderContext, DestroyWindowSurface, ghosts
<1>8. ASSUME NEW t \in Thread, drainWindowSurface(t) \/ drainRenderContext(t) PROVE Unwrapped'
  <2>1. CASE drainWindowSurface(t)
    <3>1. /\ windows' = Without(windows, windowSet[t])
          /\ windowSet' = [windowSet EXCEPT ![t] = @ \ windowSet[t]]
          /\ UNCHANGED <<s_nextHandle, creator, contexts, contextSet>>
      BY <1>0, <2>1 DEF drainWindowSurface, ghosts
    <3> QED
      BY <1>6, <3>1
  <2>2. CASE drainRenderContext(t)
    <3>1. /\ contexts' = Without(contexts, contextSet[t])
          /\ contextSet' = [contextSet EXCEPT ![t] = @ \ contextSet[t]]
          /\ UNCHANGED <<s_nextHandle, creator, windows, windowSet>>
      BY <1>0, <2>2 DEF drainRenderContext, ghosts
    <3> QED
      BY <1>5, <3>1
  <2> QED
    BY <1>8, <2>1, <2>2
<1> QED
  BY <1>1, <1>2, <1>3, <1>4, <1>7, <1>8, CreateUnwrapped DEF Next

\* What a thread's clean-up removes is in its sets.
LEMMA DrainRemoves ==
  ASSUME SerialInv, Next, NEW t \in Thread, pc'[t] \notin {"run", pc[t]}
  PROVE  /\ \A h \in DOMAIN windows \ DOMAIN windows' : h \in windowSet[t]
         /\ \A h \in DOMAIN contexts \ DOMAIN contexts' : h \in contextSet[t]
<1>1. pc \in [Thread -> {"run", "unbound", "windows_drained", "ended"}]
  BY DEF SerialInv, BuffersAccounted, TypeOK
<1>2. PICK u \in Thread : ExitUnbind(u) \/ drainWindowSurface(u) \/ drainRenderContext(u)
  <2>1. ASSUME NEW u \in Thread,
               \/ createColorBuffer(u) \/ createRenderContext(u) \/ createWindowSurface(u)
               \/ \E h \in Handle : DestroyRenderContext(u, h) \/ DestroyWindowSurface(u, h)
               \/ \E h \in Handle : openColorBuffer(u, h) \/ closeColorBuffer(u, h)
               \/ \E w, h \in Handle : setWindowSurfaceColorBuffer(u, w, h)
               \/ \E hc, hd, hr \in Handle : bindContext(u, hc, hd, hr)
               \/ MakeNoneCurrent(u) \/ RestoreFails(u)
        PROVE  pc' = pc
    BY <2>1 DEF createColorBuffer, createRenderContext, createWindowSurface, DestroyRenderContext,
                DestroyWindowSurface, openColorBuffer, closeColorBuffer,
                setWindowSurfaceColorBuffer, bindContext, MakeNoneCurrent, RestoreFails,
                threadVars
  <2>2. pc' # pc
    OBVIOUS
  <2> QED
    BY <2>1, <2>2 DEF Next
<1>3. u = t
  BY <1>1, <1>2 DEF ExitUnbind, drainWindowSurface, drainRenderContext
<1> QED
  BY <1>2, <1>3 DEF ExitUnbind, Unbind, tables, drainWindowSurface, drainRenderContext,
                    Without, Restrict

\* An application that goes away takes its own windows and contexts with it and
\* no others', for any number of threads, as long as the handles have not
\* wrapped around (RenderThread.cpp, the clean-up at the end of main).
THEOREM AlwaysDrainsOwn == Spec => DrainsOwn
<1> DEFINE P == \A t \in Thread : pc'[t] \notin {"run", pc[t]} /\ Len(creator) < HandleCount =>
                  /\ \A h \in DOMAIN windows \ DOMAIN windows' : creator[windows[h].surf] = t
                  /\ \A h \in DOMAIN contexts \ DOMAIN contexts' : creator[contexts[h]] = t
<1>1. Init => SerialInv
  BY InitAccounted DEF Init, SerialInv, Unwrapped
<1>2. SerialInv /\ [Next]_vars => [P]_vars
  <2> SUFFICES ASSUME SerialInv, Next, NEW t \in Thread,
                      pc'[t] \notin {"run", pc[t]}, Len(creator) < HandleCount
               PROVE  /\ \A h \in DOMAIN windows \ DOMAIN windows' : creator[windows[h].surf] = t
                      /\ \A h \in DOMAIN contexts \ DOMAIN contexts' : creator[contexts[h]] = t
    OBVIOUS
  <2> QED
    BY DrainRemoves DEF SerialInv, Unwrapped
<1> QED
  BY <1>1, <1>2, StepSerial, PTL DEF Spec, DrainsOwn
================================================================================
