------------------------------- MODULE Renderer --------------------------------
(***************************************************************************)
(* The host objects that guest OpenGL ES clients create: the handle tables *)
(* of emugl/Renderer.cpp, what each render thread remembers of them         *)
(* (emugl/RenderThreadInfo.h), and the clean-up of a render thread whose    *)
(* connection has ended (emugl/RenderThread.cpp).                           *)
(*                                                                         *)
(* Every operation runs under m_lock and is one step.  The clean-up is     *)
(* three operations, between which other threads run.  A call that names an *)
(* unknown handle, or whose EGL call fails, changes nothing and is left out. *)
(*                                                                         *)
(* A handle is a number that can be reused; the object it names is known by *)
(* its serial number, so that the model can tell whether a handle still     *)
(* names what its owner thinks it does.  0 is no handle and no object.      *)
(*                                                                         *)
(* The object of a window has a pbuffer, the surface EGL knows, of the size *)
(* of the color buffer that was attached last: attaching one of another     *)
(* size replaces the pbuffer, under threads that have it current.           *)
(***************************************************************************)
EXTENDS Integers, Sequences, FiniteSets, Functions

CONSTANTS Thread,       \* render threads, one per connection
          HandleCount,  \* number of values of HandleType (2^32)
          Sizes,        \* width and height of a window or a color buffer
          MaxCreates,   \* bound: objects created
          MaxRefs       \* bound: references clients hold on a color buffer

ASSUME RendererAssumption == {HandleCount, MaxCreates, MaxRefs} \subseteq Nat \ {0}

VARIABLES
  s_nextHandle,
  contexts,   \* m_contexts: handle -> context
  windows,    \* m_windows: handle -> surface, handle of its color buffer and size
  buffers,    \* m_colorbuffers: handle -> color buffer, size and refcount
  surfs,      \* mDrawContext and mReadContext of every surface
  contextSet, windowSet,  \* m_contextSet and m_windowSet of each thread
  cur,        \* currContext, currDrawSurf and currReadSurf of each thread
  egl,        \* what EGL has current in each thread; 0 for a pbuffer that was replaced
  pc,         \* whether a thread decodes commands, or how far its clean-up is
  creator,    \* which thread created each of the objects so far
  held,       \* references the clients have on a handle: creates and opens less closes
  detached    \* surfaces that EGL no longer has current where the renderer has them so

tables == <<contexts, windows, buffers>>
threadVars == <<contextSet, windowSet, pc>>
current == <<surfs, cur, egl, detached>>
ghosts == <<creator, held>>
vars == <<s_nextHandle, tables, threadVars, current, ghosts>>

Handle == 1 .. HandleCount - 1
Object == 1 .. MaxCreates
Window == [surf : Object, cb : Handle \cup {0}, size : Sizes]
Buffer == [cb : Object, size : Sizes, refcount : Nat \ {0}]
Currents == [ctx : Object \cup {0}, draw : Object \cup {0}, read : Object \cup {0}]
Unbound == [ctx |-> 0, draw |-> 0, read |-> 0]

\* f with h mapped to v (map[h] = v), and f without the keys H (map.erase).
With(f, h, v) == [x \in DOMAIN f \cup {h} |-> IF x = h THEN v ELSE f[x]]
Without(f, H) == Restrict(f, DOMAIN f \ H)

TypeOK ==
  /\ s_nextHandle \in 0 .. HandleCount - 1
  /\ DOMAIN contexts \subseteq Handle /\ \A h \in DOMAIN contexts : contexts[h] \in Object
  /\ DOMAIN windows \subseteq Handle
  /\ \A h \in DOMAIN windows : windows[h] \in Window
  /\ DOMAIN buffers \subseteq Handle
  /\ \A h \in DOMAIN buffers : buffers[h] \in Buffer
  /\ surfs \in [Object -> [draw : Object \cup {0}, read : Object \cup {0}]]
  /\ contextSet \in [Thread -> SUBSET Handle]
  /\ windowSet \in [Thread -> SUBSET Handle]
  /\ cur \in [Thread -> Currents]
  /\ egl \in [Thread -> Currents]
  /\ detached \subseteq Object \cup {0}
  /\ pc \in [Thread -> {"run", "unbound", "windows_drained", "ended"}]
  /\ creator \in Seq(Thread) /\ Len(creator) <= MaxCreates
  /\ held \in [Handle -> 0 .. MaxRefs]

Init ==
  /\ s_nextHandle = 0
  /\ contexts = <<>> /\ windows = <<>> /\ buffers = <<>>
  /\ surfs = [o \in Object |-> [draw |-> 0, read |-> 0]]
  /\ contextSet = [t \in Thread |-> {}]
  /\ windowSet = [t \in Thread |-> {}]
  /\ cur = [t \in Thread |-> Unbound] /\ egl = cur /\ detached = {}
  /\ pc = [t \in Thread |-> "run"]
  /\ creator = <<>>
  /\ held = [h \in Handle |-> 0]
--------------------------------------------------------------------------------
(* Creating. *)

Successor(k) == (s_nextHandle + k) % HandleCount
InUse(h) == h = 0 \/ h \in DOMAIN contexts \/ h \in DOMAIN windows

\* Fault: window handles are not looked up.
genHandle_ignores_windows(h) ==
  \E k \in 1 .. HandleCount :
    LET taken(i) == Successor(i) = 0 \/ Successor(i) \in DOMAIN contexts
    IN  /\ h = Successor(k) /\ ~taken(k)
        /\ \A j \in 1 .. k - 1 : taken(j)

\* Fault: the search starts from 0, handles are reused at once.
genHandle_lowest_free(h) == ~InUse(h) /\ \A i \in 1 .. h - 1 : InUse(i)

\* h is the value genHandle returns: the first one behind s_nextHandle, around
\* the end of the range if need be, that names no context and no window.
genHandle(h) ==
  \E k \in 1 .. HandleCount : /\ h = Successor(k)
                              /\ ~InUse(h)
                              /\ \A j \in 1 .. k - 1 : InUse(Successor(j))

\* Thread t makes an object, NewObject, with handle h.
NewObject == Len(creator) + 1

Create(t, h) ==
  /\ pc[t] = "run"
  /\ Len(creator) < MaxCreates
  /\ genHandle(h)
  /\ s_nextHandle' = h
  /\ creator' = Append(creator, t)

createColorBuffer(t) ==
  \E h \in Handle, s \in Sizes :
    /\ Create(t, h)
    /\ held[h] < MaxRefs
    /\ buffers' = With(buffers, h, [cb |-> NewObject, size |-> s, refcount |-> 1])
    /\ held' = [held EXCEPT ![h] = @ + 1]
    /\ UNCHANGED <<contexts, windows, threadVars, current>>

createRenderContext(t) ==
  \E h \in Handle :
    /\ Create(t, h)
    /\ contexts' = With(contexts, h, NewObject)
    /\ contextSet' = [contextSet EXCEPT ![t] = @ \cup {h}]
    /\ UNCHANGED <<windows, buffers, windowSet, pc, current, held>>

\* Fault: the thread does not remember its window.
createWindowSurface_untracked(t) ==
  \E h \in Handle, s \in Sizes :
    /\ Create(t, h)
    /\ windows' = With(windows, h, [surf |-> NewObject, cb |-> 0, size |-> s])
    /\ UNCHANGED <<contexts, buffers, threadVars, current, held>>

createWindowSurface(t) ==
  \E h \in Handle, s \in Sizes :
    /\ Create(t, h)
    /\ windows' = With(windows, h, [surf |-> NewObject, cb |-> 0, size |-> s])
    /\ windowSet' = [windowSet EXCEPT ![t] = @ \cup {h}]
    /\ UNCHANGED <<contexts, buffers, contextSet, pc, current, held>>
--------------------------------------------------------------------------------
(* Destroying.  Any thread may name any handle, not only its own. *)

DestroyRenderContext(t, h) ==
  /\ pc[t] = "run"
  /\ contexts' = Without(contexts, {h})
  /\ contextSet' = [contextSet EXCEPT ![t] = @ \ {h}]
  /\ UNCHANGED <<s_nextHandle, windows, buffers, windowSet, pc, current, ghosts>>

DestroyWindowSurface(t, h) ==
  /\ pc[t] = "run"
  /\ h \in DOMAIN windows
  /\ windows' = Without(windows, {h})
  /\ windowSet' = [windowSet EXCEPT ![t] = @ \ {h}]
  /\ UNCHANGED <<s_nextHandle, contexts, buffers, contextSet, pc, current, ghosts>>
--------------------------------------------------------------------------------
(* Color buffers. *)

openColorBuffer(t, h) ==
  /\ pc[t] = "run"
  /\ h \in DOMAIN buffers
  /\ held[h] < MaxRefs
  /\ buffers' = [buffers EXCEPT ![h].refcount = @ + 1]
  /\ held' = [held EXCEPT ![h] = @ + 1]
  /\ UNCHANGED <<s_nextHandle, contexts, windows, threadVars, current, creator>>

\* m_colorbuffers when n[h] references on each h are dropped: a count that reaches 0
\* removes the buffer, and a handle that is not there is ignored.
Dropped(n) ==
  LET gone == {h \in DOMAIN buffers : n[h] >= buffers[h].refcount}
  IN  [h \in DOMAIN buffers \ gone |-> [buffers[h] EXCEPT !.refcount = @ - n[h]]]

\* Fault: the count is compared before it is decremented.
closeColorBuffer_late(t, h) ==
  LET refs == [x \in Handle |-> IF x = h THEN 1 ELSE 0]
  IN  /\ pc[t] = "run"
      /\ held[h] > 0
      /\ buffers' = IF h \in DOMAIN buffers /\ buffers[h].refcount = 1 THEN buffers ELSE Dropped(refs)
      /\ held' = [held EXCEPT ![h] = @ - 1]
      /\ UNCHANGED <<s_nextHandle, contexts, windows, threadVars, current, creator>>

\* Clients close only what they hold, possibly after the buffer is gone.
closeColorBuffer(t, h) ==
  LET refs == [x \in Handle |-> IF x = h THEN 1 ELSE 0]
  IN  /\ pc[t] = "run"
      /\ held[h] > 0
      /\ buffers' = Dropped(refs)
      /\ held' = [held EXCEPT ![h] = @ - 1]
      /\ UNCHANGED <<s_nextHandle, contexts, windows, threadVars, current, creator>>

\* The surfaces EGL has current in thread u.
Current(u) == {egl[u].draw, egl[u].read}

\* Fault: the new pbuffer is not bound in the thread that had the old one current.
resize_unbound(t, o) ==
  /\ egl' = [u \in Thread |-> IF o \in Current(u) THEN Unbound ELSE egl[u]]
  /\ detached' = detached \cup {x \in {o} : \E u \in Thread \ {t} : x \in Current(u)}
  /\ UNCHANGED <<surfs, cur>>

\* WindowSurface::resize: EGL's surface of o, of another size, is replaced.  Only
\* the calling thread t binds the new one.  That fails, and leaves nothing current,
\* when its other surface was replaced by another thread before.
resize(t, o) ==
  LET lost == o \in Current(t) /\ 0 \in Current(t)
      replace(x) == IF x = o THEN 0 ELSE x
  IN  /\ egl' = [u \in Thread |->
                   IF u # t THEN [egl[u] EXCEPT !.draw = replace(@), !.read = replace(@)]
                   ELSE IF lost THEN Unbound ELSE egl[t]]
      /\ detached' = detached \cup {x \in {o} : \E u \in Thread \ {t} : x \in Current(u)}
                              \cup (IF lost THEN {cur[t].draw, cur[t].read} ELSE {})
      /\ UNCHANGED <<surfs, cur>>

setColorBuffer(t, w, h) ==
  IF buffers[h].size = windows[w].size THEN UNCHANGED current
                                       ELSE resize(t, windows[w].surf)

setWindowSurfaceColorBuffer(t, w, h) ==
  /\ pc[t] = "run"
  /\ w \in DOMAIN windows
  /\ h \in DOMAIN buffers
  /\ windows' = [windows EXCEPT ![w].cb = h, ![w].size = buffers[h].size]
  /\ setColorBuffer(t, w, h)
  /\ UNCHANGED <<s_nextHandle, contexts, buffers, threadVars, ghosts>>
--------------------------------------------------------------------------------
(* Making a context current. *)

\* EGL refuses a context or a surface that is current in another thread.  It knows
\* pbuffers: a window whose pbuffer was replaced is current nowhere.
eglMakeCurrent(t, c, d, r) ==
  \A u \in Thread \ {t} : egl[u].ctx # c /\ Current(u) \cap {d, r} = {}

bindContext(t, hc, hd, hr) ==
  /\ pc[t] = "run"
  /\ hc \in DOMAIN contexts /\ hd \in DOMAIN windows /\ hr \in DOMAIN windows
  /\ LET c == contexts[hc]
         d == windows[hd].surf
         r == windows[hr].surf
     IN  /\ eglMakeCurrent(t, c, d, r)
         /\ surfs' = [surfs EXCEPT ![d].draw = c, ![r].read = c]
         /\ cur' = [cur EXCEPT ![t] = [ctx |-> c, draw |-> d, read |-> r]]
         /\ egl' = [egl EXCEPT ![t] = [ctx |-> c, draw |-> d, read |-> r]]
  /\ UNCHANGED <<s_nextHandle, tables, threadVars, detached, ghosts>>

\* bindContext(0, 0, 0) unbinds the current surfaces, if any.
Unbind(t) ==
  /\ surfs' = IF cur[t].draw = 0 THEN surfs
              ELSE [surfs EXCEPT ![cur[t].draw].draw = 0, ![cur[t].read].read = 0]
  /\ cur' = [cur EXCEPT ![t] = Unbound]
  /\ egl' = [egl EXCEPT ![t] = Unbound]
  /\ UNCHANGED <<s_nextHandle, tables, contextSet, windowSet, detached, ghosts>>

MakeNoneCurrent(t) ==
  /\ pc[t] = "run"
  /\ cur[t] # Unbound
  /\ Unbind(t)
  /\ UNCHANGED pc

\* Operations on color buffers make a context of their own current and then the
\* thread's again (unbind_locked, flushColorBuffer); EGL refuses to do so with a
\* surface that was replaced meanwhile, and the thread's context is lost.
RestoreFails(t) ==
  /\ pc[t] = "run"
  /\ egl[t].ctx # 0 /\ 0 \in Current(t)
  /\ egl' = [egl EXCEPT ![t] = Unbound]
  /\ detached' = detached \cup {cur[t].draw, cur[t].read}
  /\ UNCHANGED <<s_nextHandle, tables, threadVars, surfs, cur, ghosts>>
--------------------------------------------------------------------------------
(* The end of RenderThread::main: three steps under three locks. *)

ExitUnbind(t) ==
  /\ pc[t] = "run"
  /\ Unbind(t)
  /\ pc' = [pc EXCEPT ![t] = "unbound"]

\* Every window in m_windowSet goes, and with it one reference on the color
\* buffer that is attached to it.
drainWindowSurface(t) ==
  LET drained == windowSet[t] \cap DOMAIN windows
      attached == [h \in Handle |-> Cardinality({w \in drained : windows[w].cb = h})]
  IN  /\ pc[t] = "unbound"
      /\ buffers' = Dropped(attached)
      /\ windows' = Without(windows, windowSet[t])
      /\ windowSet' = [windowSet EXCEPT ![t] = {}]
      /\ pc' = [pc EXCEPT ![t] = "windows_drained"]
      /\ UNCHANGED <<s_nextHandle, contexts, contextSet, current, ghosts>>

drainRenderContext(t) ==
  /\ pc[t] = "windows_drained"
  /\ contexts' = Without(contexts, contextSet[t])
  /\ contextSet' = [contextSet EXCEPT ![t] = {}]
  /\ pc' = [pc EXCEPT ![t] = "ended"]
  /\ UNCHANGED <<s_nextHandle, windows, buffers, windowSet, current, ghosts>>
--------------------------------------------------------------------------------
Next ==
  \E t \in Thread :
    \/ createColorBuffer(t) \/ createRenderContext(t) \/ createWindowSurface(t)
    \/ \E h \in Handle : DestroyRenderContext(t, h) \/ DestroyWindowSurface(t, h)
    \/ \E h \in Handle : openColorBuffer(t, h) \/ closeColorBuffer(t, h)
    \/ \E w, h \in Handle : setWindowSurfaceColorBuffer(t, w, h)
    \/ \E hc, hd, hr \in Handle : bindContext(t, hc, hd, hr)
    \/ MakeNoneCurrent(t) \/ RestoreFails(t)
    \/ ExitUnbind(t) \/ drainWindowSurface(t) \/ drainRenderContext(t)

Spec == Init /\ [][Next]_vars
--------------------------------------------------------------------------------
(* Properties. *)

\* No leak when an application goes away: every window and every context in the
\* tables is in the set of a thread that is still going to drain it, whichever
\* threads destroyed or re-created it in between and however handles wrap.
Owned ==
  /\ \A h \in DOMAIN windows :
       \E t \in Thread : h \in windowSet[t] /\ pc[t] \in {"run", "unbound"}
  /\ \A h \in DOMAIN contexts : \E t \in Thread : h \in contextSet[t] /\ pc[t] # "ended"

\* The surfaces that are current in a thread are bound to the context that is
\* current in it, also when its window or its context was destroyed meanwhile:
\* flushColorBuffer draws with mDrawContext.  Not so for a surface that another
\* thread resized (WindowSurface::resize): EGL lets a third party make the new
\* pbuffer current, and bind() then overwrites the context of the first thread.
CurrentSurfacesBound ==
  \A t \in Thread : cur[t] # Unbound =>
    /\ cur[t].draw \notin detached => surfs[cur[t].draw].draw = cur[t].ctx
    /\ cur[t].read \notin detached => surfs[cur[t].read].read = cur[t].ctx

\* While a context or a window is in the tables its handle names no other one,
\* even after s_nextHandle has wrapped around.
NamesKept ==
  /\ \A h \in DOMAIN contexts \cap DOMAIN contexts' : contexts'[h] = contexts[h]
  /\ \A h \in DOMAIN windows \cap DOMAIN windows' : windows'[h].surf = windows[h].surf
  /\ DOMAIN contexts' \cap DOMAIN windows' = {}

\* Every step of every thread keeps the names (genHandle looks in both tables).
HandlesStable == [][NamesKept]_vars

\* As long as there were no more objects than handles, a thread's clean-up
\* destroys windows and contexts that this thread created and nobody else's,
\* although its sets still hold handles that other threads destroyed.
DrainsOwn ==
  [][\A t \in Thread : pc'[t] \notin {"run", pc[t]} /\ Len(creator) < HandleCount =>
       /\ \A h \in DOMAIN windows \ DOMAIN windows' : creator[windows[h].surf] = t
       /\ \A h \in DOMAIN contexts \ DOMAIN contexts' : creator[contexts[h]] = t]_vars

\* The reference count of a color buffer never exceeds the references that its
\* clients have: when they have closed it as often as they created and opened
\* it, it is gone, whatever was attached, drained or reused in between.
NoLeakedBuffer == \A h \in DOMAIN buffers : buffers[h].refcount <= held[h]

\* The tables have their shape (a buffer in the table has a positive count, since
\* closeColorBuffer erases it at 0) and the counts are covered by references.
BuffersAccounted == TypeOK /\ NoLeakedBuffer
================================================================================
