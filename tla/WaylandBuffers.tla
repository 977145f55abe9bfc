---------------------------- MODULE WaylandBuffers -----------------------------
(***************************************************************************)
(* The buffers of one WaylandWindow (fydeos/wayland_window.cc): the render *)
(* threads, one at a time under the lock of the Renderer, take a buffer,   *)
(* draw into it and commit it; the thread of WaylandPlatform::messageLoop  *)
(* gets the compositor's events and shares current_rect_, frame_ and the   *)
(* buffers' states with them without a lock.                               *)
(*                                                                         *)
(* A rectangle is known by its size.  While one thread assigns a rectangle *)
(* it is Torn: what the other one reads is any size, or a mixture of two.  *)
(***************************************************************************)
EXTENDS Naturals, FiniteSets

CONSTANTS Sizes,        \* sizes a window can have
          Torn, Mixed,  \* a rectangle while it is assigned; a size read from one
          Buffers,      \* bound: the buffers that can be made
          NoBuffer,
          MaxResizes    \* bound: bounds_changed events

ASSUME BufferAssumption == /\ Torn \notin Sizes /\ Mixed \notin Sizes /\ Torn # Mixed
                           /\ IsFiniteSet(Buffers) /\ NoBuffer \notin Buffers /\ MaxResizes \in Nat

AnySize == Sizes \cup {Mixed}
States == {"NONE", "IDLE", "DIRTY", "BUSY", "LEAKED"}
Free == [size |-> Mixed, state |-> "NONE"]

VARIABLES
  rect, frame,    \* current_rect_, and frame_ of wm::Window
  bufs,           \* size and state; a LEAKED one is allocated, but not in buffers_
  held, released, \* buffers the compositor uses; release events on their way
  pc, cur,        \* render thread, and the buffer it draws into
  made, scan,     \* size of the buffer it creates; buffers still to be looked at
  viewport,       \* size it draws with
  msg,            \* message thread
  resizes,
  crashed,
  \* History: sizes rect and frame had since the frame was submitted; the greatest
  \* number of buffers in use at once; whether rect was assigned since the last search,
  \* and the buffers made after such a search; resizes before a buffer was made.
  seen, peak, moved, strays, era

winVars == <<rect, frame>>
renderVars == <<pc, cur, made, scan, viewport>>
vars == <<rect, frame, bufs, held, released, pc, cur, made, scan, viewport,
          msg, resizes, crashed, seen, peak, moved, strays, era>>

TypeOK == /\ rect \in Sizes \cup {Torn} /\ frame \in Sizes \cup {Torn}
          /\ bufs \in [Buffers -> [size : AnySize, state : States]]
          /\ held \subseteq Buffers /\ released \subseteq Buffers /\ held \cap released = {}
          /\ pc \in {"idle", "search", "create", "erase", "draw"} /\ cur \in Buffers \cup {NoBuffer}
          /\ made \in AnySize /\ scan \subseteq Buffers /\ viewport \in AnySize
          /\ msg \in {"loop", "rect", "frame", "call"}
          /\ resizes \in 0 .. MaxResizes /\ crashed \in BOOLEAN
          /\ seen \subseteq AnySize /\ peak \in 0 .. Cardinality(Buffers)
          /\ moved \in BOOLEAN /\ strays \subseteq Buffers /\ era \in [Buffers -> 0 .. MaxResizes]

\* The window as its constructor leaves it, in the loop of both threads.
Init == /\ rect \in Sizes /\ frame = rect
        /\ bufs = [i \in Buffers |-> Free] /\ held = {} /\ released = {}
        /\ pc = "idle" /\ cur = NoBuffer /\ made = Mixed /\ scan = {} /\ viewport = Mixed
        /\ msg = "loop" /\ resizes = 0 /\ crashed = FALSE
        /\ seen = {} /\ peak = 0 /\ moved = FALSE /\ strays = {} /\ era = [i \in Buffers |-> 0]

\* What a read of a rectangle can return.
Outcomes(r) == IF r = Torn THEN AnySize ELSE {r}
Allocated == {i \in Buffers : bufs[i].state # "NONE"}
Existing == {i \in Allocated : bufs[i].state # "LEAKED"}
Busy(b) == {i \in Buffers : b[i].state = "BUSY"}
--------------------------------------------------------------------------------
(* A render thread, which holds the lock of the Renderer. *)

\* LayerComposer::submit_layers reads the frame; Renderer::draw binds the window.
Submit ==
  /\ pc = "idle" /\ ~crashed
  /\ viewport' \in Outcomes(frame)
  /\ seen' = Outcomes(rect) \cup Outcomes(frame)
  /\ pc' = "search"
  /\ UNCHANGED <<winVars, bufs, held, released, cur, made, scan, msg, resizes, crashed, peak, moved, strays, era>>

\* Fault: the wrong state is looked for.
Matching_dirty == {i \in Buffers : bufs[i].state = "DIRTY" /\ bufs[i].size \in Outcomes(rect)}

\* Idle buffers of the window's size; while it changes the search may miss them.
Matching == {i \in Buffers : bufs[i].state = "IDLE" /\ bufs[i].size \in Outcomes(rect)}

Take(i) == /\ bufs' = [bufs EXCEPT ![i].state = "BUSY"]
           /\ peak' = IF Cardinality(Busy(bufs')) > peak THEN Cardinality(Busy(bufs')) ELSE peak
           /\ cur' = i /\ pc' = "draw"

\* DequeueBuffer: take a buffer, or go on to create one.
Search ==
  /\ pc = "search" /\ ~crashed
  /\ \/ \E i \in Matching : Take(i) /\ moved' = FALSE
     \/ /\ Matching = {} \/ rect = Torn
        /\ pc' = "create" /\ moved' = (rect = Torn) /\ UNCHANGED <<bufs, cur, peak>>
  /\ UNCHANGED <<winVars, held, released, made, scan, viewport, msg, resizes, crashed, seen, strays, era>>

\* CreateBuffer, with the size the window has now.
CreateBuffer ==
  /\ pc = "create" /\ ~crashed /\ Allocated # Buffers
  /\ made' \in Outcomes(rect)
  /\ scan' = Existing /\ pc' = "erase"
  /\ UNCHANGED <<winVars, bufs, held, released, cur, viewport, msg, resizes, crashed, seen, peak, moved, strays, era>>

\* gbm_bo_create fails: the null buffer is dereferenced before it is tested.
CreateFails ==
  /\ pc = "create" /\ ~crashed
  /\ crashed' = TRUE
  /\ UNCHANGED <<winVars, bufs, held, released, renderVars, msg, resizes, seen, peak, moved, strays, era>>

\* The loop that takes out what is DIRTY by then, one buffer after the other: release
\* gives the Buffer up without deleting it, its gbm_bo and its wl_buffer.
EraseOne ==
  /\ pc = "erase" /\ ~crashed
  /\ \E i \in scan :
       /\ scan' = scan \ {i}
       /\ bufs' = IF bufs[i].state = "DIRTY" THEN [bufs EXCEPT ![i].state = "LEAKED"] ELSE bufs
  /\ UNCHANGED <<winVars, held, released, pc, cur, made, viewport, msg, resizes, crashed, seen, peak, moved, strays, era>>

\* push_back, and DequeueBuffer again.
PushBuffer ==
  /\ pc = "erase" /\ ~crashed /\ scan = {}
  /\ \E i \in Buffers \ Allocated :
       /\ bufs' = [bufs EXCEPT ![i] = [size |-> made, state |-> "IDLE"]]
       /\ era' = [era EXCEPT ![i] = resizes]
       /\ strays' = IF moved THEN strays \cup {i} ELSE strays \ {i}
  /\ made' = Mixed /\ pc' = "search"
  /\ UNCHANGED <<winVars, held, released, cur, scan, viewport, msg, resizes, crashed, seen, peak, moved>>

\* unbind: the frame is attached and committed.
unbind ==
  /\ pc = "draw" /\ ~crashed
  /\ held' = held \cup {cur}
  /\ cur' = NoBuffer /\ pc' = "idle" /\ seen' = {} /\ viewport' = Mixed
  /\ UNCHANGED <<winVars, bufs, released, made, scan, msg, resizes, crashed, peak, moved, strays, era>>
--------------------------------------------------------------------------------
(* The compositor and the message thread. *)

CompositorRelease ==
  /\ ~crashed
  /\ \E i \in held : held' = held \ {i} /\ released' = released \cup {i}
  /\ UNCHANGED <<winVars, bufs, renderVars, msg, resizes, crashed, seen, peak, moved, strays, era>>

\* Fault: a buffer of another size is left as it is.
BufferRelease_leaves_resized ==
  /\ msg = "loop" /\ ~crashed
  /\ \E i \in released :
       /\ released' = released \ {i}
       /\ bufs' = [bufs EXCEPT ![i].state = IF bufs[i].size # rect THEN @ ELSE "IDLE"]
  /\ UNCHANGED <<winVars, held, renderVars, msg, resizes, crashed, seen, peak, moved, strays, era>>

\* The listener of CreateBuffer.
BufferRelease ==
  /\ msg = "loop" /\ ~crashed
  /\ \E i \in released :
       /\ released' = released \ {i}
       /\ bufs' = [bufs EXCEPT ![i].state = IF bufs[i].size # rect THEN "DIRTY" ELSE "IDLE"]
  /\ UNCHANGED <<winVars, held, renderVars, msg, resizes, crashed, seen, peak, moved, strays, era>>

\* shell_surface_bounds_changed assigns current_rect_ ...
bounds_changed ==
  /\ msg = "loop" /\ ~crashed /\ resizes < MaxResizes
  /\ resizes' = resizes + 1
  /\ rect' = Torn /\ moved' = TRUE /\ seen' = IF pc = "idle" THEN seen ELSE AnySize
  /\ msg' = "rect"
  /\ UNCHANGED <<frame, bufs, held, released, renderVars, crashed, peak, strays, era>>

RectAssigned ==
  /\ msg = "rect" /\ ~crashed
  /\ rect' \in Sizes /\ moved' = TRUE
  /\ msg' = "frame"
  /\ UNCHANGED <<frame, bufs, held, released, renderVars, resizes, crashed, seen, peak, strays, era>>

\* ... and update_frame assigns frame_ ...
FrameTorn ==
  /\ msg = "frame" /\ frame # Torn /\ ~crashed
  /\ frame' = Torn /\ seen' = IF pc = "idle" THEN seen ELSE AnySize
  /\ UNCHANGED <<rect, bufs, held, released, renderVars, msg, resizes, crashed, peak, moved, strays, era>>

FrameAssigned ==
  /\ msg = "frame" /\ frame = Torn /\ ~crashed
  /\ frame' = rect
  /\ msg' = "call"
  /\ UNCHANGED <<rect, bufs, held, released, renderVars, resizes, crashed, seen, peak, moved, strays, era>>

\* ... before resize_task waits for the guest; shell_surface_close waits in remove_task.
close ==
  /\ msg = "loop" /\ ~crashed
  /\ msg' = "call"
  /\ UNCHANGED <<winVars, bufs, held, released, renderVars, resizes, crashed, seen, peak, moved, strays, era>>

\* The call is answered, or times out.
CallReturns ==
  /\ msg = "call" /\ ~crashed
  /\ msg' = "loop"
  /\ UNCHANGED <<winVars, bufs, held, released, renderVars, resizes, crashed, seen, peak, moved, strays, era>>
--------------------------------------------------------------------------------
Render == Submit \/ Search \/ CreateBuffer \/ CreateFails \/ EraseOne \/ PushBuffer \/ unbind
MessageLoop == BufferRelease \/ bounds_changed \/ RectAssigned \/ FrameTorn \/ FrameAssigned \/ close \/ CallReturns

Next == Render \/ MessageLoop \/ CompositorRelease

Spec == Init /\ [][Next]_vars
--------------------------------------------------------------------------------
(* Properties. *)

\* A buffer that is drawn into, shown, or about to be released is in buffers_ and is
\* BUSY: it is not taken, not dropped and not given away a second time, although its
\* state is written by two threads.
UsedBuffersBusy ==
  /\ \A i \in held \cup released : bufs[i].state = "BUSY" /\ i # cur
  /\ pc = "draw" => bufs[cur].state = "BUSY"

\* Nothing stays BUSY that neither the renderer nor the compositor uses.
BusyBuffersUsed == Busy(bufs) \subseteq held \cup released \cup {cur}

\* The state has its shape, and a buffer is BUSY exactly while it is used.
BuffersConsistent == TypeOK /\ UsedBuffersBusy /\ BusyBuffersUsed

\* A frame is drawn with sizes the window had since it was submitted; when it was not
\* resized meanwhile, both are its size.
FrameCurrent ==
  pc = "draw" /\ ~crashed => bufs[cur].size \in seen /\ viewport \in seen

\* Only a resize makes memory grow, as nothing that was made is ever freed (what is DIRTY
\* is leaked, and IDLE buffers of earlier sizes stay): between two resizes at most one
\* buffer more is made than were ever in use at once (a release may come between the
\* search and the creation), besides the ones that were made because the window's size
\* was assigned between the two.
GrowthByResize ==
  \A e \in 0 .. resizes :
    Cardinality({i \in Allocated \ strays : era[i] = e}) <= peak + 1
================================================================================
