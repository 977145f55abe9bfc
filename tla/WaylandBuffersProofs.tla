------------------------- MODULE WaylandBuffersProofs --------------------------
(***************************************************************************)
(* For any number of buffers, sizes and resizes: a buffer is BUSY exactly  *)
(* while it is used, a frame is drawn with sizes the window had, and        *)
(* memory, which is never given back, grows only by resizes.                *)
(***************************************************************************)
EXTENDS WaylandBuffers, FiniteSetTheorems, TLAPS

\* Where the threads are and what that says of the rectangle and the buffer.
Places == /\ cur # NoBuffer <=> pc = "draw"
          /\ rect = Torn <=> msg = "rect"

IInv == BuffersConsistent /\ Places

\* What the render thread can read next was the window's since the frame was
\* submitted, and so was what it has read.
Fresh == /\ pc # "idle" => Outcomes(rect) \subseteq seen /\ viewport \in seen
         /\ pc = "draw" => bufs[cur].size \in seen

\* The buffers that were made after resize e and not in a race with one.
OfEra(e) == {i \in Allocated \ strays : era[i] = e}

\* Until the next resize they have the window's size, so that a release event makes
\* them IDLE again: none of them is leaked and the search finds those not in use.
EraCurrent == /\ \A i \in Allocated : era[i] <= resizes
              /\ \A i \in OfEra(resizes) : bufs[i].size = rect /\ bufs[i].state \in {"IDLE", "BUSY"}

\* Between the search and the creation, unless the window was resized, these are
\* the ones that were in use when the search found none.
Bounded == /\ Cardinality(Busy(bufs)) <= peak
           /\ pc \in {"create", "erase"} /\ ~moved => rect # Torn /\ Cardinality(OfEra(resizes)) <= peak
           /\ pc = "erase" /\ ~moved => made = rect
           /\ EraCurrent
           /\ \A e \in Nat : Cardinality(OfEra(e)) <= peak + 1
--------------------------------------------------------------------------------
(* Buffers are BUSY exactly while they are used. *)

BufferType == [size : AnySize, state : States]

\* What an assignment to the state of one buffer does.
LEMMA StateAssigned ==
  ASSUME TypeOK, NEW i \in Buffers, NEW s \in States,
         bufs' = [bufs EXCEPT ![i].state = s]
  PROVE  /\ bufs' \in [Buffers -> BufferType]
         /\ bufs'[i].state = s
         /\ \A j \in Buffers : bufs'[j].size = bufs[j].size
         /\ \A j \in Buffers : j # i => bufs'[j] = bufs[j]
<1>1. bufs \in [Buffers -> BufferType]
  BY DEF TypeOK, BufferType
<1>2. bufs'[i] = [bufs[i] EXCEPT !.state = s] /\ \A j \in Buffers : j # i => bufs'[j] = bufs[j]
  BY <1>1
<1>3. bufs[i] \in BufferType
  BY <1>1
<1>4. bufs'[i] \in BufferType /\ bufs'[i].state = s /\ bufs'[i].size = bufs[i].size
  BY <1>2, <1>3 DEF BufferType
<1>5. bufs' \in [Buffers -> BufferType]
  BY <1>1, <1>2, <1>4
<1> QED
  BY <1>2, <1>4, <1>5

\* The number of BUSY buffers is a number.
LEMMA BusyCount ==
  ASSUME NEW b
  PROVE  /\ IsFiniteSet(Busy(b))
         /\ Cardinality(Busy(b)) \in 0 .. Cardinality(Buffers)
<1>1. Busy(b) \subseteq Buffers
  BY DEF Busy
<1>2. IsFiniteSet(Busy(b)) /\ Cardinality(Busy(b)) <= Cardinality(Buffers)
  BY <1>1, BufferAssumption, FS_Subset
<1>3. Cardinality(Buffers) \in Nat /\ Cardinality(Busy(b)) \in Nat
  BY <1>2, BufferAssumption, FS_CardinalityType
<1> QED
  BY <1>2, <1>3

LEMMA InitIInv == Init => IInv
<1> SUFFICES ASSUME Init PROVE IInv
    OBVIOUS
<1>1. bufs \in [Buffers -> BufferType] /\ Busy(bufs) = {}
  BY DEF Init, Free, BufferType, States, AnySize, Busy
<1>2. Cardinality(Buffers) \in Nat
  BY BufferAssumption, FS_CardinalityType
<1>3. TypeOK
  <2>1. peak \in 0 .. Cardinality(Buffers) /\ resizes \in 0 .. MaxResizes
    BY <1>2, BufferAssumption DEF Init
  <2>2. era \in [Buffers -> 0 .. MaxResizes]
    BY BufferAssumption DEF Init
  <2> QED
    BY <1>1, <2>1, <2>2 DEF Init, TypeOK, BufferType, AnySize
<1> QED
  BY <1>1, <1>3, BufferAssumption DEF Init, IInv, BuffersConsistent, UsedBuffersBusy, BusyBuffersUsed, Places

LEMMA TakeIInv ==
  ASSUME IInv, NEW i \in Matching, Take(i), pc = "search",
         moved' = FALSE,
         UNCHANGED <<winVars, held, released, made, scan, viewport, msg, resizes, crashed, seen, strays, era>>
  PROVE  IInv'
<1>1. TypeOK /\ i \in Buffers /\ bufs[i].state = "IDLE" /\ cur = NoBuffer
  BY DEF IInv, BuffersConsistent, Matching, Places
<1>2. /\ bufs' \in [Buffers -> BufferType]
      /\ bufs'[i].state = "BUSY"
      /\ \A j \in Buffers : j # i => bufs'[j] = bufs[j]
  <2>1. "BUSY" \in States
    BY DEF States
  <2> QED
    BY <1>1, <2>1, StateAssigned DEF Take
<1>3. peak' \in 0 .. Cardinality(Buffers)
  <2>1. Cardinality(Busy(bufs')) \in 0 .. Cardinality(Buffers)
    BY BusyCount
  <2>2. peak \in 0 .. Cardinality(Buffers)
    BY <1>1 DEF TypeOK
  <2>3. peak' = IF Cardinality(Busy(bufs')) > peak THEN Cardinality(Busy(bufs')) ELSE peak
    BY DEF Take
  <2> QED
    BY <2>1, <2>2, <2>3
<1>4. TypeOK'
  BY <1>1, <1>2, <1>3 DEF TypeOK, Take, winVars, BufferType
<1>5. i \notin held \cup released
  BY <1>1 DEF IInv, BuffersConsistent, UsedBuffersBusy
<1>6. UsedBuffersBusy'
  BY <1>1, <1>2, <1>5 DEF IInv, BuffersConsistent, UsedBuffersBusy, Take, TypeOK
<1>7. BusyBuffersUsed'
  BY <1>1, <1>2, BufferAssumption DEF IInv, BuffersConsistent, BusyBuffersUsed, Busy, Take
<1>8. Places'
  BY <1>1, BufferAssumption DEF IInv, Places, Take, winVars
<1> QED
  BY <1>4, <1>6, <1>7, <1>8 DEF IInv, BuffersConsistent

LEMMA EraseIInv ==
  ASSUME IInv, EraseOne
  PROVE  IInv'
<1>1. TypeOK /\ cur = NoBuffer /\ pc = "erase"
  BY DEF IInv, BuffersConsistent, Places, EraseOne
<1>2. PICK i \in scan :
        /\ scan' = scan \ {i}
        /\ bufs' = IF bufs[i].state = "DIRTY" THEN [bufs EXCEPT ![i].state = "LEAKED"] ELSE bufs
  BY DEF EraseOne
<1>3. /\ bufs' \in [Buffers -> BufferType]
      /\ \A j \in Buffers : bufs'[j].state = "BUSY" <=> bufs[j].state = "BUSY"
  <2>1. CASE bufs[i].state = "DIRTY"
    <3>1. "LEAKED" \in States /\ i \in Buffers
      BY <1>1 DEF States, TypeOK
    <3> QED
      BY <1>1, <1>2, <2>1, <3>1, StateAssigned
  <2>2. CASE bufs[i].state # "DIRTY"
    BY <1>1, <1>2, <2>2 DEF TypeOK, BufferType
  <2> QED
    BY <2>1, <2>2
<1>4. TypeOK'
  BY <1>1, <1>2, <1>3 DEF TypeOK, EraseOne, winVars, BufferType
<1>5. UsedBuffersBusy' /\ BusyBuffersUsed'
  BY <1>1, <1>3 DEF EraseOne, IInv, BuffersConsistent, UsedBuffersBusy, BusyBuffersUsed, Busy, TypeOK
<1> QED
  BY <1>1, <1>4, <1>5 DEF EraseOne, IInv, BuffersConsistent, Places, winVars

LEMMA PushIInv ==
  ASSUME IInv, PushBuffer
  PROVE  IInv'
<1>1. TypeOK /\ cur = NoBuffer /\ pc = "erase"
  BY DEF IInv, BuffersConsistent, Places, PushBuffer
<1>2. PICK i \in Buffers \ Allocated :
        /\ bufs' = [bufs EXCEPT ![i] = [size |-> made, state |-> "IDLE"]]
        /\ era' = [era EXCEPT ![i] = resizes]
        /\ strays' = IF moved THEN strays \cup {i} ELSE strays \ {i}
  BY DEF PushBuffer
<1>3. /\ bufs' \in [Buffers -> BufferType]
      /\ \A j \in Buffers : bufs'[j].state = "BUSY" <=> bufs[j].state = "BUSY"
  BY <1>1, <1>2 DEF TypeOK, Allocated, States, BufferType, AnySize
<1>4. TypeOK'
  BY <1>1, <1>2, <1>3 DEF TypeOK, PushBuffer, winVars, BufferType, AnySize
<1>5. UsedBuffersBusy' /\ BusyBuffersUsed'
  BY <1>1, <1>3 DEF PushBuffer, IInv, BuffersConsistent, UsedBuffersBusy, BusyBuffersUsed, Busy, TypeOK
<1> QED
  BY <1>1, <1>4, <1>5 DEF PushBuffer, IInv, BuffersConsistent, Places, winVars

LEMMA ReleaseIInv ==
  ASSUME IInv, BufferRelease
  PROVE  IInv'
<1>1. TypeOK
  BY DEF IInv, BuffersConsistent
<1>2. PICK i \in released :
        /\ released' = released \ {i}
        /\ bufs' = [bufs EXCEPT ![i].state = IF bufs[i].size # rect THEN "DIRTY" ELSE "IDLE"]
  BY DEF BufferRelease
<1>3. i \in Buffers /\ i \notin held /\ i # cur
  BY <1>1, <1>2 DEF TypeOK, IInv, BuffersConsistent, UsedBuffersBusy
<1>4. /\ bufs' \in [Buffers -> BufferType]
      /\ bufs'[i].state # "BUSY"
      /\ \A j \in Buffers : j # i => bufs'[j] = bufs[j]
  <2> DEFINE s == IF bufs[i].size # rect THEN "DIRTY" ELSE "IDLE"
  <2>1. s \in States /\ s # "BUSY" /\ bufs' = [bufs EXCEPT ![i].state = s]
    BY <1>2 DEF States
  <2> HIDE DEF s
  <2> QED
    BY <1>1, <1>3, <2>1, StateAssigned
<1>5. TypeOK'
  BY <1>1, <1>2, <1>4 DEF TypeOK, BufferRelease, winVars, renderVars, BufferType
<1>6. UsedBuffersBusy' /\ BusyBuffersUsed'
  BY <1>1, <1>2, <1>3, <1>4, BufferAssumption
     DEF BufferRelease, IInv, BuffersConsistent, UsedBuffersBusy, BusyBuffersUsed, Busy, TypeOK,
         renderVars, Places
<1> QED
  BY <1>5, <1>6 DEF BufferRelease, IInv, BuffersConsistent, Places, winVars, renderVars

\* The steps that leave the buffers alone.
LEMMA OtherIInv ==
  ASSUME IInv,
         \/ Submit \/ (Search /\ pc' = "create") \/ CreateBuffer \/ CreateFails \/ unbind
         \/ bounds_changed \/ RectAssigned \/ FrameTorn \/ FrameAssigned \/ close \/ CallReturns
         \/ CompositorRelease \/ UNCHANGED vars
  PROVE  IInv'
<1> USE DEF IInv, BuffersConsistent
<1>0. Outcomes(rect) \subseteq AnySize /\ Outcomes(frame) \subseteq AnySize
  BY DEF TypeOK, Outcomes, AnySize
<1>1. CASE Submit
  BY <1>0, <1>1 DEF Submit, TypeOK, UsedBuffersBusy, BusyBuffersUsed, Places, winVars
<1>2. CASE Search /\ pc' = "create"
  <2>1. UNCHANGED <<bufs, cur, peak, winVars, held, released, made, scan, viewport, msg, resizes,
                    crashed, seen, strays, era>>
        /\ moved' \in BOOLEAN /\ pc = "search"
    BY <1>2 DEF Search, Take
  <2> QED
    BY <1>2, <2>1 DEF TypeOK, UsedBuffersBusy, BusyBuffersUsed, Places, winVars
<1>3. CASE CreateBuffer
  BY <1>0, <1>3 DEF CreateBuffer, TypeOK, UsedBuffersBusy, BusyBuffersUsed, Places, winVars, Existing, Allocated
<1>4. CASE CreateFails
  BY <1>4 DEF CreateFails, TypeOK, UsedBuffersBusy, BusyBuffersUsed, Places, winVars, renderVars
<1>5. CASE unbind
  <2>1. cur \in Buffers /\ cur \notin released /\ bufs[cur].state = "BUSY"
    BY <1>5 DEF unbind, Places, TypeOK, UsedBuffersBusy
  <2>2. TypeOK'
    BY <1>5, <2>1 DEF unbind, TypeOK, winVars, AnySize
  <2> QED
    BY <1>5, <2>1, <2>2, BufferAssumption
       DEF unbind, TypeOK, UsedBuffersBusy, BusyBuffersUsed, Places, winVars
<1>6. CASE CompositorRelease
  BY <1>6 DEF CompositorRelease, TypeOK, UsedBuffersBusy, BusyBuffersUsed, Places, winVars, renderVars
<1>7. CASE bounds_changed
  BY <1>7, BufferAssumption
     DEF bounds_changed, TypeOK, UsedBuffersBusy, BusyBuffersUsed, Places, renderVars
<1>8. CASE RectAssigned
  BY <1>8, BufferAssumption
     DEF RectAssigned, TypeOK, UsedBuffersBusy, BusyBuffersUsed, Places, renderVars
<1>9. CASE FrameTorn
  BY <1>9 DEF FrameTorn, TypeOK, UsedBuffersBusy, BusyBuffersUsed, Places, renderVars
<1>10. CASE FrameAssigned
  BY <1>10 DEF FrameAssigned, TypeOK, UsedBuffersBusy, BusyBuffersUsed, Places, renderVars
<1>11. CASE close \/ CallReturns
  BY <1>11 DEF close, CallReturns, TypeOK, UsedBuffersBusy, BusyBuffersUsed, Places, winVars, renderVars
<1>12. CASE UNCHANGED vars
  BY <1>12 DEF vars, TypeOK, UsedBuffersBusy, BusyBuffersUsed, Places
<1> HIDE DEF IInv
<1> QED
  BY <1>1, <1>2, <1>3, <1>4, <1>5, <1>6, <1>7, <1>8, <1>9, <1>10, <1>11, <1>12

LEMMA StepIInv == IInv /\ [Next]_vars => IInv'
<1> SUFFICES ASSUME IInv, [Next]_vars PROVE IInv'
    OBVIOUS
<1>1. CASE Search
  <2>1. CASE pc' = "create"
    BY <1>1, <2>1, OtherIInv
  <2>2. CASE pc' # "create"
    <3>1. PICK i \in Matching : Take(i) /\ moved' = FALSE
      BY <1>1, <2>2 DEF Search
    <3> QED
      BY <1>1, <3>1, TakeIInv DEF Search
  <2> QED
    BY <2>1, <2>2
<1> QED
  BY <1>1, EraseIInv, PushIInv, ReleaseIInv, OtherIInv DEF Next, Render, MessageLoop

\* A buffer is BUSY exactly while the renderer or the compositor uses it, for any
\* number of buffers, sizes and resizes, although two threads write the states
\* without a lock (wayland_window.cc DequeueBuffer and the release listener).
THEOREM BuffersAlwaysConsistent == Spec => []BuffersConsistent
<1>1. IInv => BuffersConsistent
  BY DEF IInv
<1> QED
  BY InitIInv, StepIInv, <1>1, PTL DEF Spec
--------------------------------------------------------------------------------
(* The sizes a frame is drawn with. *)

LEMMA StepFresh == IInv /\ Fresh /\ [Next]_vars => Fresh'
<1> SUFFICES ASSUME IInv, Fresh, [Next]_vars PROVE Fresh'
    OBVIOUS
<1>1. TypeOK /\ Places /\ Outcomes(rect) \subseteq AnySize
  BY DEF IInv, BuffersConsistent, TypeOK, Outcomes, AnySize
<1>2. CASE Submit
  BY <1>2 DEF Submit, Fresh, winVars, Outcomes
<1>3. CASE Search
  <2>1. CASE \E i \in Matching : Take(i)
    <3>1. PICK i \in Matching : Take(i)
      BY <2>1
    <3>2. i \in Buffers /\ bufs[i].size \in seen /\ viewport \in seen
      BY <1>3, <3>1 DEF Search, Matching, Fresh
    <3>3. bufs'[i].size = bufs[i].size
      BY <1>1, <3>1, <3>2, StateAssigned DEF Take
    <3> QED
      BY <1>3, <3>1, <3>2, <3>3 DEF Search, Take, Fresh, winVars, Outcomes
  <2>2. CASE pc' = "create"
    BY <1>3, <2>2 DEF Search, Fresh, winVars, Outcomes
  <2> QED
    BY <1>3, <2>1, <2>2 DEF Search
<1>4. CASE CreateBuffer \/ EraseOne \/ PushBuffer
  <2>1. pc \in {"create", "erase"} /\ pc' \in {"erase", "search"} /\ UNCHANGED <<rect, viewport, seen>>
    BY <1>4 DEF CreateBuffer, EraseOne, PushBuffer, winVars
  <2> QED
    BY <2>1 DEF Fresh, Outcomes
<1>5. CASE unbind
  BY <1>5 DEF unbind, Fresh
<1>6. CASE BufferRelease
  <2>1. PICK i \in released :
          bufs' = [bufs EXCEPT ![i].state = IF bufs[i].size # rect THEN "DIRTY" ELSE "IDLE"]
    BY <1>6 DEF BufferRelease
  <2>2. i \in Buffers
    BY <1>1 DEF TypeOK
  <2>3. \A j \in Buffers : bufs'[j].size = bufs[j].size
    BY <1>1, <2>1, <2>2, StateAssigned
  <2>4. cur \in Buffers \/ pc # "draw"
    BY <1>1 DEF TypeOK, Places
  <2> QED
    BY <1>6, <2>3, <2>4 DEF BufferRelease, Fresh, winVars, renderVars, Outcomes
<1>7. CASE bounds_changed \/ FrameTorn
  <2>1. /\ UNCHANGED <<bufs, renderVars>>
        /\ rect' \in {rect, Torn}
        /\ seen' = IF pc = "idle" THEN seen ELSE AnySize
    BY <1>7 DEF bounds_changed, FrameTorn
  <2>2. Outcomes(rect)' \subseteq AnySize
    BY <1>1, <2>1 DEF Outcomes
  <2>3. viewport \in AnySize /\ (cur \in Buffers => bufs[cur].size \in AnySize)
    BY <1>1 DEF TypeOK
  <2>4. cur \in Buffers \/ pc # "draw"
    BY <1>1 DEF TypeOK, Places
  <2> QED
    BY <2>1, <2>2, <2>3, <2>4 DEF Fresh, renderVars
<1>8. CASE RectAssigned
  <2>1. rect = Torn /\ rect' \in Sizes /\ UNCHANGED <<bufs, renderVars, seen>>
    BY <1>1, <1>8 DEF RectAssigned, Places
  <2>2. Outcomes(rect)' \subseteq Outcomes(rect)
    BY <2>1, BufferAssumption DEF Outcomes, AnySize
  <2> QED
    BY <2>1, <2>2 DEF Fresh, renderVars
<1>9. CASE \/ CreateFails \/ FrameAssigned \/ close \/ CallReturns
           \/ CompositorRelease \/ UNCHANGED vars
  <2>1. UNCHANGED <<rect, bufs, pc, cur, viewport, seen>>
    BY <1>9 DEF CreateFails, FrameAssigned, close, CallReturns, CompositorRelease, vars,
                winVars, renderVars
  <2> QED
    BY <2>1 DEF Fresh, Outcomes
<1> QED
  BY <1>2, <1>3, <1>4, <1>5, <1>6, <1>7, <1>8, <1>9 DEF Next, Render, MessageLoop

\* A frame is drawn with sizes that the window had since the frame was submitted,
\* wherever bounds_changed interrupts the render thread and whatever is read while
\* current_rect_ is assigned.
THEOREM FrameAlwaysCurrent == Spec => []FrameCurrent
<1>1. Init => Fresh
  BY DEF Init, Fresh
<1>2. IInv /\ Fresh => FrameCurrent
  BY DEF Fresh, FrameCurrent
<1> QED
  BY InitIInv, StepIInv, StepFresh, <1>1, <1>2, PTL DEF Spec
--------------------------------------------------------------------------------
(* Memory grows only by resizes. *)

\* A set of buffers that only shrinks, or grows by one, and its size.
LEMMA Shrinks ==
  ASSUME NEW A \in SUBSET Buffers, NEW B \in SUBSET A
  PROVE  /\ Cardinality(A) \in Nat /\ Cardinality(B) \in Nat
         /\ Cardinality(B) <= Cardinality(A)
<1>1. IsFiniteSet(A) /\ IsFiniteSet(B)
  BY BufferAssumption, FS_Subset
<1> QED
  BY <1>1, FS_Subset, FS_CardinalityType

LEMMA GrowsByOne ==
  ASSUME NEW A \in SUBSET Buffers, NEW B \in SUBSET Buffers, NEW x, B \subseteq A \cup {x}
  PROVE  Cardinality(B) <= Cardinality(A) + 1
<1>1. IsFiniteSet(A)
  BY BufferAssumption, FS_Subset
<1>2. IsFiniteSet(A \cup {x}) /\ Cardinality(A \cup {x}) <= Cardinality(A) + 1
  <2>1. Cardinality(A) \in Nat
    BY <1>1, FS_CardinalityType
  <2>2. /\ IsFiniteSet(A \cup {x})
        /\ Cardinality(A \cup {x}) = IF x \in A THEN Cardinality(A) ELSE Cardinality(A) + 1
    BY <1>1, FS_AddElement
  <2> QED
    BY <2>1, <2>2
<1>3. Cardinality(B) <= Cardinality(A \cup {x})
  BY <1>2, FS_Subset
<1>4. Cardinality(A) \in Nat /\ Cardinality(B) \in Nat /\ Cardinality(A \cup {x}) \in Nat
  BY <1>1, <1>2, BufferAssumption, FS_Subset, FS_CardinalityType
<1> QED
  BY <1>2, <1>3, <1>4

\* The numbers in Bounded.
LEMMA Numbers ==
  ASSUME IInv, Bounded
  PROVE  /\ TypeOK /\ peak \in Nat /\ resizes \in Nat
         /\ Busy(bufs) \in SUBSET Buffers /\ Cardinality(Busy(bufs)) <= peak
         /\ \A e \in Nat : OfEra(e) \in SUBSET Buffers /\ Cardinality(OfEra(e)) <= peak + 1
<1>1. Cardinality(Buffers) \in Nat /\ MaxResizes \in Nat
  BY BufferAssumption, FS_CardinalityType
<1>2. TypeOK /\ peak \in Nat /\ resizes \in Nat
  BY <1>1 DEF IInv, BuffersConsistent, TypeOK
<1>3. Busy(bufs) \in SUBSET Buffers /\ \A e \in Nat : OfEra(e) \in SUBSET Buffers
  BY DEF Busy, OfEra, Allocated
<1> QED
  BY <1>2, <1>3 DEF Bounded

\* Steps that make no buffer and take none.
LEMMA NoMore ==
  ASSUME IInv, Bounded, peak' = peak, \A e \in Nat : OfEra(e)' \subseteq OfEra(e),
         Busy(bufs)' \subseteq Busy(bufs), EraCurrent',
         pc' \in {"create", "erase"} /\ ~moved' =>
           pc \in {"create", "erase"} /\ ~moved /\ rect' = rect /\ resizes' = resizes,
         pc' = "erase" /\ ~moved' => made' = rect'
  PROVE  Bounded'
<1>1. Cardinality(Busy(bufs)') <= peak
  <2>1. /\ Cardinality(Busy(bufs)) \in Nat /\ Cardinality(Busy(bufs)') \in Nat
        /\ Cardinality(Busy(bufs)') <= Cardinality(Busy(bufs))
    BY Numbers, Shrinks
  <2> QED
    BY <2>1, Numbers
<1>2. ASSUME pc' \in {"create", "erase"}, ~moved' PROVE rect' # Torn /\ Cardinality(OfEra(resizes)') <= peak
  <2>1. Cardinality(OfEra(resizes)) <= peak /\ rect' # Torn /\ resizes' = resizes
    BY <1>2 DEF Bounded
  <2>2. OfEra(resizes)' \subseteq OfEra(resizes)
    BY <2>1, Numbers DEF OfEra
  <2>3. /\ Cardinality(OfEra(resizes)) \in Nat /\ Cardinality(OfEra(resizes)') \in Nat
        /\ Cardinality(OfEra(resizes)') <= Cardinality(OfEra(resizes))
    BY <2>2, Numbers, Shrinks
  <2> QED
    BY <2>1, <2>3, Numbers
<1>3. ASSUME NEW e \in Nat PROVE Cardinality(OfEra(e)') <= peak + 1
  <2>1. /\ Cardinality(OfEra(e)) \in Nat /\ Cardinality(OfEra(e)') \in Nat
        /\ Cardinality(OfEra(e)') <= Cardinality(OfEra(e))
    BY Numbers, Shrinks
  <2> QED
    BY <2>1, Numbers
<1> QED
  BY <1>1, <1>2, <1>3 DEF Bounded

LEMMA SearchBounded ==
  ASSUME IInv, Bounded, Search
  PROVE  Bounded'
<1>1. UNCHANGED <<rect, resizes, strays, era>>
  BY DEF Search, winVars
<1>2. ASSUME NEW i \in Matching, Take(i) PROVE Bounded'
  <2>1. i \in Buffers /\ bufs[i].state = "IDLE" /\ "BUSY" \in States
    BY DEF Matching, States
  <2>2. /\ bufs'[i].state = "BUSY"
        /\ \A j \in Buffers : bufs'[j].size = bufs[j].size
        /\ \A j \in Buffers : j # i => bufs'[j] = bufs[j]
    BY <1>2, <2>1, StateAssigned, Numbers DEF Take
  <2>3. Allocated' = Allocated
    BY <2>1, <2>2 DEF Allocated
  <2>4. \A e \in Nat : OfEra(e)' = OfEra(e)
    BY <1>1, <2>3 DEF OfEra
  <2>5. EraCurrent'
    BY <1>1, <2>2, <2>3 DEF Bounded, EraCurrent, OfEra, Allocated
  <2>6. /\ peak' = IF Cardinality(Busy(bufs')) > peak THEN Cardinality(Busy(bufs')) ELSE peak
        /\ Cardinality(Busy(bufs')) \in Nat
    BY <1>2, BusyCount, BufferAssumption, FS_CardinalityType DEF Take
  <2>7. peak' \in Nat /\ peak <= peak' /\ Cardinality(Busy(bufs')) <= peak'
    BY <2>6, Numbers
  <2>8. ASSUME NEW e \in Nat PROVE Cardinality(OfEra(e)') <= peak' + 1
    <3>1. Cardinality(OfEra(e)) \in Nat
      BY Numbers, Shrinks
    <3> QED
      BY <2>4, <2>7, <3>1, Numbers
  <2>9. pc' = "draw" /\ Busy(bufs)' = Busy(bufs')
    BY <1>2 DEF Take, Busy
  <2> QED
    BY <2>5, <2>7, <2>8, <2>9 DEF Bounded
<1>3. ASSUME Matching = {} \/ rect = Torn, pc' = "create", moved' = (rect = Torn),
             UNCHANGED <<bufs, cur, peak>>
      PROVE  Bounded'
  <2>1. Busy(bufs)' = Busy(bufs) /\ \A e : OfEra(e)' = OfEra(e)
    BY <1>1, <1>3 DEF Busy, OfEra, Allocated
  <2>2. EraCurrent'
    BY <1>1, <1>3, <2>1 DEF Bounded, EraCurrent, OfEra, Allocated
  <2>3. ASSUME ~moved' PROVE rect' # Torn /\ Cardinality(OfEra(resizes)') <= peak
    <3>1. rect # Torn /\ Matching = {}
      BY <1>3, <2>3
    <3>2. OfEra(resizes) \subseteq Busy(bufs)
      BY <3>1, Numbers DEF Bounded, EraCurrent, OfEra, Allocated, Busy, Matching, Outcomes
    <3>3. /\ Cardinality(OfEra(resizes)) <= Cardinality(Busy(bufs))
          /\ Cardinality(OfEra(resizes)) \in Nat /\ Cardinality(Busy(bufs)) \in Nat
      BY <3>2, Numbers, Shrinks
    <3>4. OfEra(resizes)' = OfEra(resizes)
      BY <1>1, <1>3 DEF OfEra, Allocated
    <3> QED
      BY <1>1, <3>1, <3>3, <3>4, Numbers
  <2> QED
    BY <1>3, <2>1, <2>2, <2>3, Numbers DEF Bounded
<1> QED
  BY <1>2, <1>3 DEF Search

LEMMA EraseBounded ==
  ASSUME IInv, Bounded, EraseOne
  PROVE  Bounded'
<1>1. PICK i \in scan :
        bufs' = IF bufs[i].state = "DIRTY" THEN [bufs EXCEPT ![i].state = "LEAKED"] ELSE bufs
  BY DEF EraseOne
<1>2. i \in Buffers /\ "LEAKED" \in States
  BY Numbers DEF TypeOK, States
<1>3. /\ \A j \in Buffers : j # i => bufs'[j] = bufs[j]
      /\ bufs'[i].size = bufs[i].size
      /\ bufs'[i].state = IF bufs[i].state = "DIRTY" THEN "LEAKED" ELSE bufs[i].state
  BY <1>1, <1>2, StateAssigned, Numbers
<1>4. pc = "erase" /\ UNCHANGED <<rect, resizes, pc, made, peak, moved, strays, era>>
  BY DEF EraseOne, winVars
<1>5. Allocated' = Allocated
  BY <1>2, <1>3 DEF Allocated
<1>6. \A e : OfEra(e)' = OfEra(e)
  BY <1>4, <1>5 DEF OfEra
<1>7. Busy(bufs)' \subseteq Busy(bufs)
  BY <1>3 DEF Busy
<1>8. EraCurrent'
  <2>1. \A j \in OfEra(resizes) : bufs'[j].size = rect /\ bufs'[j].state \in {"IDLE", "BUSY"}
    <3> SUFFICES ASSUME NEW j \in OfEra(resizes)
                 PROVE  bufs'[j].size = rect /\ bufs'[j].state \in {"IDLE", "BUSY"}
      OBVIOUS
    <3>1. j \in Buffers /\ bufs[j].size = rect /\ bufs[j].state \in {"IDLE", "BUSY"}
      BY DEF Bounded, EraCurrent, OfEra, Allocated
    <3> QED
      BY <1>3, <3>1
  <2>2. OfEra(resizes)' = OfEra(resizes)
    BY <1>4, <1>5 DEF OfEra
  <2> QED
    BY <1>4, <1>5, <2>1, <2>2 DEF Bounded, EraCurrent
<1> QED
  BY <1>4, <1>6, <1>7, <1>8, NoMore DEF Bounded

LEMMA PushBounded ==
  ASSUME IInv, Bounded, PushBuffer
  PROVE  Bounded'
<1>1. PICK i \in Buffers \ Allocated :
        /\ bufs' = [bufs EXCEPT ![i] = [size |-> made, state |-> "IDLE"]]
        /\ era' = [era EXCEPT ![i] = resizes]
        /\ strays' = IF moved THEN strays \cup {i} ELSE strays \ {i}
  BY DEF PushBuffer
<1>2. pc = "erase" /\ pc' = "search" /\ UNCHANGED <<rect, resizes, peak>>
  BY DEF PushBuffer, winVars
<1>3. /\ \A j \in Buffers : j # i => bufs'[j] = bufs[j] /\ era'[j] = era[j] /\ (j \in strays' <=> j \in strays)
      /\ bufs'[i].state = "IDLE" /\ bufs'[i].size = made /\ bufs[i].state = "NONE" /\ era'[i] = resizes
  BY <1>1, Numbers DEF TypeOK, Allocated
<1>4. Allocated' = Allocated \cup {i}
  BY <1>3 DEF Allocated
<1>5. Cardinality(Busy(bufs)') <= peak
  <2>1. Busy(bufs)' \subseteq Busy(bufs)
    BY <1>3 DEF Busy
  <2>2. /\ Cardinality(Busy(bufs)) \in Nat /\ Cardinality(Busy(bufs)') \in Nat
        /\ Cardinality(Busy(bufs)') <= Cardinality(Busy(bufs))
    BY <2>1, Numbers, Shrinks
  <2> QED
    BY <2>2, Numbers
<1>6. /\ \A e : OfEra(e)' \subseteq OfEra(e) \cup {i}
      /\ \A e : i \in OfEra(e)' => e = resizes /\ ~moved
  BY <1>1, <1>3, <1>4 DEF OfEra, Allocated
<1>7. ASSUME NEW e \in Nat PROVE Cardinality(OfEra(e)') <= peak + 1
  <2>1. OfEra(e) \in SUBSET Buffers /\ OfEra(e)' \in SUBSET Buffers
    BY DEF OfEra, Allocated
  <2>2. Cardinality(OfEra(e)) \in Nat /\ Cardinality(OfEra(e)') \in Nat
    BY <2>1, Shrinks
  <2>3. CASE i \notin OfEra(e)'
    <3>1. OfEra(e)' \subseteq OfEra(e)
      BY <1>6, <2>3
    <3>2. Cardinality(OfEra(e)') <= Cardinality(OfEra(e))
      BY <2>1, <3>1, Shrinks
    <3> QED
      BY <2>2, <3>2, Numbers
  <2>4. CASE i \in OfEra(e)'
    <3>1. Cardinality(OfEra(e)) <= peak
      BY <1>2, <1>6, <2>4 DEF Bounded
    <3>2. Cardinality(OfEra(e)') <= Cardinality(OfEra(e)) + 1
      BY <1>6, <2>1, GrowsByOne
    <3> QED
      BY <2>2, <3>1, <3>2, Numbers
  <2> QED
    BY <2>3, <2>4
<1>8. EraCurrent'
  <2>1. \A j \in Allocated' : era'[j] <= resizes'
    BY <1>2, <1>3, <1>4, Numbers DEF Bounded, EraCurrent, Allocated
  <2>2. ASSUME NEW j \in OfEra(resizes)' PROVE bufs'[j].size = rect' /\ bufs'[j].state \in {"IDLE", "BUSY"}
    <3>1. CASE j = i
      <4>1. ~moved
        BY <1>1, <3>1 DEF OfEra
      <4>2. made = rect
        BY <1>2, <4>1 DEF Bounded
      <4> QED
        BY <1>2, <1>3, <3>1, <4>2
    <3>2. CASE j # i
      <4>1. j \in OfEra(resizes) /\ bufs'[j] = bufs[j]
        BY <1>2, <1>3, <3>2 DEF OfEra, Allocated
      <4> QED
        BY <1>2, <4>1 DEF Bounded, EraCurrent
    <3> QED
      BY <3>1, <3>2
  <2> QED
    BY <2>1, <2>2 DEF EraCurrent
<1> QED
  BY <1>2, <1>5, <1>7, <1>8 DEF Bounded

LEMMA ReleaseBounded ==
  ASSUME IInv, Bounded, BufferRelease
  PROVE  Bounded'
<1>1. PICK i \in released :
        bufs' = [bufs EXCEPT ![i].state = IF bufs[i].size # rect THEN "DIRTY" ELSE "IDLE"]
  BY DEF BufferRelease
<1>2. i \in Buffers /\ bufs[i].state = "BUSY"
  BY Numbers DEF TypeOK, IInv, BuffersConsistent, UsedBuffersBusy
<1>3. /\ bufs'[i].state = IF bufs[i].size # rect THEN "DIRTY" ELSE "IDLE"
      /\ \A j \in Buffers : bufs'[j].size = bufs[j].size
      /\ \A j \in Buffers : j # i => bufs'[j] = bufs[j]
  <2> DEFINE s == IF bufs[i].size # rect THEN "DIRTY" ELSE "IDLE"
  <2>1. s \in States /\ bufs' = [bufs EXCEPT ![i].state = s]
    BY <1>1 DEF States
  <2> HIDE DEF s
  <2>2. /\ bufs'[i].state = s
        /\ \A j \in Buffers : bufs'[j].size = bufs[j].size
        /\ \A j \in Buffers : j # i => bufs'[j] = bufs[j]
    BY <1>2, <2>1, StateAssigned, Numbers
  <2> QED
    BY <2>2 DEF s
<1>4. UNCHANGED <<rect, resizes, pc, made, scan, peak, moved, strays, era>>
  BY DEF BufferRelease, winVars, renderVars
<1>5. Allocated' = Allocated
  BY <1>2, <1>3 DEF Allocated
<1>6. \A e : OfEra(e)' = OfEra(e)
  BY <1>4, <1>5 DEF OfEra
<1>7. Busy(bufs)' \subseteq Busy(bufs)
  BY <1>2, <1>3 DEF Busy
<1>8. EraCurrent'
  <2>1. ASSUME NEW j \in OfEra(resizes) PROVE bufs'[j].size = rect /\ bufs'[j].state \in {"IDLE", "BUSY"}
    <3>1. j \in Buffers /\ bufs[j].size = rect /\ bufs[j].state \in {"IDLE", "BUSY"}
      BY DEF Bounded, EraCurrent, OfEra, Allocated
    <3> QED
      BY <1>3, <3>1
  <2>2. OfEra(resizes)' = OfEra(resizes)
    BY <1>4, <1>5 DEF OfEra
  <2> QED
    BY <1>4, <1>5, <2>1, <2>2 DEF Bounded, EraCurrent
<1> QED
  BY <1>4, <1>6, <1>7, <1>8, NoMore DEF Bounded

LEMMA CreateBounded ==
  ASSUME IInv, Bounded, CreateBuffer
  PROVE  Bounded'
<1>1. /\ pc = "create" /\ pc' = "erase" /\ made' \in Outcomes(rect)
      /\ UNCHANGED <<rect, resizes, bufs, peak, moved, strays, era>>
  BY DEF CreateBuffer, winVars
<1>2. Busy(bufs)' = Busy(bufs) /\ \A e : OfEra(e)' = OfEra(e)
  BY <1>1 DEF Busy, OfEra, Allocated
<1>3. EraCurrent'
  BY <1>1 DEF Bounded, EraCurrent, OfEra, Allocated
<1>4. ~moved' => made' = rect'
  BY <1>1 DEF Bounded, Outcomes
<1> QED
  BY <1>1, <1>2, <1>3, <1>4, NoMore

\* A resize begins an era of which there is no buffer yet.
LEMMA ResizeBounded ==
  ASSUME IInv, Bounded, bounds_changed \/ RectAssigned
  PROVE  Bounded'
<1>1. UNCHANGED <<bufs, made, pc, peak, strays, era>> /\ moved' = TRUE
  BY DEF bounds_changed, RectAssigned, renderVars
<1>2. Busy(bufs)' = Busy(bufs) /\ (\A e : OfEra(e)' = OfEra(e)) /\ Allocated' = Allocated
  BY <1>1 DEF Busy, OfEra, Allocated
<1>3. (\A i \in Allocated : era[i] <= resizes') /\ OfEra(resizes)' = {}
  <2>1. \A i \in Allocated : era[i] \in Nat /\ era[i] <= resizes
    BY Numbers, BufferAssumption DEF Bounded, EraCurrent, Allocated, TypeOK
  <2>2. CASE bounds_changed
    <3>1. resizes' = resizes + 1
      BY <2>2 DEF bounds_changed
    <3> QED
      BY <1>1, <1>2, <2>1, <3>1, Numbers DEF OfEra
  <2>3. CASE RectAssigned
    <3>1. rect = Torn /\ resizes' = resizes
      BY <2>3 DEF RectAssigned, IInv, Places
    <3>2. \A i \in Buffers : bufs[i].size # Torn
      BY Numbers, BufferAssumption DEF TypeOK, AnySize
    <3>3. OfEra(resizes) = {}
      BY <3>1, <3>2 DEF Bounded, EraCurrent, OfEra, Allocated
    <3>4. OfEra(resizes)' = OfEra(resizes)
      BY <1>1, <3>1 DEF OfEra, Allocated
    <3> QED
      BY <2>1, <3>1, <3>3, <3>4
  <2> QED
    BY <2>2, <2>3
<1>4. EraCurrent'
  BY <1>1, <1>2, <1>3 DEF EraCurrent
<1> QED
  BY <1>1, <1>2, <1>4, NoMore

LEMMA OtherBounded ==
  ASSUME IInv, Bounded,
         \/ Submit \/ CreateFails \/ unbind \/ FrameTorn \/ FrameAssigned \/ close \/ CallReturns
         \/ CompositorRelease \/ UNCHANGED vars
  PROVE  Bounded'
<1>1. /\ UNCHANGED <<rect, resizes, bufs, made, scan, peak, moved, strays, era>>
      /\ pc' \in {"idle", "search"} \/ UNCHANGED pc
  BY DEF Submit, CreateFails, unbind, FrameTorn, FrameAssigned,
         close, CallReturns, CompositorRelease, vars, winVars, renderVars
<1>2. Busy(bufs)' = Busy(bufs) /\ \A e : OfEra(e)' = OfEra(e)
  BY <1>1 DEF Busy, OfEra, Allocated
<1>3. EraCurrent'
  BY <1>1 DEF Bounded, EraCurrent, OfEra, Allocated
<1> QED
  BY <1>1, <1>2, <1>3, NoMore DEF Bounded

LEMMA InitBounded == Init => Bounded
<1> SUFFICES ASSUME Init PROVE Bounded
    OBVIOUS
<1>1. Busy(bufs) = {} /\ Allocated = {}
  BY DEF Init, Busy, Allocated, Free
<1>2. \A e : OfEra(e) = {}
  BY <1>1 DEF OfEra
<1>3. peak = 0 /\ pc = "idle" /\ Cardinality({}) = 0
  BY FS_EmptySet DEF Init
<1> QED
  BY <1>1, <1>2, <1>3 DEF Bounded, EraCurrent

LEMMA StepBounded == IInv /\ Bounded /\ [Next]_vars => Bounded'
<1> SUFFICES ASSUME IInv, Bounded, [Next]_vars PROVE Bounded'
    OBVIOUS
<1> QED
  BY SearchBounded, EraseBounded, PushBounded, ReleaseBounded, CreateBounded, ResizeBounded, OtherBounded
     DEF Next, Render, MessageLoop

\* Memory grows only by resizes: between two of them at most one buffer more is made
\* than were ever in use at once, besides those made in a race with a resize, for any
\* number of buffers and resizes, although nothing that was made is ever freed
\* (wayland_window.cc DequeueBuffer leaks what is DIRTY).
THEOREM GrowthAlwaysByResize == Spec => []GrowthByResize
<1>1. IInv /\ Bounded => GrowthByResize
  BY Numbers DEF Bounded, GrowthByResize, OfEra
<1> QED
  BY InitIInv, StepIInv, InitBounded, StepBounded, <1>1, PTL DEF Spec
================================================================================
