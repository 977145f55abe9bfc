--------------------------- MODULE TouchInputProofs ----------------------------
(***************************************************************************)
(* Proofs about touch input: slots are taken and given back by the fingers *)
(* that are down, and a guest sees every slot as the host does although it *)
(* is told of a slot only when last_slot changes, for any number of        *)
(* fingers, slots and clients.                                             *)
(***************************************************************************)
EXTENDS TouchInput, FiniteSetTheorems, WellFoundedInduction, TLAPS

(* The strengthenings. *)

\* The contacts of a finger; only the pointer's button and a touch point 0 share one.
Contacting(id) == {c \in down : c[2] = id}

\* Running out of slots loses slots, never fingers.
SlotsBounded == ~cancelled => \A id \in Ids :
  /\ Cardinality(Holding(id)) <= Cardinality(Contacting(id))
  /\ ~dropped => Cardinality(Holding(id)) = Cardinality(Contacting(id))

AllFree == \A s \in Slots : touchSlots[s] = Free

\* What a batch on its way says of the slot it is about.
BatchCurrent == out # NoBatch =>
  /\ lastSlot \in Slots /\ out.slot \in {None, lastSlot}
  /\ touchSlots[lastSlot] = Free => out.track = -1 /\ out.pos = NoContact

\* What client c has decoded once it has the batch that is being sent.
View(c) == IF out = NoBatch \/ n >= c THEN clients[c] ELSE Decode(clients[c], out)

\* A position that slot s may show.
Placed(p, s) == p = owner[s] \/ (touchSlots[s] = 0 /\ s \in mixed)

Shows(g, s) == IF touchSlots[s] = Free THEN g.track[s] = -1
               ELSE g.track[s] = TrackingId(touchSlots[s]) /\ Placed(g.pos[s], s)

\* A slot that is taken has the id of the contact that took it.
OwnersNamed == \A s \in Slots : touchSlots[s] # Free => owner[s] \in Contacts /\ owner[s][2] = touchSlots[s]

\* A guest decodes into the slot that the host has last used; one that never got an
\* event decodes into slot 0, which the first finger takes.
InStep(g) == /\ g.slot = lastSlot \/ (g.slot = 0 /\ AllFree)
             /\ \A s \in Slots : Shows(g, s)

GuestsInStep == \A c \in 1 .. Len(clients) : clients[c].intact => InStep(View(c))

\* A guest that was not told about its device has decoded nothing.
Undecoded(g) == g.slot = 0 /\ \A s \in Slots : g.track[s] = -1 /\ g.pos[s] = NoContact
UntoldBlank == \A c \in 1 .. Len(clients) : ~clients[c].told => Undecoded(clients[c])
--------------------------------------------------------------------------------
(* Slots, batches and clients: what the operators of the model do. *)

LEMMA SlotsFacts ==
  /\ 0 \in Slots /\ Slots \subseteq Nat /\ -1 \notin Slots /\ -2 \notin Slots /\ IsFiniteSet(Slots)
  /\ Ids \subseteq Nat /\ -1 \notin Ids /\ -2 \notin Ids
<1>1. MaxFingers \in Nat /\ MaxFingers >= 1 /\ Fingers \subseteq Nat
  BY TouchAssumption
<1>2. IsFiniteSet(0 .. MaxFingers - 1)
  BY <1>1, FS_Interval
<1> QED
  BY <1>1, <1>2 DEF Slots, Ids

LEMMA LowestIs ==
  ASSUME NEW S, S \subseteq Slots, S # {}
  PROVE  Lowest(S) \in S /\ \A r \in S : Lowest(S) <= r
<1> DEFINE R == {p \in Nat \X Nat : p[1] < p[2]}
<1>1. IsWellFoundedOn(R, Nat)
  BY NatLessThanWellFounded DEF OpToRel
<1> HIDE DEF R
<1>2. S \subseteq Nat
  BY SlotsFacts
<1>3. PICK m \in S : \A k \in S : ~(<<k, m>> \in R)
  BY <1>1, <1>2, WFMin
<1>4. \A k \in S : m <= k
  <2> SUFFICES ASSUME NEW k \in S, ~(m <= k) PROVE FALSE
    OBVIOUS
  <2>1. m \in Nat /\ k \in Nat /\ k < m
    BY <1>2
  <2>2. <<k, m>> \in R
    BY <2>1 DEF R
  <2> QED
    BY <1>3, <2>2
<1>5. \E x \in S : \A r \in S : x <= r
  BY <1>4
<1> QED
  BY <1>5 DEF Lowest

LEMMA SlotFound ==
  ASSUME NEW id
  PROVE  \/ find_touch_slot(id) = -1 /\ Holding(id) = {}
         \/ /\ find_touch_slot(id) # -1 /\ find_touch_slot(id) \in Slots
            /\ touchSlots[find_touch_slot(id)] = id
            /\ \A s \in Slots : touchSlots[s] = id => find_touch_slot(id) <= s
<1>1. CASE Holding(id) = {}
  BY <1>1 DEF find_touch_slot
<1>2. CASE Holding(id) # {}
  <2>1. find_touch_slot(id) = Lowest(Holding(id)) /\ Holding(id) \subseteq Slots
    BY <1>2 DEF find_touch_slot, Holding
  <2>2. find_touch_slot(id) \in Holding(id) /\ \A r \in Holding(id) : find_touch_slot(id) <= r
    BY <1>2, <2>1, LowestIs
  <2> QED
    BY <2>1, <2>2, SlotsFacts DEF Holding
<1> QED
  BY <1>1, <1>2

LEMMA TrackingIds ==
  ASSUME NEW id \in Ids
  PROVE  TrackingId(id) \in Tracks /\ TrackingId(id) \in Nat
<1>1. id \in Nat /\ MaxTrackingId \in Nat /\ MaxTrackingId >= 1
  BY SlotsFacts, TouchAssumption
<1>2. id % MaxTrackingId \in 0 .. MaxTrackingId - 1
  BY <1>1
<1> QED
  BY <1>1, <1>2 DEF TrackingId, Tracks

LEMMA ContactIds ==
  ASSUME NEW c \in Contacts
  PROVE  c[2] \in Ids
BY DEF Contacts, Ids

LEMMA BlankIs ==
  ASSUME NEW t \in BOOLEAN, NEW i \in BOOLEAN, NEW o \in BOOLEAN
  PROVE  /\ Blank(t, i, o) \in Clients
         /\ Blank(t, i, o).told = t /\ Blank(t, i, o).intact = i /\ Undecoded(Blank(t, i, o))
<1>1. /\ [s \in Slots |-> -1] \in [Slots -> Tracks] /\ [s \in Slots |-> NoContact] \in [Slots -> Positions]
      /\ 0 \in Slots
  BY SlotsFacts, TouchAssumption DEF Tracks, Positions
<1> QED
  BY <1>1 DEF Blank, Clients, Undecoded

\* The slot a guest puts a batch into.
Target(g, b) == IF b.slot = None THEN g.slot ELSE b.slot

LEMMA DecodeIs ==
  ASSUME NEW g \in Clients, NEW b \in Batches
  PROVE  /\ Decode(g, b) \in Clients
         /\ Target(g, b) \in Slots /\ Decode(g, b).slot = Target(g, b)
         /\ Decode(g, b).told = g.told /\ Decode(g, b).intact = g.intact
         /\ \A s \in Slots : s # Target(g, b) => /\ Decode(g, b).track[s] = g.track[s]
                                                 /\ Decode(g, b).pos[s] = g.pos[s]
         /\ Decode(g, b).track[Target(g, b)] =
              IF b.track = None THEN g.track[Target(g, b)] ELSE b.track
         /\ Decode(g, b).pos[Target(g, b)] =
              IF b.pos = NoContact THEN g.pos[Target(g, b)] ELSE b.pos
<1> DEFINE s == Target(g, b)
           t == IF b.track = None THEN g.track[s] ELSE b.track
           p == IF b.pos = NoContact THEN g.pos[s] ELSE b.pos
           T == [g.track EXCEPT ![s] = t]
           P == [g.pos EXCEPT ![s] = p]
<1>1. s \in Slots
  BY DEF Target, Clients, Batches
<1>2. /\ g.track \in [Slots -> Tracks] /\ g.pos \in [Slots -> Positions]
      /\ g.told \in BOOLEAN /\ g.intact \in BOOLEAN /\ g.open \in BOOLEAN
  BY DEF Clients
<1>3. t \in Tracks /\ p \in Positions
  BY <1>1, <1>2 DEF Batches
<1>4. Decode(g, b) = [g EXCEPT !.slot = s, !.track = T, !.pos = P]
  BY DEF Decode, Target, Clients
<1> HIDE DEF s, t, p
<1>5. /\ T \in [Slots -> Tracks] /\ T[s] = t /\ \A r \in Slots : r # s => T[r] = g.track[r]
      /\ P \in [Slots -> Positions] /\ P[s] = p /\ \A r \in Slots : r # s => P[r] = g.pos[r]
  BY <1>1, <1>2, <1>3
<1> HIDE DEF T, P
<1>6. /\ Decode(g, b) \in Clients /\ Decode(g, b).slot = s /\ Decode(g, b).track = T /\ Decode(g, b).pos = P
      /\ Decode(g, b).told = g.told /\ Decode(g, b).intact = g.intact
  BY <1>1, <1>2, <1>4, <1>5 DEF Clients
<1>7. /\ Decode(g, b) \in Clients
      /\ s \in Slots /\ Decode(g, b).slot = s
      /\ Decode(g, b).told = g.told /\ Decode(g, b).intact = g.intact
      /\ \A r \in Slots : r # s => /\ Decode(g, b).track[r] = g.track[r]
                                    /\ Decode(g, b).pos[r] = g.pos[r]
      /\ Decode(g, b).track[s] = t
      /\ Decode(g, b).pos[s] = p
  BY <1>1, <1>5, <1>6
<1> QED
  BY <1>7 DEF s, t, p

LEMMA ClientSet ==
  ASSUME NEW q \in Seq(Clients), NEW c \in 1 .. Len(q), NEW g \in Clients
  PROVE  /\ [q EXCEPT ![c] = g] \in Seq(Clients) /\ Len([q EXCEPT ![c] = g]) = Len(q)
         /\ [q EXCEPT ![c] = g][c] = g
         /\ \A d \in 1 .. Len(q) : d # c => [q EXCEPT ![c] = g][d] = q[d]
OBVIOUS

LEMMA ClientAdded ==
  ASSUME NEW q \in Seq(Clients), NEW g \in Clients
  PROVE  /\ Append(q, g) \in Seq(Clients) /\ Len(q) \in Nat /\ Len(Append(q, g)) = Len(q) + 1
         /\ Append(q, g)[Len(q) + 1] = g
         /\ \A d \in 1 .. Len(q) : Append(q, g)[d] = q[d]
OBVIOUS
--------------------------------------------------------------------------------
(* The three operations on a contact, as they leave the slots and the batch. *)

LEMMA Numbers ==
  /\ MaxClients \in Nat /\ MaxInits \in Nat
  /\ TypeOK => n \in Nat /\ Len(clients) \in Nat /\ Len(clients) <= MaxClients
BY TouchAssumption DEF TypeOK

LEMMA Pushed ==
  ASSUME TypeOK, NEW s \in Slots, NEW t \in Tracks \cup {None}, NEW p \in Positions, push_slot(s, t, p)
  PROVE  /\ out' \in Batches /\ n' = 0 /\ lastSlot' = s
         /\ out'.slot = (IF lastSlot # s THEN s ELSE None) /\ out'.track = t /\ out'.pos = p
BY DEF push_slot, Batches

\* What a finger that goes down does.
LEMMA DownIs ==
  ASSUME TypeOK, NEW c \in Contacts, Down(c)
  PROVE  /\ c[2] \in Ids /\ c \notin down /\ down' = down \cup {c} /\ out = NoBatch /\ inits > 0
         /\ UNCHANGED <<inits, cancelled, replaced, clients, accepting, crashed>>
         /\ \/ /\ Holding(Free) = {} /\ dropped' = TRUE
               /\ UNCHANGED <<out, n, lastSlot, touchSlots, owner, mixed>>
            \/ \E s \in Slots :
                 /\ touchSlots[s] = Free /\ \A r \in Slots : touchSlots[r] = Free => s <= r
                 /\ touchSlots' = [touchSlots EXCEPT ![s] = c[2]]
                 /\ owner' = [owner EXCEPT ![s] = c] /\ mixed' = mixed \ {s}
                 /\ push_slot(s, TrackingId(c[2]), c) /\ UNCHANGED dropped
<1>1. c[2] \in Ids
  BY ContactIds
<1>2. /\ c \notin down /\ down' = down \cup {c} /\ out = NoBatch /\ inits > 0
      /\ UNCHANGED <<inits, cancelled, replaced, clients, accepting, crashed>> /\ push_finger_down(c)
  BY DEF Down, Idle
<1>3. CASE find_touch_slot(Free) = -1
  <2>1. Holding(Free) = {}
    BY <1>3, SlotFound
  <2> QED
    BY <1>1, <1>2, <1>3, <2>1 DEF push_finger_down, NothingToSend, ownerVars
<1>4. CASE find_touch_slot(Free) # -1
  <2> DEFINE s == find_touch_slot(Free)
  <2>1. s \in Slots /\ touchSlots[s] = Free /\ \A r \in Slots : touchSlots[r] = Free => s <= r
    BY <1>4, SlotFound
  <2>2. /\ touchSlots' = [touchSlots EXCEPT ![s] = c[2]]
        /\ owner' = [owner EXCEPT ![s] = c] /\ mixed' = mixed \ {s}
        /\ push_slot(s, TrackingId(c[2]), c) /\ UNCHANGED dropped
    BY <1>2, <1>4 DEF push_finger_down
  <2> HIDE DEF s
  <2> QED
    BY <1>1, <1>2, <2>1, <2>2
<1> QED
  BY <1>3, <1>4

LEMMA UpIs ==
  ASSUME TypeOK, NEW c \in Contacts, Up(c)
  PROVE  /\ c[2] \in Ids /\ c \in down /\ down' = down \ {c} /\ out = NoBatch
         /\ UNCHANGED <<inits, dropped, cancelled, owner, mixed, replaced, clients, accepting, crashed>>
         /\ \/ Holding(c[2]) = {} /\ UNCHANGED <<out, n, lastSlot, touchSlots>>
            \/ \E s \in Slots : /\ touchSlots[s] = c[2] /\ touchSlots' = [touchSlots EXCEPT ![s] = Free]
                                /\ push_slot(s, -1, NoContact)
<1>1. c[2] \in Ids
  BY ContactIds
<1>2. /\ c \in down /\ down' = down \ {c} /\ out = NoBatch
      /\ UNCHANGED <<inits, dropped, cancelled, owner, mixed, replaced, clients, accepting, crashed>> /\ push_finger_up(c)
  BY DEF Up, Idle, ownerVars
<1>3. CASE find_touch_slot(c[2]) = -1
  <2>1. Holding(c[2]) = {}
    BY <1>3, SlotFound
  <2> QED
    BY <1>1, <1>2, <1>3, <2>1 DEF push_finger_up, NothingToSend
<1>4. CASE find_touch_slot(c[2]) # -1
  <2> DEFINE s == find_touch_slot(c[2])
  <2>1. s \in Slots /\ touchSlots[s] = c[2]
    BY <1>4, SlotFound
  <2>2. touchSlots' = [touchSlots EXCEPT ![s] = Free] /\ push_slot(s, -1, NoContact)
    BY <1>2, <1>4 DEF push_finger_up
  <2> HIDE DEF s
  <2> QED
    BY <1>1, <1>2, <2>1, <2>2
<1> QED
  BY <1>3, <1>4

LEMMA MotionIs ==
  ASSUME TypeOK, NEW c \in Contacts, Motion(c)
  PROVE  /\ c[2] \in Ids /\ out = NoBatch
         /\ UNCHANGED <<touchSlots, inits, down, dropped, cancelled, owner, replaced, clients, accepting, crashed>>
         /\ \/ UNCHANGED <<out, n, lastSlot, mixed>>
            \/ \E s \in Slots : /\ touchSlots[s] = c[2] /\ push_slot(s, None, c)
                                /\ mixed' = IF owner[s] = c THEN mixed ELSE mixed \cup {s}
<1>1. c[2] \in Ids
  BY ContactIds
<1>2. /\ out = NoBatch /\ push_finger_motion(c)
      /\ UNCHANGED <<touchSlots, inits, down, dropped, cancelled, owner, replaced, clients, accepting, crashed>>
  BY DEF Motion, Idle
<1>3. CASE find_touch_slot(c[2]) = -1
  BY <1>1, <1>2, <1>3 DEF push_finger_motion, NothingToSend
<1>4. CASE find_touch_slot(c[2]) # -1
  <2> DEFINE s == find_touch_slot(c[2])
  <2>1. s \in Slots /\ touchSlots[s] = c[2]
    BY <1>4, SlotFound
  <2>2. push_slot(s, None, c) /\ mixed' = IF owner[s] = c THEN mixed ELSE mixed \cup {s}
    BY <1>2, <1>4 DEF push_finger_motion
  <2> HIDE DEF s
  <2> QED
    BY <1>1, <1>2, <2>1, <2>2
<1> QED
  BY <1>3, <1>4
--------------------------------------------------------------------------------
(* Types. *)

LEMMA InitType == Init => TypeOK
<1> SUFFICES ASSUME Init PROVE TypeOK
  OBVIOUS
<1>1. 0 \in 0 .. MaxInits /\ 0 \in 0 .. MaxClients
  BY Numbers
<1>2. touchSlots \in [Slots -> Ids \cup {Free}]
  BY DEF Init
<1>3. out \in Batches
  BY DEF Init, NoBatch, Batches, Positions
<1>4. clients \in Seq(Clients) /\ Len(clients) <= MaxClients
  BY Numbers DEF Init
<1>5. owner \in [Slots -> Positions] /\ mixed \subseteq Slots /\ replaced \subseteq [Slots -> Tracks]
  BY DEF Init, Positions
<1> QED
  BY <1>1, <1>2, <1>3, <1>4, <1>5 DEF Init, TypeOK

LEMMA ContactType ==
  ASSUME TypeOK, NEW c \in Contacts, Down(c) \/ Up(c) \/ Motion(c)
  PROVE  TypeOK'
<1>1. 0 \in 0 .. MaxClients /\ -1 \in Tracks /\ c \in Positions /\ NoContact \in Positions
  BY Numbers, TouchAssumption DEF Tracks, Positions
<1>2. CASE Down(c)
  <2>1. CASE UNCHANGED <<out, n, lastSlot, touchSlots, owner, mixed>> /\ dropped' = TRUE
    BY <1>2, <2>1, DownIs DEF TypeOK
  <2>2. ASSUME NEW s \in Slots, touchSlots' = [touchSlots EXCEPT ![s] = c[2]],
               owner' = [owner EXCEPT ![s] = c], mixed' = mixed \ {s},
               push_slot(s, TrackingId(c[2]), c), UNCHANGED dropped
        PROVE  TypeOK'
    <3>1. c[2] \in Ids /\ TrackingId(c[2]) \in Tracks
      BY <1>2, DownIs, TrackingIds
    <3>2. out' \in Batches /\ n' = 0 /\ lastSlot' = s
      BY <1>1, <2>2, <3>1, Pushed
    <3>3. owner' \in [Slots -> Positions] /\ mixed' \subseteq Slots
      BY <1>1, <2>2 DEF TypeOK
    <3> QED
      BY <1>1, <1>2, <2>2, <3>1, <3>2, <3>3, DownIs DEF TypeOK
  <2> QED
    BY <1>2, <2>1, <2>2, DownIs
<1>3. CASE Up(c)
  <2>1. CASE UNCHANGED <<out, n, lastSlot, touchSlots>>
    BY <1>3, <2>1, UpIs DEF TypeOK
  <2>2. ASSUME NEW s \in Slots, touchSlots' = [touchSlots EXCEPT ![s] = Free], push_slot(s, -1, NoContact)
        PROVE  TypeOK'
    <3>1. out' \in Batches /\ n' = 0 /\ lastSlot' = s
      BY <1>1, <2>2, Pushed
    <3> QED
      BY <1>1, <1>3, <2>2, <3>1, UpIs DEF TypeOK
  <2> QED
    BY <1>3, <2>1, <2>2, UpIs
<1>4. CASE Motion(c)
  <2>1. CASE UNCHANGED <<out, n, lastSlot, mixed>>
    BY <1>4, <2>1, MotionIs DEF TypeOK
  <2>2. ASSUME NEW s \in Slots, push_slot(s, None, c),
               mixed' = IF owner[s] = c THEN mixed ELSE mixed \cup {s}
        PROVE  TypeOK'
    <3>1. out' \in Batches /\ n' = 0 /\ lastSlot' = s
      BY <1>1, <2>2, Pushed
    <3>2. mixed' \subseteq Slots
      BY <2>2 DEF TypeOK
    <3> QED
      BY <1>1, <1>4, <3>1, <3>2, MotionIs DEF TypeOK
  <2> QED
    BY <1>4, <2>1, <2>2, MotionIs
<1> QED
  BY <1>2, <1>3, <1>4

\* What the operations of the device do to the table of clients.
LEMMA ClientType ==
  ASSUME TypeOK, NEW c \in 1 .. Len(clients)
  PROVE  /\ clients[c] \in Clients /\ clients[c].told \in BOOLEAN /\ clients[c].intact \in BOOLEAN
<1>1. clients[c] \in Clients
  BY DEF TypeOK
<1> QED
  BY <1>1 DEF Clients

LEMMA InfoIs ==
  ASSUME TypeOK, SendInfo
  PROVE  \E c \in 1 .. Len(clients), g \in Clients :
           /\ clients' = [clients EXCEPT ![c] = g]
           /\ ~clients[c].told /\ g.told /\ (g.intact => clients[c].intact) /\ Undecoded(g)
<1>1. PICK c \in 1 .. Len(clients), whole \in BOOLEAN :
        ~clients[c].told /\ clients' = [clients EXCEPT ![c] = Blank(TRUE, whole /\ clients[c].intact, TRUE)]
  BY DEF SendInfo
<1> DEFINE i == whole /\ clients[c].intact
           g == Blank(TRUE, i, TRUE)
<1>2. i \in BOOLEAN /\ (i => clients[c].intact)
  BY ClientType
<1> HIDE DEF i
<1>3. g \in Clients /\ g.told = TRUE /\ g.intact = i /\ Undecoded(g)
  BY <1>2, BlankIs
<1>4. clients' = [clients EXCEPT ![c] = g]
  BY <1>1 DEF i
<1> HIDE DEF g
<1> QED
  BY <1>1, <1>2, <1>3, <1>4

LEMMA ClosesIs ==
  ASSUME TypeOK, ClientCloses
  PROVE  \E c \in 1 .. Len(clients), g \in Clients :
           clients' = [clients EXCEPT ![c] = g] /\ ~g.intact /\ Undecoded(g)
<1>1. PICK c \in 1 .. Len(clients) : clients' = [clients EXCEPT ![c] = Blank(clients[c].told, FALSE, FALSE)]
  BY DEF ClientCloses
<1> DEFINE g == Blank(clients[c].told, FALSE, FALSE)
<1>2. g \in Clients /\ g.intact = FALSE /\ Undecoded(g)
  BY ClientType, BlankIs
<1> HIDE DEF g
<1> QED
  BY <1>1, <1>2 DEF g

LEMMA SendIs ==
  ASSUME TypeOK, SendNext
  PROVE  /\ n' = n + 1 /\ n + 1 \in 1 .. Len(clients) /\ out # NoBatch
         /\ \E g \in Clients :
              /\ clients' = [clients EXCEPT ![n + 1] = g]
              /\ \/ clients[n + 1].told /\ g = Decode(clients[n + 1], out)
                 \/ ~g.intact /\ Undecoded(g)
<1> DEFINE c == n + 1
<1>1. c \in 1 .. Len(clients) /\ n' = n + 1 /\ out # NoBatch
  BY Numbers DEF SendNext
<1>2. clients[c] \in Clients /\ clients[c].told \in BOOLEAN
  BY <1>1, ClientType
<1>3. \/ clients[c].told /\ clients' = [clients EXCEPT ![c] = Decode(clients[c], out)]
      \/ clients' = [clients EXCEPT ![c] = Blank(clients[c].told, FALSE, TRUE)]
  BY DEF SendNext
<1> HIDE DEF c
<1>4. CASE clients[c].told /\ clients' = [clients EXCEPT ![c] = Decode(clients[c], out)]
  <2>1. Decode(clients[c], out) \in Clients
    BY <1>2, DecodeIs DEF TypeOK
  <2> QED
    BY <1>1, <1>4, <2>1 DEF c
<1>5. CASE clients' = [clients EXCEPT ![c] = Blank(clients[c].told, FALSE, TRUE)]
  <2>1. /\ Blank(clients[c].told, FALSE, TRUE) \in Clients
        /\ Blank(clients[c].told, FALSE, TRUE).intact = FALSE /\ Undecoded(Blank(clients[c].told, FALSE, TRUE))
    BY <1>2, BlankIs
  <2> QED
    BY <1>1, <1>5, <2>1 DEF c
<1> QED
  BY <1>3, <1>4, <1>5

LEMMA AddIs ==
  ASSUME TypeOK, AddClient
  PROVE  \E g \in Clients :
           /\ clients' = Append(clients, g) /\ Len(clients) < MaxClients
           /\ ~g.told /\ (g.intact <=> AllFree) /\ Undecoded(g)
<1> DEFINE i == \A s \in Slots : touchSlots[s] = Free
           g == Blank(FALSE, i, TRUE)
<1>1. i \in BOOLEAN /\ (i <=> AllFree)
  BY DEF AllFree
<1> HIDE DEF i
<1>2. g \in Clients /\ g.told = FALSE /\ g.intact = i /\ Undecoded(g)
  BY <1>1, BlankIs
<1>3. clients' = Append(clients, g) /\ Len(clients) < MaxClients
  BY DEF AddClient, i
<1> HIDE DEF g
<1> QED
  BY <1>1, <1>2, <1>3

LEMMA StepType == TypeOK /\ [Next]_vars => TypeOK'
<1> SUFFICES ASSUME TypeOK, [Next]_vars PROVE TypeOK'
  OBVIOUS
<1>1. CASE \E c \in Contacts : Down(c) \/ Up(c) \/ Motion(c)
  BY <1>1, ContactType
<1>2. CASE Cancel
  BY <1>2 DEF Cancel, ownerVars, TypeOK
<1>3. CASE InitInput
  <2>1. inits' \in 0 .. MaxInits
    BY <1>3, Numbers DEF InitInput, TypeOK
  <2>2. touchSlots' \in [Slots -> Ids \cup {Free}]
    BY <1>3 DEF InitInput
  <2>3. clients' \in Seq(Clients) /\ Len(clients') <= MaxClients
    BY <1>3, Numbers DEF InitInput
  <2>4. cancelled' \in BOOLEAN
    BY <1>3 DEF InitInput, TypeOK
  <2>5. replaced' \subseteq [Slots -> Tracks]
    <3>1. \A c \in 1 .. Len(clients) : clients[c].track \in [Slots -> Tracks]
      BY ClientType DEF Clients
    <3> QED
      BY <1>3, <3>1 DEF InitInput, TypeOK
  <2> QED
    BY <1>3, <2>1, <2>2, <2>3, <2>4, <2>5 DEF InitInput, ownerVars, TypeOK
<1>4. CASE AddClient
  <2>1. PICK g \in Clients : clients' = Append(clients, g) /\ Len(clients) < MaxClients
    BY <1>4, AddIs
  <2>2. clients' \in Seq(Clients) /\ Len(clients') <= MaxClients
    BY <2>1, ClientAdded, Numbers DEF TypeOK
  <2> QED
    BY <1>4, <2>2 DEF AddClient, hostVars, ownerVars, TypeOK
<1>5. CASE SendInfo \/ ClientCloses \/ SendNext
  <2>1. PICK c \in 1 .. Len(clients), g \in Clients : clients' = [clients EXCEPT ![c] = g]
    BY <1>5, InfoIs, ClosesIs, SendIs
  <2>2. clients' \in Seq(Clients) /\ Len(clients') <= MaxClients
    BY <2>1, ClientSet DEF TypeOK
  <2>3. n' \in 0 .. MaxClients
    <3>1. n' = n \/ (n' = n + 1 /\ n < Len(clients))
      BY <1>5 DEF SendInfo, ClientCloses, SendNext
    <3> QED
      BY <3>1, Numbers DEF TypeOK
  <2> QED
    BY <1>5, <2>2, <2>3 DEF SendInfo, ClientCloses, SendNext, hostVars, ownerVars, TypeOK
<1>6. CASE SendFails
  BY <1>6 DEF SendFails, hostVars, ownerVars, TypeOK
<1>7. CASE SendDone
  <2>1. NoBatch \in Batches /\ 0 \in 0 .. MaxClients
    BY Numbers DEF NoBatch, Batches, Positions
  <2> QED
    BY <1>7, <2>1 DEF SendDone, hostVars, ownerVars, TypeOK
<1>8. CASE UNCHANGED vars
  BY <1>8 DEF vars, hostVars, ownerVars, TypeOK
<1> QED
  BY <1>1, <1>2, <1>3, <1>4, <1>5, <1>6, <1>7, <1>8 DEF Next, SendStep
--------------------------------------------------------------------------------
(* Slots and fingers. *)

LEMMA FiniteParts ==
  ASSUME TypeOK, NEW id
  PROVE  /\ IsFiniteSet(Holding(id)) /\ IsFiniteSet(Contacting(id))
         /\ Cardinality(Holding(id)) \in Nat /\ Cardinality(Contacting(id)) \in Nat
<1>1. IsFiniteSet(Holding(id))
  <2>1. Holding(id) \subseteq Slots
    BY DEF Holding
  <2> QED
    BY <2>1, SlotsFacts, FS_Subset
<1>2. IsFiniteSet(Contacting(id))
  <2>1. Contacting(id) \subseteq {<<"touch", id>>, <<"pointer", 0>>}
    BY DEF Contacting, TypeOK, Contacts
  <2>2. IsFiniteSet({<<"touch", id>>}) /\ IsFiniteSet({<<"pointer", 0>>})
    BY FS_Singleton
  <2>3. IsFiniteSet({<<"touch", id>>} \cup {<<"pointer", 0>>})
    BY <2>2, FS_Union
  <2>4. Contacting(id) \subseteq {<<"touch", id>>} \cup {<<"pointer", 0>>}
    BY <2>1
  <2> QED
    BY <2>3, <2>4, FS_Subset
<1> QED
  BY <1>1, <1>2, FS_CardinalityType

\* The same for the next state.
LEMMA Added ==
  ASSUME NEW S, IsFiniteSet(S), NEW x, x \notin S
  PROVE  Cardinality(S \cup {x}) = Cardinality(S) + 1
BY FS_AddElement

LEMMA Removed ==
  ASSUME NEW S, IsFiniteSet(S), NEW x \in S
  PROVE  Cardinality(S \ {x}) = Cardinality(S) - 1
BY FS_RemoveElement

LEMMA DownBounded ==
  ASSUME TypeOK, SlotsBounded, NEW c \in Contacts, Down(c)
  PROVE  SlotsBounded'
<1> SUFFICES ASSUME ~cancelled', NEW id \in Ids
             PROVE  /\ Cardinality(Holding(id)') <= Cardinality(Contacting(id)')
                    /\ ~dropped' => Cardinality(Holding(id)') = Cardinality(Contacting(id)')
  BY DEF SlotsBounded
<1>1. /\ c[2] \in Ids /\ c \notin down /\ down' = down \cup {c} /\ cancelled' = cancelled
  BY DownIs
<1>2. /\ Cardinality(Holding(id)) <= Cardinality(Contacting(id))
      /\ ~dropped => Cardinality(Holding(id)) = Cardinality(Contacting(id))
  BY <1>1 DEF SlotsBounded
<1>3. /\ IsFiniteSet(Holding(id)) /\ IsFiniteSet(Contacting(id))
      /\ Cardinality(Holding(id)) \in Nat /\ Cardinality(Contacting(id)) \in Nat
  BY FiniteParts
<1>4. Cardinality(Contacting(id)') =
        IF c[2] = id THEN Cardinality(Contacting(id)) + 1 ELSE Cardinality(Contacting(id))
  <2>1. CASE c[2] = id
    <3>1. Contacting(id)' = Contacting(id) \cup {c} /\ c \notin Contacting(id)
      BY <1>1, <2>1 DEF Contacting
    <3> QED
      BY <1>3, <2>1, <3>1, Added
  <2>2. CASE c[2] # id
    <3>1. Contacting(id)' = Contacting(id)
      BY <1>1, <2>2 DEF Contacting
    <3> QED
      BY <2>2, <3>1
  <2> QED
    BY <2>1, <2>2
<1>5. CASE dropped' = TRUE /\ UNCHANGED touchSlots
  <2>1. Holding(id)' = Holding(id)
    BY <1>5 DEF Holding
  <2> QED
    BY <1>2, <1>3, <1>4, <1>5, <2>1
<1>6. ASSUME NEW s \in Slots, touchSlots[s] = Free, touchSlots' = [touchSlots EXCEPT ![s] = c[2]],
             UNCHANGED dropped
      PROVE  /\ Cardinality(Holding(id)') <= Cardinality(Contacting(id)')
             /\ ~dropped' => Cardinality(Holding(id)') = Cardinality(Contacting(id)')
  <2>1. id # Free /\ touchSlots'[s] = c[2] /\ \A r \in Slots : r # s => touchSlots'[r] = touchSlots[r]
    BY <1>6, SlotsFacts DEF Free, TypeOK
  <2>2. CASE c[2] = id
    <3>1. Holding(id)' = Holding(id) \cup {s} /\ s \notin Holding(id)
      BY <1>6, <2>1, <2>2 DEF Holding
    <3>2. Cardinality(Holding(id)') = Cardinality(Holding(id)) + 1
      BY <1>3, <3>1, Added
    <3> QED
      BY <1>2, <1>3, <1>4, <1>6, <2>2, <3>2
  <2>3. CASE c[2] # id
    <3>1. Holding(id)' = Holding(id)
      BY <1>6, <2>1, <2>3 DEF Holding
    <3> QED
      BY <1>2, <1>3, <1>4, <1>6, <2>3, <3>1
  <2> QED
    BY <2>2, <2>3
<1> QED
  BY <1>5, <1>6, DownIs

LEMMA UpBounded ==
  ASSUME TypeOK, SlotsBounded, NEW c \in Contacts, Up(c)
  PROVE  SlotsBounded'
<1> SUFFICES ASSUME ~cancelled', NEW id \in Ids
             PROVE  /\ Cardinality(Holding(id)') <= Cardinality(Contacting(id)')
                    /\ ~dropped' => Cardinality(Holding(id)') = Cardinality(Contacting(id)')
  BY DEF SlotsBounded
<1>1. /\ c[2] \in Ids /\ c \in down /\ down' = down \ {c} /\ cancelled' = cancelled /\ dropped' = dropped
  BY UpIs
<1>2. /\ Cardinality(Holding(id)) <= Cardinality(Contacting(id))
      /\ ~dropped => Cardinality(Holding(id)) = Cardinality(Contacting(id))
  BY <1>1 DEF SlotsBounded
<1>3. /\ IsFiniteSet(Holding(id)) /\ IsFiniteSet(Contacting(id))
      /\ Cardinality(Holding(id)) \in Nat /\ Cardinality(Contacting(id)) \in Nat
  BY FiniteParts
<1>4. CASE c[2] # id
  <2>1. Contacting(id)' = Contacting(id)
    BY <1>1, <1>4 DEF Contacting
  <2>2. Holding(id)' = Holding(id)
    <3>1. CASE UNCHANGED touchSlots
      BY <3>1 DEF Holding
    <3>2. ASSUME NEW s \in Slots, touchSlots[s] = c[2], touchSlots' = [touchSlots EXCEPT ![s] = Free]
          PROVE  Holding(id)' = Holding(id)
      <4>1. id # Free /\ touchSlots'[s] = Free /\ \A r \in Slots : r # s => touchSlots'[r] = touchSlots[r]
        BY <3>2, SlotsFacts DEF Free, TypeOK
      <4> QED
        BY <1>4, <3>2, <4>1 DEF Holding
    <3> QED
      BY <3>1, <3>2, UpIs
  <2> QED
    BY <1>1, <1>2, <2>1, <2>2
<1>5. CASE c[2] = id
  <2>1. Contacting(id)' = Contacting(id) \ {c} /\ c \in Contacting(id)
    BY <1>1, <1>5 DEF Contacting
  <2>2. Cardinality(Contacting(id)') = Cardinality(Contacting(id)) - 1 /\ Cardinality(Contacting(id)) # 0
    BY <1>3, <2>1, Removed, FS_EmptySet
  <2>3. CASE Holding(id) = {} /\ UNCHANGED touchSlots
    <3>1. Cardinality(Holding(id)) = 0 /\ Cardinality(Holding(id)') = 0
      BY <2>3, FS_EmptySet DEF Holding
    <3> QED
      BY <1>1, <1>2, <1>3, <2>2, <3>1
  <2>4. ASSUME NEW s \in Slots, touchSlots[s] = c[2], touchSlots' = [touchSlots EXCEPT ![s] = Free]
        PROVE  Cardinality(Holding(id)') = Cardinality(Holding(id)) - 1
    <3>1. id # Free /\ touchSlots'[s] = Free /\ \A r \in Slots : r # s => touchSlots'[r] = touchSlots[r]
      BY <2>4, SlotsFacts DEF Free, TypeOK
    <3>2. Holding(id)' = Holding(id) \ {s} /\ s \in Holding(id)
      BY <1>5, <2>4, <3>1 DEF Holding
    <3> QED
      BY <1>3, <3>2, Removed
  <2>5. CASE Cardinality(Holding(id)') = Cardinality(Holding(id)) - 1
    BY <1>1, <1>2, <1>3, <2>2, <2>5
  <2> QED
    BY <1>5, <2>3, <2>4, <2>5, UpIs
<1> QED
  BY <1>4, <1>5

LEMMA StepBounded == TypeOK /\ SlotsBounded /\ [Next]_vars => SlotsBounded'
<1> SUFFICES ASSUME TypeOK, SlotsBounded, [Next]_vars PROVE SlotsBounded'
  OBVIOUS
<1>1. CASE \E c \in Contacts : Down(c) \/ Up(c)
  BY <1>1, DownBounded, UpBounded
<1>2. CASE Cancel
  BY <1>2 DEF Cancel, SlotsBounded
<1>3. CASE InitInput
  <2> SUFFICES ASSUME ~cancelled', NEW id \in Ids
               PROVE  Cardinality(Holding(id)') = 0 /\ Cardinality(Contacting(id)') = 0
    BY DEF SlotsBounded
  <2>1. down' = {} /\ \A s \in Slots : touchSlots'[s] = Free
    BY <1>3 DEF InitInput
  <2>2. id # Free
    BY SlotsFacts DEF Free
  <2>3. Holding(id)' = {} /\ Contacting(id)' = {}
    BY <2>1, <2>2 DEF Holding, Contacting
  <2> QED
    BY <2>3, FS_EmptySet
<1>4. CASE \/ \E c \in Contacts : Motion(c)
           \/ AddClient \/ SendInfo \/ ClientCloses \/ SendStep \/ UNCHANGED vars
  <2>1. UNCHANGED <<touchSlots, down, dropped, cancelled>>
    BY <1>4 DEF Motion, AddClient, SendInfo, ClientCloses, SendStep, SendNext, SendFails, SendDone, hostVars, vars
  <2> QED
    BY <2>1 DEF SlotsBounded, Holding, Contacting
<1> QED
  BY <1>1, <1>2, <1>3, <1>4 DEF Next

LEMMA InitBounded == Init => SlotsBounded
<1> SUFFICES ASSUME Init, NEW id \in Ids
             PROVE  Cardinality(Holding(id)) = 0 /\ Cardinality(Contacting(id)) = 0
  BY DEF SlotsBounded
<1>1. id # Free
  BY SlotsFacts DEF Free
<1>2. Holding(id) = {} /\ Contacting(id) = {}
  BY <1>1 DEF Init, Holding, Contacting
<1> QED
  BY <1>2, FS_EmptySet

LEMMA BoundedConsistent == TypeOK /\ SlotsBounded => SlotsConsistent
<1> SUFFICES ASSUME TypeOK, SlotsBounded PROVE SlotsMatchFingers /\ NoStuckSlot
  BY DEF SlotsConsistent
<1>1. SlotsMatchFingers
  BY DEF SlotsBounded, SlotsMatchFingers, Contacting
<1>2. ASSUME ~cancelled, down = {}, NEW s \in Slots PROVE touchSlots[s] = Free
  <2> SUFFICES ASSUME touchSlots[s] # Free PROVE FALSE
    OBVIOUS
  <2>1. PICK id \in Ids : id = touchSlots[s]
    BY DEF TypeOK
  <2>2. Contacting(id) = {} /\ Cardinality(Contacting(id)) = 0
    BY <1>2, FS_EmptySet DEF Contacting
  <2>3. Cardinality(Holding(id)) <= 0
    BY <1>2, <2>2 DEF SlotsBounded
  <2>4. Cardinality(Holding(id)) = 0
    BY <2>3, FiniteParts
  <2>5. Holding(id) = {}
    BY <2>4, FiniteParts, FS_EmptySet
  <2> QED
    BY <2>1, <2>5 DEF Holding
<1> QED
  BY <1>1, <1>2 DEF NoStuckSlot

\* Slots are taken by the fingers that are down and given back by them
\* (AnboxInput::push_finger_down and push_finger_up), also when the pointer and a
\* touch point have the same id, and running out of slots leaves nothing stuck.
THEOREM SlotsAlwaysConsistent == Spec => []SlotsConsistent
<1>1. Init => TypeOK /\ SlotsBounded
  BY InitType, InitBounded
<1> QED
  BY <1>1, StepType, StepBounded, BoundedConsistent, PTL DEF Spec
--------------------------------------------------------------------------------
(* What the guests see. *)

GuestInv == TypeOK /\ BatchCurrent /\ GuestsInStep /\ UntoldBlank /\ OwnersNamed

\* Slot s is given to v, Free or a finger, and the batch that says so is on its way: a
\* guest decodes it into slot s, as it is at last_slot or, with all slots free, at 0.
LEMMA PushInStep ==
  ASSUME GuestInv, NEW s \in Slots, NEW v \in Ids \cup {Free}, NEW t \in Tracks \cup {None},
         NEW p \in Positions, push_slot(s, t, p), out = NoBatch, UNCHANGED clients,
         touchSlots' = [touchSlots EXCEPT ![s] = v], AllFree => s = 0,
         \A x \in Slots : x # s => owner'[x] = owner[x] /\ (x \in mixed' <=> x \in mixed),
         v = Free => t = -1 /\ p = NoContact,
         v # Free => /\ p # NoContact /\ (p = owner'[s] \/ (v = 0 /\ s \in mixed'))
                     /\ t = TrackingId(v) \/ (t = None /\ touchSlots[s] = v)
  PROVE  GuestsInStep' /\ BatchCurrent'
<1> USE DEF GuestInv
<1>1. /\ out' \in Batches /\ n' = 0 /\ lastSlot' = s
      /\ out'.slot = (IF lastSlot # s THEN s ELSE None) /\ out'.track = t /\ out'.pos = p
  BY Pushed
<1>2. touchSlots'[s] = v /\ \A r \in Slots : r # s => touchSlots'[r] = touchSlots[r]
  BY DEF TypeOK
<1>3. out' # NoBatch
  BY <1>1, SlotsFacts DEF NoBatch, None, Free
<1>4. BatchCurrent'
  BY <1>1, <1>2 DEF BatchCurrent
<1>5. ASSUME NEW c \in 1 .. Len(clients), clients[c].intact
      PROVE  InStep(View(c))'
  <2>1. PICK g \in Clients : g = clients[c]
    BY <1>5, ClientType
  <2>0. PICK h : h = Decode(g, out')
    OBVIOUS
  <2>2. /\ View(c) = g /\ InStep(g) /\ View(c)' = h
    <3>1. c \in Nat /\ c >= 1
      BY <1>5, Numbers
    <3>2. View(c) = g
      BY <2>1 DEF View
    <3>3. View(c)' = h
      BY <1>1, <1>3, <2>0, <2>1, <3>1 DEF View
    <3> QED
      BY <1>5, <3>2, <3>3 DEF GuestsInStep
  <2>3. (g.slot = lastSlot \/ (g.slot = 0 /\ s = 0)) /\ \A r \in Slots : Shows(g, r)
    BY <2>2 DEF InStep
  <2>4. Target(g, out') = s
    BY <1>1, <2>3, SlotsFacts DEF Target, None
  <2>5. /\ h.slot = s
        /\ \A r \in Slots : r # s => h.track[r] = g.track[r] /\ h.pos[r] = g.pos[r]
        /\ h.track[s] = IF t = None THEN g.track[s] ELSE t
        /\ h.pos[s] = IF p = NoContact THEN g.pos[s] ELSE p
    BY <1>1, <2>0, <2>4, DecodeIs
  <2>6. ASSUME NEW r \in Slots, r # s PROVE Shows(h, r)'
    <3>1. Shows(g, r)
      BY <2>3
    <3> QED
      BY <1>2, <2>5, <2>6, <3>1 DEF Shows, Placed
  <2>7. Shows(h, s)'
    <3>1. CASE v = Free
      BY <1>2, <2>5, <3>1 DEF Shows, None
    <3>2. CASE v # Free
      <4>1. p # NoContact /\ Placed(p, s)'
        BY <1>2, <3>2 DEF Placed
      <4>2. TrackingId(v) # None
        BY <3>2, TrackingIds DEF None
      <4>3. CASE t = TrackingId(v)
        BY <1>2, <2>5, <3>2, <4>1, <4>2, <4>3 DEF Shows, Placed
      <4>4. CASE t = None /\ touchSlots[s] = v
        <5>1. g.track[s] = TrackingId(v)
          BY <2>3, <3>2, <4>4 DEF Shows
        <5> QED
          BY <1>2, <2>5, <3>2, <4>1, <4>4, <5>1 DEF Shows, Placed
      <4> QED
        BY <3>2, <4>3, <4>4
    <3> QED
      BY <3>1, <3>2
  <2> QED
    BY <1>1, <2>2, <2>5, <2>6, <2>7 DEF InStep
<1> QED
  BY <1>4, <1>5 DEF GuestsInStep

\* The host does nothing and the guest sees, with the batch on its way, what it saw.
LEMMA KeptInStep ==
  ASSUME GuestsInStep, UNCHANGED <<touchSlots, lastSlot, owner, mixed>>, NEW c \in 1 .. Len(clients), clients[c].intact,
         View(c)'.slot = View(c).slot,
         \A s \in Slots : View(c)'.track[s] = View(c).track[s] /\ View(c)'.pos[s] = View(c).pos[s]
  PROVE  InStep(View(c))'
<1>1. InStep(View(c))
  BY DEF GuestsInStep
<1> DEFINE g == View(c)
           h == View(c)'
<1> HIDE DEF g, h
<1>2. h.slot = g.slot /\ \A s \in Slots : h.track[s] = g.track[s] /\ h.pos[s] = g.pos[s]
  BY DEF g, h
<1>3. InStep(g)
  BY <1>1 DEF g
<1>4. InStep(h)
  BY <1>2, <1>3 DEF InStep, Shows, Placed
<1> QED
  BY <1>4 DEF InStep, Shows, Placed, AllFree, h
\* The three operations on a contact.
LEMMA ContactInStep ==
  ASSUME GuestInv, NEW c \in Contacts, Down(c) \/ Up(c) \/ Motion(c)
  PROVE  GuestsInStep' /\ BatchCurrent' /\ UntoldBlank' /\ OwnersNamed'
<1> USE DEF GuestInv
<1>1. /\ c[2] \in Ids /\ TrackingId(c[2]) \in Tracks /\ c[2] # Free /\ -1 \in Tracks /\ Free # None
      /\ c \in Positions /\ c # NoContact /\ NoContact \in Positions
  <2>1. c[2] \in Ids /\ TrackingId(c[2]) \in Tracks
    BY ContactIds, TrackingIds
  <2>2. -1 \in Tracks /\ Free # None
    BY TouchAssumption DEF Free, None, Tracks
  <2>3. c # NoContact
    BY DEF NoContact, Contacts
  <2> QED
    BY <2>1, <2>2, <2>3, SlotsFacts DEF Free, Positions
<1>2. out = NoBatch /\ UNCHANGED clients
  BY DownIs, UpIs, MotionIs
<1>3. UntoldBlank'
  BY <1>2 DEF UntoldBlank, Undecoded
<1>4. CASE UNCHANGED <<out, n, lastSlot, touchSlots, owner, mixed>>
  BY <1>2, <1>3, <1>4 DEF GuestsInStep, BatchCurrent, InStep, Shows, Placed, View, AllFree, OwnersNamed
<1>5. ASSUME Down(c), NEW s \in Slots, touchSlots[s] = Free, \A r \in Slots : touchSlots[r] = Free => s <= r,
             touchSlots' = [touchSlots EXCEPT ![s] = c[2]],
             owner' = [owner EXCEPT ![s] = c], mixed' = mixed \ {s}, push_slot(s, TrackingId(c[2]), c)
      PROVE  GuestsInStep' /\ BatchCurrent' /\ OwnersNamed'
  <2>1. AllFree => s = 0
    <3> SUFFICES ASSUME AllFree PROVE s = 0
      OBVIOUS
    <3>1. s <= 0 /\ s \in Nat
      BY <1>5, SlotsFacts DEF AllFree
    <3> QED
      BY <3>1
  <2>2. owner'[s] = c /\ \A x \in Slots : x # s => owner'[x] = owner[x] /\ (x \in mixed' <=> x \in mixed)
    BY <1>5 DEF TypeOK
  <2>3. touchSlots'[s] = c[2] /\ \A x \in Slots : x # s => touchSlots'[x] = touchSlots[x]
    BY <1>5 DEF TypeOK
  <2>4. OwnersNamed'
    BY <2>2, <2>3 DEF OwnersNamed
  <2> QED
    BY <1>1, <1>2, <1>5, <2>1, <2>2, <2>4, PushInStep
<1>6. ASSUME Up(c), NEW s \in Slots, touchSlots[s] = c[2], touchSlots' = [touchSlots EXCEPT ![s] = Free],
             push_slot(s, -1, NoContact)
      PROVE  GuestsInStep' /\ BatchCurrent' /\ OwnersNamed'
  <2>1. ~AllFree
    BY <1>1, <1>6 DEF AllFree
  <2>2. UNCHANGED <<owner, mixed>>
    BY <1>6, UpIs
  <2>3. touchSlots'[s] = Free /\ \A x \in Slots : x # s => touchSlots'[x] = touchSlots[x]
    BY <1>6 DEF TypeOK
  <2>4. OwnersNamed'
    BY <2>2, <2>3 DEF OwnersNamed
  <2> QED
    BY <1>1, <1>2, <1>6, <2>1, <2>2, <2>4, PushInStep
<1>7. ASSUME Motion(c), NEW s \in Slots, touchSlots[s] = c[2], push_slot(s, None, c),
             mixed' = IF owner[s] = c THEN mixed ELSE mixed \cup {s}
      PROVE  GuestsInStep' /\ BatchCurrent' /\ OwnersNamed'
  <2>1. ~AllFree
    BY <1>1, <1>7 DEF AllFree
  <2>2. touchSlots' = [touchSlots EXCEPT ![s] = c[2]]
    BY <1>7, MotionIs DEF TypeOK
  <2>3. UNCHANGED <<touchSlots, owner>> /\ \A x \in Slots : x # s => (x \in mixed' <=> x \in mixed)
    BY <1>7, MotionIs
  <2>4. c = owner'[s] \/ (c[2] = 0 /\ s \in mixed')
    <3> SUFFICES ASSUME c # owner[s] PROVE c[2] = 0
      BY <1>7, <2>3
    <3>1. owner[s] \in Contacts /\ owner[s][2] = c[2]
      BY <1>1, <1>7 DEF OwnersNamed
    <3> QED
      BY <3>1 DEF Contacts
  <2>5. OwnersNamed'
    BY <2>3 DEF OwnersNamed
  <2> QED
    BY <1>1, <1>2, <1>7, <2>1, <2>2, <2>3, <2>4, <2>5, PushInStep
<1>8. GuestsInStep' /\ BatchCurrent' /\ OwnersNamed'
  <2>1. CASE Down(c)
    BY <1>4, <1>5, <2>1, DownIs
  <2>2. CASE Up(c)
    BY <1>4, <1>6, <2>2, UpIs
  <2>3. CASE Motion(c)
    BY <1>4, <1>7, <2>3, MotionIs
  <2> QED
    BY <2>1, <2>2, <2>3
<1> QED
  BY <1>3, <1>8

\* A guest that connects decodes nothing, also when a batch is on its way: with all
\* slots free that batch takes the last finger off.
LEMMA AddInStep ==
  ASSUME GuestInv, AddClient
  PROVE  GuestsInStep' /\ UntoldBlank'
<1> USE DEF GuestInv
<1>1. PICK g \in Clients :
        /\ clients' = Append(clients, g)
        /\ ~g.told /\ (g.intact <=> AllFree) /\ Undecoded(g)
  BY AddIs
<1>2. UNCHANGED <<touchSlots, lastSlot, owner, mixed, out, n>>
  BY DEF AddClient, hostVars, ownerVars
<1>0. PICK d : d = Len(clients) + 1
  OBVIOUS
<1>3. /\ Len(clients) \in Nat /\ Len(clients') = d /\ clients'[d] = g
      /\ \A c \in 1 .. Len(clients) : clients'[c] = clients[c]
  BY <1>0, <1>1, ClientAdded DEF TypeOK
<1>4. \A c \in 1 .. Len(clients') : c \in 1 .. Len(clients) \/ c = d
  BY <1>0, <1>3
<1>5. UntoldBlank'
  BY <1>1, <1>3, <1>4 DEF UntoldBlank, Undecoded
<1>6. ASSUME NEW c \in 1 .. Len(clients), clients'[c].intact PROVE InStep(View(c))'
  <2>1. View(c)' = View(c) /\ clients[c].intact
    BY <1>2, <1>3, <1>6 DEF View
  <2> QED
    BY <1>2, <1>6, <2>1, KeptInStep
<1>7. ASSUME g.intact PROVE InStep(View(d))'
  <2>1. AllFree /\ g.slot = 0 /\ \A s \in Slots : g.track[s] = -1
    BY <1>1, <1>7 DEF Undecoded
  <2>2. View(d)' = g \/ (View(d)' = Decode(g, out) /\ out # NoBatch)
    BY <1>2, <1>3 DEF View
  <2>3. CASE View(d)' = g
    BY <1>2, <2>1, <2>3 DEF InStep, Shows, AllFree
  <2>4. CASE View(d)' = Decode(g, out) /\ out # NoBatch
    <3>1. PICK h : h = Decode(g, out)
      OBVIOUS
    <3>2. out \in Batches /\ out.track = -1 /\ out.slot \in {None, lastSlot}
      BY <2>1, <2>4 DEF TypeOK, BatchCurrent, AllFree
    <3>3. h.slot = 0 \/ h.slot = lastSlot
      BY <2>1, <3>1, <3>2, DecodeIs DEF Target
    <3>4. \A s \in Slots : h.track[s] = -1
      BY <2>1, <3>1, <3>2, DecodeIs
    <3> QED
      BY <1>2, <2>1, <2>4, <3>1, <3>3, <3>4 DEF InStep, Shows, AllFree
  <2> QED
    BY <2>2, <2>3, <2>4
<1>8. GuestsInStep'
  <2> SUFFICES ASSUME NEW c \in 1 .. Len(clients'), clients'[c].intact PROVE InStep(View(c))'
    BY DEF GuestsInStep
  <2>1. CASE c \in 1 .. Len(clients)
    BY <1>6, <2>1
  <2>2. CASE c = d
    <3>1. g.intact
      BY <1>3, <2>2
    <3> QED
      BY <1>7, <2>2, <3>1
  <2> QED
    BY <1>4, <2>1, <2>2
<1> QED
  BY <1>5, <1>8

\* The description of the device changes nothing of what a guest has decoded, which
\* is nothing.
LEMMA InfoInStep ==
  ASSUME GuestInv, SendInfo
  PROVE  GuestsInStep' /\ UntoldBlank'
<1> USE DEF GuestInv
<1>1. PICK c \in 1 .. Len(clients), g \in Clients :
        /\ clients' = [clients EXCEPT ![c] = g]
        /\ ~clients[c].told /\ g.told /\ (g.intact => clients[c].intact) /\ Undecoded(g)
  BY InfoIs
<1>2. UNCHANGED <<touchSlots, lastSlot, owner, mixed, out, n>>
  BY DEF SendInfo, hostVars, ownerVars
<1>3. /\ Len(clients') = Len(clients) /\ clients'[c] = g
      /\ \A d \in 1 .. Len(clients) : d # c => clients'[d] = clients[d]
  BY <1>1, ClientSet DEF TypeOK
<1>4. UntoldBlank'
  BY <1>1, <1>3 DEF UntoldBlank, Undecoded
<1>5. ASSUME NEW d \in 1 .. Len(clients), d # c, clients'[d].intact PROVE InStep(View(d))'
  <2>1. View(d)' = View(d) /\ clients[d].intact
    BY <1>2, <1>3, <1>5 DEF View
  <2> QED
    BY <1>2, <1>5, <2>1, KeptInStep
<1>6. ASSUME g.intact PROVE InStep(View(c))'
  <2>1. PICK k \in Clients : k = clients[c]
    BY <1>1, ClientType
  <2>2. /\ Undecoded(k) /\ Undecoded(g) /\ k.intact
    BY <1>1, <1>6, <2>1 DEF UntoldBlank
  <2>3. k.slot = g.slot /\ \A s \in Slots : k.track[s] = g.track[s] /\ k.pos[s] = g.pos[s]
    BY <2>2 DEF Undecoded
  <2>4. CASE out = NoBatch \/ n >= c
    <3>1. View(c) = k /\ View(c)' = g
      BY <1>2, <1>3, <2>1, <2>4 DEF View
    <3> QED
      BY <1>2, <2>1, <2>2, <2>3, <3>1, KeptInStep
  <2>5. CASE ~(out = NoBatch \/ n >= c)
    <3>1. View(c) = Decode(k, out) /\ View(c)' = Decode(g, out)
      BY <1>2, <1>3, <2>1, <2>5 DEF View
    <3>2. out \in Batches
      BY DEF TypeOK
    <3>3. PICK hk, hg : hk = Decode(k, out) /\ hg = Decode(g, out)
      OBVIOUS
    <3>4. PICK t \in Slots : t = Target(k, out) /\ t = Target(g, out)
      BY <2>3, <3>2, DecodeIs DEF Target
    <3>5. /\ hk.slot = t /\ hg.slot = t
          /\ \A s \in Slots : s # t => /\ hk.track[s] = k.track[s] /\ hk.pos[s] = k.pos[s]
                                       /\ hg.track[s] = g.track[s] /\ hg.pos[s] = g.pos[s]
          /\ hk.track[t] = hg.track[t] /\ hk.pos[t] = hg.pos[t]
      <4>1. /\ hk.slot = t /\ \A s \in Slots : s # t => hk.track[s] = k.track[s] /\ hk.pos[s] = k.pos[s]
            /\ hk.track[t] = (IF out.track = None THEN k.track[t] ELSE out.track)
            /\ hk.pos[t] = (IF out.pos = NoContact THEN k.pos[t] ELSE out.pos)
        <5>1. hk = Decode(k, out) /\ t = Target(k, out) /\ k \in Clients
          BY <3>3, <3>4
        <5> QED
          BY <3>2, <5>1, DecodeIs
      <4>2. /\ hg.slot = t /\ \A s \in Slots : s # t => hg.track[s] = g.track[s] /\ hg.pos[s] = g.pos[s]
            /\ hg.track[t] = (IF out.track = None THEN g.track[t] ELSE out.track)
            /\ hg.pos[t] = (IF out.pos = NoContact THEN g.pos[t] ELSE out.pos)
        BY <3>2, <3>3, <3>4, DecodeIs
      <4> QED
        BY <2>3, <4>1, <4>2
    <3>6. hk.slot = hg.slot /\ \A s \in Slots : hk.track[s] = hg.track[s] /\ hk.pos[s] = hg.pos[s]
      BY <2>3, <3>5
    <3> QED
      BY <1>2, <2>1, <2>2, <3>1, <3>3, <3>6, KeptInStep
  <2> QED
    BY <2>4, <2>5
<1> QED
  BY <1>3, <1>4, <1>5, <1>6 DEF GuestsInStep

\* A guest that goes loses its stream; nobody else is affected.
LEMMA ClosesInStep ==
  ASSUME GuestInv, ClientCloses
  PROVE  GuestsInStep' /\ UntoldBlank'
<1> USE DEF GuestInv
<1>1. PICK c \in 1 .. Len(clients), g \in Clients :
        clients' = [clients EXCEPT ![c] = g] /\ ~g.intact /\ Undecoded(g)
  BY ClosesIs
<1>2. UNCHANGED <<touchSlots, lastSlot, owner, mixed, out, n>>
  BY DEF ClientCloses, hostVars, ownerVars
<1>3. /\ Len(clients') = Len(clients) /\ clients'[c] = g
      /\ \A d \in 1 .. Len(clients) : d # c => clients'[d] = clients[d]
  BY <1>1, ClientSet DEF TypeOK
<1>4. UntoldBlank'
  BY <1>1, <1>3 DEF UntoldBlank, Undecoded
<1>5. ASSUME NEW d \in 1 .. Len(clients), clients'[d].intact PROVE InStep(View(d))'
  <2>1. View(d)' = View(d) /\ clients[d].intact
    BY <1>1, <1>2, <1>3, <1>5 DEF View
  <2> QED
    BY <1>2, <1>5, <2>1, KeptInStep
<1> QED
  BY <1>3, <1>4, <1>5 DEF GuestsInStep

\* One round of the loop: the connection has now got what it was to get.
LEMMA SendInStep ==
  ASSUME GuestInv, SendNext
  PROVE  GuestsInStep' /\ UntoldBlank'
<1> USE DEF GuestInv
<1>1. PICK c \in 1 .. Len(clients) : c = n + 1 /\ n' = n + 1 /\ out # NoBatch
  BY SendIs
<1>2. PICK g \in Clients :
        /\ clients' = [clients EXCEPT ![c] = g]
        /\ \/ clients[c].told /\ g = Decode(clients[c], out)
           \/ ~g.intact /\ Undecoded(g)
  BY <1>1, SendIs
<1>3. UNCHANGED <<touchSlots, lastSlot, owner, mixed, out>>
  BY DEF SendNext, hostVars, ownerVars
<1>4. /\ Len(clients') = Len(clients) /\ clients'[c] = g
      /\ \A d \in 1 .. Len(clients) : d # c => clients'[d] = clients[d]
  BY <1>2, ClientSet DEF TypeOK
<1>5. clients[c] \in Clients /\ out \in Batches
  BY ClientType DEF TypeOK
<1>6. g.told \/ Undecoded(g)
  <2>1. CASE clients[c].told /\ g = Decode(clients[c], out)
    BY <1>5, <2>1, DecodeIs
  <2> QED
    BY <1>2, <2>1
<1>7. UntoldBlank'
  BY <1>4, <1>6 DEF UntoldBlank, Undecoded
<1>8. ASSUME NEW d \in 1 .. Len(clients), clients'[d].intact PROVE InStep(View(d))'
  <2>1. n \in Nat /\ d \in Nat
    BY Numbers
  <2>2. CASE d = c
    <3>1. clients[c].intact /\ g = Decode(clients[c], out)
      BY <1>2, <1>4, <1>5, <1>8, <2>2, DecodeIs
    <3>2. View(d) = g
      BY <1>1, <2>1, <2>2, <3>1 DEF View
    <3>3. View(d)' = g
      BY <1>1, <1>4, <2>1, <2>2 DEF View
    <3> QED
      BY <1>3, <2>2, <3>1, <3>2, <3>3, KeptInStep
  <2>3. CASE d # c
    <3>1. n >= d <=> n' >= d
      BY <1>1, <2>1, <2>3
    <3>2. View(d)' = View(d) /\ clients[d].intact
      BY <1>3, <1>4, <1>8, <2>3, <3>1 DEF View
    <3> QED
      BY <1>3, <1>8, <3>2, KeptInStep
  <2> QED
    BY <2>2, <2>3
<1> QED
  BY <1>4, <1>7, <1>8 DEF GuestsInStep

LEMMA StepGuests == GuestInv /\ [Next]_vars => GuestInv'
<1> SUFFICES ASSUME GuestInv, [Next]_vars PROVE BatchCurrent' /\ GuestsInStep' /\ UntoldBlank' /\ OwnersNamed'
  BY StepType DEF GuestInv
<1>1. CASE \E c \in Contacts : Down(c) \/ Up(c) \/ Motion(c)
  BY <1>1, ContactInStep
<1>2. CASE AddClient \/ SendInfo \/ ClientCloses \/ SendNext
  <2>1. UNCHANGED <<touchSlots, lastSlot, owner, out>>
    BY <1>2 DEF AddClient, SendInfo, ClientCloses, SendNext, hostVars, ownerVars
  <2>2. BatchCurrent' /\ OwnersNamed'
    BY <2>1 DEF GuestInv, BatchCurrent, OwnersNamed
  <2> QED
    BY <1>2, <2>2, AddInStep, InfoInStep, ClosesInStep, SendInStep
<1>3. CASE InitInput
  <2>1. out' = NoBatch /\ clients' = << >> /\ \A s \in Slots : touchSlots'[s] = Free
    BY <1>3 DEF InitInput
  <2> QED
    BY <2>1 DEF BatchCurrent, GuestsInStep, UntoldBlank, OwnersNamed
<1>4. CASE SendDone
  <2>1. out' = NoBatch /\ UNCHANGED <<touchSlots, lastSlot, owner, mixed, clients>> /\ n >= Len(clients)
    BY <1>4 DEF SendDone, hostVars, ownerVars
  <2>2. BatchCurrent' /\ UntoldBlank' /\ OwnersNamed'
    BY <2>1 DEF BatchCurrent, UntoldBlank, Undecoded, OwnersNamed, GuestInv
  <2>3. ASSUME NEW c \in 1 .. Len(clients), clients[c].intact PROVE InStep(View(c))'
    <3>1. n >= c
      BY <2>1, <2>3, Numbers DEF GuestInv
    <3>2. View(c) = clients[c] /\ View(c)' = clients[c]
      BY <2>1, <3>1 DEF View
    <3> QED
      BY <2>1, <2>3, <3>2, KeptInStep DEF GuestInv
  <2> QED
    BY <2>1, <2>2, <2>3 DEF GuestsInStep
<1>5. CASE Cancel \/ SendFails \/ UNCHANGED vars
  <2>1. UNCHANGED <<touchSlots, lastSlot, owner, mixed, out, n, clients>>
    BY <1>5 DEF Cancel, SendFails, hostVars, ownerVars, vars
  <2>2. BatchCurrent' /\ UntoldBlank' /\ OwnersNamed'
    BY <2>1 DEF GuestInv, BatchCurrent, UntoldBlank, Undecoded, OwnersNamed
  <2>3. GuestsInStep'
    BY <2>1 DEF GuestInv, GuestsInStep, InStep, Shows, Placed, View, AllFree
  <2> QED
    BY <2>2, <2>3
<1> QED
  BY <1>1, <1>2, <1>3, <1>4, <1>5 DEF Next, SendStep

LEMMA InitGuests == Init => GuestInv
<1> SUFFICES ASSUME Init PROVE BatchCurrent /\ GuestsInStep /\ UntoldBlank /\ OwnersNamed
  BY InitType DEF GuestInv
<1> QED
  BY DEF Init, BatchCurrent, GuestsInStep, UntoldBlank, OwnersNamed

LEMMA InStepSees == GuestInv => GuestSeesFingers
<1> SUFFICES ASSUME GuestInv, NEW c \in 1 .. Len(clients), clients[c].intact, out = NoBatch \/ n >= c,
                    NEW s \in Slots
             PROVE  Shows(clients[c], s)
  BY DEF GuestSeesFingers, Shows, Placed
<1>1. View(c) = clients[c]
  BY DEF View
<1> QED
  BY <1>1 DEF GuestInv, GuestsInStep, InStep

\* A guest whose stream is intact, and began while no finger held a slot, sees each
\* slot as the host does: sending the slot only when it differs from last_slot
\* (AnboxInput::push_slot) is safe although last_slot is one for all guests, outlives
\* init, and a new guest does not know it.
THEOREM GuestAlwaysSeesFingers == Spec => []GuestSeesFingers
BY InitGuests, StepGuests, InStepSees, PTL DEF Spec
--------------------------------------------------------------------------------
(* Guests of devices that init has replaced. *)

LEMMA StepReplaced ==
  TypeOK /\ SlotsBounded /\ GuestInv /\ ReplacedShowNone /\ [Next]_vars => ReplacedShowNone'
<1> SUFFICES ASSUME TypeOK, SlotsBounded, GuestInv, ReplacedShowNone, [Next]_vars PROVE ReplacedShowNone'
  OBVIOUS
<1>1. CASE InitInput
  <2> SUFFICES ASSUME ~cancelled', NEW t \in replaced', NEW s \in Slots PROVE t[s] = -1
    BY DEF ReplacedShowNone
  <2>1. down = {} /\ ~cancelled /\ out = NoBatch
    BY <1>1 DEF InitInput
  <2>2. AllFree
    BY <2>1, BoundedConsistent DEF SlotsConsistent, NoStuckSlot, AllFree
  <2>3. CASE t \in replaced
    BY <2>1, <2>3 DEF ReplacedShowNone
  <2>4. ASSUME NEW c \in 1 .. Len(clients), clients[c].intact, t = clients[c].track PROVE t[s] = -1
    <3>1. View(c) = clients[c]
      BY <2>1 DEF View
    <3>2. Shows(clients[c], s)
      BY <2>4, <3>1 DEF GuestInv, GuestsInStep, InStep
    <3> QED
      BY <2>2, <2>4, <3>2 DEF Shows, AllFree
  <2> QED
    BY <1>1, <2>3, <2>4 DEF InitInput
<1>2. CASE ~InitInput
  <2>1. replaced' = replaced /\ (cancelled => cancelled')
    <3>1. CASE \E c \in Contacts : Down(c) \/ Up(c) \/ Motion(c)
      BY <3>1 DEF Down, Up, Motion
    <3>2. CASE Cancel
      BY <3>2 DEF Cancel
    <3>3. CASE AddClient \/ SendInfo \/ ClientCloses \/ SendStep \/ UNCHANGED vars
      <4>1. UNCHANGED <<replaced, cancelled>>
        BY <3>3 DEF AddClient, SendInfo, ClientCloses, SendStep, SendNext, SendFails, SendDone, hostVars, vars
      <4> QED
        BY <4>1
    <3> QED
      BY <1>2, <3>1, <3>2, <3>3 DEF Next
  <2> QED
    BY <2>1 DEF ReplacedShowNone
<1> QED
  BY <1>1, <1>2

\* A guest whose device AnboxInput::init has replaced, and whose stream is intact, is
\* left with a finger on its screen only if a contact was cancelled or down at that
\* call: every other finger was taken back before, also when slots ran out.
THEOREM ReplacedAlwaysShowNone == Spec => []ReplacedShowNone
<1>1. Init => TypeOK /\ SlotsBounded /\ GuestInv /\ ReplacedShowNone
  BY InitType, InitBounded, InitGuests DEF Init, ReplacedShowNone
<1> QED
  BY <1>1, StepType, StepBounded, StepGuests, StepReplaced, PTL DEF Spec
================================================================================
