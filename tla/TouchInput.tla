------------------------------ MODULE TouchInput -------------------------------
(***************************************************************************)
(* Touch events on their way to Android: the slots of AnboxInput           *)
(* (fydeos/anbox_input.h, the same code as in platform/sdl/platform.cpp),  *)
(* driven by WaylandTouch and WaylandPointer, and the fan-out of           *)
(* input::Device to the guests connected to it.  All events come from one  *)
(* thread; clients are accepted by a worker of the runtime.                *)
(*                                                                         *)
(* A batch is the slot, tracking id and position of one vector of events;  *)
(* a component that is not part of it is None, or NoContact.  A position   *)
(* is known by the contact that is there.  The guest decodes events as the *)
(* multi-touch protocol says: slot 0 until it is told another one.         *)
(***************************************************************************)
EXTENDS Integers, Sequences, FiniteSets

CONSTANTS Fingers,         \* ids of touch points; the pointer's button has id 0
          MaxFingers,      \* MAX_FINGERS, the number of slots
          MaxTrackingId,   \* MAX_TRACKING_ID
          MaxClients,      \* bound: clients of one device
          MaxInits         \* bound: calls of AnboxInput::init

ASSUME TouchAssumption == /\ Fingers \subseteq Nat
                          /\ MaxFingers \in Nat \ {0} /\ MaxTrackingId \in Nat \ {0}
                          /\ MaxClients \in Nat /\ MaxInits \in Nat

Slots == 0 .. MaxFingers - 1
Contacts == ({"touch"} \X Fingers) \cup {<<"pointer", 0>>}
Ids == Fingers \cup {0}
None == -2
Free == -1
Tracks == -1 .. MaxTrackingId
NoContact == <<"none", 0>>
Positions == Contacts \cup {NoContact}
Batches == [slot : Slots \cup {None}, track : Tracks \cup {None}, pos : Positions]
NoBatch == [slot |-> None, track |-> None, pos |-> NoContact]

VARIABLES
  touchSlots,  \* touch_slots
  lastSlot,    \* last_slot
  inits,       \* calls of init
  down,        \* contacts that are down
  dropped,     \* a contact found no free slot
  cancelled,   \* the compositor cancelled contacts, or init forgot them
  owner,       \* the contact that took each slot
  mixed,       \* slots that another contact has moved since
  out, n,      \* the batch that send_events is sending, and to which connection next
  clients,     \* connections_, by id
  replaced,    \* tracking ids that intact guests of replaced devices still show
  accepting,   \* an accept is pending
  crashed      \* an exception left the thread

ownerVars == <<owner, mixed>>
hostVars == <<touchSlots, lastSlot, inits, down, dropped, cancelled, ownerVars, replaced>>
vars == <<hostVars, out, n, clients, accepting, crashed>>

\* A client: whether its device information was sent, whether its stream is intact
\* and began while no finger held a slot, whether it reads, and what it has decoded.
Clients == [told : BOOLEAN, intact : BOOLEAN, open : BOOLEAN,
            slot : Slots, track : [Slots -> Tracks], pos : [Slots -> Positions]]

TypeOK == /\ touchSlots \in [Slots -> Ids \cup {Free}] /\ lastSlot \in Slots \cup {-1}
          /\ inits \in 0 .. MaxInits
          /\ down \subseteq Contacts /\ dropped \in BOOLEAN /\ cancelled \in BOOLEAN
          /\ owner \in [Slots -> Positions] /\ mixed \subseteq Slots
          /\ replaced \subseteq [Slots -> Tracks]
          /\ out \in Batches /\ n \in 0 .. MaxClients
          /\ clients \in Seq(Clients) /\ Len(clients) <= MaxClients
          /\ accepting \in BOOLEAN /\ crashed \in BOOLEAN

Init == /\ touchSlots = [s \in Slots |-> Free] /\ lastSlot = -1 /\ inits = 0
        /\ down = {} /\ dropped = FALSE /\ cancelled = FALSE
        /\ owner = [s \in Slots |-> NoContact] /\ mixed = {} /\ replaced = {}
        /\ out = NoBatch /\ n = 0 /\ clients = <<>> /\ accepting = TRUE /\ crashed = FALSE
--------------------------------------------------------------------------------
(* The slots.  Every operation builds a batch and hands it to send_events. *)

Lowest(S) == CHOOSE s \in S : \A r \in S : s <= r
TrackingId(id) == (id % MaxTrackingId) + 1
Holding(id) == {s \in Slots : touchSlots[s] = id}

\* find_touch_slot
find_touch_slot(id) == IF Holding(id) = {} THEN -1 ELSE Lowest(Holding(id))

\* Fault: the event is built, the slot is not remembered.
push_slot_forgets(s, t, p) ==
  /\ out' = [slot |-> IF lastSlot # s THEN s ELSE None, track |-> t, pos |-> p]
  /\ n' = 0
  /\ lastSlot' = IF lastSlot = -1 THEN s ELSE lastSlot

\* push_slot, with the rest of the batch.
push_slot(s, t, p) ==
  /\ out' = [slot |-> IF lastSlot # s THEN s ELSE None, track |-> t, pos |-> p]
  /\ n' = 0
  /\ lastSlot' = s

NothingToSend == UNCHANGED <<out, n, lastSlot>>
Idle == ~crashed /\ out = NoBatch /\ inits > 0

\* The operations get the id of a contact, c[2], and its position.
push_finger_down(c) ==
  LET s == find_touch_slot(Free) IN
  IF s = -1
  THEN dropped' = TRUE /\ NothingToSend /\ UNCHANGED <<touchSlots, ownerVars>>
  ELSE /\ touchSlots' = [touchSlots EXCEPT ![s] = c[2]]
       /\ owner' = [owner EXCEPT ![s] = c] /\ mixed' = mixed \ {s}
       /\ push_slot(s, TrackingId(c[2]), c)
       /\ UNCHANGED dropped

\* Fault: the slot is not given back.
push_finger_up_keeps_slot(c) ==
  LET s == find_touch_slot(c[2]) IN
  IF s = -1 THEN NothingToSend /\ UNCHANGED touchSlots
  ELSE push_slot(s, -1, NoContact) /\ UNCHANGED touchSlots

\* Fault: the tracking id is not taken back.
push_finger_up_silent(c) ==
  LET s == find_touch_slot(c[2]) IN
  IF s = -1
  THEN NothingToSend /\ UNCHANGED touchSlots
  ELSE /\ touchSlots' = [touchSlots EXCEPT ![s] = Free]
       /\ push_slot(s, None, NoContact)

push_finger_up(c) ==
  LET s == find_touch_slot(c[2]) IN
  IF s = -1
  THEN NothingToSend /\ UNCHANGED touchSlots
  ELSE /\ touchSlots' = [touchSlots EXCEPT ![s] = Free]
       /\ push_slot(s, -1, NoContact)

push_finger_motion(c) ==
  LET s == find_touch_slot(c[2]) IN
  IF s = -1
  THEN NothingToSend /\ UNCHANGED mixed
  ELSE /\ push_slot(s, None, c)
       /\ mixed' = IF owner[s] = c THEN mixed ELSE mixed \cup {s}

\* WaylandTouch::Down, and WaylandPointer::Button pressed.
Down(c) ==
  /\ Idle /\ c \notin down
  /\ down' = down \cup {c}
  /\ push_finger_down(c)
  /\ UNCHANGED <<inits, cancelled, replaced, clients, accepting, crashed>>

Up(c) ==
  /\ Idle /\ c \in down
  /\ down' = down \ {c}
  /\ push_finger_up(c)
  /\ UNCHANGED <<inits, dropped, cancelled, ownerVars, replaced, clients, accepting, crashed>>

\* A pointer moves whether or not its button is pressed, and then moves the slot of
\* touch point 0, which has its id (wayland_pointer.cc:62).
Motion(c) ==
  /\ Idle /\ (c[1] = "touch" => c \in down)
  /\ push_finger_motion(c)
  /\ UNCHANGED <<touchSlots, inits, down, dropped, cancelled, owner, replaced, clients, accepting, crashed>>

\* WaylandTouch::Cancel leaves the slots as they are.
Cancel ==
  /\ Idle /\ \E c \in down : c[1] = "touch"
  /\ down' = {c \in down : c[1] # "touch"}
  /\ cancelled' = TRUE
  /\ UNCHANGED <<touchSlots, lastSlot, inits, dropped, ownerVars, replaced, out, n, clients, accepting, crashed>>

\* init, called for every workspace_info event, makes new devices, which nobody is
\* connected to, and clears the slots; last_slot keeps its value.  The manager keeps
\* the old devices, whose guests stay connected and get no event any more.
InitInput ==
  /\ ~crashed /\ out = NoBatch /\ inits < MaxInits
  /\ inits' = inits + 1
  /\ touchSlots' = [s \in Slots |-> Free]
  /\ cancelled' = (cancelled \/ down # {})  \* the fingers that are down are forgotten
  /\ replaced' = replaced \cup
       {clients[c].track : c \in {d \in 1 .. Len(clients) : clients[d].told /\ clients[d].intact}}
  /\ clients' = <<>> /\ accepting' = TRUE
  /\ UNCHANGED <<lastSlot, down, dropped, ownerVars, out, n, crashed>>
--------------------------------------------------------------------------------
(* input::Device. *)

\* What a guest knows that has decoded nothing, or nothing it can rely on.
Blank(told, intact, open) ==
  [told |-> told, intact |-> intact, open |-> open, slot |-> 0,
   track |-> [s \in Slots |-> -1], pos |-> [s \in Slots |-> NoContact]]

\* PublishedSocketConnector::on_new_connection calls Device::new_client, which adds
\* the connection to the table ...
AddClient ==
  /\ ~crashed /\ accepting /\ inits > 0 /\ Len(clients) < MaxClients
  /\ clients' = Append(clients, Blank(FALSE, \A s \in Slots : touchSlots[s] = Free, TRUE))
  /\ accepting' = FALSE
  /\ UNCHANGED <<hostVars, out, n, crashed>>

\* ... and then sends it the device's description, and accepts again.  When that send
\* throws, the worker goes on and nobody accepts any more.
SendInfo ==
  /\ ~crashed
  /\ \E c \in 1 .. Len(clients), whole \in BOOLEAN :
       /\ ~clients[c].told /\ clients[c].open
       /\ clients' = [clients EXCEPT ![c] = Blank(TRUE, whole /\ @.intact, TRUE)]
  /\ accepting' = TRUE
  /\ UNCHANGED <<hostVars, out, n, crashed>>

\* How a guest decodes a batch.
Decode(g, b) ==
  LET s == IF b.slot = None THEN g.slot ELSE b.slot IN
  [g EXCEPT !.slot = s,
            !.track[s] = IF b.track = None THEN @ ELSE b.track,
            !.pos[s] = IF b.pos = NoContact THEN @ ELSE b.pos]

\* One round of the loop of send_events: BaseSocketMessenger::send repeats the whole
\* message after a short write, which changes nothing when the write ended between
\* two events and otherwise shifts all that follows.  Events that a client gets
\* before its description are taken for it.
SendNext ==
  /\ ~crashed /\ out # NoBatch /\ n < Len(clients) /\ clients[n + 1].open
  /\ n' = n + 1
  /\ \E whole \in BOOLEAN :
       clients' = [clients EXCEPT ![n + 1] =
                    IF @.told /\ @.intact /\ whole THEN Decode(@, out) ELSE Blank(@.told, FALSE, TRUE)]
  /\ UNCHANGED <<hostVars, out, accepting, crashed>>

\* A connection whose guest is gone stays in the table, as nobody reads from it: the
\* exception of send leaves the callback and ends the process.
SendFails ==
  /\ ~crashed /\ out # NoBatch /\ n < Len(clients) /\ ~clients[n + 1].open
  /\ crashed' = TRUE
  /\ UNCHANGED <<hostVars, out, n, clients, accepting>>

SendDone ==
  /\ ~crashed /\ out # NoBatch /\ n >= Len(clients)
  /\ out' = NoBatch /\ n' = 0
  /\ UNCHANGED <<hostVars, clients, accepting, crashed>>

ClientCloses ==
  /\ \E c \in 1 .. Len(clients) : clients[c].open /\ clients' = [clients EXCEPT ![c] = Blank(@.told, FALSE, FALSE)]
  /\ UNCHANGED <<hostVars, out, n, accepting, crashed>>
--------------------------------------------------------------------------------
SendStep == SendNext \/ SendFails \/ SendDone

Next == \/ \E c \in Contacts : Down(c) \/ Up(c) \/ Motion(c)
        \/ Cancel \/ InitInput \/ AddClient \/ SendInfo \/ ClientCloses
        \/ SendStep

Spec == Init /\ [][Next]_vars
--------------------------------------------------------------------------------
(* Properties. *)

\* Between events the slots hold exactly the fingers that are down, also when the
\* pointer and a touch point have the same id, unless there were more fingers than
\* slots, or contacts were cancelled or forgotten.
SlotsMatchFingers ==
  ~dropped /\ ~cancelled =>
    \A id \in Ids : Cardinality(Holding(id)) = Cardinality({c \in down : c[2] = id})

\* A slot is never taken by a contact that is not there, unless contacts were
\* cancelled or forgotten: running out of slots leaves nothing stuck.
NoStuckSlot ==
  ~cancelled => (down = {} => \A s \in Slots : touchSlots[s] = Free)

\* The state has its shape (no slot beside the ones there are is taken when they run
\* out), and slots are taken by the fingers that are down and given back by them.
SlotsConsistent == TypeOK /\ SlotsMatchFingers /\ NoStuckSlot

\* A guest that connected while no finger held a slot, and whose stream is intact, sees
\* each slot as the host does: sending the slot only when it changes is safe although
\* last_slot is one for all guests, outlives init, and a new guest does not know it
\* (the first finger always takes slot 0).  The position is that of the contact that
\* took the slot, except for id 0: there the pointer, pressed or not, and touch point
\* 0 may have moved each other's slot.
GuestSeesFingers ==
  \A c \in 1 .. Len(clients) :
    LET g == clients[c] IN
    g.told /\ g.intact /\ (out = NoBatch \/ n >= c) =>
      \A s \in Slots :
        IF touchSlots[s] = Free THEN g.track[s] = -1
        ELSE /\ g.track[s] = TrackingId(touchSlots[s])
             /\ g.pos[s] = owner[s] \/ (touchSlots[s] = 0 /\ s \in mixed)

\* A guest of a device that init has replaced hears of no finger any more, so one that
\* it shows stays on its screen: with an intact stream it shows none, unless contacts
\* were cancelled or down when init came, also when there were more fingers than slots.
ReplacedShowNone == ~cancelled => \A track \in replaced : \A s \in Slots : track[s] = -1
================================================================================
