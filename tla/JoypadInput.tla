----------------------------- MODULE JoypadInput -----------------------------
(***************************************************************************)
(* The input thread of the emulators: up to two identical controllers,     *)
(* told apart by the USB port they hang on, and a raw keyboard for player  *)
(* one.  Controllers come and go, are given other event numbers, and lose  *)
(* events when the thread is slow.                                         *)
(*                                                                         *)
(* A controller has one button, which stands for all its buttons; its axes *)
(* are read alike, but nothing takes their events back.  The keyboard has  *)
(* keys that all mean this button.  A file descriptor is the device it was *)
(* opened on, which outlives its path.                                     *)
(***************************************************************************)
EXTENDS Integers, FiniteSets, SequencesExt

CONSTANTS
  Ports,        \* physical paths, in their order
  Paths,        \* event numbers
  Devices,      \* controllers in the order they are plugged in, 1 .. n
  BufferSize,   \* events the kernel keeps for a reader
  BatchSize,    \* events returned by one read, 32 in the code
  Keys,
  JoypadScenarios     \* bounds: how often controllers are plugged in, buttons
                \* change and keys change, all three together

Players == {1, 2}
None == 0

ASSUME JoypadAssumption ==
  /\ Ports \subseteq Nat \ {None} /\ Paths \subseteq Nat \ {None}
  /\ Devices \subseteq Nat \ {None}
  /\ BufferSize \in Nat /\ BufferSize >= 3 /\ BatchSize \in Nat \ {0}
  /\ JoypadScenarios \subseteq [plugs : Nat, presses : Nat, strokes : Nat]

VARIABLES
  devices,        \* the controllers as the kernel sees them
  unread,         \* the events kept for a device that is open
  slots,          \* gamepads[]
  candidates,     \* devices opened by scan_gamepads and not yet attached
  thread,         \* where the input thread is
  ready,          \* descriptors that poll has reported and are still to drain
  events,         \* events returned by read and not yet looked at
  held, typed,    \* the keys held down, and what the terminal has queued
  keyboard_open, keyboard_key_state, keyboard_state,
  pad_state,      \* what GetJoypadInput returns
  input_running,
  stale,          \* history: the controllers whose last event EVIOCGKEY has taken
                  \* while an older one was in the batch
  budget          \* what is left of the scenario

keyboard == <<held, typed, keyboard_open, keyboard_key_state, keyboard_state>>
world == <<devices, budget>>
reports == <<unread, stale>>
joypad_vars == <<world, reports, slots, candidates, thread, ready, events,
                 keyboard, pad_state, input_running>>

Keyboard == 0      \* the keyboard's descriptor among Players

Alive == {d \in Devices : devices[d].alive}
Open(slot) == slot.fd # None
Empty == [fd |-> None, path |-> None, port |-> None, raw |-> FALSE,
          state |-> FALSE, dropping |-> FALSE]

----------------------------------------------------------------------------
(* The kernel and the hands. *)

\* An event that does not fit replaces all the others by SYN_DROPPED.
Push(q, event) ==
  IF Len(q) < BufferSize THEN Append(q, event) ELSE <<"dropped", event>>

SpendStep(what) == budget[what] > 0 /\ budget' = [budget EXCEPT ![what] = @ - 1]

\* EVIOCGKEY takes the events of the button out of what the kernel keeps, and
\* the reports but the first that are empty then (__evdev_flush_queue).
Unkeyed(q) ==
  IF q = <<>> THEN q
  ELSE IF Head(q) = "dropped" THEN <<"dropped", "report">> ELSE <<"report">>
HasKey(q) == \E i \in DOMAIN q : q[i] \in {"up", "down"}

\* The next unused device appears on a free port under the lowest free number.
FreePorts == Ports \ {devices[d].port : d \in Alive}
FreePaths == Paths \ {devices[d].path : d \in Alive}

Plug ==
  \E d \in Devices, port \in FreePorts, path \in FreePaths :
    /\ SpendStep("plugs")
    /\ devices[d].port = None
    /\ \A other \in Devices : other < d => devices[other].port # None
    /\ \A other \in FreePaths : path <= other
    /\ devices' = [devices EXCEPT ![d] = [port |-> port, path |-> path,
                                          alive |-> TRUE, down |-> FALSE]]
    /\ UNCHANGED <<reports, slots, candidates, thread, ready, events, keyboard,
                   pad_state, input_running>>

Unplug ==
  \E d \in Alive :
    /\ devices' = [devices EXCEPT ![d].alive = FALSE, ![d].down = FALSE]
    /\ unread' = [unread EXCEPT ![d] = <<>>]      \* nobody can read it any more
    /\ UNCHANGED <<slots, candidates, thread, ready, events, keyboard,
                   pad_state, input_running, budget, stale>>

IsOpen(d) == d \in candidates \/ \E p \in Players : slots[p].fd = d

Press ==
  \E d \in Alive :
    /\ SpendStep("presses")
    /\ devices' = [devices EXCEPT ![d].down = ~@]
    /\ unread' = IF IsOpen(d)
                THEN [unread EXCEPT ![d] = Push(Push(@, IF devices[d].down
                                                       THEN "up" ELSE "down"),
                                               "report")]
                ELSE unread
    /\ stale' = stale \ {d}
    /\ UNCHANGED <<slots, candidates, thread, ready, events, keyboard,
                   pad_state, input_running>>

Stroke ==
  \E key \in Keys :
    /\ SpendStep("strokes")
    /\ held' = IF key \in held THEN held \ {key} ELSE held \cup {key}
    /\ typed' = IF keyboard_open
                THEN Append(typed, [key |-> key, pressed |-> key \notin held])
                ELSE typed
    /\ UNCHANGED <<devices, reports, slots, candidates, thread, ready, events,
                   keyboard_open, keyboard_key_state, keyboard_state,
                   pad_state, input_running>>

Environment == Plug \/ Unplug \/ Press \/ Stroke

----------------------------------------------------------------------------
(* Discovery. *)

\* publish_states
PublishedStates(pads, keyboard_button) ==
  [p \in Players |-> pads[p].state \/ (p = 1 /\ keyboard_button)]

\* The state a controller reports when asked, FALSE when it has gone.
Resynchronized(d) == devices[d].alive /\ devices[d].down

\* attach_candidate; a device that has gone is found out by the next read.
Attach(pads, p, d) ==
  [pads EXCEPT ![p] = [fd |-> d, path |-> devices[d].path,
                       port |-> devices[d].port, raw |-> Resynchronized(d),
                       state |-> Resynchronized(d), dropping |-> FALSE]]

\* candidate_order
First(ds) ==
  CHOOSE d \in ds : \A other \in ds \ {d} :
    \/ devices[d].port < devices[other].port
    \/ /\ devices[d].port = devices[other].port
       /\ devices[d].path < devices[other].path

Vacant == {p \in Players : ~Open(slots[p])}
Fresh == {p \in Vacant : slots[p].port = None}
OnItsPort(p) == {d \in candidates : devices[d].port = slots[p].port}
Returning == {p \in Vacant \ Fresh : OnItsPort(p) # {}}

\* Mutant: devices that are open already are opened once more.
ScanEverything ==
  /\ thread = "top" /\ input_running
  /\ candidates' = Alive
  /\ unread' = [d \in Devices |-> IF d \in candidates' THEN <<>> ELSE unread[d]]
  /\ thread' = "assign"
  /\ UNCHANGED <<world, slots, ready, events, keyboard, pad_state, input_running,
                 stale>>

\* Opening: every device whose path no slot has open, dead or alive.
Scan ==
  /\ thread = "top" /\ input_running
  /\ candidates' = {d \in Alive : \A p \in Players : slots[p].path # devices[d].path}
  /\ unread' = [d \in Devices |-> IF d \in candidates' THEN <<>> ELSE unread[d]]
  /\ thread' = "assign"
  /\ UNCHANGED <<world, slots, ready, events, keyboard, pad_state, input_running,
                 stale>>

\* attach_candidate publishes; what it attaches is no candidate any more.
Attaches(p, d) ==
  /\ thread = "assign"
  /\ slots' = Attach(slots, p, d)
  /\ pad_state' = PublishedStates(slots', keyboard_state)
  /\ candidates' = candidates \ {d}
  /\ unread' = [unread EXCEPT ![d] = Unkeyed(@)]
  /\ stale' = stale \ {d}
  /\ UNCHANGED <<world, thread, ready, events, keyboard, input_running>>

\* Mutant: a controller on a new port takes over the first slot there is.
TakeOverFirst ==
  /\ Returning = {} /\ Fresh = {} /\ candidates # {}
  /\ Attaches(1, First(candidates))

\* The three loops: first a controller goes back to the slot that remembers
\* its port, then never-used slots are filled in the order of the ports, and
\* at last a controller on another port takes over a disconnected slot.
Return == /\ Returning # {}
          /\ LET p == Min(Returning) IN Attaches(p, First(OnItsPort(p)))

Fill == /\ Returning = {} /\ Fresh # {} /\ candidates # {}
        /\ Attaches(Min(Fresh), First(candidates))

TakeOver == /\ Returning = {} /\ Fresh = {} /\ Vacant # {} /\ candidates # {}
            /\ Attaches(Min(Vacant), First(candidates))

\* What is left over is closed again.
Assigned ==
  /\ thread = "assign"
  /\ candidates = {} \/ Vacant = {}
  /\ candidates' = {}
  /\ thread' = "poll"
  /\ UNCHANGED <<world, reports, slots, ready, events, keyboard, pad_state,
                 input_running>>

----------------------------------------------------------------------------
(* Events. *)

Readable ==
  {p \in Players : Open(slots[p]) /\ (unread[slots[p].fd] # <<>>
                                      \/ ~devices[slots[p].fd].alive)}
  \cup {k \in {Keyboard} : keyboard_open /\ typed # <<>>}

\* poll, straight away when no scan is due; nothing is ready: it times out.
Poll ==
  /\ thread = "poll" \/ (thread = "top" /\ input_running)
  /\ ready' = Readable
  /\ thread' = IF Readable = {} THEN "top" ELSE "drain"
  /\ UNCHANGED <<world, reports, slots, candidates, events, keyboard, pad_state,
                 input_running>>

\* close_gamepad with or without its port being remembered.
Closed(slot, remember) == [Empty EXCEPT !.port = IF remember THEN slot.port ELSE None]

PublishSlot(p, slot) ==
  /\ slots' = [slots EXCEPT ![p] = slot]
  /\ pad_state' = PublishedStates(slots', keyboard_state)

\* The descriptors are drained in the order they were handed to poll.
Drained(p) ==
  /\ ready' = ready \ {p}
  /\ thread' = IF ready = {p} THEN "top" ELSE "drain"

Disconnect(p) ==
  /\ PublishSlot(p, Closed(slots[p], TRUE))
  /\ Drained(p)

\* update_keyboard_key for one stroke after the other: a key is where its last
\* stroke left it, and releasing any key of the button releases the button.
StrokesOf(key) == {i \in DOMAIN typed : typed[i].key = key}
UpdatedKeys ==
  {key \in Keys : IF StrokesOf(key) = {} THEN key \in keyboard_key_state
                  ELSE typed[Max(StrokesOf(key))].pressed}
UpdatedButton == IF typed = <<>> THEN keyboard_state ELSE Last(typed).pressed

DrainKeyboard ==
  /\ thread = "drain" /\ Keyboard \in ready
  /\ Drained(Keyboard)
  /\ \/ /\ keyboard_key_state' = UpdatedKeys
        /\ keyboard_state' = UpdatedButton
        /\ UNCHANGED keyboard_open
     \/ /\ keyboard_open' = FALSE                     \* close_keyboard
        /\ keyboard_key_state' = {} /\ keyboard_state' = FALSE
  /\ typed' = <<>>
  /\ pad_state' = PublishedStates(slots, keyboard_state')
  /\ UNCHANGED <<world, reports, slots, candidates, events, held,
                 input_running>>

Current == Min(ready)

Read ==
  /\ thread = "drain" /\ Keyboard \notin ready
  /\ LET slot == slots[Current]
         q    == unread[slot.fd]
         size == Min({BatchSize, Len(q)})
     IN  CASE ~devices[slot.fd].alive ->
                Disconnect(Current) /\ UNCHANGED <<unread, events>>
           [] devices[slot.fd].alive /\ q = <<>> ->
                Drained(Current) /\ UNCHANGED <<unread, events, slots, pad_state>>
           [] OTHER ->
                /\ events' = SubSeq(q, 1, size)
                /\ unread' = [unread EXCEPT ![slot.fd] = SubSeq(q, size + 1, Len(q))]
                /\ thread' = "batch"
                /\ UNCHANGED <<ready, slots, pad_state>>
  /\ UNCHANGED <<world, candidates, keyboard, input_running, stale>>

\* Mutant: after lost events the reader goes on with the next one.
ApplyWithoutAsking(slot, event) ==
  CASE slot.dropping /\ event = "report" -> [slot EXCEPT !.dropping = FALSE]
    [] ~slot.dropping /\ event = "dropped" -> [slot EXCEPT !.dropping = TRUE]
    [] ~slot.dropping /\ event \in {"up", "down"} ->
         [slot EXCEPT !.raw = (event = "down")]
    [] OTHER -> slot
\* One event of drain_gamepad's loop; while events are being dropped, only a
\* report counts, and then the whole state is asked for.
Apply(slot, event) ==
  CASE slot.dropping /\ event = "report" ->
         [slot EXCEPT !.raw = Resynchronized(slot.fd),
                      !.state = Resynchronized(slot.fd), !.dropping = FALSE]
    [] ~slot.dropping /\ event = "dropped" -> [slot EXCEPT !.dropping = TRUE]
    [] ~slot.dropping /\ event \in {"up", "down"} ->
         [slot EXCEPT !.raw = (event = "down")]
    [] OTHER -> slot

\* What is left of the batch is older than the state that was asked for, and is
\* applied to it all the same.
Asks(slot) == slot.dropping /\ Head(events) = "report"
Event ==
  /\ thread = "batch"
  /\ LET slot  == slots[Current]
         after == Apply(slot, Head(events))
         rest  == Tail(events)
     IN  IF Asks(slot) /\ ~devices[slot.fd].alive
         THEN Disconnect(Current) /\ events' = <<>> /\ UNCHANGED reports
         ELSE /\ events' = rest
              /\ PublishSlot(Current, IF rest = <<>>
                                      THEN [after EXCEPT !.state = after.raw]
                                      ELSE after)
              /\ thread' = IF rest = <<>> THEN "drain" ELSE "batch"
              /\ UNCHANGED ready
              /\ IF Asks(slot)
                 THEN /\ unread' = [unread EXCEPT ![slot.fd] = Unkeyed(@)]
                      /\ stale' = IF HasKey(rest) /\ (slot.fd \in stale
                                                      \/ HasKey(unread[slot.fd]))
                                  THEN stale \cup {slot.fd} ELSE stale \ {slot.fd}
                 ELSE UNCHANGED reports
  /\ UNCHANGED <<world, candidates, keyboard, input_running>>

----------------------------------------------------------------------------
(* input_cleanup, at exit. *)

StopInput ==
  /\ input_running
  /\ input_running' = FALSE
  /\ UNCHANGED <<world, reports, slots, candidates, thread, ready, events,
                 keyboard, pad_state>>

ThreadEnds ==
  /\ thread = "top" /\ ~input_running
  /\ thread' = "ended"
  /\ UNCHANGED <<world, reports, slots, candidates, ready, events, keyboard,
                 pad_state, input_running>>

Cleanup ==
  /\ thread = "ended"
  /\ thread' = "joined"
  /\ slots' = [p \in Players |-> Closed(slots[p], FALSE)]
  /\ keyboard_open' = FALSE /\ typed' = <<>>
  /\ keyboard_key_state' = {} /\ keyboard_state' = FALSE
  /\ pad_state' = [p \in Players |-> FALSE]
  /\ UNCHANGED <<world, reports, candidates, ready, events, held,
                 input_running>>

JoypadInit ==
  /\ devices = [d \in Devices |-> [port |-> None, path |-> None,
                                   alive |-> FALSE, down |-> FALSE]]
  /\ unread = [d \in Devices |-> <<>>]
  /\ slots = [p \in Players |-> Empty]
  /\ candidates = {} /\ ready = {} /\ events = <<>>
  /\ thread = "top" /\ input_running = TRUE
  /\ held = {} /\ typed = <<>> /\ keyboard_open \in BOOLEAN
  /\ keyboard_key_state = {} /\ keyboard_state = FALSE
  /\ pad_state = [p \in Players |-> FALSE]
  /\ stale = {}
  /\ budget \in JoypadScenarios

Thread == \/ Scan \/ Return \/ Fill \/ TakeOver \/ Assigned \/ Poll
          \/ DrainKeyboard \/ Read \/ Event \/ ThreadEnds \/ Cleanup
JoypadNext == Environment \/ Thread \/ StopInput
JoypadSpec == /\ JoypadInit /\ [][JoypadNext]_joypad_vars
              /\ WF_joypad_vars(Thread) /\ SF_joypad_vars(Scan)

----------------------------------------------------------------------------
Device == [port : Ports \cup {None}, path : Paths \cup {None},
           alive : BOOLEAN, down : BOOLEAN]
Slot == [fd : Devices \cup {None}, path : Paths \cup {None},
         port : Ports \cup {None}, raw : BOOLEAN, state : BOOLEAN,
         dropping : BOOLEAN]
EventKinds == {"up", "down", "report", "dropped"}

SlotsOK ==
  /\ devices \in [Devices -> Device]
  /\ unread \in [Devices -> Seq(EventKinds)] /\ events \in Seq(EventKinds)
  /\ \A d \in Devices : Len(unread[d]) <= BufferSize
  /\ slots \in [Players -> Slot]
  /\ \A p \in Players :
       ~Open(slots[p]) => slots[p] = [Empty EXCEPT !.port = slots[p].port]
  /\ candidates \subseteq Devices /\ stale \subseteq Devices
  /\ thread \in {"top", "assign", "poll", "drain", "batch", "ended", "joined"}
  /\ ready \subseteq Players \cup {Keyboard}
  /\ thread = "drain" => ready # {}
  /\ thread = "batch" => events # <<>>
  /\ keyboard_key_state \subseteq Keys /\ held \subseteq Keys
  /\ typed \in Seq([key : Keys, pressed : BOOLEAN])
  /\ {keyboard_open, keyboard_state, input_running} \subseteq BOOLEAN
  /\ pad_state \in [Players -> BOOLEAN]

(* No controller ever plays for both players (path_is_open).                *)
NoSharing ==
  Open(slots[1]) /\ Open(slots[2]) => slots[1].fd # slots[2].fd
                                      /\ slots[1].path # slots[2].path

(* What a reader of GetJoypadInput sees is what the slots and the keyboard  *)
(* last said; a controller that has been closed has let go of its buttons   *)
(* (publish_states after every change).                                     *)
PublishedIsCurrent == pad_state = PublishedStates(slots, keyboard_state)

(* The two slots, their descriptors and the published states agree.         *)
SlotsInv == SlotsOK /\ NoSharing /\ PublishedIsCurrent

(* A controller that stays connected keeps its player, whatever else is     *)
(* plugged in or pulled out (scan_gamepads: "without disturbing any         *)
(* controller that is still connected").                                    *)
Undisturbed ==
  [][\A p \in Players :
       Open(slots[p]) /\ devices[slots[p].fd].alive /\ thread # "ended"
         => slots'[p].fd = slots[p].fd]_joypad_vars

(* A controller that comes back to the port of a disconnected player plays  *)
(* for this player again, before any other slot is considered               *)
(* (scan_gamepads: "to its remembered physical-player slot first").         *)
Remembers(p, d) == ~Open(slots[p]) /\ slots[p].port = devices[d].port
ReturnsToItsSlot ==
  [][\A d \in candidates, p \in Players :
       slots'[p].fd = d =>
         Remembers(p, d) \/ \A q \in Players : ~Remembers(q, d)]_joypad_vars

(* No controller that is connected is taken from its player, and a port     *)
(* that a disconnected slot remembers gives its controller to that slot.    *)
(* The controller of a player may still change sides: one that appears on a *)
(* port no slot remembers takes the first slot that is free, so that with   *)
(* both pulled out player two's, on a third port, becomes player one's.     *)
SlotsAreKept == Undisturbed /\ ReturnsToItsSlot

(* Once the controllers and the keys are left alone, everybody's buttons    *)
(* come to agree with the hands: lost events are made up for, dead          *)
(* controllers are let go, and every controller finds a player while one is *)
(* free.  Two exceptions are the code's: a button that moved twice around a *)
(* resynchronization, before the batch was read and again before EVIOCGKEY  *)
(* (joypad_input.cpp:286, 439-463), stays as the older event left it until  *)
(* it moves again; and letting go of one key of a button lets go of the     *)
(* button, whatever other key of it is held (update_keyboard_key).          *)
Agrees ==
  /\ \A p \in Players : Open(slots[p]) =>
       /\ devices[slots[p].fd].alive
       /\ slots[p].fd \in stale \/ slots[p].state = devices[slots[p].fd].down
  /\ (\A p \in Players : Open(slots[p]))
       \/ Alive \subseteq {slots[p].fd : p \in Players}
  /\ keyboard_open => keyboard_key_state = held
  /\ held = {} => ~keyboard_state
Settles == <>[](Agrees \/ ~input_running)

=============================================================================
