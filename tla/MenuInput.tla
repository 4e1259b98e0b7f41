------------------------------ MODULE MenuInput ------------------------------
(***************************************************************************)
(* How the dashboard reads the touchscreen, the controllers and the        *)
(* keyboards: devices that come and go, are found again by scans, lose     *)
(* events when the loop is slow, and are given up while a game runs; and   *)
(* the burst guard of InputGuard fed by the controllers' edges.  A command *)
(* may sound a cue of MenuSound, which mutes the controllers, or ends one  *)
(* by muting the volume.                                                   *)
(*                                                                         *)
(* A device is an instance: plugged in again it is another one, perhaps    *)
(* with an old path.  A descriptor is the device it was opened on.  An     *)
(* event is one control and the SYN_REPORT after it.                       *)
(***************************************************************************)
EXTENDS InputGuard, MenuSound, Lists, SequencesExt

CONSTANTS
  Kind,            \* of each device: "touch", "pad" or "keyboard"
  Paths, Ports,    \* event numbers and USB ports, in their order
  MaxPads,         \* kMaximumMenuGamepads
  MaxKeyboards,    \* kMaximumMenuKeyboards
  PadKeys, Keys,   \* buttons and keys the devices have
  AxisValues, AxisMin, AxisMax,
  BufferSize,      \* events the kernel keeps for a reader
  BatchSize,       \* events returned by one read, 32 in the code
  Scenarios        \* bounds: the devices and the ports they are plugged into,
                   \* how often one is plugged in or out, a control changes,
                   \* time passes, a game is started, a cue sounded or muted

Devices == DOMAIN Kind
None == 0

ASSUME InputAssumption ==
  /\ IsFiniteSet(Devices) /\ \A d \in Devices : Kind[d] \in {"touch", "pad", "keyboard"}
  /\ {"x", "dropped"} \cap (PadKeys \union Keys) = {}
  /\ AxisValues \subseteq Int /\ {AxisMin, AxisMax} \subseteq Int
  /\ Devices \subseteq Nat \ {None} /\ Paths \subseteq Nat \ {None} /\ Ports \subseteq Nat
  /\ {MaxPads, MaxKeyboards, BufferSize, BatchSize} \subseteq Nat
  /\ BufferSize >= 2 /\ BatchSize > 0 /\ AxisMin < AxisMax
  /\ Scenarios \subseteq [devices : SUBSET Devices, ports : SUBSET Ports,
                          plugs : Nat, changes : Nat, ticks : Nat,
                          games : Nat, cues : Nat]

VARIABLES
  attached,     \* where each device is: path, port and whether it is there
  raw,          \* the controls of each device as they are
  queue,        \* what the kernel keeps for the reader of a device
  flushed,      \* history: the kernel took events back from a reader
  fresh,        \* history: presses of a control not yet reported
  left,         \* what is left of the scenario
  pads, keyboards, touch,         \* the readers of the dashboard
  pads_due, keyboards_due,        \* last_scan_ms_ is 0
  stage,        \* where the loop is
  ready, batch,
  pressed       \* buttons of this turn: of controllers and of keyboards

guard == vars
world == <<attached, raw, left>>
readers == <<pads, keyboards, touch, pads_due, keyboards_due>>
turn == <<ready, batch, pressed>>
inputVars == <<guard, world, queue, flushed, fresh, readers, stage, turn, sound>>

----------------------------------------------------------------------------
(* What the controls mean. *)

\* menu_gamepad_key_to_button
PadButton(code) ==
  CASE code \in {"thumb2", "top"} -> {"confirm"}
    [] code \in {"thumb", "trigger"} -> {"back"}
    [] code = "top2" -> {"system previous"}
    [] code = "pinkie" -> {"system next"}
    [] code = "base" -> {"settings"}
    [] OTHER -> {}

\* menu_keyboard_key_to_button
KeyButton(code, shift) ==
  CASE code \in {"enter", "kpenter"} -> {"confirm"}
    [] code = "esc" -> {"back"}
    [] code \in {"up", "down", "left", "right"} -> {code}
    [] code = "tab" -> {IF shift THEN "system previous" ELSE "system next"}
    [] OTHER -> {}

Shifts == {"left shift", "right shift"}
Repeats(code) == code \in {"up", "down", "left", "right"}

\* menu_keyboard_event_to_button, the shifts apart
KeyEventButton(code, value, shift) ==
  IF code \notin Shifts /\ (value = 1 \/ (value = 2 /\ Repeats(code)))
  THEN KeyButton(code, shift) ELSE {}

\* menu_gamepad_axis_to_button: the outer thirds of an axis are pressed.
AxisButton(value) ==
  LET third == (AxisMax - AxisMin) \div 3
  IN IF value <= AxisMin + third THEN {"left"}
     ELSE IF value >= AxisMax - third THEN {"right"} ELSE {}

\* menu_gamepad_state
PadState(controls) ==
  AxisButton(controls["x"]) \union
  UNION {PadButton(code) : code \in {c \in PadKeys : controls[c] # 0}}

Controls(d) ==
  CASE Kind[d] = "touch" -> {"finger"}
    [] Kind[d] = "pad" -> PadKeys \union {"x"}
    [] Kind[d] = "keyboard" -> Keys
Middle == (AxisMin + AxisMax) \div 2
Idle(d) == [c \in Controls(d) |-> IF c = "x" THEN Middle ELSE 0]

----------------------------------------------------------------------------
(* Hands, cables and the kernel. *)

Spend(what) == left[what] > 0 /\ left' = [left EXCEPT ![what] = @ - 1]
Alive(d) == attached[d].alive
Dropped == [code |-> "dropped", value |-> 0]

\* Whether a value of a control is one that presses a button.
Presses(d, c, v) ==
  IF c = "x" THEN AxisButton(v) # {} /\ AxisButton(v) # AxisButton(raw[d][c])
  ELSE v # 0

Readers == Range(pads) \union Range(keyboards) \union {touch}
Opened == {r.fd : r \in Readers} \ {None}

InUse == {attached[d].path : d \in {e \in Devices : Alive(e)}}

\* A device gets the first number that is free.
Plug(d) ==
  /\ Spend("plugs") /\ d \in left.devices
  /\ attached[d].path = None
  /\ \E path \in Paths \ InUse, port \in Ports :
       /\ port \in left.ports /\ \A other \in Paths \ InUse : path <= other
       /\ \A e \in Devices : Alive(e) => attached[e].port # port
       /\ attached' = [attached EXCEPT ![d] =
                         [path |-> path, port |-> port, alive |-> TRUE]]
  /\ UNCHANGED <<guard, raw, queue, flushed, fresh, readers, stage, turn>>

Unplug(d) ==
  /\ Spend("plugs") /\ Alive(d)
  /\ attached' = [attached EXCEPT ![d].alive = FALSE]
  /\ UNCHANGED <<guard, raw, queue, flushed, fresh, readers, stage, turn>>

\* A control takes another value, or a key that is held repeats.
Change(d, c, v) ==
  /\ Spend("changes") /\ Alive(d)
  /\ \/ v # raw[d][c] /\ (c = "x" \/ v # 2)
     \/ v = 2 /\ raw[d][c] = 1 /\ Kind[d] = "keyboard"
  /\ raw' = [raw EXCEPT ![d][c] = IF c # "x" /\ v = 2 THEN 1 ELSE v]
  /\ queue' = IF d \notin Opened THEN queue ELSE
       [queue EXCEPT ![d] =
          LET event == [code |-> c, value |-> v]
          IN IF Len(@) < BufferSize THEN Append(@, event)
             ELSE <<Dropped, event>>]
  /\ fresh' = IF /\ d \in Opened /\ Presses(d, c, v)
                 /\ stage = "game" => Kind[d] = "touch"
              THEN [fresh EXCEPT ![d][c] = @ + 1] ELSE fresh
  /\ UNCHANGED <<guard, attached, flushed, readers, stage, turn>>

Pass ==
  /\ Spend("ticks") /\ Tick
  /\ UNCHANGED <<attached, raw, queue, flushed, fresh, readers, stage, turn>>

----------------------------------------------------------------------------
(* Finding the devices. *)

ClosedTouch == [fd |-> None, down |-> FALSE, reported |-> FALSE,
                dropping |-> FALSE]

\* What a reader keeps of its device: of a keyboard only the shifts.
Kept(d) == IF Kind[d] = "keyboard" THEN Shifts \intersect Keys ELSE Controls(d)
Snapshot(d) == [c \in Kept(d) |-> raw[d][c]]

\* A reader that has just been opened: what is held down then is no press.
Opening(d) ==
  [fd |-> d, path |-> attached[d].path, port |-> attached[d].port,
   controls |-> Snapshot(d), dropping |-> FALSE,
   state |-> IF Kind[d] = "pad" THEN PadState(raw[d]) ELSE {}]
OpeningTouch(d) ==
  [fd |-> d, down |-> raw[d]["finger"] # 0, reported |-> raw[d]["finger"] # 0,
   dropping |-> FALSE]

Forget(devices) ==
  /\ queue' = [d \in Devices |-> IF d \in devices THEN <<>> ELSE queue[d]]
  /\ fresh' = [d \in Devices |->
                 IF d \in devices THEN [c \in Controls(d) |-> 0] ELSE fresh[d]]
  /\ flushed' = flushed \ devices

\* Controllers go by port, then by path; keyboards by path.
PadBefore(d, e) == \/ attached[d].port < attached[e].port
                   \/ /\ attached[d].port = attached[e].port
                      /\ attached[d].path < attached[e].path
KeyboardBefore(d, e) == attached[d].path < attached[e].path

Candidates(kind, Before(_, _), max) ==
  LET all == {d \in Devices : Alive(d) /\ Kind[d] = kind}
      rank == [d \in all |-> Cardinality({e \in all : Before(e, d)})]
      order == Sorted(all, rank)
  IN SubSeq(order, 1, IF Len(order) > max THEN max ELSE Len(order))

\* Mutant: a reader that was closed counts as unchanged.
SamePlace(r, d) == r.path = attached[d].path

\* A keyboard is known by its path alone, a controller by its port as well.
SameKeyboard(r, d) == r.fd # None /\ r.path = attached[d].path
SamePad(r, d) == SameKeyboard(r, d) /\ r.port = attached[d].port

Unchanged(list, found, Same(_, _)) ==
  Len(found) = Len(list) /\ \A i \in 1 .. Len(list) : Same(list[i], found[i])

\* All readers of a kind are opened anew when one of them has changed.
FindPads ==
  LET found == Candidates("pad", PadBefore, MaxPads)
  IN IF Unchanged(pads, found, SamePad) THEN UNCHANGED <<pads, queue, fresh, flushed>>
     ELSE /\ pads' = [i \in 1 .. Len(found) |-> Opening(found[i])]
          /\ Forget({d \in Devices : Kind[d] = "pad"})

FindKeyboards ==
  LET found == Candidates("keyboard", KeyboardBefore, MaxKeyboards)
  IN IF Unchanged(keyboards, found, SameKeyboard)
     THEN UNCHANGED <<keyboards, queue, fresh, flushed>>
     ELSE /\ keyboards' = [i \in 1 .. Len(found) |-> Opening(found[i])]
          /\ Forget({d \in Devices : Kind[d] = "keyboard"})

\* scan_if_due: at once when a reader was closed, else when a second is over.
ScanPads ==
  /\ stage = "scan pads"
  /\ FindPads /\ pads_due' = FALSE /\ stage' = "scan keyboards"
  /\ UNCHANGED <<guard, world, keyboards, keyboards_due, touch, turn, sound>>

ScanKeyboards ==
  /\ stage = "scan keyboards"
  /\ FindKeyboards /\ keyboards_due' = FALSE /\ stage' = "poll"
  /\ UNCHANGED <<guard, world, pads, pads_due, touch, turn, sound>>

NotDue ==
  /\ \/ stage = "scan pads" /\ ~pads_due /\ stage' = "scan keyboards"
     \/ stage = "scan keyboards" /\ ~keyboards_due /\ stage' = "poll"
  /\ UNCHANGED <<guard, world, queue, flushed, fresh, readers, turn>>

Touchscreens == {d \in Devices : Alive(d) /\ Kind[d] = "touch"}

\* Top of the loop: the guard recovers, a lost touchscreen is looked for.
Begin ==
  /\ stage = "top" /\ Reap /\ RecoverIfQuiet /\ stage' = "scan pads"
  /\ UNCHANGED <<world, queue, flushed, fresh, readers, turn>>

BeginWithTouch ==
  /\ stage = "top" /\ touch.fd = None /\ Reap /\ RecoverIfQuiet
  /\ \E d \in Touchscreens : touch' = OpeningTouch(d) /\ Forget({d})
  /\ stage' = "scan pads"
  /\ UNCHANGED <<world, pads, keyboards, pads_due, keyboards_due, turn>>

----------------------------------------------------------------------------
(* Reading them. *)

\* A descriptor of a device that has gone reports POLLHUP.
Poll ==
  /\ stage = "poll"
  /\ ready' = {d \in Opened : ~Alive(d) \/ queue[d] # <<>>}
  /\ batch' = <<>> /\ pressed' = [pad |-> {}, keyboard |-> {}]
  /\ stage' = "read"
  /\ UNCHANGED <<guard, world, queue, flushed, fresh, readers>>

\* Controllers, then keyboards, then the touchscreen.
ReadOrder == pads \o keyboards \o <<touch>>
IsNext(d) ==
  \E i \in DOMAIN ReadOrder :
    /\ ReadOrder[i].fd = d /\ d \in ready
    /\ \A j \in 1 .. i - 1 : ReadOrder[j].fd \notin ready

SetReader(list, d, r) ==
  [i \in DOMAIN list |-> IF list[i].fd = d THEN r ELSE list[i]]
Reader(d) == CHOOSE r \in Readers : r.fd = d
Put(d, r) ==
  /\ pads' = IF Kind[d] = "pad" THEN SetReader(pads, d, r) ELSE pads
  /\ keyboards' = IF Kind[d] = "keyboard"
                  THEN SetReader(keyboards, d, r) ELSE keyboards
  /\ touch' = IF Kind[d] = "touch" THEN r ELSE touch

\* A reader that fails is closed, and looked for at the next turn.
Fail(d) ==
  /\ Put(d, IF Kind[d] = "touch" THEN ClosedTouch
            ELSE [Reader(d) EXCEPT !.fd = None, !.state = {}])
  /\ pads_due' = (pads_due \/ Kind[d] = "pad")
  /\ keyboards_due' = (keyboards_due \/ Kind[d] = "keyboard")
  /\ ready' = ready \ {d} /\ batch' = <<>>
  /\ Forget({d})

Read(d) ==
  /\ stage = "read" /\ IsNext(d) /\ batch = <<>>
  /\ \/ ~Alive(d) /\ Fail(d)
     \/ /\ Alive(d) /\ queue[d] = <<>>                          \* EAGAIN
        /\ ready' = ready \ {d}
        /\ UNCHANGED <<batch, readers, queue, fresh, flushed>>
     \/ /\ Alive(d) /\ queue[d] # <<>>
        /\ LET n == IF Len(queue[d]) > BatchSize THEN BatchSize ELSE Len(queue[d])
           IN /\ batch' = SubSeq(queue[d], 1, n)
              /\ queue' = [queue EXCEPT ![d] = SubSeq(@, n + 1, Len(@))]
        /\ UNCHANGED <<ready, readers, fresh, flushed>>
  /\ UNCHANGED <<guard, world, stage, pressed>>

\* What one event does to a reader, and the buttons it presses.
TouchEvent(r, event) ==
  [reader |-> [r EXCEPT !.down = event.value # 0, !.reported = event.value # 0],
   press |-> IF event.value # 0 /\ ~r.reported THEN {"touch"} ELSE {}]

PadEvent(r, event) ==
  LET controls == [r.controls EXCEPT ![event.code] = event.value]
  IN [reader |-> [r EXCEPT !.controls = controls, !.state = PadState(controls)],
      press |-> PadState(controls) \ r.state]

KeyboardEvent(r, event) ==
  [reader |-> [r EXCEPT !.controls = [c \in DOMAIN @ |->
                 IF c # event.code THEN @[c] ELSE IF event.value # 0 THEN 1 ELSE 0]],
   press |-> KeyEventButton(event.code, event.value,
                            \E s \in DOMAIN r.controls : r.controls[s] # 0)]

Effect(d, event) ==
  CASE Kind[d] = "touch" -> TouchEvent(Reader(d), event)
    [] Kind[d] = "pad" -> PadEvent(Reader(d), event)
    [] Kind[d] = "keyboard" -> KeyboardEvent(Reader(d), event)

\* After SYN_DROPPED and a report the device is asked for its state; a finger
\* that is down then may be a press, a button is not.
ResynchronizedTouch(r) ==
  IF Alive(r.fd)
  THEN [reader |-> OpeningTouch(r.fd),
        press |-> IF raw[r.fd]["finger"] # 0 /\ ~r.reported THEN {"touch"} ELSE {}]
  ELSE [reader |-> [r EXCEPT !.dropping = FALSE, !.reported = r.down],
        press |-> IF r.down /\ ~r.reported THEN {"touch"} ELSE {}]

\* Mutant: the buttons held now are compared with those of the last report.
ResynchronizedStale(r) ==
  [reader |-> [r EXCEPT !.controls = Snapshot(r.fd), !.dropping = FALSE],
   press |-> {}]

ResynchronizedPad(r) ==
  [reader |-> [r EXCEPT !.controls = Snapshot(r.fd), !.dropping = FALSE,
                        !.state = PadState(raw[r.fd])],
   press |-> {}]

ResynchronizedKeyboard(r) ==
  [reader |-> [r EXCEPT !.controls = Snapshot(r.fd), !.dropping = FALSE],
   press |-> {}]

Resynchronized(d) ==
  CASE Kind[d] = "touch" -> ResynchronizedTouch(Reader(d))
    [] Kind[d] = "pad" -> ResynchronizedPad(Reader(d))
    [] Kind[d] = "keyboard" -> ResynchronizedKeyboard(Reader(d))

Note(d, press) ==
  pressed' = IF Kind[d] = "touch" THEN pressed
             ELSE [pressed EXCEPT ![Kind[d]] = @ \union press]

\* EVIOCGKEY takes the events it makes stale out of the queue, in kernels
\* that do so; those already read are still looked at.
HandleEvent(d) ==
  /\ stage = "read" /\ IsNext(d) /\ batch # <<>>
  /\ LET event == Head(batch)
         r == Reader(d)
         effect == IF r.dropping THEN Resynchronized(d) ELSE Effect(d, event)
     IN \/ /\ event = Dropped
           /\ Put(d, [r EXCEPT !.dropping = TRUE]) /\ batch' = Tail(batch)
           /\ UNCHANGED <<queue, fresh, flushed, ready, pressed, pads_due,
                          keyboards_due>>
        \/ /\ event # Dropped /\ r.dropping /\ ~Alive(d) /\ Kind[d] # "touch"
           /\ Fail(d) /\ UNCHANGED pressed
        \/ /\ event # Dropped
           /\ r.dropping => Alive(d) \/ Kind[d] = "touch"
           /\ Put(d, effect.reader) /\ Note(d, effect.press)
           /\ fresh' = IF effect.press = {} THEN fresh
                       ELSE [fresh EXCEPT ![d][event.code] = @ - 1]
           /\ batch' = Tail(batch)
           /\ \/ UNCHANGED <<queue, flushed>>
              \/ /\ r.dropping /\ Alive(d) /\ queue[d] # <<>>
                 /\ queue' = [queue EXCEPT ![d] = <<>>]
                 /\ flushed' = flushed \union {d}
           /\ UNCHANGED <<ready, pads_due, keyboards_due>>
  /\ UNCHANGED <<guard, world, stage>>

\* The controllers' edges go through the guard.
Judge ==
  IF pressed.pad = {} THEN NoEdge ELSE AcceptEdge \/ EdgeWhileSuspended

\* What is left of the turn's buttons: neither the guard nor a cue stops a key.
Heard ==
  pressed.keyboard \union
  IF prev'.ok /\ ~Quarantines(now) THEN pressed.pad ELSE {}

\* Nothing is heard, or a command that plays no cue, plays one, or mutes.
Decide ==
  /\ stage = "read" /\ ready = {}
  /\ Judge
  /\ \/ stage' = "top" /\ UNCHANGED <<left, sound>>
     \/ Heard # {} /\ Spend("cues") /\ Play(now) /\ stage' = "top"
     \/ Heard # {} /\ Spend("cues") /\ Signal /\ stage' = "muted"
  /\ UNCHANGED <<attached, raw, queue, flushed, fresh, readers, turn>>

Mute ==
  /\ stage = "muted" /\ stage' = "top"
  /\ Awaited
  /\ UNCHANGED <<guard, world, queue, flushed, fresh, readers, turn>>

\* A command selects a game; the cue is heard to its end first.
Select ==
  /\ stage = "read" /\ ready = {} /\ Spend("games")
  /\ Judge
  /\ Heard # {}
  /\ Play(now) \/ UNCHANGED sound
  /\ stage' = "selected"
  /\ UNCHANGED <<attached, raw, queue, flushed, fresh, readers, turn>>

\* Mutant: the readers stay open while a game runs.
StartGameOpen ==
  /\ stage = "selected" /\ stage' = "game"
  /\ Awaited
  /\ UNCHANGED <<guard, world, turn, readers, queue, fresh, flushed>>

\* Controllers and keyboards are closed before the game starts, the touchscreen
\* too for a program of the deck's own.
StartGame ==
  /\ stage = "selected" /\ stage' = "game"
  /\ Awaited
  /\ pads' = <<>> /\ keyboards' = <<>> /\ pads_due' = TRUE /\ keyboards_due' = TRUE
  /\ \E kept \in {touch, ClosedTouch} :
       /\ touch' = kept
       /\ Forget(Devices \ {kept.fd})
  /\ UNCHANGED <<guard, world, turn>>

\* The supervisor of a game reads the touchscreen itself.
Supervise ==
  /\ stage = "game" /\ touch.fd # None
  /\ touch' = IF Alive(touch.fd) THEN OpeningTouch(touch.fd) ELSE touch
  /\ Forget({touch.fd} \ {None})
  /\ UNCHANGED <<guard, world, pads, keyboards, pads_due, keyboards_due, stage,
                 turn>>

EndGame ==
  /\ stage = "game" /\ stage' = "forced scan"
  /\ FindPads /\ pads_due' = FALSE
  /\ UNCHANGED <<guard, world, keyboards, keyboards_due, touch, turn>>

ForcedScan ==
  /\ stage = "forced scan" /\ stage' = "top"
  /\ FindKeyboards /\ keyboards_due' = FALSE
  /\ UNCHANGED <<guard, world, pads, pads_due, touch, turn>>

----------------------------------------------------------------------------

InputInit ==
  /\ Init /\ SoundInit /\ left \in Scenarios
  /\ attached = [d \in Devices |-> [path |-> None, port |-> 0, alive |-> FALSE]]
  /\ raw = [d \in Devices |-> Idle(d)]
  /\ queue = [d \in Devices |-> <<>>] /\ flushed = {}
  /\ fresh = [d \in Devices |-> [c \in Controls(d) |-> 0]]
  /\ pads = <<>> /\ keyboards = <<>> /\ touch = ClosedTouch
  /\ pads_due = FALSE /\ keyboards_due = FALSE
  /\ stage = "top" /\ ready = {} /\ batch = <<>>
  /\ pressed = [pad |-> {}, keyboard |-> {}]

Values(c) == IF c = "x" THEN AxisValues ELSE 0 .. 2

World ==
  \/ \E d \in Devices : \/ Plug(d) \/ Unplug(d)
                        \/ \E c \in Controls(d) : \E v \in Values(c) :
                             Change(d, c, v)
  \/ Pass

Silent ==
  \/ NotDue \/ Poll \/ EndGame \/ ForcedScan \/ Supervise
  \/ \E d \in Devices : Read(d) \/ HandleEvent(d)

Loop ==
  \/ Begin \/ BeginWithTouch \/ Decide \/ Mute \/ StartGame
  \/ Silent /\ UNCHANGED sound

CueGoesOn ==
  /\ WorkerStep \/ WorkerFails
  /\ UNCHANGED <<guard, world, queue, flushed, fresh, readers, stage, turn>>

InputNext ==
  \/ World /\ UNCHANGED sound
  \/ Loop \/ ScanPads \/ ScanKeyboards \/ Select \/ CueGoesOn

\* The loop runs and games end; a second passes again and again, so that the
\* scans are due and the touchscreen is looked for.  A cue ends: nobody holds
\* the sound device for ever.
InputSpec ==
  /\ InputInit /\ [][InputNext]_inputVars
  /\ WF_inputVars(Loop) /\ WF_inputVars(CueGoesOn)
  /\ SF_inputVars(ScanPads) /\ SF_inputVars(ScanKeyboards)
  /\ SF_inputVars(BeginWithTouch)

----------------------------------------------------------------------------

\* A reader that has read all there is agrees with its device: no button, shift
\* or finger stays down that was let go, also after events were dropped
\* (drain_device, read_reports, resynchronize); except where the kernel took
\* events back and the code went on with older ones.
CaughtUp ==
  \A r \in Readers :
    LET d == r.fd
    IN (/\ d # None /\ Alive(d) /\ d \notin flushed
        /\ queue[d] = <<>> /\ ~(d \in ready /\ batch # <<>>))
       => IF Kind[d] = "touch" THEN r.reported = (raw[d]["finger"] # 0)
          ELSE /\ r.controls = Snapshot(d)
               /\ Kind[d] = "pad" => r.state = PadState(raw[d])

\* No cue plays into a game, which opens the sound device for itself (finish).
DeviceIsTheGames == stage = "game" => \A p \in Workers : worker[p] = "none"

\* The readers are of their kind, as many as allowed, and each device has one;
\* the guard's variables have their types and the cues their one worker.
InputInv ==
  /\ TypeOK
  /\ NoWorkerIsForgotten /\ DeviceIsTheGames
  /\ Len(pads) <= MaxPads /\ Len(keyboards) <= MaxKeyboards
  /\ \A i, j \in DOMAIN pads : pads[i].fd = pads[j].fd /\ i # j => pads[i].fd = None
  /\ \A r \in Range(pads) : r.fd # None => Kind[r.fd] = "pad"
  /\ CaughtUp

\* Every command is a press of its own: not what was held when its device was
\* opened, not what was pressed in a game, not one press told twice after events
\* were dropped ("the menu cannot accumulate gameplay events while it waits").
EveryCommandIsAPress == \A d \in Devices : \A c \in Controls(d) : fresh[d][c] >= 0

\* A device that stays plugged in is read in the end, whatever else is plugged
\* in and out (scan_if_due, reconnect_touch).
PluggedInIsRead ==
  \A d \in Devices : Alive(d) ~> (~Alive(d) \/ d \in Opened)
=============================================================================
