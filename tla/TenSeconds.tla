------------------------------ MODULE TenSeconds ------------------------------
(***************************************************************************)
(* The game of stopping a clock at 10.00: one thread that redraws, polls   *)
(* the touchscreen and up to two controllers and starts and stops the      *)
(* timer, and a process that plays the sound of each press.                *)
(*                                                                         *)
(* A unit of time is a hundredth of a second.  The screen is Back and the  *)
(* rest.  An event of the model is all the kernel reports of a device up   *)
(* to SYN_REPORT: a press, which tells where it is, a release, or that the *)
(* finger moves, which tells nothing of its being down.  When a reader is  *)
(* slow the kernel drops its queue, leaves SYN_DROPPED and the newest      *)
(* event.                                                                  *)
(***************************************************************************)
EXTENDS Integers, SequencesExt

CONSTANTS
  Pads,         \* the controllers found at start, 1 .. kMaximumGamepads
  Target,       \* hundredths to stop at, 1000 in the code
  Cap,          \* the largest number shown, 9999 in the code
  Redraw,       \* time between redraws, 1.6 in the code
  BufferSize,   \* events the kernel keeps for a reader
  BatchSize,    \* events returned by one read, 32 in the code
  TimerScenarios     \* bounds: how often a unit of time passes, something goes
                \* down, the finger slides on or off Back, a device is
                \* unplugged and a signal arrives, all together

Touch == 0
Sources == Pads \union {Touch}

ASSUME TimerAssumption ==
  /\ Pads \subseteq Nat \ {Touch}
  /\ {Target, Cap, Redraw} \subseteq Nat
  /\ TimerScenarios \subseteq [ticks : Nat, presses : Nat, slides : Nat,
                          unplugs : Nat, signals : Nat]
  /\ BufferSize \in Nat /\ BufferSize >= 2 /\ BatchSize \in Nat \ {0}

VARIABLES
  clock,
  down, on_back,          \* what is held down, and where the finger is
  gone,                   \* devices that were unplugged
  queue,                  \* what the kernel keeps for each reader
  lost,                   \* history: an event was dropped
  left,                   \* what is left of the scenario
  fresh,                  \* history: presses of each source not taken yet
  taken,                  \* history: reports that were taken for a press
  wanted,                 \* history: Back was pressed
  device,                 \* TouchDevice and GamepadDevice of each source
  state, started_at, next_redraw, displayed, dirty,
  screen,                 \* what the framebuffer shows
  shutdown_requested,
  loop,                   \* where the loop is
  ready, batch,           \* sources still to read, events still to look at
  controller_a, presses,  \* what this turn of the loop has seen
  activations,            \* history: times the timer was started or stopped
  child                   \* the sound process

hands == <<down, on_back, gone, left, wanted>>
kernel == <<queue, lost>>
history == <<fresh, taken>>
timer == <<state, started_at, next_redraw, displayed, activations>>
turn == <<ready, batch, controller_a, presses>>
timer_vars == <<clock, hands, kernel, history, device, timer, dirty, screen,
                shutdown_requested, loop, turn, child>>

Spend(what) == left[what] > 0 /\ left' = [left EXCEPT ![what] = @ - 1]

AtMost(n, limit) == IF n > limit THEN limit ELSE n
Told(kind, back) == [kind |-> kind, back |-> back]
Dropped == Told("dropped", FALSE)

Elapsed(now) == AtMost(now - started_at, Cap)

\* What is drawn: the number, the word under it and what a press will do.
Picture(s, n) ==
  [number |-> n,
   result |-> IF s # "stopped" THEN "" ELSE
              IF n = Target THEN "exact" ELSE
              IF n < Target THEN "early" ELSE "late",
   off |-> IF s # "stopped" THEN 0
           ELSE IF n < Target THEN Target - n ELSE n - Target,
   instruction |-> s]

----------------------------------------------------------------------------
(* Hands and kernel. *)

Post(s, event) ==
  /\ queue' = [queue EXCEPT ![s] =
       IF Len(@) < BufferSize THEN Append(@, event) ELSE <<Dropped, event>>]
  /\ lost' = (lost \/ Len(queue[s]) >= BufferSize)

Press(s, back) ==
  /\ Spend("presses") /\ ~down[s] /\ ~gone[s] /\ (back => s = Touch)
  /\ down' = [down EXCEPT ![s] = TRUE]
  /\ on_back' = IF s = Touch THEN back ELSE on_back
  /\ fresh' = [fresh EXCEPT ![s] = @ + 1] /\ wanted' = (wanted \/ back)
  /\ Post(s, Told("press", back))
  /\ UNCHANGED <<clock, gone, taken, device, timer, dirty, screen,
                 shutdown_requested, loop, turn, child>>

Release(s) ==
  /\ down[s] /\ ~gone[s]
  /\ down' = [down EXCEPT ![s] = FALSE]
  /\ Post(s, Told("release", FALSE))
  /\ UNCHANGED <<clock, on_back, gone, left, wanted, history, device, timer,
                 dirty, screen, shutdown_requested, loop, turn, child>>

Slide ==
  /\ Spend("slides") /\ down[Touch] /\ ~gone[Touch]
  /\ on_back' = ~on_back
  /\ Post(Touch, Told("move", ~on_back))
  /\ UNCHANGED <<clock, down, gone, wanted, history, device, timer, dirty,
                 screen, shutdown_requested, loop, turn, child>>

Unplug(s) ==
  /\ Spend("unplugs") /\ ~gone[s]
  /\ gone' = [gone EXCEPT ![s] = TRUE]
  /\ UNCHANGED <<clock, down, on_back, wanted, kernel, history, device,
                 timer, dirty, screen, shutdown_requested, loop, turn, child>>

\* Only a running timer looks at the clock, and at differences.
Tick ==
  /\ Spend("ticks") /\ state = "running"
  /\ clock' = clock + 1
  /\ UNCHANGED <<down, on_back, gone, wanted, kernel, history, device, timer,
                 dirty, screen, shutdown_requested, loop, turn, child>>

\* SIGINT or SIGTERM
RequestShutdown ==
  /\ Spend("signals")
  /\ shutdown_requested' = TRUE
  /\ UNCHANGED <<clock, down, on_back, gone, wanted, kernel, history, device,
                 timer, dirty, screen, loop, turn, child>>

----------------------------------------------------------------------------
(* The sound process. It is born with the handlers of the game, which only *)
(* set a flag of its own, and gives the signals back their default action. *)

Cue(n) == IF n = Target THEN "exact" ELSE "miss"
NoChild == [phase |-> "none", cue |-> "none"]

Reaped == IF child.phase = "finished" THEN NoChild ELSE child

Sound ==
  /\ child.phase \in {"born", "ready", "playing"}
  /\ \/ child.phase = "born" /\ child' = [child EXCEPT !.phase = "ready"]
     \/ child.phase = "ready"
        /\ \E phase \in {"playing", "finished"} :     \* may fail to open
             child' = [child EXCEPT !.phase = phase]
     \/ child.phase = "playing" /\ child' = [child EXCEPT !.phase = "finished"]
  /\ UNCHANGED <<clock, hands, kernel, history, device, timer, dirty, screen,
                 shutdown_requested, loop, turn>>

\* GameSoundPlayer::play: fork may fail, and the volume may be 0.
Play(cue) ==
  IF Reaped # NoChild THEN child' = child
  ELSE child' \in {NoChild, [phase |-> "born", cue |-> cue]}

----------------------------------------------------------------------------
(* The loop. *)

Leave == loop' = "leaving" /\ UNCHANGED turn

\* From the loop's condition to poll; presenting may fail.
Draw ==
  /\ loop = "top" /\ ~shutdown_requested
  /\ child' = Reaped
  /\ LET due == state = "running" /\ clock >= next_redraw
     IN /\ displayed' = IF due THEN Elapsed(clock) ELSE displayed
        /\ next_redraw' = IF due THEN clock + Redraw ELSE next_redraw
        /\ \/ /\ dirty \/ due
              /\ screen' = Picture(state, displayed') /\ dirty' = FALSE
              /\ loop' = "poll" /\ UNCHANGED turn
           \/ /\ dirty \/ due
              /\ Leave /\ dirty' = TRUE /\ UNCHANGED screen
           \/ /\ ~dirty /\ ~due
              /\ loop' = "poll" /\ UNCHANGED <<turn, dirty, screen>>
  /\ UNCHANGED <<clock, hands, kernel, history, device, state, started_at, activations,
                 shutdown_requested>>

Stop ==
  /\ loop = "top" /\ shutdown_requested
  /\ Leave
  /\ UNCHANGED <<clock, hands, kernel, history, device, timer, dirty, screen,
                 shutdown_requested, child>>

\* Controllers that were closed are not polled.
Readable == {s \in Sources : device[s].open /\ (gone[s] \/ queue[s] # <<>>)}

\* poll(8): it returns after 8 ms or a signal with nothing, too.
Poll ==
  /\ loop = "poll"
  /\ loop' = IF Readable = {} THEN "top" ELSE "read"
  /\ ready' = Readable /\ controller_a' = FALSE /\ presses' = <<>>
  /\ batch' = <<>>
  /\ UNCHANGED <<clock, hands, kernel, history, device, timer, dirty, screen,
                 shutdown_requested, child>>

\* The controllers are read in the order they were found in, and before the
\* touchscreen.
IsNext(s) ==
  s \in ready /\ \A r \in ready \ {s} : r = Touch \/ (s # Touch /\ s < r)

Closed == [open |-> FALSE, down |-> FALSE, reported |-> FALSE,
           dropping |-> FALSE, back |-> FALSE]

\* A controller that cannot be read is closed, without the touchscreen the
\* game ends.
Fail(s) ==
  IF s = Touch
  THEN Leave /\ UNCHANGED device
  ELSE /\ device' = [device EXCEPT ![s] = Closed]
       /\ ready' = ready \ {s} /\ batch' = <<>>
       /\ UNCHANGED <<loop, controller_a, presses>>

Read(s) ==
  /\ loop = "read" /\ IsNext(s) /\ batch = <<>>
  /\ \/ gone[s] /\ Fail(s) /\ UNCHANGED queue
     \/ /\ ~gone[s] /\ queue[s] = <<>>                        \* EAGAIN
        /\ ready' = ready \ {s}
        /\ UNCHANGED <<loop, batch, controller_a, presses, device, queue>>
     \/ /\ ~gone[s] /\ queue[s] # <<>>
        /\ LET n == AtMost(Len(queue[s]), BatchSize)
           IN /\ batch' = SubSeq(queue[s], 1, n)
              /\ queue' = [queue EXCEPT ![s] = SubSeq(@, n + 1, Len(@))]
        /\ UNCHANGED <<loop, ready, controller_a, presses, device>>
  /\ UNCHANGED <<clock, hands, lost, history, timer, dirty, screen,
                 shutdown_requested, child>>

\* The press of a report: down, and not down at the report before.
Note(s, d) ==
  LET pressed == d.down /\ ~d.reported
  IN /\ batch' = Tail(batch)
     /\ device' = [device EXCEPT ![s] = [d EXCEPT !.reported = d.down]]
     /\ controller_a' = (controller_a \/ (s # Touch /\ pressed))
     /\ presses' = IF s = Touch /\ pressed
                   THEN Append(presses, d.back) ELSE presses
     /\ IF pressed THEN fresh' = [fresh EXCEPT ![s] = @ - 1] /\ taken' = taken + 1
        ELSE UNCHANGED history

\* Mutant: a finger that is down is a press.
ResynchronizedTouchAsNew ==
  [open |-> TRUE, down |-> down[Touch], dropping |-> FALSE,
   reported |-> FALSE, back |-> on_back]

\* A finger that is down after events were lost may be a press.
ResynchronizedTouch ==
  [open |-> TRUE, down |-> down[Touch], dropping |-> FALSE,
   reported |-> device[Touch].reported, back |-> on_back]

\* A button that is down then, or at the start, counts as reported.
ResynchronizedPad(p) ==
  [open |-> TRUE, down |-> down[p], dropping |-> FALSE, reported |-> down[p],
   back |-> FALSE]

Resynchronized(s) ==
  IF s = Touch THEN ResynchronizedTouch ELSE ResynchronizedPad(s)

\* What a report changes before SYN_REPORT is looked at.
Updated(d, event) ==
  CASE event.kind = "press"   -> [d EXCEPT !.down = TRUE, !.back = event.back]
    [] event.kind = "release" -> [d EXCEPT !.down = FALSE]
    [] event.kind = "move"    -> [d EXCEPT !.back = event.back]
    [] event.kind = "empty"   -> d

\* EVIOCGKEY takes the keys it makes stale out of the queue; what is left of
\* a report tells where the finger was.
Unkeyed(q) ==
  [i \in DOMAIN q |-> IF q[i].kind = "press" THEN Told("move", q[i].back)
                      ELSE IF q[i].kind = "release" THEN Told("empty", FALSE)
                      ELSE q[i]]

HandleEvent(s) ==
  /\ loop = "read" /\ IsNext(s) /\ batch # <<>>
  /\ LET event == Head(batch)
         d == device[s]
     IN \/ /\ event = Dropped
           /\ device' = [device EXCEPT ![s].dropping = TRUE]
           /\ batch' = Tail(batch)
           /\ UNCHANGED <<loop, ready, controller_a, presses, queue, history>>
        \/ /\ event # Dropped /\ d.dropping
           /\ \/ /\ gone[s] /\ s # Touch /\ Fail(s)
                 /\ UNCHANGED <<queue, history>>
              \/ /\ gone[s] /\ s = Touch          \* the old state stays
                 /\ Note(s, [d EXCEPT !.dropping = FALSE])
                 /\ UNCHANGED <<loop, ready, queue>>
              \/ /\ ~gone[s] /\ Note(s, Resynchronized(s))
                 /\ queue' = [queue EXCEPT ![s] = Unkeyed(@)]
                 /\ UNCHANGED <<loop, ready>>
        \/ /\ event # Dropped /\ ~d.dropping
           /\ Note(s, Updated(d, event))
           /\ UNCHANGED <<loop, ready, queue>>
  /\ UNCHANGED <<clock, hands, lost, timer, dirty, screen,
                 shutdown_requested, child>>

\* Mutant: only the first touch may be Back.
DecideByFirst ==
  /\ loop = "read" /\ ready = {}
  /\ LET back == presses # <<>> /\ Head(presses)
     IN /\ shutdown_requested' = (shutdown_requested \/ back)
        /\ loop' = IF back THEN "top" ELSE "act"
  /\ presses' = IF controller_a THEN <<FALSE>> ELSE presses
  /\ UNCHANGED <<clock, hands, kernel, history, device, timer, dirty, screen, ready,
                 batch, controller_a, child>>

\* All has been read: Back wins over everything, a controller over touches.
Decide ==
  /\ loop = "read" /\ ready = {}
  /\ shutdown_requested' = (shutdown_requested \/ TRUE \in Range(presses))
  /\ loop' = IF TRUE \in Range(presses) THEN "top" ELSE "act"
  /\ presses' = IF controller_a THEN <<FALSE>> ELSE presses
  /\ UNCHANGED <<clock, hands, kernel, history, device, timer, dirty, screen, ready,
                 batch, controller_a, child>>

\* activate_timer
Start(now) ==
  /\ state' = "running" /\ started_at' = now /\ next_redraw' = now
  /\ displayed' = 0 /\ Play("start")

Finish(now) ==
  /\ state' = "stopped" /\ displayed' = Elapsed(now) /\ Play(Cue(displayed'))
  /\ UNCHANGED <<started_at, next_redraw>>

\* Mutant: only a start is drawn.
ActivateUndrawn ==
  /\ loop = "act" /\ presses # <<>>
  /\ IF state = "running" THEN Finish(clock) ELSE Start(clock)
  /\ dirty' = (dirty \/ state # "running") /\ activations' = activations + 1
  /\ presses' = Tail(presses)
  /\ UNCHANGED <<clock, hands, kernel, history, device, screen, shutdown_requested,
                 loop, ready, batch, controller_a>>

ActivateTimer ==
  /\ loop = "act" /\ presses # <<>>
  /\ IF state = "running" THEN Finish(clock) ELSE Start(clock)
  /\ dirty' = TRUE /\ activations' = activations + 1
  /\ presses' = Tail(presses)
  /\ UNCHANGED <<clock, hands, kernel, history, device, screen, shutdown_requested,
                 loop, ready, batch, controller_a>>

NextTurn ==
  /\ loop = "act" /\ presses = <<>>
  /\ loop' = "top"
  /\ UNCHANGED <<clock, hands, kernel, history, device, timer, dirty, screen,
                 shutdown_requested, turn, child>>

\* ~GameSoundPlayer: SIGTERM, which a child just born does not die of, and
\* wait for its end.
Killed ==
  IF child.phase \in {"ready", "playing"} THEN [child EXCEPT !.phase = "finished"]
  ELSE child

Exit ==
  /\ \/ loop = "leaving" /\ loop' = "waiting" /\ child' = Killed
     \/ loop = "waiting" /\ Reaped = NoChild /\ loop' = "exited"
        /\ child' = NoChild
  /\ UNCHANGED <<clock, hands, kernel, history, device, timer, dirty, screen,
                 shutdown_requested, turn>>

----------------------------------------------------------------------------

\* The finger or button that started the game may still be down: discover
\* takes it for reported.  Where it is is not looked at.
FoundTouch == [open |-> TRUE, down |-> down[Touch], dropping |-> FALSE,
               reported |-> down[Touch], back |-> FALSE]

TimerInit ==
  /\ clock = 0
  /\ down \in [Sources -> BOOLEAN]
  /\ on_back = FALSE
  /\ gone = [s \in Sources |-> FALSE]
  /\ queue = [s \in Sources |-> <<>>] /\ lost = FALSE
  /\ left \in TimerScenarios /\ wanted = FALSE
  /\ fresh = [s \in Sources |-> 0] /\ taken = 0
  /\ device = [s \in Sources |->
                 IF s = Touch THEN FoundTouch ELSE ResynchronizedPad(s)]
  /\ state = "ready" /\ started_at = 0 /\ next_redraw = 0 /\ displayed = 0
  /\ dirty = TRUE /\ screen = Picture("none", 0)
  /\ shutdown_requested = FALSE /\ loop = "top"
  /\ ready = {} /\ batch = <<>> /\ controller_a = FALSE /\ presses = <<>>
  /\ activations = 0 /\ child = NoChild

World ==
  \/ \E s \in Sources : \/ Press(s, FALSE) \/ Press(s, TRUE)
                        \/ Release(s) \/ Unplug(s)
  \/ Slide \/ Tick \/ RequestShutdown

Loop ==
  \/ Draw \/ Stop \/ Poll \/ Decide \/ ActivateTimer \/ NextTurn \/ Exit
  \/ \E s \in Sources : Read(s) \/ HandleEvent(s)

TimerNext == World \/ Loop \/ Sound

\* The game and its sound process are scheduled; hands do as they like.
TimerSpec == TimerInit /\ [][TimerNext]_timer_vars /\ WF_timer_vars(Loop) /\ WF_timer_vars(Sound)

----------------------------------------------------------------------------

\* Types; what is shown is the timer's state whenever the loop waits, a timer
\* that was stopped shows a number up to the cap, and no sound process is
\* left when the game has ended.
TimerInv ==
  /\ state \in {"ready", "running", "stopped"} /\ displayed \in 0 .. Cap
  /\ child.phase \in {"none", "born", "ready", "playing", "finished"}
  /\ \A s \in Sources : Len(queue[s]) <= BufferSize
  /\ loop \in {"poll", "read"} => screen = Picture(state, displayed)
  /\ loop = "exited" => child = NoChild

\* The timer is started and stopped by presses and nothing else: not by the
\* finger or button held down while the game starts, not by a finger that
\* slides, and not twice by one press when events are dropped and the device
\* is read anew (resynchronize).
EveryActivationIsAPress ==
  /\ activations + Len(presses) <= taken
  /\ \A s \in Sources : fresh[s] >= 0

\* Back leaves the game, whatever else is pressed at the same time, unless
\* the kernel had to drop events.
BackLeaves == wanted ~> (loop = "exited" \/ lost)

\* The game ends when it is told to, and does not hang on its sound process,
\* even one that was born too late to get SIGTERM.
ShutdownEnds == shutdown_requested ~> loop = "exited"

\* The two ways out of the game: the BACK button and a signal.
Leaves == BackLeaves /\ ShutdownEnds
=============================================================================
