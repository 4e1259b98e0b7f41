--------------------------- MODULE ManagedChild ---------------------------
(***************************************************************************)
(* run_managed_child: the dashboard starts an emulator, a terminal or the  *)
(* reboot command, waits for it, and stops it when it is itself asked to   *)
(* shut down or when a finger rests on the screen for ExitHold.  The child *)
(* gets SIGTERM first and SIGKILL after Grace.                             *)
(*                                                                         *)
(* The exit-hold target is the whole screen, so a finger is "up" or        *)
(* "down".  On fbdev the reports come from evdev, on Wayland from the      *)
(* compositor's socket, where a report dispatched while a console frame is *)
(* mirrored waits in touch_reports for the next read.  Clocks are ages     *)
(* that Tick advances and that stop at the thresholds the code compares.   *)
(***************************************************************************)
EXTENDS Naturals, Sequences, SequencesExt

CONSTANTS
  Displays,    \* the builds in question: "evdev", "wayland", or both
  Mirror,      \* mirror_console: the child is the terminal
  Supervised,  \* touch is not NULL: false for Deck applications
  Faults,      \* which of "unplug", "loss" and "shutdown" a child may meet: the
               \* touchscreen or the Wayland display goes; reports or the seat's
               \* touch are lost; the dashboard is asked to shut down
  ExitHold,    \* kExitHoldMs
  Grace,       \* kChildTermGraceMs
  Retry,       \* milliseconds between touchscreen discoveries
  BufferSize,  \* touch reports the kernel keeps for a reader
  QMax         \* bound: touch reports in flight

ASSUME ChildAssumption ==
  /\ Displays \in SUBSET {"evdev", "wayland"} /\ Mirror \in BOOLEAN
  /\ Supervised \in BOOLEAN /\ Faults \subseteq SUBSET {"unplug", "loss", "shutdown"}
  /\ ExitHold \in Nat \ {0} /\ Grace \in Nat \ {0} /\ Retry \in Nat \ {0}
  /\ BufferSize \in Nat \ {0} /\ QMax \in Nat \ {0}

Slots == 3     \* kBufferCount

VARIABLES
  point,            \* where run_managed_child is
  child,            \* the child process
  started,          \* result.started
  exited_for_touch, \* result.exited_for_touch
  shutdown,         \* g_shutdown_requested
  term_sent, kill_sent, term_age,
  corner_hold, hold_age,
  carried,          \* history: the hold was read together with the loss of the
                    \* touchscreen, which drops the hold before it begins
  missed,           \* history: since the last release that was queued, reports
                    \* were dropped or taken back, or the seat lost touch
  finger, finger_age,  \* what the finger really does, and for how long
  plugged,          \* the input device or display still exists
  fd,               \* the fbdev touch device: "closed", "open", or "dead" when
                    \* it is open but the device behind it is gone
  seat_touch,       \* the Wayland seat has touch
  seat_news,        \* that has changed, and nobody has dispatched it
  announced,        \* the compositor has sent the press of the finger
  seen,             \* touch->down(): the last report read
  retry_age,        \* since the last discovery
  queue,            \* touch reports the kernel or compositor has queued; "dropped"
                    \* is SYN_DROPPED and the report that was too many
  chunk,            \* evdev events read and not yet gone through
  pending,          \* Wayland touch_reports: dispatched, not yet taken
  batch,            \* reports: what this iteration has read
  ready,            \* revents of the last poll
  console_mirror,
  uses_wayland,     \* framebuffer->uses_wayland(), which never changes
  faults,           \* which faults this child meets, which never changes
  owed,             \* buffer releases the compositor has yet to send
  released          \* those it has sent and nobody has dispatched

life    == <<child, started, exited_for_touch, shutdown>>
signals == <<term_sent, kill_sent, term_age>>
hold    == <<corner_hold, hold_age, carried>>
world   == <<finger, finger_age, plugged, faults>>
seat    == <<seat_touch, seat_news, announced>>
device  == <<fd, seen, retry_age>>
input   == <<queue, chunk, pending, batch, ready, missed>>
screen  == <<console_mirror, uses_wayland, owed, released>>
child_vars == <<point, life, signals, hold, world, seat, device, input, screen>>

Alive == child \in {"forked", "failing", "running"}
HasSource == uses_wayland \/ fd # "closed"
Dead == fd = "dead" \/ (uses_wayland /\ ~plugged)
\* Slots the client counts as busy: the frame on screen, those whose release
\* is owed, and those whose release is still unread.
Busy == 1 + owed + released
Readable == queue # <<>> \/ released > 0 \/ seat_news

ChildInit ==
  /\ point = "fork" /\ child = "none"
  /\ started = FALSE /\ exited_for_touch = FALSE /\ shutdown = FALSE
  /\ term_sent = FALSE /\ kill_sent = FALSE /\ term_age = 0
  /\ corner_hold = FALSE /\ hold_age = 0 /\ carried = FALSE
  /\ uses_wayland \in {d = "wayland" : d \in Displays}
  /\ finger \in IF uses_wayland THEN {"up"} ELSE {"up", "down"}
  /\ finger_age = 0
  /\ plugged = TRUE /\ faults \in Faults
  /\ fd = IF ~uses_wayland /\ Supervised THEN "open" ELSE "closed"
  /\ seen = (fd = "open" /\ finger = "down")
  /\ retry_age = Retry
  /\ seat_touch = TRUE /\ seat_news = FALSE /\ announced = FALSE
  /\ queue = <<>> /\ chunk = <<>> /\ pending = <<>> /\ batch = <<>>
  /\ ready = FALSE /\ missed = FALSE
  /\ console_mirror = (Mirror /\ uses_wayland)
  /\ owed = 0 /\ released = 0
\* signal_child_group(child, SIGTERM).
SendTerm ==
  /\ term_sent' = TRUE
  /\ term_age' = 0
  /\ UNCHANGED kill_sent

\* The client's handlers put the touches at hand behind those not yet taken.
Dispatched == pending \o queue

\* What update_corner_hold sees: the batch or, when it is empty, the state the
\* evdev device last reported.
Observed ==
  IF batch # <<>> THEN batch
  ELSE IF fd # "closed" THEN <<IF seen THEN "down" ELSE "up">> ELSE <<>>

-----------------------------------------------------------------------------
\* Plausible bugs, for the mutation runs.

ReconnectForgetsTouch ==
  /\ point = "signal"
  /\ point' = "poll"
  /\ IF shutdown /\ ~term_sent THEN SendTerm ELSE UNCHANGED signals
  /\ IF ~uses_wayland /\ Supervised /\ fd = "closed" /\ retry_age >= Retry
       THEN /\ fd' = IF plugged THEN "open" ELSE "closed"
            /\ seen' = FALSE
            /\ retry_age' = 0
       ELSE UNCHANGED device
  /\ UNCHANGED <<life, hold, world, seat, input, screen>>

LastReportOnly ==
  /\ point = "apply"
  /\ point' = "hold"
  /\ batch' = <<>>
  /\ IF Observed = <<>>
       THEN UNCHANGED hold
       ELSE /\ corner_hold' = (Last(Observed) = "down")
            /\ hold_age' = IF corner_hold THEN hold_age ELSE 0
            /\ UNCHANGED carried
  /\ UNCHANGED <<life, signals, world, seat, device, queue, chunk, pending, ready,
                 missed, screen>>

ReturnOnKill ==
  /\ point = "grace"
  /\ IF term_sent /\ ~kill_sent /\ term_age >= Grace
       THEN /\ kill_sent' = TRUE
            /\ child' = IF Alive THEN "zombie" ELSE child
            /\ point' = "returned"
       ELSE /\ point' = "reap"
            /\ UNCHANGED <<kill_sent, child>>
  /\ UNCHANGED <<started, exited_for_touch, shutdown, term_sent, term_age, hold,
                 world, seat, device, input, screen>>

-----------------------------------------------------------------------------
\* Starting the child.

\* pipe, fcntl and fork; any of them can fail before there is a child.
Fork ==
  /\ point = "fork"
  /\ \/ point' = "handshake" /\ child' = "forked"
     \/ point' = "returned" /\ child' = child
  /\ UNCHANGED <<started, exited_for_touch, shutdown, signals, hold, world,
                 seat, device, input, screen>>

\* The blocking read of the status pipe, retried when a signal interrupts it.
Handshake ==
  /\ point = "handshake"
  /\ child # "forked"
  /\ point' = "reap"
  /\ started' \in IF child = "zombie" THEN BOOLEAN ELSE {child = "running"}
  /\ UNCHANGED <<child, exited_for_touch, shutdown, signals, hold, world,
                 seat, device, input, screen>>

-----------------------------------------------------------------------------
\* The supervision loop, in the order of its body.

\* waitpid(WNOHANG).
Reap ==
  /\ point = "reap"
  /\ IF child = "zombie"
       THEN child' = "reaped" /\ point' = "returned"
       ELSE child' = child /\ point' = "signal"
  /\ UNCHANGED <<started, exited_for_touch, shutdown, signals, hold, world,
                 seat, device, input, screen>>

\* A shutdown request is passed on; a lost touchscreen is looked for.
RelayShutdown ==
  /\ point = "signal"
  /\ point' = "poll"
  /\ IF shutdown /\ ~term_sent THEN SendTerm ELSE UNCHANGED signals
  /\ IF ~uses_wayland /\ Supervised /\ fd = "closed" /\ retry_age >= Retry
       THEN /\ fd' = IF plugged THEN "open" ELSE "closed"
            /\ seen' = (plugged /\ finger = "down")
            /\ retry_age' = 0
       ELSE UNCHANGED device
  /\ UNCHANGED <<life, hold, world, seat, input, screen>>

\* poll for 40 ms.
PollSources ==
  /\ point = "poll"
  /\ point' = "mirror"
  /\ ready' = (HasSource /\ (Readable \/ Dead))
  /\ UNCHANGED <<life, signals, hold, world, seat, device, queue, chunk, pending,
                 batch, missed, screen>>

\* present_console_scanout every 100 ms: the events at hand are dispatched, and
\* a frame is committed if a slot is free.  It may fail before any of that.
MirrorConsole ==
  /\ point = "mirror"
  /\ point' = "read"
  /\ \/ /\ console_mirror
        /\ queue' = <<>> /\ released' = 0 /\ seat_news' = FALSE
        /\ pending' = Dispatched
        /\ owed' = IF 1 + owed < Slots /\ plugged THEN owed + 1 ELSE owed
        /\ UNCHANGED console_mirror
     \/ /\ console_mirror
        /\ console_mirror' = FALSE
        /\ UNCHANGED <<queue, pending, owed, released, seat_news>>
     \/ UNCHANGED <<queue, pending, console_mirror, owed, released, seat_news>>
  /\ UNCHANGED <<life, signals, hold, world, seat_touch, announced, device, chunk,
                 batch, ready, missed, uses_wayland>>

\* read_wayland_touch: wl_display_dispatch waits for events if there are none.
\* A seat that has lost touch, or has it back, leaves no report.
DispatchWayland ==
  /\ point = "read"
  /\ ready /\ uses_wayland
  /\ Readable \/ Dead
  /\ point' = "apply"
  /\ queue' = <<>> /\ released' = 0 /\ seat_news' = FALSE
  /\ IF plugged
       THEN /\ batch' = Dispatched
            /\ pending' = <<>>
            /\ UNCHANGED hold
       ELSE /\ corner_hold' = FALSE /\ hold_age' = 0
            /\ UNCHANGED <<carried, batch, pending>>
  /\ UNCHANGED <<life, signals, world, seat_touch, announced, device, chunk, ready,
                 missed, console_mirror, uses_wayland, owed>>

\* One read of read_reports that returns events; once they have been gone
\* through, the next read follows.
ReadEvdev ==
  /\ point = "read"
  /\ ready /\ ~uses_wayland
  /\ ~Dead /\ chunk = <<>> /\ queue # <<>>
  /\ chunk' = queue /\ queue' = <<>>
  /\ UNCHANGED <<point, life, signals, hold, world, seat, device, pending, batch,
                 ready, missed, screen>>

\* What resynchronize finds; a device that has gone does not answer.
Answer == IF Dead THEN IF seen THEN "down" ELSE "up" ELSE finger

\* After SYN_DROPPED the device is asked what the finger does, which takes the
\* events queued since out of the queue; those read with it are gone through
\* all the same, however old.
GoThrough ==
  /\ point = "read" /\ chunk # <<>>
  /\ LET resynchronizes == Contains(chunk, "dropped")
         reports == [i \in 1 .. Len(chunk) |->
                       IF chunk[i] = "dropped" THEN Answer ELSE chunk[i]]
     IN /\ batch' = batch \o reports
        /\ seen' = (Last(reports) = "down")
        /\ queue' = IF resynchronizes THEN <<>> ELSE queue
        /\ missed' = (missed \/ resynchronizes)
  /\ chunk' = <<>>
  /\ UNCHANGED <<point, life, signals, hold, world, seat, fd, retry_age, pending,
                 ready, screen>>

\* A read that fails: the device is closed and the hold dropped, but what the
\* batch already holds is still applied.
ReadEvdevFails ==
  /\ point = "read"
  /\ ready /\ ~uses_wayland
  /\ Dead /\ chunk = <<>>
  /\ point' = "apply"
  /\ fd' = "closed" /\ seen' = FALSE
  /\ queue' = <<>> /\ missed' = FALSE
  /\ corner_hold' = FALSE /\ hold_age' = 0 /\ carried' = TRUE
  /\ UNCHANGED <<life, signals, world, seat, retry_age, chunk, pending, batch, ready,
                 screen>>

\* EAGAIN, or nothing was readable.
ReadNothing ==
  /\ point = "read"
  /\ ~ready \/ (~uses_wayland /\ ~Dead /\ chunk = <<>> /\ queue = <<>>)
  /\ point' = "apply"
  /\ UNCHANGED <<life, signals, hold, world, seat, device, input, screen>>

\* update_corner_hold over all of it: a hold that already runs goes on only if
\* none of it is a release.
ApplyReports ==
  /\ point = "apply"
  /\ point' = "hold"
  /\ batch' = <<>>
  /\ LET goes_on == corner_hold /\ ~Contains(Observed, "up")
     IN /\ corner_hold' = IF Observed = <<>> THEN corner_hold
                          ELSE Last(Observed) = "down"
        /\ hold_age' = IF goes_on THEN hold_age ELSE 0
        /\ carried' = (carried /\ corner_hold' /\ (corner_hold => goes_on))
  /\ UNCHANGED <<life, signals, world, seat, device, queue, chunk, pending, ready,
                 missed, screen>>

\* A completed hold stops the child.
StopOnHold ==
  /\ point = "hold"
  /\ point' = "grace"
  /\ IF corner_hold /\ ~term_sent /\ hold_age >= ExitHold
       THEN SendTerm /\ exited_for_touch' = TRUE
       ELSE UNCHANGED <<signals, exited_for_touch>>
  /\ UNCHANGED <<child, started, shutdown, hold, world, seat, device, input, screen>>

\* SIGKILL when SIGTERM has been out for Grace.
Escalate ==
  /\ point = "grace"
  /\ point' = "reap"
  /\ IF term_sent /\ ~kill_sent /\ term_age >= Grace
       THEN /\ kill_sent' = TRUE
            /\ child' = IF Alive THEN "zombie" ELSE child
       ELSE UNCHANGED <<kill_sent, child>>
  /\ UNCHANGED <<started, exited_for_touch, shutdown, term_sent, term_age, hold,
                 world, seat, device, input, screen>>

Loop == Fork \/ Handshake \/ Reap \/ RelayShutdown \/ PollSources \/ MirrorConsole
          \/ DispatchWayland \/ ReadEvdev \/ GoThrough \/ ReadEvdevFails
          \/ ReadNothing \/ ApplyReports \/ StopOnHold \/ Escalate

-----------------------------------------------------------------------------
\* What the loop does not control.

\* A touch changes.  It is queued for whoever has the source open; a seat without
\* touch sends nothing, and no release of a press it has not sent.
Sent ==
  /\ HasSource /\ ~Dead
  /\ uses_wayland => IF finger = "up" THEN seat_touch ELSE announced
Overflows == ~uses_wayland /\ Len(queue) >= BufferSize

Touch ==
  /\ point # "returned"
  /\ ~Dead => \/ Len(queue) + Len(pending) + Len(batch) < QMax
              \/ Overflows /\ "loss" \in faults
  /\ finger' = IF finger = "up" THEN "down" ELSE "up"
  /\ finger_age' = 0
  /\ announced' = (uses_wayland /\ Sent /\ finger' = "down")
  /\ queue' = IF ~Sent THEN queue
              ELSE IF Overflows THEN <<"dropped">> ELSE Append(queue, finger')
  /\ missed' = IF ~Sent THEN missed
               ELSE Overflows \/ (missed /\ finger' = "down")
  /\ UNCHANGED <<point, life, signals, hold, plugged, faults, seat_touch, seat_news,
                 device, chunk, pending, batch, ready, screen>>

\* The client destroys its wl_touch and forgets that a finger is down; no
\* release of a press sent before will follow.
SeatLosesTouch ==
  /\ point # "returned"
  /\ "loss" \in faults /\ uses_wayland /\ plugged /\ seat_touch
  /\ seat_touch' = FALSE /\ seat_news' = TRUE
  /\ announced' = FALSE /\ missed' = (missed \/ announced)
  /\ UNCHANGED <<point, life, signals, hold, world, device, queue, chunk, pending,
                 batch, ready, screen>>

\* It gets a new one, which tells of the touches that begin from now on.
SeatGainsTouch ==
  /\ point # "returned"
  /\ uses_wayland /\ plugged /\ ~seat_touch
  /\ seat_touch' = TRUE /\ seat_news' = TRUE
  /\ UNCHANGED <<point, life, signals, hold, world, announced, device, input, screen>>

\* The touchscreen comes and goes; a lost Wayland display does not come back.
Replug ==
  /\ point # "returned"
  /\ "unplug" \in faults
  /\ plugged \/ ~uses_wayland
  /\ plugged' = ~plugged
  /\ fd' = IF plugged /\ fd = "open" THEN "dead" ELSE fd
  /\ UNCHANGED <<point, life, signals, hold, finger, finger_age, faults, seat, seen,
                 retry_age, input, screen>>

\* The compositor returns a buffer it no longer shows.
ReleaseBuffer ==
  /\ point # "returned"
  /\ owed > 0
  /\ owed' = owed - 1
  /\ released' = released + 1
  /\ UNCHANGED <<point, life, signals, hold, world, seat, device, input, console_mirror,
                 uses_wayland>>

RequestShutdown ==
  /\ point # "returned"
  /\ ~shutdown /\ "shutdown" \in faults
  /\ shutdown' = TRUE
  /\ UNCHANGED <<point, child, started, exited_for_touch, signals, hold, world,
                 seat, device, input, screen>>

\* execv closes the status pipe, or the error is written to it before _exit.
ChildExecs ==
  /\ child = "forked"
  /\ child' \in {"running", "failing"}
  /\ UNCHANGED <<point, started, exited_for_touch, shutdown, signals, hold, world,
                 seat, device, input, screen>>

\* The child ends, of itself or of a signal; nothing makes it heed SIGTERM.
ChildExits ==
  /\ child \in {"forked", "running"}
  /\ child' = "zombie"
  /\ UNCHANGED <<point, started, exited_for_touch, shutdown, signals, hold, world,
                 seat, device, input, screen>>

FailedChildExits ==
  /\ child = "failing"
  /\ child' = "zombie"
  /\ UNCHANGED <<point, started, exited_for_touch, shutdown, signals, hold, world,
                 seat, device, input, screen>>

Aged(age, limit) == IF age < limit THEN age + 1 ELSE limit

Tick ==
  /\ term_age' = IF term_sent THEN Aged(term_age, Grace) ELSE 0
  /\ hold_age' = IF corner_hold THEN Aged(hold_age, ExitHold) ELSE 0
  /\ finger_age' = IF finger = "down" THEN Aged(finger_age, ExitHold) ELSE 0
  /\ retry_age' = Aged(retry_age, Retry)
  /\ UNCHANGED <<point, life, term_sent, kill_sent, corner_hold, carried, finger,
                 plugged, faults, seat, fd, seen, input, screen>>

Environment == Touch \/ SeatLosesTouch \/ SeatGainsTouch \/ Replug
                 \/ ReleaseBuffer \/ RequestShutdown
                 \/ ChildExecs \/ ChildExits \/ FailedChildExits \/ Tick

ChildNext == Loop \/ Environment

\* The kernel schedules the dashboard and runs a forked child up to execv; time
\* passes; a compositor that shows a newer frame releases the older buffer.
\* The child owes nothing: it may ignore SIGTERM for ever.
Fairness ==
  /\ WF_child_vars(Loop) /\ WF_child_vars(Tick) /\ WF_child_vars(ReleaseBuffer)
  /\ WF_child_vars(ChildExecs) /\ WF_child_vars(FailedChildExits)

ChildSpec == ChildInit /\ [][ChildNext]_child_vars /\ Fairness

-----------------------------------------------------------------------------
Reports == {"up", "down"}
Events == Reports \union {"dropped"}

\* The members and locals of the supervisor have their types.
TypeOK ==
  /\ point \in {"fork", "handshake", "reap", "signal", "poll", "mirror", "read",
             "apply", "hold", "grace", "returned"}
  /\ child \in {"none", "forked", "failing", "running", "zombie", "reaped"}
  /\ {started, exited_for_touch, shutdown, term_sent, kill_sent, corner_hold,
      carried, missed, plugged, seat_touch, seat_news, announced, seen, ready,
      console_mirror, uses_wayland} \subseteq BOOLEAN
  /\ term_age \in 0 .. Grace /\ hold_age \in 0 .. ExitHold
  /\ finger_age \in 0 .. ExitHold /\ retry_age \in 0 .. Retry
  /\ finger \in Reports /\ fd \in {"closed", "open", "dead"}
  /\ queue \in Seq(Events) /\ chunk \in Seq(Events)
  /\ pending \in Seq(Reports) /\ batch \in Seq(Reports)
  /\ owed \in Nat /\ released \in Nat /\ Busy <= Slots

\* What the touchscreen's stop of a child is worth.  As long as no report is lost,
\* the finger has been down for ExitHold, unless its release or the loss of its
\* device has not been read yet or the hold was read with that very loss.  The
\* code does not hold out against a release that is lost: when the kernel's buffer
\* overflows, when EVIOCGKEY takes it back and an older press is gone through
\* afterwards, or when a Wayland seat loses touch, a hold outlives its finger and
\* stops the child.  It does so only until the next release that is sent.
HoldIsGenuine ==
  [][exited_for_touch' # exited_for_touch =>
       \/ finger = "down" /\ finger_age >= ExitHold
       \/ Contains(queue, "up") \/ Contains(pending, "up")
       \/ Dead \/ carried
       \/ missed]_child_vars

\* A signal goes to a process this loop has not reaped, SIGKILL only follows a
\* SIGTERM the child had Grace to act on, and the touchscreen is the reason only
\* after a hold that is genuine as far as reports reach the loop.
SignalsAreSafe ==
  [][/\ term_sent' # term_sent => Alive \/ child = "zombie"
     /\ kill_sent' # kill_sent => /\ child # "reaped"
                                  /\ term_sent /\ term_age >= Grace]_child_vars

StopsAreJustified == SignalsAreSafe /\ HoldIsGenuine

\* The supervisor returns only when no child of its own is left.
ReturnsAlone == point = "returned" => child \in {"none", "reaped"}

\* No child outlives its supervisor, and the buffers the client counts as busy
\* while it mirrors the console are never more than it has.
ChildInv == TypeOK /\ ReturnsAlone

\* A shutdown request ends the child, whatever the child does about SIGTERM.
ShutdownEndsChild == shutdown ~> point = "returned"

\* A resynchronization has gone through a stale release last.
Deaf == fd = "open" /\ missed /\ ~seen /\ queue = <<>> /\ chunk = <<>>

\* A finger that stays on a working touchscreen ends the child, across any
\* number of earlier disconnections and losses of reports, but for one: when a
\* stale release is gone through after EVIOCGKEY has taken back the press, the
\* finger has to be lifted and put down again.  On Wayland the answer also depends
\* on when the compositor releases a frame: module WaylandSurface.
HoldEndsChild ==
  <>[](finger = "down" /\ plugged /\ ~uses_wayland /\ ~Deaf)
    => <>(point = "returned")

\* Both ways to stop a child do stop it: run_managed_child does not wait for
\* ever for an application that somebody wants to leave.
ChildEnds == ShutdownEndsChild /\ HoldEndsChild
=============================================================================
