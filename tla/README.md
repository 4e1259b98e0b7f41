# Retro Deck: models, checks and proofs

Retro Deck turns a small Linux board with a touchscreen into a games console. A
dashboard (`src/deck_menu.cpp`) shows a carousel of games and launches one child
at a time: an emulator built around a libretro core, a chiptune player, a small
game, a terminal, or `/sbin/reboot`. Beside it run shell services that keep the
device on a known Wi-Fi network, a WireGuard runner, a Go upload server, and the
scripts that deploy everything. This directory holds TLA+ modules of the parts
that carry the program's own control logic, the TLC configurations that check
them on small instances, and proofs checked by TLAPS.

Paths below are relative to the repository. `PROJECT.json` maps every definition
that models code to its lines.

## 1. The system

| part | state it keeps | operations | talks to | what is hard about it |
|---|---|---|---|---|
| burst guard (`deck_menu.cpp`, `MenuControllerInputGuard`) | times of recent edges, time of the last edge, suspended | `accept_edge`, `recover_if_quiet` | main loop, once per gamepad edge | two windows on one clock, forgetting on recovery |
| child supervision (`run_managed_child`) | signals sent and when, corner hold and since when, touch device | fork/exec handshake, 40 ms loop, SIGTERM, SIGKILL | kernel, touchscreen or compositor, child group | races of exit and signal, lost devices, batched reports, children that ignore SIGTERM |
| dashboard loop (`application_main`) | views, carousel, status lines, pressed target, reboot confirmation, request of this iteration | poll, read, commands, taps, launch | all devices, cues, children, state files | stale targets and screens, a deadline, batches |
| emulator audio (`DeckAudio`) | ring, head, size, drop count, stopping, worker failure | `open_device`, `enqueue`, `close_device`, worker thread | emulator thread, `/dev/dsp` | two threads, condition variable, wrap-around, failure |
| state and save files (`save_state_value`, `save_player_volume`, `save_memory_file`) | a file, temporary names, what the disk holds | load, save | file system | power failures, failing calls, processes killed in between |
| Wi-Fi recovery (`deck-wifi-watch`, `deck-wifi-select`) | `/etc/config/wireless`, backup, preferred list, status line, lock | poll, scan, rank, try, wait, renew, restore, record | netifd, radio, procd, WireGuard | everything changes under its feet; must always come back |
| saved profiles (`deck-wifi-profile-add`) | profile directory, preferred list, lock | save one profile | dashboard, selector | two writers under two locks, crashes |
| touchscreen, gamepads, keyboards (`deck_menu.cpp`) | open devices, their controls, contact state, dropping | discover, scan once a second, read, resynchronize, close | evdev, the cue player, the launch of a game | hotplug, reused event numbers, `SYN_DROPPED`, what was pressed in a game |
| emulators' joypads (`joypad_input.cpp`) | devices, merged buttons | open, poll | evdev | several pads, hotplug |
| Wayland client (`deck_wayland.cpp`) | surface, three buffers, queued touches, the time left to open | open, present, dispatch, take touches | compositor | buffers in flight, resize, events read by whichever call comes first, loss of the display |
| menu cues (`menu_sound.cpp`) | worker process, quarantine deadline | play, reap, stop, finish | fork, `/dev/dsp`, every device the menu reads | signals between fork and reset, zombies, a device the game needs |
| settings (`menu_state.cpp`, `deck_menu.cpp`) | volume, brightness, keymap, the Wi-Fi editor's texts | load, step, save, type, store a profile | backlight, state files, chiptune player, profile helper | device, memory and file disagree; taps on a layout that changes |
| emulator front ends (`libretro_deck.cpp`, `chip8_deck.cpp`) | frame count, save memories, resampling remainder, staging picture | launch, frame loop, periodic save, end | core, panel, `DeckAudio`, save files | kills between two saves, rounding, stale pixels, a failed picture |
| chiptune player (`chiptune_deck.cpp`) | playlist, emulator or stream, playback thread, devices | commands, playback, volume | touchscreen, gamepads, audio | failing files, errors raised by the thread, lost events |
| ten-seconds game (`ten_seconds_deck.cpp`) | timer, devices, sound process | read, activate, draw, leave | touchscreen, gamepads, fork | a press told twice, BACK among other presses |
| terminal emulator (`terminal/fbterm`) | screen lines, ring of history, margins, cursor, dirty ranges | control functions, history scroll, repaint, cursor timer | panel, SIGALRM | rows are permuted, not copied; deferred painting; a signal between two steps |
| upload server (`uploader/`) | stored games, palettes, password, scene | HTTP handlers | dashboard's files | partial installs |
| deployment (`ops/deploy`, `ops/provision-deck.sh`) | installed version, backups | activate, roll back | the running services | failure half way |
| launcher, terminal, presentation recovery, WireGuard runner (shell) | chosen presentation, swap file | start, switch | init | retries |

How they interact: the dashboard is the parent of everything on the screen. It
reads the manifest at start, the state files at start and after every child, and
waits for exactly one child at a time. Dashboard and child never share memory,
only files. The Wi-Fi watcher runs the selector synchronously, but procd may
restart the watcher while a selector runs; the two then share the lock directory,
the status file and the preferred list. The dashboard saves profiles through
`deck-wifi-profile-add` and shows the status line that the watcher writes.

What makes each part correct is stated as properties in section 3; the `hazards`
of `PROJECT.json` list, line by line, what is hard to test and which property
answers it, or why none does yet.

## 2. The modules

| module | models | instance |
|---|---|---|
| `InputGuard` | the burst guard and the two places of the loop that call it | `MCMenuInput` |
| `MenuSound` | the menu's cue player and its worker process | `MCMenuInput` |
| `MenuInput` | the menu's devices, extending both, from plugging in to a command and across a game | `MCMenuInput` |
| `MenuInputProofs` | proofs about the guard, the menu's input and its cues | |
| `ManagedChild` | `run_managed_child` with its touch sources | `MCManagedChild` |
| `Dashboard` | the main loop | `MCDashboard` |
| `DashboardProofs` | its proofs | |
| `LossyFifo` | what the audio queue promises | |
| `DeckAudio` | ring, worker and close of `DeckAudio` | `MCEmulator` |
| `Picture` | staging picture and panel of the framebuffer display | `MCEmulator` |
| `Emulator` | an emulator's main thread, extending both, with saves, kills and relaunches | `MCEmulator` |
| `Lemmas` | lemmas on remainders and on lists, for the rings, the brightness and the orders | |
| `EmulatorProofs` | proofs about it, its picture, the ring, which implements `LossyFifo`, and the joypads | |
| `AtomicCell` | what a state file promises | |
| `StateFile` | the three writers of small files, with crashes | `MCSettings` |
| `Screens` | the buttons of the carousel, the settings and the Wi-Fi editor | `MCSettings` |
| `WifiEditor` | the editor and the helper that stores a profile | `MCSettings` |
| `Settings` | volume, brightness, keymap, composed with the file and the editor | `MCSettings` |
| `SettingsProofs` | proofs about it, the file, the screens and the editor | |
| `Lists` | lists made by sorting or filtering | |
| `WifiProfiles` | the helper that saves a profile, and the profiles by name | |
| `WifiSelect` | a whole run of the selector, extending it, and the radio it sees | |
| `WifiWatch` | the watcher around it, the helper beside it, restarts and reboots | `MCWifi` |
| `WifiProofs` | proofs about a run of the selector, the profiles and the lists, and about `Chiptunes` | |
| `PlayerInput` | the chiptune player's devices | `MCChiptunes` |
| `Chiptunes` | the player, its playback thread and main loop, extending it | `MCChiptunes` |
| `JoypadInput` | the emulators' input thread | `MCJoypadInput` |
| `TenSeconds` | the ten-seconds game with its devices and its sound process | `MCTenSeconds` |
| `ProgramProofs` | proofs about it and about `VTerm` | |
| `WaylandSurface` | opening, buffers, resize, dispatch and touches of the Wayland client | `MCWaylandSurface` |
| `SharingProofs` | proofs about it and about `ManagedChild` | |
| `Scrollback` | what a screen with a history promises | |
| `VTerm` | the terminal emulator's screen, history, painting and cursor | `MCVTerm` |

### InputGuard, MenuSound and MenuInput

`suspended`, `last_edge_at` and `edge_times` are the members of the class. `pc`
says whether the loop is before `recover_if_quiet` (`top`) or after the poll
(`poll`). `RecoverIfQuiet`, `EdgeWhileSuspended` and `AcceptEdge` are the methods,
one per early return; `Tick` is the clock. `accepted` and `prev` are history.

`MenuSound` is the player of cues. `worker[p]` is a process as the kernel sees it:
`born` with the parent's signal handlers, `opening` the sound device once it has
reset them, `playing`, and `exited` while nobody has waited for it. `Play`, `Reap`, `Signal`,
`Awaited` and `Quarantines` are the methods of the player.

`MenuInput` puts them to use. `raw` is what the hands do with the controls of each
device, `attached` where it is plugged in, `queue` its buffer in the kernel, which
overflows into `SYN_DROPPED`. `pads`, `keyboards` and `touch` are the readers with
what they believe. One loop is `Begin` (or `BeginWithTouch` when the touchscreen is
looked for), the scans, `Poll`, a `Read` and a `HandleEvent` per reader and event,
`Judge` (guard and cue), `Decide`; `StartGame` finishes the cue, closes and drains,
`EndGame` and `ForcedScan` open again. `fresh` is history: it counts, for each
control, the presses that may still become a command. `flushed` marks the devices
where the kernel has taken queued key events back (`EVIOCGKEY`) while the code goes
on with older ones. A scan is one step; a control is a key, an axis or the finger.

### ManagedChild

`point` walks through the body of the loop in the order of the code: `Reap`,
`RelayShutdown` (with `reconnect_touch`), `Poll`, `MirrorConsole`, the three ways
of reading, `ApplyReports`, `StopOnHold`, `Escalate`. `child` is the process as
the kernel sees it. Evdev and Wayland differ in where reports wait: `queue` is in
the kernel or on the socket, `chunk` is what one `read` of `read_reports` returned,
`pending` is `touch_reports` of the Wayland client, `batch` the local vector
`reports`. `ReadEvdev` reads what is queued and `GoThrough` goes through it. The
kernel keeps `BufferSize` reports; one more leaves `SYN_DROPPED`, after which
`GoThrough` asks the device (`Answer`), which takes the newer reports out of the
queue (`EVIOCGKEY`), and goes on with the older ones of the same read. On Wayland
`SeatLosesTouch` ends a touch without any report, and a seat that has touch again
(`SeatGainsTouch`) tells only of touches that begin after that (`announced`). A corner of the screen is the whole screen
here, so a finger is up or down. Times are ages that `Tick` advances and that
stop at the threshold the code compares them with; nothing else of them matters.
`uses_wayland` and the faults that a child may meet are chosen once. `carried` and
`missed` are history: the hold was read together with the loss of its touchscreen;
reports were dropped or taken back, or the seat lost touch, since the last release
that was queued.
Frame buffers are counted by `Busy`: the one shown, those whose release the
compositor owes (`owed`), and those whose release is unread (`released`). Releases
and touches come on one socket; a dispatch takes all of both, so their order
among each other is left out.

Left out: the branch in which `waitpid` itself fails, the saved terminal
settings, and the text of messages.

### Dashboard

`pc` is a point of the loop; one iteration is `Top`, `Poll`, `Read`,
`HandleCommand`, a `Press` or `Release` per report, `Gate`, and `ChildReturns`
when something was launched. Whatever a handler does, including its redraw and
its cue, is part of its action: `Show` records what was presented, so a handler
without a redraw leaves `shown` behind. `MoveTo` is the bottom half that many
handlers share. The layout is a function of the carousel (`TargetsShown`).
`Tap` and `ActivateSetting` are the dispatches on a target, `RequestReboot` and
`RequestGame` the two halves of `request_game`.

Controllers, keyboards and touch deliver any command of the view or any reports;
the burst guard may drop edges, so it needs no state here. `touch` says how the
reports arrive, which for a Wayland display never changes. `reboot_age` and
`confirmed` are history: they count from the user's side when the reboot entry
was selected and whether anything came after it.

Left out: the text of the Wi-Fi editor (module `WifiEditor`) and of the status
lines, drawing.

### DeckAudio, LossyFifo, Picture and Emulator

One action per section under `mutex_`. `worker` says where `audio_thread_main`
is; `wait` is inside `pthread_cond_wait`, which may return spuriously. Frames are
numbers, so a wrong copy shows. `LossyFifo` is a queue that drops its oldest
frames and counts them; `Pending` reads the ring in order and is the refinement
mapping.

`Picture` is `DeckFramebuffer`: layout of a game picture on the rotated panel, the
staging picture with its inset and hint, and the rows that reach the panel one by
one. A pixel holds the place of the source it shows, so a wrong row or a stale
border shows. `Emulator` is the main thread: `stage` walks from reading the ROM
through the launch, the frame loop (`RunFrame`, `PublishPicture`, `Sound`, `Queue`,
the periodic `Save`s, `Pace`) to the final saves and `close_device`. A save memory
is the number of frames its content has seen. `Kill` and `Relaunch` may come at any
point; `files` stays. A front end is NES (RAM, legacy format), Game Boy (RAM and
clock) or CHIP-8 (no saves, a core that halts); the Spectrum is the NES without the
legacy format.

Left out: colours, interpolation and volume scaling of samples, the frame clock,
the core's options other than the pixel format.

### StateFile, AtomicCell, Screens, WifiEditor and Settings

The writers differ in the number of temporary names and in what they do with the
directory's `fsync`: not called, called and ignored, or reported. `disk` is the set
of directory states a power failure may leave; a file that was not synced may be
torn. Every call of a save may fail, a process may be killed between any two, and
process numbers come back after a reboot, which is how names run out. `AtomicCell`
is the promise: one whole value, replaced at once, and after a power failure one of
those held since the last flush.

`Settings` is what the dashboard does with such files. `kind` chooses the file;
`memory` is the setting on the screen, `device` the backlight, `last_audible` what
unmuting returns to. `StartUp` loads or refuses to start, `Turn` and `Change` step a
value and save it through the actions of `StateFile`, `Launch` to `PlayerEnds` let
the chiptune player change the volume file and `Reload` read it back. `WifiEditor`
is the page of the editor (`page`, `texts`, `pressed_target`), from a press over a
release to a key typed, and the helper process behind SAVE. `Screens` gives the
rectangles of every button, in pixels of the code.

Left out: reading errors of a file that exists, the texts of messages, the failing
`fork` and `pipe` of the helper, which count as a failed helper.

### WifiProfiles, WifiSelect and WifiWatch

`WifiProfiles` is `deck-wifi-profile-add`. `dir` has the profiles by their place in
`FileOrder`, the order in which the shell lists the names: a network has a canonical
name and may have others from an import, before or after it. `helper` walks from the
lock over the rename (`StoreProfile`), one `RemoveSpelling` per other name and the
next preferred file, read in one step and renamed in another, to its cleanup; each
step may fail. Nothing in these scripts is synced: `stored` is what the kernel has
written back last, at any moment (`WriteBack`), and after a power failure
(`HelperIsCut`, `Reboot`) each name that has changed since, taken by itself, is as it
was, as it is, or an empty file; `lock` may stay. A passphrase is
the imported or the entered one. `entered` and `known` are history: networks saved
with success, and those that have had a profile.

`sel` is the selector's shell variables with a program counter, `config` and
`preferred` its files, `link` what `network_ready` and `is_associated` see. The
radio is the environment: networks come and go, a station associates, if the
passphrase is still the network's (`Changed`), obtains an address, sometimes only
after a renewed request (`Sticky`), and loses it. `noticed` is history: the selector
has taken a step since the connection became healthy. A candidate is the path of a
profile, which a helper may have removed by the time it is tried. `WifiWatch` adds
the watcher's loop, its restart by procd while a selector runs on, the helper, and
power failures, which end all of them. `Reload` may fail, which the script ignores
(`|| true`): then the configuration loaded before stays in use, and `unloaded`,
history, says so. Selector and watcher write the
preferred file in two steps, as the helper does, so that updates can be lost.

Left out: parsing of scans and profiles, the form of keys, file permissions. Every
profile is taken to be enabled and well-formed. There is one helper at a time, for
the dashboard waits for it.

### PlayerInput and Chiptunes

`PlayerInput` is how commands reach the chiptune player: `touch` and `pads` are the
devices of `InputDevices` as found at start, `queue` their buffers, a packet being
one change with its `SYN_REPORT`. `ReadBatch` is a `read` of up to `BatchSize` events
(`fetched` counts those read and not looked at); `TouchPacket`, `PadPacket` and
`NextDescriptor` are `drain_touch`, `drain_gamepad` and the turn over the descriptors.
When a controller is asked for its state, `EVIOCGKEY` takes the key events out of the
kernel's queue (`Unkeyed`) and not out of the batch, whose older events are applied
afterwards; `stale`, history, has the keys that this leaves wrong until they move
again. The `finger` is one
for each touchscreen, although the player reads only the first that it found. `owed`
counts, for each command, the presses not yet answered, where `Presses` says what a
change of the controls asks for; `invented` is a command without a press. The touch
points are corners of real buttons and a gap between two.

`player` is `ChiptunePlayer` (`file_index_`, `backend_`, the track and its count,
`paused_`); `loaded` is the file that `emulator_` or `vorbis_` holds, and `started`
says whether the emulator is in the middle of a track.
`disk` is the playlist, each file reduced to what opening and decoding it does:
whether it opens, its backend, its tracks, those `gme_start_track` refuses, and
whether the stream is fine, empty or damaged. `OpenFile`, `ChangeFile`,
`ChangeTrack`, `ChangeRandomFile` and `AdvanceAfterEnd` return the result of the
call and the player left behind, because a failed call changes it as well.
`TrackEnds`, `GenerateFails` and `ThreadReturns` are the playback thread. Each
command of a frame is a critical section of its own, `TakeError` and `Draw` end
the frame, `Stop` and `Join` are the destructors. A scenario is either a playlist
where any single command comes in a frame, or a set of devices whose commands the
player follows.

Left out: sample data, titles, drawing.

### JoypadInput

`devices` and `unread` are the kernel: a buffer that overflows keeps `SYN_DROPPED`
and the latest event, and `EVIOCGKEY`, by which a controller is asked for its state
when it is attached and after a loss, takes the queued key events out (`Unkeyed`).
What was read before goes on being applied; `stale`, history, holds the controllers
whose last event was taken while an older one was still to be applied. `slots` is `gamepads[]`; a closed slot may remember its
port. `Scan`, `Return`, `Fill`, `TakeOver` and `Assigned` are `scan_gamepads`, one
step per controller attached, so controllers may leave in the middle of a scan. A
new device gets the lowest free event number, which may be the number a slot still
holds for a device that has gone. `Poll`, `Read` and `Event` are the draining of a
controller, `DrainKeyboard` of the keyboard, `Cleanup` is `input_cleanup`.

A controller has one button; all its buttons and axes are treated alike by the
code. `budget` counts what remains of the scenario.

### TenSeconds

`loop` is a point of the main loop: `Draw`, `Stop` (the cap), `Poll`, a `Read` and
`HandleEvent` per device, the controllers first and in the order they were found in,
`Decide` (BACK, a controller, each touch), `ActivateTimer` per press, `NextTurn`, and
`Exit`, which waits for the sound process. `child` is that process. Time is counted in
centiseconds.

An event stands for all that a device says up to `SYN_REPORT`: `press` tells where the
finger is, `move` tells that and nothing of its being down, `release` and `empty` (a
report whose key was taken back) tell nothing of where. `queue` is the kernel's, which
leaves `Dropped` and the newest event when it is full. `Resynchronized` asks for the
keys: on the kernel of the device (5.10.176, as `src/ops/deck-wireguard/README.md:12`
has it) `EVIOCGKEY` takes the key events it makes stale out of the queue and leaves the
rest of their reports (`Unkeyed`, external). `activations`, `taken` (reports taken for
a press) and `fresh` (presses of a device not taken yet) are history.

### WaylandSurface

`slots` are the buffers with their sizes and busy flags, `requests` what the
compositor has received and not yet taken, `shown` the buffer on the screen,
`inbox` and `events` what the socket and the queue hold. `Wait` is
`wait_until_configured` in slices of its time, `FindSlot` and `Write` are `present`,
`Poll`, `GoOn`, `Dispatch` and `Take` the dashboard's side. `ReadEvents` handles
everything queued, as `wl_display_dispatch` does, whoever calls it. The compositor
may copy a buffer or show it, resize the surface, cancel touches, take the touch
capability from the seat and give it back (`CapabilityLost`, `CapabilityGained`) and
end. `unsaid` is history: a press ended with the seat's touch, of which nothing is
reported, and nothing has been reported since. What the compositor shows of a buffer
it reads by the width the buffer was made with (`ShownPixel`). Pixels hold the place of the source they show.

### Scrollback and VTerm

`vt` holds the members of `VTerm` and the cursor of `FbShell`; each control function
is an operator from `vt` to `vt`. `lines` is `linenumbers`, `text` the memory of
screen and history, `dirty` the range of each row to be repainted, `pending` the
scroll that painting still owes. `BeginInput` to `EndInput` is one read of the
program's output, at whose end `Update` paints. `Alarm` and `TimerSignal` are the cursor's
timer and its late handling, `Activate` and `Deactivate` switch the panel to and from
another shell, and `HistoryScrolls` moves the view. `Scrollback` is a screen with a
history and a view, in which rows are values and nothing is permuted; `Repeat` is
the one thing in it no reader would ask for, a top row that is a scroll region of its
own and enters the history at each line feed although it stays (`pinned`). Counts,
columns and line numbers that the code keeps in a `u16` wrap as they do there.

Left out: the escape sequence parser, UTF-8, charsets, colours and attributes, wide
characters, insert mode, text selection and the mouse.

## 3. The runs

Twelve runs, eleven that pass and one that shows a disagreement.

| run | shows | bounds |
|---|---|---|
| `menu_input` | `BurstBound`: any `BurstLimit`+1 accepted edges span a window, across suspensions. `QuietBeforeResume`: after a rejection nothing passes before a full quiet time. `EveryCommandIsAPress`: nothing held, pressed in a game or told twice becomes a command. `PluggedInIsRead`. `InputInv`: readers agree with their devices, the one cue worker is known, and none plays into a game | limit 1, window and quiet time 2, clock 3; buffers and batches of 2, so that three changes overflow; seven scenarios: two pads replugged, one pad in bursts, a pad across a game, a touchscreen, a keyboard with Shift, a pad with a cue, a keyboard with two cues and a game; two ports where there are two pads |
| `child` | `ChildInv`: the supervisor returns without a child of its own left, and buffers never exceed three. `StopsAreJustified`: never a signal to a reaped process, SIGKILL only after the grace, a touch stop only for a hold that is genuine as far as reports reach the loop. `ChildEnds`: a shutdown request and, on evdev, a finger that stays end a child that ignores SIGTERM, across replugs and losses | both displays, a mirrored terminal, hold, grace and retry of 1, a kernel buffer of 2, two reports in flight; a child meets either replugs and a shutdown request or losses, as often as they like |
| `dashboard` | `LoopInv`: the reboot is armed only where its prompt is seen, only games are emulated, a press is compared only with the screen it was made on. `ScreenIsCurrent`, `RebootNeedsTwoSelections`. `ShutdownEndsSoon`: after a signal the loop ends with the iteration it is in | both displays, two systems, a game each and the reboot entry, two reports per iteration, which are one tap; confirmation of two ticks |
| `dashboard_reboot_batch` | violation of `RebootRunsReboot` | four reports: confirming and then tapping something else takes two taps in one batch |
| `emulator` | `EmulatorInv`: every frame of sound is accounted for at the device's rate, and no kill costs more than the last period. `ImplementsFifo`: the ring is a queue that drops its oldest frames. `ShowsThePicture`: nothing stale on the panel. `DrainsAndEnds` | ring 3, chunk 2, calls of up to 4: every alignment and wrap occurs, and a call can exceed the ring; rates 3 to 2; saves every 2 frames; panel 6 by 4, pictures of five shapes; five scenarios of frames, sound, launches and display |
| `settings` | `FileInv`: a reader never finds a torn value, what was confirmed survives. `ImplementsCell`. `SettingsInv`: memory, file, backlight and screen agree, buttons do not overlap, the editor's message is true. `TypedIsTouched`, `SignalEnds` | one process number, one or two names; volume 0 to 5 in steps of 2, brightness to 6 on a backlight of 4; up to three changes with launches, a power loss or a signal; eleven touch points; texts of up to two characters; every shelf of up to six systems and five entries |
| `wifi` | `WifiInv`: every saved network is a candidate once, none is preferred twice or without a profile but by a power failure, and the passphrase entered last is the one found. `RunsAreSound`: a run ends with what it found or with what works, commits only after a failed check, and refreshes WireGuard, with the exceptions of section 4. `RecoversAndTells`: a network that stays in range is joined in the end, and the status line says so | three networks with five names, two of them saved, one that needs renewal and one that has changed its passphrase; two passes; seven scenarios of up to two losses, a failing file operation or reload, a restart or a power failure (alone, in a run, and around a save), a profile saved, a lock left behind |
| `chiptunes` | `PlayerInv`: what is open is what is shown, no error is lost, the device has the volume shown, controllers are known as they are held but for stale keys, one press is at most one command. `SkipsToNearest`, `PlaysEverything`, `ErrorsAndBackAreSeen` | nine playlists of up to three files with every backend and failure and any one command per frame, and six sets of devices with up to three touches or presses, a buffer and batches of 3, so that older packets of a batch follow a resynchronization, losses and unplugging |
| `joypad` | `SlotsInv`: no controller plays for both players, and what is published is what the slots say. `SlotsAreKept`: a connected controller keeps its player, one that returns to a port a free slot remembers gets that slot. `Settles` | three controllers, ports and event numbers; a buffer of 4, so that three presses overflow it; batches of 3, so that an older event follows a resynchronization; four scenarios: three controllers that come and go, two with two presses, one whose button moves five times and overtakes the thread, one with the keyboard |
| `ten_seconds` | `TimerInv`; `EveryActivationIsAPress`: no activation by what was held at the start, by a sliding finger or twice by one press; `Leaves`: BACK and a signal end the game, whatever else is pressed | touchscreen and one controller, buffer 3, batches of 3, target 1, cap 2; four scenarios of ticks, presses, slides, unplugs and signals |
| `wayland` | `SurfaceInv`: no buffer in use is written, a frame fills its buffer and no more, and on a buffer of the surface's shape every pixel shows its place. `NoGhostFinger`: no touch stays down but one that ended with the seat's, until the next report. `Answers`: opening ends, a redraw between poll and dispatch does not hang the dashboard | three buffers, display 10 by 6, four sizes, two fingers; six scenarios of up to four frames, two configures, two touches, a loss |
| `vterm` | `TermInv`: lines and history keep apart, nothing stays dirty. `ImplementsScrollback`: the history receives the rows that leave, in order, and besides them only a top row that scrolls alone. `PanelIsTrue`: panel and cursor are what the view holds | 2 by 3 cells, two lines of history, so the ring wraps; five functions in reads of up to three, two timer signals or switches; six repertoires of functions that act on each other |

Every passing property has a mutant in `PROJECT.json`: a plausible bug in a
mapped definition under which TLC finds that very property violated.

Where a run's state is bounded by scenarios, each scenario spends a small budget of
events on one kind of hazard and leaves the order free; a budget common to all
would only multiply states in which nothing new meets.

`CHECK_DEADLOCK FALSE` appears in all runs but those of the child and the Wi-Fi
services: the programs exit, or the scenario is used up and nothing moves.

### What the violation says

- One iteration of the dashboard handles a batch of touch reports. A tap on a
  game after the confirming tap on the reboot entry, in the same batch, leaves
  `reboot_requested` set with the game selected, and `run_reboot` is given the
  game's path (`src/deck_menu.cpp:3999`).

### Other things met while modelling

Behaviour the models contain and no run is spent on:

- A power failure while a candidate is being tried leaves it configured, so the
  configured SSID need not be the last one that reached network health
  (`ops/deck-wifi/deck-wifi-select:441`).
- When the last candidate cannot even be applied, the selector goes on to restore
  the backup without a health check (`ops/deck-wifi/deck-wifi-select:616`), so a
  connection that came back meanwhile is written over, against "a healthy connection
  is never changed" (`ops/deck-wifi/README.md:29`).
- A connection that comes back by itself before the selector runs is reported as
  connected without a restart of WireGuard (`ops/deck-wifi/deck-wifi-watch:69`);
  what a selector run reports always has one, which is `RunRefreshes`.
- With the lock held by an orphaned selector `--record-success` exits with 0, and
  a restarted watcher takes the connection for recorded
  (`ops/deck-wifi/deck-wifi-select:463`).
- `deck-wifi-profile-add` and `record_success` replace the preferred file under
  different locks, so the later rename undoes the earlier update
  (`ops/deck-wifi/deck-wifi-profile-add:102`). It costs the order of candidates, not
  a profile: all saved networks are still tried.
- The lock of `deck-wifi-profile-add` stays after a power failure, and every later
  save fails at it (`ops/deck-wifi/deck-wifi-profile-add:62`).
- A save that replaces a profile of another spelling while a run has it in its list
  makes that candidate fail for the rest of the run; the next run finds the new one
  (`ops/deck-wifi/deck-wifi-select:230`).
- When the touchscreen fails in the middle of `read_reports`, the reports before
  the failure are applied after the hold was cleared and start a new one, which
  stops the child two seconds later with no finger on any screen
  (`src/deck_menu.cpp:2990`). `StopsAreJustified` excepts it by name (`carried`).
- After `SYN_DROPPED` the touchscreen is asked for its state, which takes newer key
  events out of the kernel's queue, and older events of the same read are gone through
  afterwards (`src/deck_menu.cpp:1980`, `2044`): a hold outlives its finger and stops
  the child, or a resting finger goes unnoticed until it is lifted and put down again.
  A Wayland seat that loses touch clears `touch_down` without a report
  (`src/deck_wayland.cpp:187`), with the first effect. The properties except both by
  name (`missed`, `Deaf`) and show that the next release that is sent ends it.
- The chiptune player and the emulators replay older events in the same way
  (`src/chiptune_deck.cpp:549` with `585`, `src/joypad_input.cpp:286` with `439`): a
  button that moved before the read and again before `EVIOCGKEY` stays as the
  older event left it, pressed or not, until it moves again (`stale`).
- Nothing in the Wi-Fi scripts is synced. A power failure may leave a saved network
  with an empty profile, or with none, after the older spellings are gone
  (`ops/deck-wifi/deck-wifi-profile-add:70`), against "never creates a moment with no
  usable profile" (`81`). It may also empty `/etc/config/wireless`
  (`ops/deck-wifi/deck-wifi-select:441`, `454`); every later run then ends at its check
  for a station section (`488`) and repairs nothing.
- A failing `wifi reload` is ignored (`ops/deck-wifi/deck-wifi-select:445`, `457`): the
  run then checks the connection of the configuration loaded before, and may report it
  as connected with a candidate configured that was never tried.
- A connection that comes back between the check and the commit is cut by the commit.
- A buffer is kept when its byte count fits (`src/deck_wayland.cpp:422`): after a
  resize to as many pixels in another shape frames are written with the new row
  length into buffers created with the old one, although "the compositor maps it
  1:1" (`src/deck_wayland.cpp:511`). A resize while a buffer is out makes `present`
  fail, which ends an emulator.
- A lost display leaves the dashboard polling a dead connection with WAITING FOR
  TOUCHSCREEN on no screen; a seat that loses touch drops `touch_down` without a
  report of the release.
- Temporary file names hold a process number and an attempt; files left by
  crashes are never removed, so names can run out (`src/menu_state.cpp:37`). The
  brightness is saved at every start, so a full disk keeps the dashboard from
  starting (`src/deck_menu.cpp:3742`).
- With more than 53 entries in one system the position indicators run off the
  display (`src/deck_menu.cpp:1263`); drawing clips them.
- `failed_` of the playback thread is never reset: after one error the player
  stays silent although its buttons go on changing files. The status line that
  reports it is drawn only while no file is open.
- When no file of the chiptune player's list plays and the last one fails only in
  `start_track`, its emulator stays loaded while `file_index_` is 0
  (`src/chiptune_deck.cpp:763`): the track buttons can then play another track of
  the last file under the name of the first. `OpenIsShown` excepts it by name.
- Two keys of the player that mean the same, one of them lost and found by
  `resynchronize` before older events of the batch are replayed, can give a command
  without a fresh rise (`src/chiptune_deck.cpp:541`); it is still one per press.
- A finger lifted while the chiptune player's touchscreen loses events stays
  reported, and the next tap is swallowed (`src/chiptune_deck.cpp:644`). A device of
  the player that fails is not looked for again.
- Controllers are matched to slots in the order of their ports only within one
  scan. With both pads pulled, player two's on a third port takes the first free slot
  (`src/joypad_input.cpp:399`) and becomes player one's, although the header says that
  they "consistently become NES Player 1 and Player 2" (`7`). Releasing one of two keys that share a button releases the button
  (`src/joypad_input.cpp:222`).
- `finish` of the cue player waits without a limit and retries EINTR: while a worker
  is stuck on the sound device, no game starts and a signal is not seen
  (`src/menu_sound.cpp:248`). A SIGTERM that reaches a worker before it has reset its
  handlers is lost.
- A save memory that could not be read is overwritten by the next periodic save; RAM
  and clock are replaced one after the other (`src/libretro_deck.cpp:613`).
- In the ten-seconds game that no press is taken twice rests on the kernel: where
  `EVIOCGKEY` leaves key events in the queue, a queue that overflows again between
  reading `SYN_DROPPED` and the call lets `resynchronize` find the finger down and read
  its press afterwards (`src/ten_seconds_deck.cpp:369`).
- In the terminal, a timer signal handled after the cursor's timer was stopped draws
  a hidden cursor (`terminal/fbterm/src/fbshell.cpp:403`); a scroll by exactly the
  size of the region neither renumbers nor clears it
  (`terminal/fbterm/src/lib/vterm.cpp:626`), although `scroll_region` "does clear"
  (`vterm.h:106`), so a top row that is a region of its own stays as it is and is
  copied to the history at each line feed (`611`); insert mode's loop runs over an
  unsigned column down to zero and does not end
  (`terminal/fbterm/src/lib/vterm.cpp:446`). Line numbers are `u16` (`191`, `829`):
  with more than 65536 - rows lines of history, which `history-lines` allows
  (`fbconfig.cpp:187`, `fbshell.cpp:314`), the last lines of the screen wrap onto the
  ring.

### Fairness

- `ManagedChild`: weak fairness of the loop (it never waits longer than 40 ms,
  apart from the two blocking reads that are in the model), of time, of a forked
  child up to `execv`, and of a compositor that releases buffers it no longer
  shows. Nothing is assumed of the child after `execv`. The held finger of
  `ChildEnds` is on evdev: a compositor whose every release falls between a poll and
  the frame after it would keep a touch waiting in `touch_reports`.
- `Dashboard`: none. `ShutdownEndsSoon` bounds what the loop may still do by a
  number that every step lowers; that the loop runs, and that a child ends, is what
  `ChildEnds` shows.
- `MenuInput`: the loop is weakly fair, and so is a cue, for nobody holds the sound
  device for ever. The scans and the search for the touchscreen are strongly fair:
  the clock makes them due every second, however short the loops between are.
- `Emulator`: main thread and audio worker are scheduled, and the device takes
  frames or fails.
- `Settings`: the dashboard and the helper run; the player ends after a shutdown
  request.
- `WifiWatch`: watcher and selector run, and a station in range proceeds to its next
  state. With `Prompt` the waiting windows are long enough for that, as the
  code's windows are meant to be; without such an assumption no bounded wait
  can be shown to succeed. Networks may still be lost as often as
  the scenario says. Nothing is assumed of the helper.
- `Chiptunes`: the main loop and the thread are paced by frame clocks and never
  hold the mutex for long, so both are weakly fair. That a track comes to its end
  is assumed of the music.
- `JoypadInput`: the thread is weakly fair, and `Scan` strongly, because the clock
  makes a scan due every second however busy the controllers are. Nothing is
  assumed of hands and plugs; the scenarios bound them.
- `TenSeconds`: the game and its sound process run; `WaylandSurface`: the client
  runs and the compositor takes commits; `VTerm`: none.

## 4. The proofs

Seven modules hold proofs: about the menu's input with its guard, the dashboard's
loop, the state files, settings and screens, the emulators with their audio queue,
picture and joypads, the Wi-Fi selector with the saved profiles and the chiptune
player, what the menu shares with the compositor and the program it started, and the
ten-seconds game with the terminal emulator; `Lemmas` has the lemmas on division and
on lists they share. Each
theorem holds for every value of the constants that satisfies the named assumption of
its module; TLC checks the instance of the run.
Each proof has an inductive invariant, which TLC has checked as well, one lemma per
action or group of actions, and a last step that only combines them.

| theorem | property | assumption |
|---|---|---|
| `GuardTypeCorrect`, `BurstsAreBounded`, `ResumesAfterQuiet` | `TypeOK`, `BurstBound`, `QuietBeforeResume` | `GuardAssumption` |
| `GuardRuns`, `LoopBoundsBursts`, `MenuAgreesWithItsDevices` | `Spec` of the guard, `BurstBound`, `InputInv` | `InputAssumption`, `SoundAssumption`, `GuardAssumption` |
| `CommandsArePresses` | `EveryCommandIsAPress` | the same, and `Digital` |
| `RebootIsConfirmed`, `ShutdownIsPrompt`, `LoopIsConsistent`, `ScreenIsDrawn` | `RebootNeedsTwoSelections`, `ShutdownEndsSoon`, `LoopInv`, `ScreenIsCurrent` | `DashboardAssumption` |
| `StopsAreSound`, `ReturnsWithoutChild` | `StopsAreJustified`, `ChildInv` | `ChildAssumption` |
| `FileIsAtomic`, `FileIsSound`, `SettingsAgree`, `KeysTypeWhatTheyShow` | `ImplementsCell`, `FileInv`, `SettingsInv`, `TypedIsTouched` | `SettingsAssumption`, `StateFileAssumption`, `EditorAssumption` |
| `EmulatorIsSound`, `RingIsAQueue` | `EmulatorInv`, `ImplementsFifo` | `EmulatorAssumption`, `AudioAssumption` |
| `PictureIsShown` | `ShowsThePicture` | `PictureAssumption` |
| `SlotsAreSafe`, `SlotsStayKept` | `SlotsInv`, `SlotsAreKept` | `JoypadAssumption` |
| `TimerIsSound`, `ActivationsArePresses` | `TimerInv`, `EveryActivationIsAPress` | `TimerAssumption` |
| `TerminalIsSound`, `PanelShowsTheView` | `TermInv`, `PanelIsTrue` | `VTermAssumption`, `ScreenAssumption`, `Numbered` |
| `TerminalImplementsScrollback` | `ImplementsScrollback` | `VTermAssumption`, `ScreenAssumption`, `Numbered` |
| `BuffersAreOurs`, `FingersAreReal` | `SurfaceInv`, `NoGhostFinger` | `SurfaceAssumption` |
| `RunsKeepWhatWorks`, `ListsFitTogether`, `ProfilesAreKept` | `RunsAreSound`, `WifiInv`, a part of it | `WifiAssumption`, `ProfilesAssumption`, `WatchAssumption` |
| `PlayerIsSound`, `ButtonsSkipToNearest` | `PlayerInv`, `SkipsToNearest` | `ScenarioAssumption`, `VolumeAssumption`, `InputAssumption` |

### The burst guard

`MenuInputProofs` assumes that all constants are natural numbers and that the
quiet time is not shorter than the window, as the code's constants satisfy.
The run `menu_input` checks the last two in the guard's real surroundings, with
devices, cues and games; `GuardRuns` shows that every step of that loop is a step of
the guard's own specification or leaves it alone, so they hold there too.

`BurstBound` speaks of edges that left `edge_times` long ago and is not inductive.
The strengthening is `GuardInv`, the conjunction of

- `TypeOK` and `PastInv`: nothing lies in the future;
- `TailInv`: while the guard is open, `edge_times` is exactly the tail of
  `accepted`, and everything before it has left the window;
- `SuspendedInv`: while it is suspended, `last_edge_at` is the last edge, which was
  rejected, and no accepted edge is later;
- `ResumedInv`: an open guard whose last edge was rejected has waited out the quiet
  time, which `QuietBeforeResume` follows from;
- `BurstBound` itself.

Recovery forgets `edge_times`; `SuspendedInv` and a quiet time no shorter than the
window are why that is harmless. One lemma per action preserves `GuardInv`, with
one step per conjunct the action disturbs.

### The menu's input

The rest of `MenuInputProofs` speaks of any set of devices with their kinds, places,
controls and axis values, of buffers and batches of any length, and of any scenario of
hands and plugs. `InputInv` looks only at readers that have read everything; `MenuInv`
says at every moment what is under way between a control and what its reader believes.

- `ListenInv` has two parts for each open reader. `Reading` follows values: what the
  kernel keeps says last what a control is now (`Follows`), and a control that the
  kernel is silent of was told last by what is being looked at, will be asked for
  because events were dropped, or is known (`Settles`). `Owing` follows presses: the
  reports still under way that the code will count are no more than the presses that
  were made since the reader was opened. Fingers need that presses and releases
  alternate, and that a press already told is not told again by a resync.
- `WorldInv` keeps plugs, values and counts in their ranges; `ReadersInv` gives each
  device one reader at most, of its kind, and keeps the limits; `TurnInv` says
  that only the touchscreen is read in a game.
- `SoundInv` is about the cue's worker: the player knows the only one there is.

Each happening is one lemma for `Reading` and one for `Owing`: a device opened, a
control moved, a buffer read into a batch, a report looked at, a loss noticed, a
resynchronization, which asks for the state and drops what is queued. `LookedAt` says
once that a report changes one reader and leaves the others alone. The scan of
controllers sorts by port and path; `LinearRanks` of `Lemmas` shows that ranks in a
linear order differ, and `FirstOfSorted` that the first ones of a sorted list are still
one reader for each device.

`CommandsArePresses` needs `Digital`: no two values of an axis press the same button,
as with a pad that tells left, right and neither. A stick that tells how far it is
pushed may be counted twice: it moves on while pushed, events are dropped, and
resynchronization already finds it let go; a position that was read before and is
looked at only then tells the same deflection a second time. TLC finds that
behaviour when the axis takes two values on one side; `AxisValues` of the run are digital. `MenuAgreesWithItsDevices` needs no such
assumption.

### The dashboard's loop

`DashboardProofs` speaks of every catalog, confirmation time and number of reports
in a batch. That a second selection is in time is not inductive: `armed_left`, which
the code looks at, must be tied to `reboot_age`, which the property speaks of. In
`IterationInv` the part `PromptInv` says that the two add up to the confirmation
time while something is armed. That needs `ArmedIsOnDashboard`, because a row of the
settings can be selected without disarming, and this in turn needs which views can
be stacked and which commands each admits (`StackInv`). `PressInv` says that a
command about to be handled has forgotten the press, without which `Leave` and
`Open` would keep the target of another screen. `ShutdownIsPrompt` is an action
property: one lemma per kind of step shows that `StepsLeft` goes down.

`ScreenInv` adds to `IterationInv` what the rest of `LoopInv` and `ScreenIsCurrent`
need. The lists of the carousel are filtered from the catalog; `Indices` is the set
of the entries of a system and `PlaceOf` the number of those up to an entry, so that
"the entry at this position" is a statement about cardinalities. `CarouselIsFilled`
is the pigeonhole that makes it one entry, and `RequestInv` then says which entry a
request is for. `DrawnInv` says that what was presented is what the state says
whenever the loop can wait; each handler is one lemma, since a handler that changed
something without `Show` would break it.

### The supervisor

`SharingProofs` is about what is under way between the finger and the hold the
code believes in. `FlightInv` says that the last report in the queue, in
`touch_reports` or in the batch (or, when there is none, the last state read) is
what the finger does, as long as there is a source that lives and nothing was
`missed`; `GenuineInv`, that a hold which goes on is one of the finger and no older
than it, or that a release is under way, or that something was missed. A release that
is queued makes up for what was missed before it: it is read after everything older,
and only another loss can take it away. The interesting step is `ApplyReports` (`GenuineApplied`): a hold that
goes on saw no release in the batch, so the release is still in a queue; one that
begins ends with the last report read, so either the finger is down or something
comes after it. A device that is found again starts with empty queues, because
everything read before the loss has been applied (`PlaceInv`). `HoldIsGenuine` is
`GenuineInv` at the point where the hold is compared, where the batch is empty.
`SignalsAreSafe` follows from `ProcessInv`, which says where the loop may be while the
child is not reaped.

### State files and settings

`SettingsProofs` assumes of the constants that the brightness step divides the
full brightness, that the menu and the emulators do not report a directory that
could not be synced while the player does, that there are at most sixteen temporary
names, and that every value is one the file can hold. `DirectoryInv`
consists of `DiskInv`, what may be on the disk after a power failure (every state of
the directory that may come back is whole and no older than the last synced save);
`SaveInv`, which says at each call of a save what the temporary file holds; and
`ValueInv`, the ranges of what the next value is computed from. The brightness is a
multiple of its step from wherever it comes, which takes the division with remainder
of `Lemmas`. The refinement maps
the cell to the value in the file and what is stable to the values in `disk`: a
rename is the write, a directory sync the commit, a power failure the choice among
what is stable, and everything else stutters.

`FileInv` needs two more: `CleanInv`, that a running save has created no name but
the one it holds, and `SessionInv`, which ties the result that is told, the last
audible volume and the backlight to the place in the save. `SessionInv` is what
`SettingsAreShown` follows from: when the dashboard waits again, the value kept is the
one in the file.

The screens are proved plain (no two buttons share a point, and each is on the
panel) for every shelf of at most six systems, the number of `kSystemDefinitions`,
with any number of entries. Lists of buttons are put together by `Plain` lists in
bands that do not meet (`BandsTogether`, `PlainTogether`), and a row of keys is one by
the arithmetic of equal widths. From it, a point lies on at most one key
(`KeyIsTouched`), so the target found is the one shown there, which is
`KeysTypeWhatTheyShow`. `EditorSteps` is the inductive invariant of the editor:
`TextTypes` with the lengths of the lines, `HandingInv` (while the helper runs nothing
is typed, and what it has stored is what is shown) and `PressInv` (a target that is
remembered is the one under the finger).

### The emulators

`EmulatorProofs` has one inductive invariant of three parts. `AudioInv` adds to
`QueueInv` that the worker's hands are empty but while it writes; the ring is treated
by two lemmas on copying into it that hold for every capacity. `RateInv` adds
that nothing has been received before the device is open; its step for `Sound` is
the identity of the division with remainder. `ProgressInv` replaces the bound of
`ProgressIsKept` by an account: what a save file lacks is at most the place of the
frame in its period, `frames % SaveEvery`, which is 0 exactly when a save is due. The
bound itself is not inductive, since it does not say when the next save comes. The
proof assumes that a front end whose core halts saves nothing, as CHIP-8 does: its
failed picture ends the game without a last save. Fairness of `EmulatorSpec` is not
used.

`PictureInv` is about every place of the panel: the buffer holds picture `picture`
there, and the panel this one or the one before, by the row that is published. The
code scales by whole numbers and rotates; `Across` and `Down` count from the corner
of the picture, and one lemma on division says that the places a dot is painted on
are those which map back to it. The hint goes onto the panel after the last row and
never into the buffer; until then a place may still show it from the picture before.

### The ring is a queue

`EmulatorProofs` also shows that the ring, with both threads and the process around them,
implements `LossyFifo` for every capacity, chunk and size of a call. What is pending
is `Ring(queue, queue_head, queue_size)`, so the work is arithmetic of remainders:
`RemainderIs` of `Lemmas` (a remainder is determined by being one), `StepAround` and
`OffsetFromTail` turn an index that wraps into a place in the sequence.
`PartsOfARing` gives what `TakeChunk` leaves and takes. `StoreGives` is the long one:
`FilledRing` says what a copied ring holds before and behind its old tail,
`NewestOf` what the abstract queue keeps, and the two are compared element by
element, with frames lost on both sides (of the call, and of the ring). The last
lemma maps every step of an emulator to a step of the queue or to none, under
`FrontInv`: the worker takes a chunk only with empty hands, and a
batch given is never empty nor longer than what may still be given.

### The joypads

`JoypadInv` is about any number of devices, ports, event numbers and players, buffers
of any length and hands that do what they like. `SlotsInv` says that no two slots have
one device open and that what is published is what the slots say, but it does not say
which device may still be attached. `DevicesDiffer` (a device that is there has a port
and a number of its own), `SlotsKnowTheirs` (a slot has the port and the number of the
device it has open) and `CandidatesAreNew` (a device found by the scan has a number no
open slot has) together do. The number matters because the kernel gives it again: a
slot may hold a device that is gone while another one has its number. `ReadyIsOpen`
keeps a slot that was closed while draining from being drained. `SlotsStayKept` adds
what a single step may do: `Cleanup` and a device that fails close a slot, which
remembers its port, and only `Return` gives it back.

### The ten-seconds game

`ProgramProofs` counts what may still become an activation. `EveryActivationIsAPress`
says of a state only that no device was told of more presses than there were; a press
may wait in the kernel's queue, have been read and not looked at, or have been dropped
and be found by `resynchronize`, and the same finger may be in several of these places.
`Owed` of a device is the number of presses it can still take: those in its queue and
in the batch, one more if the key was up at the end of the batch and is down at the
start of the queue (`Unseen`), and one more or less for a press that was lost before the
batch or is in it although it has been taken (`Ahead`). `Flows` says that at least as
many presses were made, that the last word of the queue about the key is what the hand
does, and that presses and releases alternate in queue and batch. The lemmas on streams
say what cutting, appending, dropping and `EVIOCGKEY` do to the first and the last word
and to the number of presses; each action then changes `Owed` by what it takes.
`FlowsAnew` is the interesting one: a device that is read anew forgets what was
dropped, and the keys in its queue are gone, so a finger that is down is taken once.
`ShowInv` is about the other half, the timer, what was drawn and the sound process.

### The terminal

The rest of `ProgramProofs` speaks of every size of the screen that a u16 can hold,
every length of the history whose lines can be numbered in a u16 together with the
screen's (`Numbered`, a hypothesis of the theorems and not of the module, for the code
does not see to it), every character set, and any number of functions in a
read, used in any order. `PanelIsTrue` looks at a terminal between two reads; what makes
it true is said during a read by `During`: for each row of the shell on the panel,
either the row is dirty in all its columns, or each cell outside its dirty range is on
the panel already, without an underline, in the row where it stood before the scrolling
that is still pending (`From`), which is inside the margins when the row is. Every
control function keeps that: one that writes text marks at least what it changes
(`Touched`), one that scrolls moves lines, dirty ranges and pending scrolling alike
(`TurnedDuring`) or marks the whole row when the region is not the one the margins
name. The steps that could break it are those after which `From` means something else:
`set_margins` carries out what is pending first, and `reset` clears every row.
`UpdateIs` then repaints a scrolled region and every dirty range, which leaves
`Between`: nothing is pending, every row is `Clean`, or `Whole` in a shell that has not
read anything, the panel shows the view, and an underline is that of a visible cursor
unless a signal was stray. The events of the front end are about `Between` alone.

`TermInv` needs that the lines of the screen are distinct and fill the memory behind the
ring (`Lined`), which a scrolled region keeps because `Taken` deals out each line once;
it is also why the ring can be written while rows are scrolled. `ScreenAssumption` is
used where a count of rows wraps around below the bottom margin: it then exceeds any
number of lines, so `scroll_region` gets a start behind the end and does nothing.

`TerminalImplementsScrollback` maps the permuted line numbers to a list of rows, the ring
to the list of what left at the top, oldest first, and the view to a distance from its
end. `HistoryScrollKeeps` is the core: the slots of the ring that `history_scroll` writes
are, counted from the oldest, those behind the old ones, so the list is appended to and
cut at the length of the ring, also when the ring wraps within one call or as many rows
leave as it holds. `ScrollRegionIs` says what is left of `scroll_region` once its clipping
and its special cases are taken apart, `ScrollRegionScrolls` that the rows move as a
block. `Performs` is what every control function then satisfies: it writes one row and
fills others, or it scrolls and writes one row. Only a region of one row is ever scrolled by all its rows, for deleting and
inserting lines clear instead; at the top of the screen that is `Repeat`. The other
steps change where the view is, or nothing that the scrollback knows of.

### The selector and the profiles

`WifiProofs` follows a run of the selector through its labels, while the radio, the
watcher, restarts, power failures, failing file operations and failing reloads do what
they may. `CourseInv`
says where the configuration that the run found is: in place until the backup, in
the backup from then on, and in place again when a rollback is waited for.
`LoadedInv` says that what is loaded is what is configured except between the commit
and the reload and after a reload that failed, and that a complete connection is one of
a configuration that has worked; and `CheckedInv` that nothing was noticed between the
check and the commit. `RunEnds` then goes through the steps that end a run. What
`RunsAreSound` excepts is what the code leaves open: the restoration after a last
candidate that could not be applied has no check of its own, a run after an ignored
failure of the reload reports the connection it finds, and a power failure ends a run
anywhere.

`StoreInv` says of a network whose profile has been saved that its canonical name is
its only one, and of a helper half way that the names it still has to remove are
exactly the others. So neither a removal nor a failure can take the last profile, and
the first name the selector finds is the one just written. A power failure can: what
holds across it holds of the networks none of whose files had changed since the last
write-back (`AtRisk`), whose directory entries are then what they were.

`ListsFitTogether` is about the lists. The shell makes them by filtering and by
appending; `Lists` says what comes out, a member's place being the number of those
before it, so a list is put in order by ranks and no recursion is needed.
`OnlyIs` shows that a filtered list has each member once and keeps to the order, from
which `AheadIs` gives that a network moved to the front is in the list once and the
limit holds, whoever of the two writers does it and whatever the other has renamed in
between. `RanksDiffer` is the reason why no candidate is tried twice although four
sources are put behind each other; `CandidatesAre` then counts: there are as many
places as saved networks. `WatchInv` carries this through the run, with the bounds of its
counters. What a bound needs besides itself is part of it: the
round is below its limit where a scan is to come, and the watcher has reached its
threshold only while it waits for a run.

### The chiptune player

The second part of `WifiProofs` is about any playlist and any devices. `PlayerIInv` has
a half for the player and one for its input, which meet only in the set of commands of
a frame.

`GoodPlayer` says of what every call leaves behind, whether it succeeds or not, that an
open file is one that opens, that backend and tracks are its own, and that it is the
one shown, unless nothing in the list plays. A call is a loop over candidates which
ends with the first that plays, in the model a fold over a list. `TriedInTurn` unrolls
it into the results after each candidate. That there is such a fold (`FoldExists`), and
what holds of each result, is shown by taking the least number for which it would be
false, so no induction theorem is needed. `ReachedIs` says where `direction` taken
k times modulo the number of files arrives, and that all other files come before the
loop is back: the candidate reached after k turns is at `Distance` k, so the first
one that plays is the nearest, which is `SkipsToNearest`.

`PadKnown` and `FingerAt` follow the devices through the queue: its last word is what
the hand does, and so is what the reader believes once it has been read to the end, in
order or from `resynchronize` on; a key in `stale`, whose last event the kernel took
back, is left out until it has moved. `OwedInv` is why a command needs a press: the packets
that may still raise a command (`Pending`) are no more than the presses not yet
answered. A packet that is read, dropped or taken back by the kernel leaves fewer,
shown by mapping the places that remain into the places before.

### The Wayland client

`SharingProofs` follows a buffer and a touch. `OwnedInv` says that a buffer is with the
client, on its way to the compositor, on the screen or on its way back, in one place
only, and busy everywhere but with the client; a release given twice, or given for a
buffer of before a resize, would break it. `TouchInv` follows a finger through the
socket, the queue and the reports to what the dashboard believes. It needs that a
cancel reports a release; the loss of the seat's touch reports nothing, so `unsaid`
goes from there to the next report. The loops of `present` are compared with the
picture pixel by pixel, for every size of the surface and a buffer made for it; of a
buffer kept from another shape the proof says only that the frame fills it.

### Only model-checked

The ten liveness properties, for which the prover has no rules (fairness, ENABLED):
`PluggedInIsRead`, `RecoversAndTells`, `PlaysEverything`, `ErrorsAndBackAreSeen`,
`Settles`, `Leaves`, `Answers`, `DrainsAndEnds`, `SignalEnds` and `ChildEnds`. Every
invariant, action property and refinement that a passing run checks is also a theorem.

## 5. Not modelled

Drawing beyond which buttons exist, where they are and what must be redrawn; text
formats, among them the manifest, the palette and the credits; the CHIP-8
interpreter and the libretro cores (state spaces of memory images), sound samples
and colours; the catalog compiler (a build-time function over text); the escape
sequence parser, charsets and attributes of the terminal emulator, and its display
drivers; shell, Go and Lisp outside the Wi-Fi recovery, as `PROJECT.json` lists
with each component.

## 6. Plan

1. `Activate`: deployment with backup and rollback, the switch of presentation with
   its way back; the upload server's installs.
2. The legacy save format's encoder and decoder as functions over bounded inputs.

Runs are kept to one per question, so a new component either gets a run that
answers all its questions or extends one that exists.
