----------------------------- MODULE Dashboard -----------------------------
(***************************************************************************)
(* The dashboard's main loop: four views stacked over the carousel, a      *)
(* controller or keyboard command or a batch of touch reports per          *)
(* iteration, the two-step reboot confirmation, and the launch of a child. *)
(*                                                                         *)
(* Only what steers the loop is kept.  Volume is muted or not; a status    *)
(* line is empty, the reboot prompt, a touchscreen message or another      *)
(* text; a controller and a keyboard give the same commands and differ     *)
(* only in what a sounding cue discards.  run_managed_child is one action  *)
(* here and module ManagedChild in detail.  Time is counted in ticks, and  *)
(* only while a confirmation is armed.                                     *)
(***************************************************************************)
EXTENDS Naturals, Sequences, FiniteSets

CONSTANTS
  Games,         \* the manifest with the built-in entries appended
  Touchscreens,  \* how touches arrive: "evdev", "wayland", or both builds
  ConfirmTicks,  \* kRebootConfirmMs
  MaxBatch       \* bound: touch reports read by one iteration

Kinds == {"game", "terminal", "reboot"}
Entries == 1 .. Len(Games)
Systems == {Games[i].system : i \in Entries}
LastSystem == Cardinality(Systems)

\* Systems are numbered in the order of kSystemDefinitions and only populated
\* ones get a tab.
ASSUME DashboardAssumption ==
  /\ Games \in Seq([system : Nat, kind : Kinds])
  /\ Len(Games) > 0
  /\ Systems = 1 .. LastSystem
  /\ Touchscreens \subseteq {"evdev", "wayland"}
  /\ ConfirmTicks \in Nat \ {0}
  /\ MaxBatch \in Nat

VARIABLES
  pc,                  \* where the loop is
  shutdown,            \* g_shutdown_requested
  views,               \* settings_view, wifi_view, credits_view
  active_system, game_position, settings_selection,
  status, wifi_status, \* the two status lines
  muted,               \* volume = 0
  sound,               \* menu_sound_player.quarantines_input()
  touch,               \* "open" or "closed" as touch.fd(), or "wayland" when
                       \* the reports come from the compositor
  armed,               \* reboot_armed_until > 0
  armed_left,          \* ticks until reboot_armed_until
  pressed_target,
  command,             \* controller_command
  batch,               \* reports not yet looked at
  selected_game,       \* 0 for none
  terminal_mode, reboot_requested,
  shown,               \* what the last present put on the screen
  reboot_age,          \* history: ticks since the last reboot selection, or
                       \* Never when another action came after it
  confirmed            \* history: the last reboot selection followed another
                       \* in time, with nothing in between

carousel == <<active_system, game_position>>
lines    == <<status, wifi_status>>
arming   == <<armed, armed_left>>
request  == <<selected_game, terminal_mode, reboot_requested>>
history  == <<reboot_age, confirmed>>
vars == <<pc, shutdown, views, carousel, settings_selection, lines, muted,
          sound, touch, arming, pressed_target, command, batch, request,
          shown, history>>

Never == ConfirmTicks + 1

View ==
  CASE "credits" \in views -> "credits"
    [] "wifi" \in views /\ "credits" \notin views -> "wifi"
    [] views = {"settings"} -> "settings"
    [] OTHER -> "dashboard"

\* What render_current_screen draws of the state.
Picture ==
  [view      |-> View,
   system    |-> IF View = "dashboard" THEN active_system ELSE 0,
   position  |-> IF View = "dashboard" THEN game_position ELSE 0,
   selection |-> IF View = "settings" THEN settings_selection ELSE 0,
   status    |-> CASE View = "credits" -> "none"
                   [] View = "wifi" -> wifi_status
                   [] OTHER -> status]

Show == shown' = Picture'

-----------------------------------------------------------------------------
\* The dashboard's layout.  render_menu runs whenever active_system or
\* game_position changes, so it is a function of them.

\* The entries of a system keep the manifest's order: game_indices[n] is the
\* entry with n others of its system before it.
Indices == [system \in Systems |-> {i \in Entries : Games[i].system = system}]
PlaceOf ==
  [i \in Entries |-> Cardinality({j \in Indices[Games[i].system] : j < i})]
game_indices == Indices[active_system]
game_count == Cardinality(game_indices)
shown_game_index ==
  CHOOSE i \in game_indices : PlaceOf[i] = game_position % game_count

Smaller(a, b) == IF a < b THEN a ELSE b
visible_count == Smaller(3, game_count)
first_position ==
  IF game_position = 0 THEN 0
  ELSE IF game_position + 1 >= game_count THEN game_count - visible_count
    ELSE Smaller(game_position - 1, game_count - visible_count)
visible_game_indices ==
  {i \in game_indices :
     PlaceOf[i] \in first_position .. first_position + visible_count - 1}

Target(kind, index) == [kind |-> kind, index |-> index]
MenuTargetNone == Target("none", 0)

SettingsTargetClose == 0
SettingsTargetVolumeDown == 1
SettingsTargetVolumeUp == 2
SettingsTargetTerminal == 5
SettingsTargetKeymap == 6
SettingsTargetWifi == 7

\* target_at, settings_target_at, wifi_target_at and credits_target_at.
TargetsShown ==
  {MenuTargetNone} \cup
  CASE View = "credits" -> {Target("close_credits", 0)}
    [] View = "wifi" -> {Target(k, 0) : k \in {"back", "save", "edit"}}
    [] View = "settings" ->
         {Target("setting", i) : i \in SettingsTargetClose .. SettingsTargetWifi}
    [] OTHER ->
         {Target("credits", 0), Target("settings", 0)}
         \cup {Target("system", s) : s \in Systems}
         \cup {Target("game", i) : i \in visible_game_indices}
         \cup IF game_count > 1
                THEN {Target("previous", 0), Target("next", 0)} ELSE {}

IsReboot(target) == target.kind = "game" /\ Games[target.index].kind = "reboot"

Commands == {"none", "previous", "next", "system_previous", "system_next",
             "confirm", "back", "settings"}

\* menu_gamepad_command for any combination of buttons.
CommandsOf(view) ==
  {"none"} \cup
  CASE view \in {"wifi", "credits"} -> {"back"}
    [] view = "settings" -> {"back", "settings", "previous", "next", "confirm"}
    [] OTHER -> Commands \ {"back"}

adjacent_system(direction) ==
  IF direction = "system_previous"
    THEN IF active_system = 1 THEN LastSystem ELSE active_system - 1
    ELSE (active_system % LastSystem) + 1

adjacent_position(direction) ==
  IF direction = "previous"
    THEN IF game_position = 0 THEN game_count - 1 ELSE game_position - 1
    ELSE (game_position + 1) % game_count

adjacent_setting(direction) ==
  IF direction = "previous"
    THEN IF settings_selection <= SettingsTargetVolumeDown
           THEN SettingsTargetWifi ELSE settings_selection - 1
    ELSE IF settings_selection >= SettingsTargetWifi
           THEN SettingsTargetVolumeDown ELSE settings_selection + 1

-----------------------------------------------------------------------------
Init ==
  /\ pc = "top" /\ shutdown = FALSE
  /\ views = {} /\ active_system = 1 /\ game_position = 0
  /\ settings_selection = SettingsTargetVolumeDown
  /\ status = "none" /\ wifi_status = "none"
  /\ muted \in BOOLEAN /\ sound = FALSE
  /\ touch \in {IF t = "wayland" THEN "wayland" ELSE "open" : t \in Touchscreens}
  /\ armed = FALSE /\ armed_left = 0
  /\ pressed_target = MenuTargetNone
  /\ command = "none" /\ batch = 0
  /\ selected_game = 0 /\ terminal_mode = FALSE /\ reboot_requested = FALSE
  /\ shown = Picture
  /\ reboot_age = Never /\ confirmed = FALSE

\* play_menu_sound; the worker may fail to start.
Cue == sound' \in IF muted THEN {sound} ELSE {sound, TRUE}

\* Plausible bugs, for the mutation runs.
ActiveUntilNoticed == armed

\* reboot_confirmation_active.
reboot_confirmation_active == armed /\ armed_left > 0

Disarm == armed' = FALSE /\ armed_left' = 0
WithoutPrompt == IF status = "confirm" THEN "none" ELSE status

\* History: the user selects the reboot entry, or does something else.
SelectsReboot ==
  /\ confirmed' = (reboot_age < ConfirmTicks)
  /\ reboot_age' = 0
DoesSomethingElse ==
  /\ confirmed' = FALSE
  /\ reboot_age' = Never

-----------------------------------------------------------------------------
\* The bottom half of an input handler that only moves between views or
\* entries: the status is replaced, the screen redrawn and a cue played.
MoveTo(new_views, system, position, selection, new_status) ==
  /\ views' = new_views
  /\ active_system' = system
  /\ game_position' = position
  /\ settings_selection' = selection
  /\ status' = new_status
  /\ UNCHANGED <<wifi_status, muted, request>>
  /\ Show
  /\ Cue

ChangeView(new_views, new_status) ==
  MoveTo(new_views, active_system, game_position, settings_selection, new_status)

\* request_game for an entry other than the reboot entry.
RequestGame(i) ==
  /\ IF Games[i].kind = "terminal"
       THEN terminal_mode' = TRUE /\ UNCHANGED selected_game
       ELSE selected_game' = i /\ UNCHANGED terminal_mode
  /\ Cue
  /\ UNCHANGED <<views, carousel, settings_selection, wifi_status, muted,
                 reboot_requested, shown>>

\* request_game for the reboot entry: the first selection arms the prompt,
\* the second one, in time, asks for the reboot.
RequestReboot(i) ==
  /\ UNCHANGED <<views, carousel, settings_selection, wifi_status, muted,
                 terminal_mode>>
  /\ IF reboot_confirmation_active
       THEN /\ Disarm
            /\ reboot_requested' = TRUE
            /\ selected_game' = i
            /\ UNCHANGED <<status, shown>>
       ELSE /\ armed' = TRUE /\ armed_left' = ConfirmTicks
            /\ status' = "confirm"
            /\ UNCHANGED <<reboot_requested, selected_game>>
            /\ Show
  /\ Cue
  /\ SelectsReboot

\* apply_volume_target: saving may fail, and so may the tone.
ApplyVolume(target) ==
  /\ settings_selection' = target
  /\ status' = "other"
  /\ UNCHANGED <<views, carousel, wifi_status, request>>
  /\ \/ UNCHANGED <<muted, sound>>
     \/ /\ muted' \in IF target = SettingsTargetVolumeUp THEN {FALSE}
                      ELSE IF muted THEN {TRUE} ELSE BOOLEAN
        /\ sound' \in IF muted' THEN {FALSE} ELSE {sound, TRUE}
  /\ Show

\* activate_settings_target.
ActivateSetting(target) ==
  CASE target = SettingsTargetClose ->
         MoveTo(views \ {"settings"}, active_system, game_position, target, "none")
    [] target \in {SettingsTargetVolumeDown, SettingsTargetVolumeUp} ->
         ApplyVolume(target)
    [] target = SettingsTargetTerminal ->
         /\ settings_selection' = target
         /\ terminal_mode' = TRUE
         /\ Cue
         /\ UNCHANGED <<views, carousel, lines, muted, selected_game,
                        reboot_requested, shown>>
    [] target = SettingsTargetWifi ->
         /\ settings_selection' = target
         /\ views' = views \cup {"wifi"}
         /\ wifi_status' = "none"
         /\ UNCHANGED <<carousel, status, muted, request>>
         /\ Show
         /\ Cue
    [] OTHER ->      \* brightness and keymap, whether or not they were saved
         MoveTo(views, active_system, game_position, target, "other")

-----------------------------------------------------------------------------
\* Plausible bugs, for the mutation runs.

ExpireWithoutDrawing == Disarm /\ status' = WithoutPrompt /\ UNCHANGED shown

ForgetsPressOnFailure(failed, c) == failed \/ sound

GateSkipsSignalCheck ==
  /\ pc = "reports" /\ batch = 0
  /\ UNCHANGED <<shutdown, views, carousel, settings_selection, wifi_status,
                 muted, touch, arming, pressed_target, command, batch,
                 request, history>>
  /\ IF selected_game = 0 /\ ~terminal_mode /\ ~reboot_requested
       THEN pc' = "poll" /\ UNCHANGED <<status, sound, shown>>
       ELSE pc' = "child" /\ status' = "other" /\ Show /\ sound' = FALSE

-----------------------------------------------------------------------------
\* One step of the loop per pc.

\* while (!g_shutdown_requested), and reconnect_touch.
Top ==
  /\ pc = "top"
  /\ UNCHANGED <<shutdown, views, carousel, settings_selection, muted, sound,
                 arming, pressed_target, command, batch, request, history>>
  /\ IF shutdown
       THEN /\ pc' = "exited"
            /\ UNCHANGED <<lines, touch, shown>>
       ELSE /\ pc' = "poll"
            /\ \/ UNCHANGED <<lines, touch, shown>>
               \/ /\ touch = "closed"
                  /\ touch' = "open"
                  /\ IF "wifi" \in views
                       THEN wifi_status' = "touch" /\ UNCHANGED status
                       ELSE status' = "touch" /\ UNCHANGED wifi_status
                  /\ Show

Expire ==
  /\ Disarm
  /\ status' = WithoutPrompt
  /\ IF status = "confirm" THEN Show ELSE UNCHANGED shown

\* poll has returned: an expired confirmation is withdrawn, and the network
\* status or the credits may be drawn again.
Poll ==
  /\ pc = "poll"
  /\ pc' \in {"top", "read"}
  /\ UNCHANGED <<shutdown, views, carousel, settings_selection, wifi_status,
                 muted, sound, touch, pressed_target, command, batch,
                 request, history>>
  /\ IF armed /\ ~reboot_confirmation_active
       THEN Expire
       ELSE /\ UNCHANGED <<arming, status>>
            /\ \/ View # "dashboard" /\ Show
               \/ UNCHANGED shown

ForgetsPress(failed, c) == failed \/ sound \/ c # "none"

\* The input of one iteration.  A failing touchscreen is closed and reported,
\* the reports read before it failed are kept; what arrives during a cue is
\* discarded, except a key.  The burst guard may drop any controller edge.
Read ==
  /\ pc = "read"
  /\ pc' = "command"
  /\ UNCHANGED <<shutdown, views, carousel, settings_selection, muted, sound,
                 arming, history>>
  /\ \E failed \in BOOLEAN, reports \in 0 .. MaxBatch, c \in CommandsOf(View) :
       /\ (failed \/ reports > 0) => touch # "closed"
       /\ touch' = IF failed /\ touch = "open" THEN "closed" ELSE touch
       /\ IF failed
            THEN /\ IF "wifi" \in views
                      THEN wifi_status' = "touch" /\ UNCHANGED status
                      ELSE status' = "touch" /\ UNCHANGED wifi_status
                 /\ Show
            ELSE UNCHANGED <<lines, shown>>
       /\ command' = c
       /\ batch' = IF sound \/ c # "none" THEN 0 ELSE reports
       /\ pressed_target' = IF ForgetsPress(failed, c) THEN MenuTargetNone
                            ELSE pressed_target
  /\ selected_game' = 0 /\ terminal_mode' = FALSE /\ reboot_requested' = FALSE

\* The controller_command dispatch.
Navigate ==
  /\ command \in {"back", "settings", "system_previous", "system_next",
                  "previous", "next"}
  /\ Disarm
  /\ DoesSomethingElse
  /\ CASE command = "back" /\ View = "wifi" -> ChangeView(views \ {"wifi"}, "other")
       [] command = "back" /\ View # "wifi" -> ChangeView(views \ {View}, "none")
       [] command = "settings" ->
            IF "settings" \in views
              THEN ChangeView(views \ {"settings"}, "none")
              ELSE MoveTo(views \cup {"settings"}, active_system, game_position,
                          SettingsTargetVolumeDown, "none")
       [] command \in {"system_previous", "system_next"} ->
            MoveTo(views, adjacent_system(command), 0, settings_selection, "none")
       [] OTHER ->
            IF "settings" \in views
              THEN MoveTo(views, active_system, game_position,
                          adjacent_setting(command), "none")
              ELSE MoveTo(views, active_system, adjacent_position(command),
                          settings_selection, "none")

Confirm ==
  /\ command = "confirm"
  /\ IF "settings" \in views
       THEN /\ ActivateSetting(settings_selection)
            /\ DoesSomethingElse
            /\ UNCHANGED arming
       ELSE IF Games[shown_game_index].kind = "reboot"
         THEN RequestReboot(shown_game_index)
         ELSE /\ Disarm
              /\ status' = WithoutPrompt
              /\ RequestGame(shown_game_index)
              /\ DoesSomethingElse

HandleCommand ==
  /\ pc = "command"
  /\ pc' = "reports"
  /\ command' = "none"
  /\ \/ Navigate
     \/ Confirm
     \/ /\ command = "none"
        /\ UNCHANGED <<views, carousel, settings_selection, lines, muted, sound,
                       arming, request, shown, history>>
  /\ UNCHANGED <<shutdown, touch, pressed_target, batch>>

\* A report that presses.
Press ==
  /\ pc = "reports" /\ batch > 0
  /\ batch' = batch - 1
  /\ pressed_target' \in TargetsShown
  /\ UNCHANGED <<pc, shutdown, views, carousel, settings_selection, lines,
                 muted, sound, touch, arming, command, request, shown,
                 history>>

\* What a tap on a target does; the status is the one left by the
\* cancellation above it in the loop.
Tap(target, cancelled) ==
  CASE target.kind = "close_credits" -> ChangeView(views \ {"credits"}, "none")
    [] target.kind = "back" -> ChangeView(views \ {"wifi"}, "other")
    [] target.kind \in {"save", "edit"} ->
         /\ wifi_status' = IF target.kind = "save" THEN "other" ELSE "none"
         /\ status' = cancelled
         /\ UNCHANGED <<views, carousel, settings_selection, muted, request>>
         /\ Show
         /\ Cue
    [] target.kind = "setting" -> ActivateSetting(target.index)
    [] target.kind = "credits" -> ChangeView(views \cup {"credits"}, "none")
    [] target.kind = "settings" ->
         MoveTo(views \cup {"settings"}, active_system, game_position,
                SettingsTargetVolumeDown, "none")
    [] target.kind = "system" ->
         MoveTo(views, target.index, 0, settings_selection, "none")
    [] target.kind \in {"previous", "next"} ->
         MoveTo(views, active_system, adjacent_position(target.kind),
                settings_selection, "none")
    [] target.kind = "game" ->
         status' = cancelled /\ RequestGame(target.index)

\* A report that releases: a selection when the finger is lifted from the
\* target it was put on.  A release anywhere but on the reboot entry cancels
\* the confirmation, without drawing the screen.
Release ==
  /\ pc = "reports" /\ batch > 0
  /\ batch' = batch - 1
  /\ pressed_target' = MenuTargetNone
  /\ \E released_target \in TargetsShown :
       LET tapped == released_target = pressed_target
                     /\ released_target # MenuTargetNone
           cancelled == IF armed THEN WithoutPrompt ELSE status
           untouched == <<views, carousel, settings_selection, wifi_status,
                          muted, sound, request, shown>>
       IN IF IsReboot(released_target)
            THEN IF tapped THEN RequestReboot(released_target.index)
                 ELSE UNCHANGED <<untouched, status, arming, history>>
            ELSE /\ Disarm
                 /\ DoesSomethingElse
                 /\ IF tapped THEN Tap(released_target, cancelled)
                    ELSE status' = cancelled /\ UNCHANGED untouched
  /\ UNCHANGED <<pc, shutdown, touch, command>>

\* The reports are used up: back to the top, or launch what was selected.
Gate ==
  /\ pc = "reports" /\ batch = 0
  /\ UNCHANGED <<shutdown, views, carousel, settings_selection, wifi_status,
                 muted, touch, arming, pressed_target, command, batch,
                 request, history>>
  /\ IF selected_game = 0 /\ ~terminal_mode /\ ~reboot_requested
       THEN pc' = "top" /\ UNCHANGED <<status, sound, shown>>
       ELSE /\ pc' = "child"
            /\ status' = "other"
            /\ Show
            /\ sound' = FALSE    \* menu_sound_player.finish()

\* run_terminal, run_reboot or run_game returns.  The framebuffer may fail to
\* open again; the volume is read back from the file the child may have
\* written; the touchscreen may have been closed or found again meanwhile.
ChildReturns ==
  /\ pc = "child"
  /\ pressed_target' = MenuTargetNone
  /\ UNCHANGED <<shutdown, views, carousel, settings_selection, wifi_status,
                 sound, arming, command, batch, request, history>>
  /\ IF shutdown
       THEN /\ pc' = "exited"
            /\ UNCHANGED <<status, muted, touch, shown>>
       ELSE \/ /\ pc' = "exited"
               /\ UNCHANGED <<status, muted, touch, shown>>
            \/ /\ pc' = "top"
               /\ muted' \in BOOLEAN
               /\ touch' \in IF touch = "wayland" THEN {touch}
                             ELSE {"open", "closed"}
               /\ status' = "other"
               /\ Show

\* The environment: time, the end of a cue, a signal.
Tick ==
  /\ armed_left > 0 \/ reboot_age < ConfirmTicks
  /\ armed_left' = IF armed_left > 0 THEN armed_left - 1 ELSE 0
  /\ reboot_age' = IF reboot_age < ConfirmTicks THEN reboot_age + 1 ELSE reboot_age
  /\ UNCHANGED <<pc, shutdown, views, carousel, settings_selection, lines, muted,
                 sound, touch, armed, pressed_target, command, batch,
                 request, shown, confirmed>>

CueEnds ==
  /\ sound
  /\ sound' = FALSE
  /\ UNCHANGED <<pc, shutdown, views, carousel, settings_selection, lines, muted,
                 touch, arming, pressed_target, command, batch, request,
                 shown, history>>

SignalShutdown ==
  /\ ~shutdown /\ pc # "exited"
  /\ shutdown' = TRUE
  /\ UNCHANGED <<pc, views, carousel, settings_selection, lines, muted, sound,
                 touch, arming, pressed_target, command, batch, request,
                 shown, history>>

Loop == Top \/ Poll \/ Read \/ HandleCommand \/ Press \/ Release \/ Gate
          \/ ChildReturns
Next == Loop \/ Tick \/ CueEnds \/ SignalShutdown

Spec == Init /\ [][Next]_vars

-----------------------------------------------------------------------------
TypeOK ==
  /\ pc \in {"top", "poll", "read", "command", "reports", "child", "exited"}
  /\ shutdown \in BOOLEAN
  /\ views \in {{}, {"settings"}, {"settings", "wifi"}, {"credits"}}
  /\ active_system \in Systems
  /\ game_position \in 0 .. Len(Games) - 1
  /\ settings_selection \in SettingsTargetClose .. SettingsTargetWifi
  /\ status \in {"none", "confirm", "touch", "other"}
  /\ wifi_status \in {"none", "touch", "other"}
  /\ muted \in BOOLEAN /\ sound \in BOOLEAN /\ touch \in {"open", "closed", "wayland"}
  /\ armed \in BOOLEAN /\ armed_left \in 0 .. ConfirmTicks
  /\ command \in Commands /\ batch \in 0 .. MaxBatch
  /\ selected_game \in 0 .. Len(Games)
  /\ terminal_mode \in BOOLEAN /\ reboot_requested \in BOOLEAN
  /\ reboot_age \in 0 .. Never /\ confirmed \in BOOLEAN

\* A reboot is asked for only by two consecutive selections of the reboot
\* entry within the confirmation time, whatever happens between them: view
\* changes, cues, a touchscreen lost and found, taps on other entries.
RebootNeedsTwoSelections ==
  [][reboot_requested' /\ ~reboot_requested => confirmed']_vars

\* A confirmation is armed only while the dashboard itself is shown, and never
\* without a status line: its prompt, the touchscreen message that replaced
\* it, or the outcome of a child selected by the same batch of reports.
ArmedIsOnDashboard ==
  armed => views = {} /\ status # "none"

\* The target remembered from a press is one that is on the screen when the
\* finger is lifted: a number taken from one view or one carousel position is
\* never compared with the targets of another.
PressedTargetIsShown == pressed_target \in TargetsShown

\* When the loop waits for input the screen shows the state the input will be
\* applied to.  The one exception is the reboot prompt, which stays on the
\* screen after a release next to every target has cancelled it.
ScreenIsCurrent ==
  pc \in {"top", "poll"} =>
    \/ shown = Picture
    \/ /\ status = "none" /\ ~armed /\ reboot_age = Never
       /\ shown = [Picture EXCEPT !.status = "confirm"]

\* run_game is never given a built-in entry that has no program of its own.
OnlyGamesAreEmulated ==
  pc = "child" /\ ~terminal_mode /\ ~reboot_requested =>
    Games[selected_game].kind = "game"

\* The loop's bookkeeping fits together: application_main launches only what
\* the selected entry is, arms the reboot only where its prompt is seen, and
\* compares a press only with targets of the screen it was made on.
LoopInv == TypeOK /\ ArmedIsOnDashboard /\ OnlyGamesAreEmulated
             /\ PressedTargetIsShown

\* The steps the loop may still take from where it is, without a new iteration.
StepsLeft ==
  CASE pc = "exited"  -> 0
    [] pc = "top"     -> 1
    [] pc = "child"   -> 2
    [] pc = "reports" -> 3 + batch
    [] pc = "command" -> 4 + MaxBatch
    [] pc = "read"    -> 5 + MaxBatch
    [] pc = "poll"    -> 6 + MaxBatch

\* After a signal the loop finishes the iteration it is in and no other: it
\* ends from any view, with any number of reports still to look at, and when the
\* child that was running or is still started by this iteration has returned.
ShutdownEndsSoon == [][shutdown /\ Loop => StepsLeft' < StepsLeft]_vars

\* "The Deck carousel adds a built-in red power-on entry for /sbin/reboot; two
\* selections within four seconds are required, and any other action cancels
\* the armed request": run_reboot is given the reboot entry.
RebootRunsReboot ==
  pc = "child" /\ reboot_requested /\ ~terminal_mode =>
    Games[selected_game].kind = "reboot"
=============================================================================
