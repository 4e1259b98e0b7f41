------------------------------ MODULE Settings ------------------------------
(***************************************************************************)
(* What the dashboard remembers: the volume, the brightness and the        *)
(* terminal's keymap, each loaded when it starts and saved when it is      *)
(* changed, and the volume also changed by the chiptune player while the   *)
(* dashboard waits for it.  The saves are those of StateFile, one file at  *)
(* a time; `kind` says which file a behaviour is about, and the fourth     *)
(* kind are the save files of the emulators.  The screens are the          *)
(* carousel's, the settings' and the Wi-Fi editor's.                       *)
(*                                                                         *)
(* Percentages are scaled down.  A state file that is there can be read;   *)
(* the dashboard is killed only while it does not wait for a program.      *)
(***************************************************************************)
EXTENDS StateFile, WifiEditor

CONSTANTS
  FullVolume, VolumeStep, DefaultVolume, \* 100, 5, and 42 or the environment's
  FullBrightness, BrightnessStep,        \* 100 and 10
  MaxBrightness,       \* the backlight's max_brightness
  Menu, Player, Sram,  \* the writers
  On, Off,             \* what an older version wrote for the volume
  Scenarios,           \* bounds: which file, and how often what happens
  Shelves              \* bound: systems, entries and position of the carousel

ASSUME SettingsAssumption ==
  /\ FullVolume \in Nat \ {0} /\ VolumeStep \in 1 .. FullVolume
  /\ DefaultVolume \in 0 .. FullVolume
  /\ MaxBrightness \in Nat \ {0} /\ FullBrightness \in Nat
  /\ BrightnessStep \in 1 .. FullBrightness
  /\ FullBrightness % BrightnessStep = 0
  /\ Writers = {Menu, Player, Sram}
  /\ Menu.directory # "reported" /\ Sram.directory # "reported"
  /\ Player.directory = "reported"
  /\ {0, 1, On, Off} \cup (0 .. FullVolume) \cup (0 .. FullBrightness)
       \subseteq Values
  /\ \A s \in Scenarios :
       s.kind \in {"volume", "brightness", "keymap", "save file"}
  /\ Shelves # {}
  /\ \A s \in Shelves : s.systems \in 1 .. 6 /\ s.indices \in Seq(Nat)

VARIABLES
  kind,         \* which file: "volume", "brightness", "keymap" or "save file"
  actor,        \* who runs: "menu" or, while the dashboard waits, "player"
  menu_value,   \* the dashboard's own value meanwhile
  last_audible, \* last_audible_volume
  device,       \* the backlight's brightness
  shelf,        \* the carousel: systems, indices, position
  shutdown,     \* g_shutdown_requested
  left          \* what may still happen

settings == <<kind, actor, menu_value, last_audible, device, shelf, shutdown>>
all == <<vars, editor, settings, left>>

MinimumBrightness == BrightnessStep
Volumes == 0 .. FullVolume
Brightnesses == {n \in 1 .. FullBrightness : n % BrightnessStep = 0}
Us == 0   Cz == 1

\* What the parser of a state file accepts.
Accepted ==
  CASE kind = "volume" -> Volumes
    [] kind = "brightness" -> Brightnesses
    [] OTHER -> {Us, Cz}

Some(what) == left[what] > 0
Use(what) == left' = [left EXCEPT ![what] = @ - 1]

Larger(a, b) == IF a > b THEN a ELSE b
Audible == IF DefaultVolume # 0 THEN DefaultVolume ELSE VolumeStep

Init ==
  /\ left \in Scenarios
  /\ kind = left.kind
  /\ \E found \in Accepted \cup {Missing} \cup
                (IF kind = "volume" THEN {On, Off} ELSE {}) :
       FileInit(found, IF kind = "save file" THEN Sram ELSE Menu)
  /\ view = "menu" /\ EditorInit
  /\ actor = "menu" /\ menu_value = Missing /\ last_audible = Audible
  /\ device \in IF kind = "brightness" THEN 0 .. MaxBrightness ELSE {0}
  /\ shelf \in IF left.shelves THEN Shelves ELSE {CHOOSE s \in Shelves : TRUE}
  /\ shutdown = FALSE

-----------------------------------------------------------------------------
\* Plausible bugs, for the mutation runs.

KeepsItsVolume == Keep(menu_value) /\ UNCHANGED last_audible

-----------------------------------------------------------------------------
\* brightness_raw_value: the level for the backlight, never 0.
Raw(percent) ==
  Larger(1, Smaller(MaxBrightness,
                    (percent * MaxBrightness + FullBrightness \div 2)
                      \div FullBrightness))

\* load_brightness without a state file: the step next to the level found.
ReadDevice == device
Observed ==
  LET percent == (ReadDevice * FullBrightness + MaxBrightness \div 2) \div MaxBrightness
  IN Larger(MinimumBrightness,
            Smaller(FullBrightness,
                    ((percent + BrightnessStep \div 2) \div BrightnessStep)
                      * BrightnessStep))

\* volume_after_menu_target.
AfterVolume(target) ==
  IF target = SettingsTargetVolumeUp
    THEN IF memory = 0 THEN Smaller(FullVolume, last_audible)
         ELSE Smaller(FullVolume, memory + VolumeStep)
    ELSE IF memory > VolumeStep THEN memory - VolumeStep ELSE 0

\* brightness_after_settings_target.
AfterBrightness(target) ==
  IF target = SettingsTargetBrightnessUp
    THEN Smaller(FullBrightness, memory + BrightnessStep)
    ELSE IF memory > MinimumBrightness
      THEN Larger(MinimumBrightness, memory - BrightnessStep)
      ELSE MinimumBrightness

\* The volume that becomes the one to return to after muting.
Heard(value) == IF kind = "volume" /\ value # 0 THEN value ELSE last_audible

WriteDevice(level) == device' = level

\* set_brightness_percent: the device first, then the file.  When the device
\* cannot be written nothing has changed.
SetBrightness(percent, reason) ==
  /\ WriteDevice(Raw(percent))
  /\ BeginSave(percent, reason)

\* The program ends with an error instead.
Refuse(why) ==
  /\ pc' = why
  /\ UNCHANGED <<file, temps, disk, attempt, requested, temporary, memory,
                 loading, before, saved, confirmed, since, last_audible>>

\* load_volume_state and load_keymap_state: a missing file and the older
\* version's words are replaced at once.
Load(reason, otherwise) ==
  IF file.value \in Accepted
    THEN Keep(file.value) /\ last_audible' = Heard(file.value)
    ELSE /\ BeginSave(CASE kind = "keymap" -> Us
                        [] file.value = Off -> 0
                        [] OTHER -> DefaultVolume, reason)
         /\ memory' = otherwise
         /\ UNCHANGED last_audible

\* application_main loads the file, or an emulator does.
StartUp ==
  /\ pc = "start"
  /\ IF kind = "save file"
       THEN Keep(file.value) /\ UNCHANGED <<last_audible, device>>
     ELSE IF file.value = Torn THEN Refuse("refused") /\ UNCHANGED device
     ELSE IF kind = "brightness"
       THEN \/ /\ SetBrightness(IF file.value = Missing THEN Observed
                                ELSE file.value, "start")
               /\ UNCHANGED <<memory, last_audible>>
            \/ Refuse("unsaved") /\ UNCHANGED device
     ELSE Load("start", memory) /\ UNCHANGED device
  /\ UNCHANGED <<runner, editor, kind, actor, menu_value, shelf, shutdown, left>>

\* A step of the save that runs.
SaveStep ==
  /\ Step
  /\ last_audible' = IF actor = "menu" /\ pc' = "idle" /\ saved'
                       THEN Heard(memory') ELSE last_audible
  /\ UNCHANGED <<editor, kind, actor, menu_value, device, shelf, shutdown, left>>

-----------------------------------------------------------------------------
\* The dashboard waits for input.
MenuIdle == pc = "idle" /\ actor = "menu" /\ saving = "no" /\ ~shutdown

\* A setting is tapped or confirmed, or an emulator saves its memory.
Change ==
  /\ MenuIdle /\ Some("changes") /\ Use("changes")
  /\ view = IF kind = "save file" THEN "menu" ELSE "settings"
  /\ UNCHANGED <<runner, memory, editor, kind, actor, menu_value, last_audible,
                 shelf, shutdown>>
  /\ \/ /\ kind = "volume"
        /\ \E target \in {SettingsTargetVolumeDown, SettingsTargetVolumeUp} :
             BeginSave(AfterVolume(target), "no")
        /\ UNCHANGED device
     \/ /\ kind = "brightness"
        /\ \E target \in {SettingsTargetBrightnessDown, SettingsTargetBrightnessUp} :
             SetBrightness(AfterBrightness(target), "no")
     \/ /\ kind = "keymap"
        /\ BeginSave(IF memory = Cz THEN Us ELSE Cz, "no")
        /\ UNCHANGED device
     \/ /\ kind = "save file"
        /\ \E value \in Accepted : BeginSave(value, "no")
        /\ UNCHANGED device

\* Between the screens; the two buttons and the controller do the same.
Turn(from, to) ==
  /\ MenuIdle /\ left.screens
  /\ view = from /\ view' = to
  /\ UNCHANGED <<vars, editing, storing, pressed_target, touched, settings, left>>

Edit ==
  /\ MenuIdle /\ Some("touches")
  /\ \/ view = "settings" /\ OpenEditor /\ UNCHANGED pressed_target
     \/ \E point \in Points : Press(point) \/ Release(point)
     \/ ControllerBack
  /\ Use("touches")
  /\ UNCHANGED <<vars, settings>>

Handing ==
  /\ WriteRequest \/ HelperExited
  /\ UNCHANGED <<vars, settings, left>>

HelperStep == HelperRuns /\ UNCHANGED <<vars, settings, left>>
HelperGone == HelperDies /\ UNCHANGED <<vars, settings, left>>

-----------------------------------------------------------------------------
\* run_game with the volume in the player's environment.
Launch ==
  /\ MenuIdle /\ kind = "volume" /\ view = "menu"
  /\ Some("launches") /\ Use("launches")
  /\ actor' = "player" /\ menu_value' = memory
  /\ writer' = Player /\ pid' \in Pids /\ mine' = {}
  /\ saved' = FALSE /\ before' = file.value
  /\ UNCHANGED <<file, temps, disk, pc, attempt, requested, temporary, memory,
                 loading, confirmed, since, editor, kind, last_audible, device,
                 shelf, shutdown>>

\* The player's own buttons: the sound device is opened anew, which may fail,
\* and the volume is kept although its save may fail.
PlayerTurnsVolume ==
  /\ actor = "player" /\ pc = "idle" /\ Some("changes") /\ Use("changes")
  /\ \E up \in BOOLEAN :
       /\ memory' = IF up THEN Smaller(FullVolume, memory + VolumeStep)
                    ELSE IF memory >= VolumeStep THEN memory - VolumeStep ELSE 0
       /\ memory' # memory
       /\ BeginSave(memory', "no")
  /\ UNCHANGED <<runner, editor, kind, actor, menu_value, last_audible, device,
                 shelf, shutdown>>

\* What the dashboard makes of the file the player leaves behind; one it
\* cannot read is left as it is.
Reload ==
  IF file.value = Torn
    THEN Keep(menu_value) /\ UNCHANGED last_audible
    ELSE Load("reload", menu_value)

\* The player ends, or is killed anywhere, and the dashboard goes on.
PlayerEnds ==
  /\ actor = "player" /\ actor' = "menu"
  /\ writer' = Menu /\ pid' \in Pids /\ mine' = {}
  /\ IF shutdown THEN Refuse("exited") ELSE Reload
  /\ UNCHANGED <<editor, kind, menu_value, device, shelf, shutdown, left>>

-----------------------------------------------------------------------------
SignalShutdown ==
  /\ ~shutdown /\ pc \notin {"start", "refused", "unsaved", "exited"}
  /\ Some("signals") /\ Use("signals")
  /\ shutdown' = TRUE
  /\ UNCHANGED <<vars, editor, kind, actor, menu_value, last_audible, device, shelf>>

Exit ==
  /\ shutdown /\ pc = "idle" /\ actor = "menu" /\ saving = "no"
  /\ Refuse("exited")
  /\ UNCHANGED <<runner, editor, kind, actor, menu_value, device, shelf, shutdown,
                 left>>

\* The dashboard, or the emulator, is killed or the power fails, and it is
\* started again with an empty editor.
StartedAgain ==
  /\ Some("losses") /\ Use("losses")
  /\ helper = "none"
  /\ LET first == IF kind = "save file" THEN Sram ELSE Menu
     IN \/ actor = "menu" /\ Kill(first)
        \/ PowerFailure(first)
  /\ view' = "menu"
  /\ texts' = NoProfile /\ field' = "ssid" /\ wifi_status' = "none"
  /\ symbols' = FALSE /\ uppercase' = FALSE /\ Draw
  /\ pressed_target' = NoTarget /\ saving' = "no" /\ handed' = NoProfile
  /\ UNCHANGED <<wrote, helper, profile, touched, kind, menu_value, device, shelf>>
  /\ actor' = "menu" /\ last_audible' = Audible /\ shutdown' = FALSE

Program == StartUp \/ SaveStep \/ Handing \/ Exit
User ==
  \/ Change \/ Edit \/ Launch \/ PlayerTurnsVolume
  \/ Turn("menu", "settings") \/ Turn("settings", "menu")
Next ==
  \/ Program \/ User \/ HelperStep \/ HelperGone \/ PlayerEnds
  \/ SignalShutdown \/ StartedAgain

Spec == Init /\ [][Next]_all
\* The helper is a script that does not wait for anything, and a player is
\* ended after a signal by what ManagedChild shows.
FairSpec ==
  /\ Spec
  /\ WF_all(Program) /\ WF_all(HelperStep) /\ WF_all(shutdown /\ PlayerEnds)

-----------------------------------------------------------------------------
\* Muting is undone: the volume to return to is audible, and it is the last
\* one that was.
UnmutesToTheLast ==
  kind = "volume" /\ MenuIdle =>
    /\ last_audible \in Volumes \ {0}
    /\ memory # 0 => last_audible = memory

\* The panel never goes dark, and it has the brightness shown unless the last
\* save failed after the backlight was set.
BacklightIsTrue ==
  kind = "brightness" /\ MenuIdle =>
    /\ device \in 1 .. MaxBrightness
    /\ memory \in Brightnesses
    /\ device \in {Raw(memory), Raw(requested)}
    /\ saved => device = Raw(memory)

\* Each button of the screen shown can be touched over its whole area; the
\* editor's do not depend on the text.
ScreenIsPlain ==
  CASE view = "menu" ->
         IsPlain(MenuScreen(shelf.systems, shelf.indices, shelf.position))
    [] view = "settings" -> IsPlain(SettingsScreen)
    [] OTHER ->
         texts = NoProfile /\ pressed_target = NoTarget => IsPlain(EditorScreen[page])

\* Memory, file, backlight, buttons and the editor's texts agree whenever the
\* dashboard waits for input.
SettingsInv ==
  /\ EditorInv /\ UnmutesToTheLast /\ BacklightIsTrue /\ ScreenIsPlain
  /\ MenuIdle /\ kind # "save file" => memory = file.value

\* A signal ends the dashboard in the middle of a save, while the player plays
\* and while the helper stores a profile.
SignalEnds ==
  shutdown ~> (~shutdown \/ pc \in {"exited", "refused", "unsaved"})
=============================================================================
