------------------------------ MODULE Emulator ------------------------------
(***************************************************************************)
(* The emulators' front ends (libretro_deck.cpp for NES, Game Boy and      *)
(* Spectrum, chip8_deck.cpp) around DeckAudio and DeckFramebuffer:         *)
(* starting, loading the save files, one frame after another, periodic and *)
(* final saves, and the way out, with the signals of the dashboard that    *)
(* supervises them.                                                        *)
(*                                                                         *)
(* The core's memories are numbers that grow with each frame, so that a    *)
(* save file shows which frame it holds; how a file is replaced is in      *)
(* StateFile.tla.  The time between frames is left out.                    *)
(***************************************************************************)
EXTENDS DeckAudio, Picture

CONSTANTS
  FrontEnds,    \* what a front end saves, whether it reads the legacy NES
                \* format, whether its core halts
  SaveEvery,    \* frames between periodic saves, 600
  SourceRate, OutputRate,   \* source_rate_ and output_rate_
  MaxSource,    \* bound: frames of sound a core makes in a frame of the game
  Scenarios     \* bounds: frames of the game and of sound, and launches after
                \* the first; whether pictures go to a compositor

\* Contents that are not the number of a frame.
Missing == -1
Unusable == -2      \* a size that is not the memory's
Legacy == -3        \* the encoding of an older emulator
CutLegacy == -4     \* the same, damaged
Mixed == -5         \* memory partly overwritten
Memories == {"ram", "rtc"}

ASSUME EmulatorAssumption ==
  /\ FrontEnds \subseteq [saves : SUBSET Memories, legacy : BOOLEAN,
                          halts : BOOLEAN]
  /\ \A f \in FrontEnds : f.halts => f.saves = {}
  /\ {SaveEvery, SourceRate, OutputRate} \subseteq Nat \ {0}
  /\ MaxSource \in Nat
  /\ Scenarios \subseteq [runs : Nat, sound : Nat, launches : Nat,
                          wayland : BOOLEAN]
  /\ \A s \in Scenarios : s.sound * OutputRate <= MaxFrames * SourceRate

VARIABLES
  frontend,
  stage,          \* where main is
  shutdown_requested, video_failed,
  rgb565,         \* video_pixel_format is RETRO_PIXEL_FORMAT_RGB565
  frames,         \* frames run
  memory,         \* the core's memories
  files,          \* the save files
  rate_remainder,
  batch,          \* frames resampled, about to be queued
  received,       \* history: frames of sound since the start
  unsaved,        \* history: memories whose last save failed
  left            \* what is left of the scenario

audio == <<thread_started, stopping, worker_failed, worker, ring,
           dropped_frames, output, given, played>>
screen == <<video_failed, rgb565, picture_vars>>
game == <<frames, memory>>
sound == <<rate_remainder, batch, received>>
Spend(what, n) == left[what] >= n /\ left' = [left EXCEPT ![what] = @ - n]
emulatorVars == <<audio, frontend, stage, shutdown_requested, screen, game,
                  files, sound, unsaved, left>>

EmulatorInit ==
  /\ Init /\ PictureInit /\ frontend \in FrontEnds /\ rgb565 = FALSE
  /\ stage = "rom" /\ shutdown_requested = FALSE /\ video_failed = FALSE
  /\ frames = 0 /\ memory = [m \in Memories |-> 0]
  /\ files \in [Memories -> {Missing, Unusable, Legacy, CutLegacy}]
  /\ \A m \in Memories :
       /\ files[m] # Missing => m \in frontend.saves
       /\ files[m] \in {Legacy, CutLegacy} => frontend.legacy
  /\ rate_remainder = 0 /\ batch = 0 /\ received = 0
  /\ unsaved = {} /\ left \in Scenarios 
  /\ IF left.wayland THEN ~exit_hint ELSE files = [m \in Memories |-> Missing]

----------------------------------------------------------------------------
(* Starting. *)

Go(from, to) ==
  /\ stage = from /\ stage' = to
  /\ UNCHANGED <<frontend, shutdown_requested, game, files, sound, unsaved, left>>
Move(from, to) == Go(from, to) /\ UNCHANGED screen

\* Each step may fail, and then the process ends.
Attempt(from, to) == (Move(from, to) \/ Move(from, "exited")) /\ UNCHANGED audio
ReadRom == Attempt("rom", IF frontend.halts THEN "config" ELSE "core")
ReadConfig == Attempt("config", "core")     \* next to a CHIP-8 game
ReadVolume == Attempt("volume", "audio")

\* The core says in which format its pictures will be, which matters to the panel.
LoadGame ==
  /\ Go("core", "screen")
  /\ rgb565' \in IF frontend.halts \/ left.wayland THEN {FALSE} ELSE BOOLEAN
  /\ UNCHANGED <<audio, video_failed, picture_vars>>
FailToLoad == Move("core", "exited") /\ UNCHANGED audio

OpenScreen ==
  /\ Go("screen", "volume")
  /\ IF left.wayland THEN UNCHANGED picture_vars ELSE OpenFramebuffer
  /\ UNCHANGED <<audio, video_failed, rgb565>>
NoScreen == Move("screen", "exited") /\ UNCHANGED audio

\* Without sound the game goes on.  Bound: no device where there is no sound.
OpenAudio ==
  \/ Move("audio", "load ram") /\ left.sound > 0 /\ OpenDevice
  \/ Move("audio", "load ram") /\ UNCHANGED audio

\* What a memory may hold after its file has been read: a file that is missing,
\* cannot be looked at or has another size leaves it alone; a read that breaks
\* off, or a damaged legacy file, overwrites a part.
Loaded(m) ==
  CASE m \notin frontend.saves -> {0}
    [] files[m] = Legacy -> {0, 1}
    [] files[m] = CutLegacy -> {0, Mixed}
    [] files[m] \in {Missing, Unusable} -> {0}
    [] OTHER -> {0, files[m], Mixed}

Load(from, m, next) ==
  /\ stage = from /\ stage' = next
  /\ \E value \in Loaded(m) : memory' = [memory EXCEPT ![m] = value]
  /\ UNCHANGED <<audio, frontend, shutdown_requested, screen, frames, files,
                 sound, unsaved, left>>

----------------------------------------------------------------------------
(* A frame. *)

Halts == frontend.halts /\ frames > 0

WithoutPicture == stage' = "sound" /\ UNCHANGED <<video_failed, picture_vars>>

\* A failing picture ends a CHIP-8 game at once.
VideoFails ==
  /\ video_failed' = TRUE /\ stage' = IF frontend.halts THEN "close" ELSE "sound"
  /\ UNCHANGED picture_vars

\* video_callback: a compositor may fail, the panel refuses a picture that does
\* not fit.  A libretro core may leave a picture out.
ShowPicture(size) ==
  IF left.wayland THEN VideoFails \/ WithoutPicture
  ELSE IF Fits(size) THEN Stage(size, rgb565) /\ stage' = "picture" /\ UNCHANGED video_failed
  ELSE VideoFails

\* retro_run, or Chip8CoreRunFrame and what follows it: the game moves on, and
\* its picture is about to be shown.
RunFrame ==
  /\ stage = "loop" /\ ~shutdown_requested /\ ~video_failed /\ ~Halts
  /\ Spend("runs", 1)
  /\ \/ \E size \in Sizes : ShowPicture(size)
     \/ ~frontend.halts /\ WithoutPicture
  /\ frames' = frames + 1
  /\ memory' = [m \in Memories |->
                  IF memory[m] = Mixed \/ m \notin frontend.saves THEN memory[m]
                  ELSE memory[m] + 1]
  /\ UNCHANGED <<audio, frontend, shutdown_requested, rgb565, files, sound,
                 unsaved>>

PublishPicture ==
  /\ stage = "picture" /\ Publish
  /\ Go("picture", IF publishing' = Published THEN "sound" ELSE "picture")
  /\ UNCHANGED <<audio, video_failed, rgb565>>

\* write_mono: the frames of another rate that n frames amount to.
Resample(n) ==
  LET scaled == n * OutputRate + rate_remainder
  IN batch' = scaled \div SourceRate /\ rate_remainder' = scaled % SourceRate

\* audio_callback; nothing is kept when there is no sound.
Sound ==
  /\ stage = "sound"
  /\ \E n \in 0 .. MaxSource :
       /\ Spend("sound", n)
       /\ IF n > 0 /\ thread_started /\ ~worker_failed
          THEN Resample(n) /\ received' = received + n /\ stage' = "queue"
          ELSE stage' = "pace" /\ UNCHANGED sound
  /\ UNCHANGED <<audio, frontend, shutdown_requested, screen, game, files,
                 unsaved>>

\* enqueue looks again whether the worker has failed.
Queue ==
  /\ stage = "queue" /\ stage' = "pace"
  /\ IF batch > 0 /\ ~worker_failed THEN Enqueue(batch) ELSE UNCHANGED audio
  /\ UNCHANGED <<frontend, shutdown_requested, screen, game, files, sound,
                 unsaved, left>>

\* Mutant: only the first period ends with a save.
SaveDueOnce == frames = SaveEvery

SaveDue == frames % SaveEvery = 0

\* The frame is over, a save may be due, and the clock sleeps until the next
\* one; a signal does not shorten that.
Pace ==
  /\ Move("pace", IF SaveDue /\ frontend.saves # {} THEN "save ram" ELSE "loop")
  /\ UNCHANGED audio

\* The files are written one after the other. A failure is only reported.
Save(from, m, next) ==
  /\ stage = from /\ stage' = next
  /\ IF m \notin frontend.saves THEN UNCHANGED <<files, unsaved>>
     ELSE \/ files' = [files EXCEPT ![m] = memory[m]] /\ unsaved' = unsaved \ {m}
          \/ unsaved' = unsaved \union {m} /\ UNCHANGED files
  /\ UNCHANGED <<audio, frontend, shutdown_requested, screen, game, sound,
                 left>>

----------------------------------------------------------------------------
(* Ending. *)

Leave ==
  /\ Move("loop", IF frontend.saves = {} THEN "close" ELSE "final ram")
  /\ shutdown_requested \/ video_failed \/ Halts
  /\ UNCHANGED audio

CloseAudio ==
  IF thread_started THEN Move("close", "join") /\ CloseDevice
  ELSE Move("close", "exited") /\ UNCHANGED audio

JoinAudio == Move("join", "exited") /\ Join

Signal ==
  /\ stage # "exited" /\ ~shutdown_requested /\ shutdown_requested' = TRUE
  /\ UNCHANGED <<audio, frontend, stage, screen, game, files, sound, unsaved,
                 left>>

\* SIGKILL, or a crash of the core.
Kill ==
  /\ stage # "exited" /\ stage' = "exited" /\ Reset
  /\ UNCHANGED <<frontend, shutdown_requested, screen, game, files, sound,
                 unsaved, left>>

Relaunch ==
  /\ stage = "exited" /\ Spend("launches", 1)
  /\ stage' = "rom" /\ shutdown_requested' = FALSE
  /\ video_failed' = FALSE /\ rgb565' = FALSE
  /\ frames' = 0 /\ memory' = [m \in Memories |-> 0]
  /\ rate_remainder' = 0 /\ batch' = 0 /\ received' = 0 /\ unsaved' = {}
  /\ UNCHANGED <<audio, frontend, picture_vars, files>>

Main ==
  \/ ReadRom \/ ReadConfig \/ LoadGame \/ FailToLoad \/ OpenScreen \/ NoScreen
  \/ ReadVolume \/ OpenAudio
  \/ Load("load ram", "ram", "load rtc") \/ Load("load rtc", "rtc", "loop")
  \/ RunFrame \/ PublishPicture \/ Sound \/ Queue \/ Pace \/ Leave
  \/ Save("save ram", "ram", "save rtc") \/ Save("save rtc", "rtc", "loop")
  \/ Save("final ram", "ram", "final rtc") \/ Save("final rtc", "rtc", "close")
  \/ CloseAudio \/ JoinAudio

front == <<frontend, stage, shutdown_requested, screen, game, files, sound,
           unsaved, left>>

EmulatorNext ==
  \/ Main \/ Signal \/ Kill \/ Relaunch
  \/ (Worker \/ SpuriousWakeup \/ WriteFails) /\ UNCHANGED front

\* Both threads run, and the device takes frames or fails.
EmulatorSpec ==
  /\ EmulatorInit /\ [][EmulatorNext]_emulatorVars
  /\ WF_emulatorVars(Main) /\ WF_emulatorVars(Worker /\ UNCHANGED front)

----------------------------------------------------------------------------
(* Properties. *)

Frame(content) == IF content = Legacy THEN 1 ELSE IF content < 0 THEN 0 ELSE content

\* Unless a save has failed, a game that is killed loses no more than what was
\* played since the last periodic save, and one that ends loses nothing: also
\* when its picture has failed, and while the audio thread is still at work.
ProgressIsKept ==
  \A m \in frontend.saves \ unsaved :
    memory[m] # Mixed =>
      /\ stage \in {"loop", "sound", "queue", "pace"} =>
           memory[m] - Frame(files[m]) <= SaveEvery
      /\ stage \in {"close", "join"} => memory[m] = files[m]

\* However a core splits its sound into callbacks, the device gets it at its own
\* rate: nothing is lost to rounding while the worker has not failed.
RateIsKept ==
  thread_started /\ ~worker_failed =>
    received * OutputRate =
      (given + IF stage = "queue" THEN batch ELSE 0) * SourceRate + rate_remainder

EmulatorInv == QueueInv /\ ProgressIsKept /\ RateIsKept

\* Asked to end, an emulator does, whatever its worker waits for.
Ends == shutdown_requested ~> stage = "exited"

\* Neither thread waits for the other for ever, not while the game plays and
\* not when it ends.
DrainsAndEnds == Drains /\ Ends
=============================================================================
