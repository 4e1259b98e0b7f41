------------------------------ MODULE Chiptunes ------------------------------
(***************************************************************************)
(* The chiptune player: the playlist (ChiptunePlayer), the playback thread *)
(* (ChiptuneAudioLoop) and the main loop that turns the commands of one    *)
(* frame into calls on the player.  Every call runs under the playback     *)
(* mutex, one critical section per command, so the thread may generate     *)
(* between two commands of the same frame.  PlayerInput reads the devices. *)
(*                                                                         *)
(* A file is what opening and decoding it can do, not its bytes; samples,  *)
(* titles and drawing are left out.  DeckAudio is modelled on its own; all *)
(* this module needs of it is the volume its device was opened at.         *)
(***************************************************************************)
EXTENDS PlayerInput

CONSTANTS
  PlayerScenarios, \* bounds: the playlist, a function from 0 .. n - 1, the event
                \* nodes, what may happen to them, and whether they are followed
  Loudest,      \* 100 in the code
  VolumeStep,   \* 5 in the code
  Anything      \* commands a frame may be given when the devices are not
                \* followed, at most one at a time

ASSUME VolumeAssumption == Loudest \in Nat /\ VolumeStep \in Nat \ {0}

\* A Vorbis file is one track, and open_file counts at least one.
Files == {file \in [backend : {"gme", "ogg"}, tracks : Nat \ {0}, bad : SUBSET Nat,
                     opens : BOOLEAN, sound : {"fine", "empty", "damaged"}] :
            file.backend = "ogg" => file.tracks = 1 /\ file.bad = {}}

VARIABLES
  disk,           \* files_, each with what its decoder makes of it
  player,         \* file_index_, backend_, track_index_, track_count_, paused_,
                  \* and the file that emulator_ or vorbis_ has loaded
  mode,           \* playback_mode_
  failed,         \* failed_ of the playback thread
  playback_error, \* playback_error_ is not empty
  stopping,       \* stopping_ of the playback thread
  thread,         \* the playback thread runs or has returned
  ui,             \* where the main loop is
  todo,           \* the commands of this frame still to be carried out
  status_line,    \* the status line handed to render_player
  volume_percent, \* the volume the main loop believes in
  device,         \* the volume the audio device is open at, 0 without a device
  shutdown,       \* shutdown_requested
  followed        \* bound: the commands come from the devices

playing == <<player, mode, failed, playback_error>>
looping == <<stopping, thread, status_line, shutdown>>
sound == <<volume_percent, device>>
playback == <<disk, playing, looping, ui, todo, sound, followed>>
player_vars == <<playback, input>>

Order == <<"prevFile", "nextFile", "prevTrack", "nextTrack", "pause", "mode",
           "volumeUp", "volumeDown">>
Commands == ToSet(Order)
Modes == {"all", "one", "shuffle"}

Backends == {"none", "gme", "ogg"}
Count == Cardinality(DOMAIN disk)

ASSUME ScenarioAssumption ==
  /\ Anything \subseteq Commands \cup {"back"}
  /\ \A s \in PlayerScenarios :
       /\ IsFiniteSet(DOMAIN s.disk)
       /\ DOMAIN s.disk = 0 .. Cardinality(DOMAIN s.disk) - 1
       /\ \A index \in DOMAIN s.disk : s.disk[index] \in Files
       /\ s.nodes \in Seq(NodeKinds)
       /\ s.budget \in Budgets
       /\ s.volumes \subseteq 0 .. Loudest /\ s.followed \in BOOLEAN

(* What a call on the player returns and what it leaves behind. *)
Done(p) == [ok |-> TRUE, player |-> p]
Refused(p) == [ok |-> FALSE, player |-> p]

CloseTrack(p) ==
  [p EXCEPT !.loaded = 0, !.backend = "none", !.track = 0, !.tracks = 0,
            !.started = FALSE]

(* gme_start_track may refuse a track: the index then stays, unlike the    *)
(* emulator, which is no longer in the middle of the old track.            *)
StartTrack(p, track) ==
  IF track \notin disk[p.loaded].bad
  THEN Done([p EXCEPT !.track = track, !.paused = FALSE, !.started = TRUE])
  ELSE Refused([p EXCEPT !.started = FALSE])

OpenVorbis(p, index) ==
  Done([p EXCEPT !.file = index, !.loaded = index, !.backend = "ogg", !.track = 0,
                 !.tracks = 1, !.paused = FALSE, !.started = TRUE])

OpenFile(p, index) ==
  LET closed == CloseTrack(p)
      file   == disk[index]
  IN  IF ~file.opens THEN Refused(closed)
      ELSE IF file.backend = "ogg" THEN OpenVorbis(closed, index)
      ELSE StartTrack([closed EXCEPT !.file = index, !.loaded = index,
                                     !.backend = "gme", !.tracks = file.tracks], 0)

(* The loops over files_: each candidate in turn until one opens. *)
OpenOneOf(p, candidates) ==
  FoldLeft(LAMBDA result, index :
             IF result.ok THEN result ELSE OpenFile(result.player, index),
           Refused(p), candidates)

\* When none opens, file_index_ is back at the first, whatever is still loaded.
OpenFirst(p) ==
  LET result == OpenOneOf(p, [k \in 1 .. Count |-> k - 1])
  IN  IF result.ok THEN result
      ELSE Refused([result.player EXCEPT !.file = 0])

\* Mutant: the loop stops before it is back at the current file.
ChangeFileToOther(p, direction) ==
  OpenOneOf(p, [k \in 1 .. Count - 1 |-> (p.file + direction * k) % Count])
ChangeFile(p, direction) ==
  OpenOneOf(p, [k \in 1 .. Count |-> (p.file + direction * k) % Count])

ChangeTrack(p, direction) ==
  IF p.backend # "gme" THEN Refused(p)
  ELSE StartTrack(p, (p.track + direction) % p.tracks)

(* next_random is any number: any first candidate but the current file, and *)
(* any track of the file that opens.                                        *)
ChangeRandomFile(p) ==
  LET offsets == IF Count > 1 THEN 1 .. Count - 1 ELSE {0}
      rounds == {[k \in 1 .. Count |-> (p.file + offset + k - 1) % Count] :
                   offset \in offsets}
      others == {index \in DOMAIN disk : Count = 1 \/ index # p.file}
      candidates == {Only(round, others) \o <<p.file>> : round \in rounds}
      AnyTrack(result) ==
        IF result.ok /\ result.player.backend = "gme"
        THEN {StartTrack(result.player, track) :
                track \in 0 .. result.player.tracks - 1}
        ELSE {result}
  IN  UNION {AnyTrack(OpenOneOf(p, list)) : list \in candidates}

\* Mutant: LoopAll skips the last track of a file.
AdvanceShort(p) ==
  CASE mode = "one" -> {StartTrack(p, p.track)}
    [] mode = "shuffle" -> ChangeRandomFile(p)
    [] mode = "all" /\ p.backend = "gme" /\ p.track + 2 < p.tracks ->
         {StartTrack(p, p.track + 1)}
    [] OTHER -> {ChangeFile(p, 1)}
(* A Vorbis stream in LoopOne rewinds inside generate_vorbis and does not   *)
(* come here.                                                               *)
AdvanceAfterEnd(p) ==
  CASE mode = "one" -> {StartTrack(p, p.track)}
    [] mode = "shuffle" -> ChangeRandomFile(p)
    [] mode = "all" /\ p.backend = "gme" /\ p.track + 1 < p.tracks ->
         {StartTrack(p, p.track + 1)}
    [] OTHER -> {ChangeFile(p, 1)}

----------------------------------------------------------------------------
(* The playback thread. *)

Settle(result) ==
  /\ player' = result.player
  /\ failed' = ~result.ok
  /\ playback_error' = (playback_error \/ ~result.ok)
  /\ UNCHANGED mode

Generating == thread = "running" /\ ~stopping /\ ~failed
              /\ player.backend # "none" /\ ~player.paused

Rewinds == player.backend = "ogg" /\ mode = "one"

TrackEnds ==
  /\ Generating
  /\ ~Rewinds
  /\ \E result \in AdvanceAfterEnd(player) : Settle(result)
  /\ UNCHANGED <<disk, looping, ui, todo, sound>>

(* generate reports an error: the decoder finds the stream damaged, an      *)
(* emulator without a started track refuses to play, or a Vorbis stream     *)
(* rewound in LoopOne still yields nothing.                                 *)
GenerateFails ==
  /\ Generating
  /\ \/ disk[player.loaded].sound = "damaged"
     \/ ~player.started
     \/ Rewinds /\ disk[player.loaded].sound = "empty"
  /\ Settle(Refused(player))
  /\ UNCHANGED <<disk, looping, ui, todo, sound>>

ThreadReturns ==
  /\ thread = "running"
  /\ stopping
  /\ thread' = "returned"
  /\ UNCHANGED <<disk, playing, stopping, status_line, shutdown, ui, todo, sound>>

----------------------------------------------------------------------------
(* The main loop. *)

RequestShutdown ==
  /\ ui # "ended"
  /\ ~shutdown
  /\ shutdown' = TRUE
  /\ UNCHANGED <<disk, playing, stopping, thread, status_line, ui, todo, sound>>

StartFrame ==
  /\ ui = "frame"
  /\ ~shutdown
  /\ ui' = "input"
  /\ UNCHANGED <<disk, playing, looping, todo, sound>>

\* Back ends the program and with it the other commands of the frame.
TakeCommands ==
  /\ ui = "input"
  /\ \E read \in IF followed THEN {commands}
                ELSE {{}} \cup {{c} : c \in Anything} :
       IF "back" \in read
       THEN ui' = "leaving" /\ UNCHANGED todo
       ELSE ui' = "commands" /\ todo' = read
  /\ UNCHANGED <<disk, playing, looping, sound>>

NoticeShutdown ==
  /\ ui = "frame"
  /\ shutdown
  /\ ui' = "leaving"
  /\ UNCHANGED <<disk, playing, looping, todo, sound>>

(* The commands are looked at in the order of Order, whatever order they    *)
(* were pressed in.                                                         *)
Turn(command) ==
  /\ ui = "commands"
  /\ command \in todo
  /\ \A i, j \in DOMAIN Order :
       (Order[i] = command /\ j < i) => Order[j] \notin todo
  /\ UNCHANGED <<disk, looping, ui>>

Play(result) ==
  /\ player' = result.player
  /\ UNCHANGED <<mode, failed, playback_error, sound>>

FileButton(command, direction) ==
  /\ Turn(command)
  /\ Play(ChangeFile(player, direction))
  /\ todo' = todo \ {command}

TrackButton(command, direction) ==
  /\ Turn(command)
  /\ Play(ChangeTrack(player, direction))
  /\ todo' = todo \ {command}

TogglePause ==
  /\ Turn("pause")
  /\ Play(Done([player EXCEPT !.paused = ~@]))
  /\ todo' = todo \ {"pause"}

CyclePlaybackMode ==
  /\ Turn("mode")
  /\ mode' = CASE mode = "all" -> "one"
               [] mode = "one" -> "shuffle"
               [] mode = "shuffle" -> "all"
  /\ todo' = todo \ {"mode"}
  /\ UNCHANGED <<player, failed, playback_error, sound>>

RequestedVolume ==
  IF "volumeUp" \in todo
  THEN Min({Loudest, volume_percent + VolumeStep})
  ELSE Max({0, volume_percent - VolumeStep})

(* DeckAudio::open_device closes the device first and opens none for 0; the *)
(* volume moves only when it succeeds.                                      *)
ChangeVolume ==
  /\ \E command \in {"volumeUp", "volumeDown"} : Turn(command)
  /\ todo' = todo \ {"volumeUp", "volumeDown"}
  /\ IF RequestedVolume = volume_percent THEN UNCHANGED sound
     ELSE \E opens \in BOOLEAN :
            /\ RequestedVolume = 0 => opens
            /\ device' = IF opens THEN RequestedVolume ELSE 0
            /\ volume_percent' = IF opens THEN RequestedVolume
                                          ELSE volume_percent
  /\ UNCHANGED playing

\* Mutant: the error is never taken.
TakeNoError ==
  /\ ui = "commands"
  /\ todo = {}
  /\ ui' = "draw"
  /\ UNCHANGED <<disk, playing, looping, todo, sound>>
TakeError ==
  /\ ui = "commands"
  /\ todo = {}
  /\ ui' = "draw"
  /\ playback_error' = FALSE
  /\ status_line' = IF playback_error THEN "PLAYBACK ERROR" ELSE status_line
  /\ UNCHANGED <<disk, player, mode, failed, stopping, thread, shutdown, todo,
                 sound>>

Draw ==
  /\ ui = "draw"
  /\ ui' \in {"frame", "leaving"}       \* presenting the frame may fail
  /\ UNCHANGED <<disk, playing, looping, todo, sound>>

(* The destructors run in reverse order: the thread is stopped and joined,  *)
(* then the player and the audio device are closed.                         *)
Stop ==
  /\ ui = "leaving"
  /\ stopping' = TRUE
  /\ ui' = "joining"
  /\ UNCHANGED <<disk, playing, thread, status_line, shutdown, todo, sound>>

Join ==
  /\ ui = "joining"
  /\ thread = "returned"
  /\ ui' = "ended"
  /\ player' = CloseTrack(player)
  /\ device' = 0
  /\ UNCHANGED <<disk, mode, failed, playback_error, looping, todo,
                 volume_percent>>

PlayerInit ==
  /\ \E s \in PlayerScenarios :
       /\ disk = s.disk
       /\ followed = s.followed
       /\ volume_percent \in s.volumes
       /\ InputInit(s.nodes, s.budget)
  /\ LET opened == OpenFirst([file |-> 0, loaded |-> 0, backend |-> "none",
                              track |-> 0, tracks |-> 0, paused |-> FALSE,
                              started |-> FALSE])
     IN  /\ player = opened.player
         /\ status_line = IF Count > 0 /\ ~opened.ok THEN "CANNOT PLAY FILES"
                                                ELSE "ADD MUSIC"
  /\ mode = "all"
  /\ failed = FALSE
  /\ playback_error = FALSE
  /\ stopping = FALSE
  /\ thread = "running"
  /\ ui = "frame"
  /\ todo = {}
  /\ device \in {0, volume_percent}
  /\ shutdown = FALSE

Command ==
  \/ FileButton("prevFile", -1) \/ FileButton("nextFile", 1)
  \/ TrackButton("prevTrack", -1) \/ TrackButton("nextTrack", 1)
  \/ TogglePause \/ CyclePlaybackMode \/ ChangeVolume

Frame == NoticeShutdown \/ Command \/ TakeError \/ Draw \/ Stop \/ Join

MainLoop ==
  \/ StartFrame /\ BeginRead /\ UNCHANGED followed
  \/ Drain /\ UNCHANGED playback
  \/ TakeCommands /\ HandOver /\ UNCHANGED followed
  \/ Frame /\ UNCHANGED <<followed, input>>

Playback == (TrackEnds \/ GenerateFails) /\ UNCHANGED <<followed, input>>
Returning == ThreadReturns /\ UNCHANGED <<followed, input>>

PlayerNext ==
  \/ MainLoop \/ Playback \/ Returning
  \/ RequestShutdown /\ UNCHANGED <<followed, input>>
  \/ World /\ ui # "ended" /\ UNCHANGED playback

(* Both threads pace themselves by a frame clock and hold the mutex only    *)
(* for a bounded piece of work.  That a track comes to its end is assumed   *)
(* of the music, not of the code.                                           *)
PlayerSpec ==
  PlayerInit /\ [][PlayerNext]_player_vars
    /\ WF_player_vars(MainLoop) /\ WF_player_vars(Returning) /\ WF_player_vars(Playback)

----------------------------------------------------------------------------
(* Correctness. *)

Decodes(file) == file.opens /\ (file.backend = "ogg" \/ 0 \notin file.bad)
Playable == {index \in DOMAIN disk : Decodes(disk[index])}

PlayerTypeOK ==
  /\ {player.file, player.loaded} \subseteq DOMAIN disk \cup {0}
  /\ player.backend \in Backends
  /\ player.track \in Nat /\ player.tracks \in Nat
  /\ {player.paused, player.started, failed, playback_error, stopping,
      shutdown} \subseteq BOOLEAN
  /\ mode \in Modes
  /\ thread \in {"running", "returned"}
  /\ ui \in {"frame", "input", "commands", "draw", "leaving", "joining", "ended"}
  /\ todo \subseteq Commands
  /\ status_line \in {"ADD MUSIC", "CANNOT PLAY FILES", "PLAYBACK ERROR"}
  /\ {volume_percent, device} \subseteq 0 .. Loudest

(* What is open is the file the player shows: whatever chain of failed      *)
(* candidates, restarted tracks and interleaved playback led here, an open   *)
(* backend has loaded file_index_, its track exists, and a started track is  *)
(* one its decoder accepts (open_file, start_track, close_track).  Only      *)
(* open_first, when nothing in the playlist plays, may leave the last file   *)
(* loaded and show the first.                                                *)
OpenIsShown ==
  player.backend # "none" =>
    /\ player.loaded \in DOMAIN disk
    /\ disk[player.loaded].opens
    /\ player.backend = disk[player.loaded].backend
    /\ player.tracks = disk[player.loaded].tracks
    /\ player.track \in 0 .. player.tracks - 1
    /\ player.started => player.track \notin disk[player.loaded].bad
    /\ \/ player.file = player.loaded
       \/ Playable = {} /\ player.file = 0 /\ player.loaded = Count - 1

(* A playback error is never lost between the thread that raises it and the *)
(* main loop that reports it: once generate has failed, the error waits for *)
(* take_error or has reached the status line (run, take_error).             *)
ErrorIsKept == failed => playback_error \/ status_line = "PLAYBACK ERROR"

(* The audio device, when one is open, is open at the volume on the screen, *)
(* also after a device that could not be opened again (main, open_device).  *)
VolumeIsShown == device \in {0, volume_percent}

(* What the player, its thread, its device and the screen say agrees in     *)
(* every state (ChiptunePlayer, ChiptuneAudioLoop and main together), and so *)
(* do the devices and what PlayerInput knows of them.                        *)
PlayerInv ==
  PlayerTypeOK /\ OpenIsShown /\ ErrorIsKept /\ VolumeIsShown /\ InputInv

(* A file button lands on the nearest file in its direction that plays, and *)
(* plays it from its first track; the file it started from is the last      *)
(* resort (change_file).  Distances are counted around the playlist.        *)
Distance(from, to, direction) ==
  LET d == (direction * (to - from)) % Count IN IF d = 0 THEN Count ELSE d
Lands(direction) ==
  Playable # {} =>
    /\ player'.file \in Playable
    /\ player'.started /\ player'.track = 0 /\ ~player'.paused
    /\ \A other \in Playable :
         Distance(player.file, player'.file, direction)
           <= Distance(player.file, other, direction)
SkipsToNearest ==
  [][/\ FileButton("nextFile", 1) => Lands(1)
     /\ FileButton("prevFile", -1) => Lands(-1)]_player_vars

(* Left alone in LoopAll, the player plays every track of every file that   *)
(* decodes, again and again: no file is skipped for good and no unreadable  *)
(* neighbour stops the round (advance_after_end, change_file).              *)
Undisturbed == todo = {} /\ mode = "all" /\ Generating /\ player.started
Whole(index) == index \in DOMAIN disk /\ disk[index].opens
                /\ disk[index].bad = {}
PlaysEverything ==
  \A index \in UNION {DOMAIN s.disk : s \in PlayerScenarios}, track \in 0 .. 1 :
    <>[]Undisturbed =>
      (Whole(index) /\ track < disk[index].tracks
         => []<>(player.file = index /\ player.track = track))

(* A playback error reaches the status line, and a press of Back ends the    *)
(* program, on any device and whatever else is pressed in the frame, unless  *)
(* the press was lost on its way (take_error, read_commands, main).          *)
ErrorIsReported == playback_error ~> (status_line = "PLAYBACK ERROR" \/ ui = "ended")
BackEnds == owed["back"] > 0 ~> (ui = "ended" \/ lost)
ErrorsAndBackAreSeen == ErrorIsReported /\ BackEnds
=============================================================================
