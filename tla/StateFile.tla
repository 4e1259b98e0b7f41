----------------------------- MODULE StateFile -----------------------------
(***************************************************************************)
(* The three writers of small state files: save_state_value of the         *)
(* dashboard, save_player_volume of the chiptune player and                *)
(* save_memory_file of the emulators.  Each writes a temporary file named  *)
(* after its process, syncs it and renames it over the state file; they    *)
(* differ in how many names they try and in what they do about the         *)
(* directory.  The disk may be full, a process may be killed between any   *)
(* two calls and the power may fail.                                       *)
(*                                                                         *)
(* A power failure leaves any state the directory has had since it was     *)
(* last synced, and a file that was not synced may be torn.                *)
(***************************************************************************)
EXTENDS Naturals, FiniteSets

CONSTANTS
  Values,       \* the values that can be saved
  Missing,      \* there is no file
  Torn,         \* the file holds something else
  Pids,         \* process numbers, which come back after a reboot
  Writers       \* how each begins its temporary names, how many it tries
                \* (16, 8 and 1), and whether its fsync of the directory is
                \* "absent", "ignored" or "reported"

ASSUME StateFileAssumption ==
  /\ Missing \notin Values /\ Torn \notin Values /\ Torn # Missing
  /\ Writers \subseteq [prefix : STRING, attempts : 1 .. 16,
                        directory : {"absent", "ignored", "reported"}]

VARIABLES
  writer,       \* which of the writers the process is
  file,         \* the state file: [value, synced]
  temps,        \* temporary names that exist
  disk,         \* directory states a power failure may leave
  pid, pc,      \* the writing process, and where it is
  attempt, requested,
  temporary,    \* the temporary file behind fd: [value, synced]
  memory,       \* the value the process shows its user
  loading,      \* "start" or "reload" while a load saves what it found
  before, saved,\* history: the file before the last save, and its result
  mine,         \* history: the names this process has created
  confirmed,    \* history: the value last synced with its directory
  since         \* history: values requested after it

process == <<pid, pc, attempt, requested, temporary, memory, loading>>
runner == <<writer, pid, mine>>
history == <<before, saved, mine, confirmed, since>>
vars == <<writer, file, temps, disk, process, history>>

File(value, synced) == [value |-> value, synced |-> synced]
name == <<writer.prefix, pid, attempt>>
Names == {<<w.prefix, p, n>> : w \in Writers, p \in Pids, n \in 0 .. 15}
Entries(f, t) == [file |-> f, temps |-> t]

\* A directory operation takes effect now, and on disk at some later time.
SetDirectory(f, t) ==
  /\ file' = f
  /\ temps' = t
  /\ disk' = disk \cup {Entries(f, t)}

FileInit(found, first) ==
  /\ writer = first
  /\ file = File(found, TRUE) /\ temps = {} /\ disk = {Entries(file, temps)}
  /\ pid \in Pids /\ pc = "start"
  /\ attempt = 0 /\ requested = Missing /\ temporary = File(Missing, FALSE)
  /\ memory = Missing /\ loading = "no"
  /\ before = found /\ saved = FALSE /\ mine = {}
  /\ confirmed = Missing /\ since = {}

-----------------------------------------------------------------------------
\* Plausible bugs, for the mutation runs.

SyncIsSkipped ==
  /\ pc = "sync"
  /\ pc' = "close"
  /\ UNCHANGED <<file, temps, disk, pid, attempt, requested, temporary,
                 memory, loading, history>>

WriteFailureIsIgnored ==
  /\ pc = "write"
  /\ pc' = "sync"
  /\ temporary' \in {File(requested, FALSE), File(Torn, FALSE)}
  /\ UNCHANGED <<file, temps, disk, pid, attempt, requested, memory, loading, history>>

-----------------------------------------------------------------------------
\* save_state_value, save_player_volume or save_memory_file is called.
BeginSave(value, reason) ==
  /\ pc' = "open"
  /\ attempt' = 0
  /\ requested' = value
  /\ loading' = reason
  /\ before' = file.value
  /\ since' = since \cup {value}
  /\ UNCHANGED <<file, temps, disk, temporary, saved, confirmed>>

\* A load finds a value it keeps.
Keep(value) ==
  /\ pc' = "idle"
  /\ memory' = value
  /\ loading' = "no"
  /\ saved' = FALSE /\ before' = file.value
  /\ UNCHANGED <<file, temps, disk, attempt, requested, temporary, confirmed,
                 since>>

\* The save returns false; a load at the start of the program ends it.
Fail ==
  /\ pc' = IF loading = "start" THEN "unsaved" ELSE "idle"
  /\ loading' = "no"
  /\ saved' = FALSE

AttemptIsLeft == attempt + 1 < writer.attempts

\* open(O_CREAT | O_EXCL), for the next name when this one exists.
OpenTemporary ==
  /\ pc = "open"
  /\ IF name \in temps
       THEN /\ IF AttemptIsLeft
                 THEN attempt' = attempt + 1 /\ UNCHANGED <<pc, loading, saved>>
                 ELSE Fail /\ UNCHANGED attempt
            /\ UNCHANGED <<file, temps, disk, temporary, mine>>
       ELSE \/ /\ pc' = "write"
               /\ SetDirectory(file, temps \cup {name})
               /\ mine' = mine \cup {name}
               /\ temporary' = File(Missing, FALSE)
               /\ UNCHANGED <<attempt, loading, saved>>
            \/ /\ Fail
               /\ UNCHANGED <<file, temps, disk, attempt, temporary, mine>>
  /\ UNCHANGED <<pid, requested, memory, before, confirmed, since>>

Write ==
  /\ pc = "write"
  /\ \/ pc' = "sync" /\ temporary' = File(requested, FALSE)
     \/ pc' = "unlink" /\ temporary' = File(Torn, FALSE)
  /\ UNCHANGED <<file, temps, disk, pid, attempt, requested, memory, loading, history>>

Sync ==
  /\ pc = "sync"
  /\ \/ pc' = "close" /\ temporary' = [temporary EXCEPT !.synced = TRUE]
     \/ pc' = "unlink" /\ UNCHANGED temporary
  /\ UNCHANGED <<file, temps, disk, pid, attempt, requested, memory, loading, history>>

Close ==
  /\ pc = "close"
  /\ pc' \in {"rename", "unlink"}
  /\ UNCHANGED <<file, temps, disk, pid, attempt, requested, temporary,
                 memory, loading, history>>

AfterFailedRename == "unlink"

Rename ==
  /\ pc = "rename"
  /\ \/ /\ SetDirectory(temporary, temps \ {name})
        /\ pc' = "directory"
     \/ /\ pc' = AfterFailedRename
        /\ UNCHANGED <<file, temps, disk>>
  /\ UNCHANGED <<pid, attempt, requested, temporary, memory, loading, history>>

\* The names left once unlink has been called, whose result nobody looks at.
Unlinked == temps \ {name}

Unlink ==
  /\ pc = "unlink"
  /\ Fail
  /\ SetDirectory(file, Unlinked)
  /\ UNCHANGED <<pid, attempt, requested, temporary, memory, before, mine,
                 confirmed, since>>

\* What fsync of the directory that holds the file makes durable.
Flushed == {Entries(file, temps)}

SyncDirectory ==
  /\ pc = "directory"
  /\ pc' = "idle" /\ loading' = "no"
  /\ UNCHANGED <<file, temps, pid, attempt, requested, temporary, before, mine>>
  /\ \/ /\ writer.directory # "absent"
        /\ disk' = Flushed
        /\ confirmed' = requested /\ since' = {}
        /\ saved' = TRUE /\ memory' = requested
     \/ /\ saved' = (writer.directory # "reported")
        /\ memory' = IF saved' THEN requested ELSE memory
        /\ UNCHANGED <<disk, confirmed, since>>

-----------------------------------------------------------------------------
\* The process is killed, and another one is started.
NewProcess(next) ==
  /\ pc' = "start" /\ pid' \in Pids /\ loading' = "no"
  /\ writer' = next
  /\ mine' = {}
  /\ UNCHANGED <<attempt, requested, temporary, memory, before, saved,
                 confirmed, since>>

Kill(next) == NewProcess(next) /\ UNCHANGED <<file, temps, disk>>

PowerFailure(next) ==
  \E entries \in disk :
    LET value == IF entries.file.synced THEN {entries.file.value}
                 ELSE {entries.file.value, Torn}
    IN /\ \E v \in value : file' = File(v, TRUE)
       /\ temps' = entries.temps
       /\ disk' = {Entries(file', temps')}
       /\ NewProcess(next)

Step ==
  /\ \/ OpenTemporary \/ Write \/ Sync \/ Close \/ Rename \/ Unlink
     \/ SyncDirectory
  /\ UNCHANGED writer

-----------------------------------------------------------------------------
TypeOK ==
  LET contents == [value : Values \cup {Missing, Torn}, synced : BOOLEAN]
  IN /\ writer \in Writers
     /\ file \in contents /\ temporary \in contents
     /\ temps \subseteq Names /\ mine \subseteq Names
     /\ \A entries \in disk :
          entries.file \in contents /\ entries.temps \subseteq Names
     /\ Entries(file, temps) \in disk
     /\ pid \in Pids
     /\ pc \in {"start", "refused", "unsaved", "idle", "open", "write", "sync",
                "close", "rename", "unlink", "directory", "exited"}
     /\ loading \in {"no", "start", "reload"}
     /\ attempt \in 0 .. 15
     /\ requested \in Values \cup {Missing}
     /\ memory \in Values \cup {Missing, Torn}
     /\ confirmed \in Values \cup {Missing} /\ since \subseteq Values

\* A reader finds a whole value or no file, whenever it looks and whatever
\* was interrupted: the program never refuses to start.
NeverTorn == file.value # Torn /\ pc # "refused"

\* Once a save and the sync of its directory have succeeded, nothing older
\* comes back, not even after a power failure.
ConfirmedSurvives ==
  confirmed # Missing =>
    \A entries \in disk : entries.file.value \in {confirmed} \cup since

\* A save that reports success has replaced the file, one that reports
\* failure has not touched it, and the value shown to the user follows it.
\* The player's save also reports what happened to the directory.
ResultIsTrue ==
  pc = "idle" /\ writer.directory # "reported" =>
    /\ saved => file.value = requested
    /\ ~saved => file.value = before
    /\ memory = file.value

\* A process that is not killed leaves no temporary file behind: only kills
\* and power failures use up the names.
CleansUp == pc = "idle" => mine \cap temps = {}

\* What every process finds and leaves behind in the directory.
FileInv == TypeOK /\ NeverTorn /\ ConfirmedSurvives /\ ResultIsTrue /\ CleansUp

\* With its writers, readers and failures the file is an atomic cell.
Cell == INSTANCE AtomicCell
  WITH cell <- file.value, stable <- {entries.file.value : entries \in disk}
ImplementsCell == Cell!Spec
=============================================================================
